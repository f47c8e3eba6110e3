------------------------------- MODULE Shares -------------------------------
(***************************************************************************)
(* SharesService (backend/src/shares/shares.service.ts): the shares of one  *)
(* file, their recipients and their public links.  A step is what a handler *)
(* does between two awaits.  That the file goes to the trash, that roles in *)
(* its Team Folder change and that time passes are steps of the rest of the *)
(* system.  An expiry date is only past, still to come, or absent.          *)
(***************************************************************************)
EXTENDS Permissions, Sequences, FiniteSets

CONSTANTS
    User,           \* members of the file's organization
    Stranger,       \* a user id that is not one of the organization's
    Owner,          \* the file's owner
    OrgAdmin,       \* users whose token says ADMIN
    Role,           \* bound: roles the Team Folder's members get
    Share,          \* ids of file_shares rows
    Body,           \* bound: bodies of POST /shares, as parsed from JSON
    Offered,        \* bound: permissions that updates ask for
    Password,       \* passwords of links, and what visitors type
    NoPassword,     \* the link is not protected, nothing is typed
    TeamFolderFile, \* whether the file's folder belongs to a Team Folder
    Request         \* handler invocations that can be in flight together

SharePermission == {"VIEW", "COMMENT", "EDIT", "ORGANIZE", "FULL_ACCESS"}

CreateBody == [type : {"FILE", "FOLDER"}, ends : {"never", "later", "past"},
               password : Password \cup {NoPassword}, permission : SharePermission \cup {"OTHER"},
               download : BOOLEAN, recipients : Seq(User \cup {Stranger})]

ASSUME SharesAssumption ==
    /\ OrgAdmin \subseteq User /\ Owner \in User /\ Stranger \notin User
    /\ NoPassword \notin Password
    /\ Role \subseteq TeamFolderRole
    /\ Offered \subseteq SharePermission
    /\ Body \subseteq CreateBody
    /\ TeamFolderFile \in BOOLEAN

VARIABLES
    shares,         \* file_shares: a function from ids to rows
    trashed,        \* deleted_at of the file is set
    roles,          \* the users' roles in the Team Folder
    trail,          \* rows of file_activities and audit_logs; those that a
                    \* creation writes do not name the share, here they do
    req             \* req[r]: the step handler r is about to run, its locals

shareVars == <<shares, trashed, roles, trail, req>>

Idle == [at |-> "idle"]
ManageOp == {"update", "remove", "revoke"}
Status == {"ACTIVE", "EXPIRED", "REVOKED"}

ShareRow == [permission : SharePermission, status : Status, password : Password \cup {NoPassword},
        ends : {"never", "later", "past"}, download : BOOLEAN, recipients : SUBSET User]

Entry == [what : {"SHARE_CREATED", "SHARE_REVOKED"}, share : Share]
         \cup [what : {"SHARE_ACCESS_REMOVED", "SHARE_PERMISSION_CHANGED"},
               share : Share, user : User]

\* parseCreateShare, and createShare's own check of the type.
Valid(body) == /\ body.type = "FILE"
               /\ body.ends # "past"
               /\ body.permission \in SharePermission

ValidBody == {body \in Body : Valid(body)}

RequestState ==
    [at : {"idle"}]
    \cup [at : {"create.file", "create.role", "create.recipients", "create.insert"},
          user : User, body : ValidBody]
    \cup [at : {"create.trail"}, share : Share]
    \cup [at : {"share.read", "share.file", "share.role", "update.recipient", "update.write",
                "remove.delete", "revoke.write", "manage.trail"},
          op : ManageOp, user : User, share : Share, target : User,
          permission : SharePermission]
    \cup [at : {"verify.read"}, share : Share, password : Password \cup {NoPassword}]
    \cup [at : {"verify.expire", "verify.sign"}, share : Share]

Goto(r, state) == req' = [req EXCEPT ![r] = state]
Finish(r)      == Goto(r, Idle)
GotoIf(r, ok, state) == Goto(r, IF ok THEN state ELSE Idle)
Continue(r, step) == Goto(r, [req[r] EXCEPT !.at = step])

Caller(u) == [org |-> "org", sub |-> u,
              role |-> IF u \in OrgAdmin THEN "ADMIN" ELSE "MEMBER"]

\* withTeamFolderRole: the member row alone counts, not the user's groups.
Resource(u) == [org |-> "org", owner |-> Owner, teamFolder |-> TeamFolderFile,
                role |-> IF TeamFolderFile THEN roles[u] ELSE NoRole]

MayShare(u) == CanShare(Caller(u), Resource(u))

\* Mutant: findMany without the organization in its condition.
FoundAnywhere(ids) == {ids[i] : i \in DOMAIN ids}

\* findMany of the ids: the answer has no duplicates and no strangers.
Found(ids) == {ids[i] : i \in DOMAIN ids} \cap User

\* isInactive
Inactive(share) == share.ends = "past"

ShareInit ==
    /\ shares = [s \in {} |-> s]
    /\ trashed = FALSE
    /\ roles \in [User -> IF TeamFolderFile THEN Role \cup {NoRole} ELSE {NoRole}]
    /\ trail = {}
    /\ req = [r \in Request |-> Idle]

-----------------------------------------------------------------------------
(* POST /shares *)

BeginCreate(r, u, body) ==
    /\ req[r] = Idle
    /\ Valid(body)
    /\ Goto(r, [at |-> "create.file", user |-> u, body |-> body])
    /\ UNCHANGED <<shares, trashed, roles, trail>>

\* loadOwnedResource: a file in the trash is not found.
CreateReadsFile(r) ==
    /\ req[r].at = "create.file"
    /\ GotoIf(r, ~trashed, [req[r] EXCEPT !.at = "create.role"])
    /\ UNCHANGED <<shares, trashed, roles, trail>>

CreateReadsRole(r) ==
    /\ req[r].at = "create.role"
    /\ LET u == req[r].user IN
       GotoIf(r, CanRead(Caller(u), Resource(u)) /\ MayShare(u),
              [req[r] EXCEPT !.at = "create.recipients"])
    /\ UNCHANGED <<shares, trashed, roles, trail>>

LookupRecipients(r) ==
    /\ req[r].at = "create.recipients"
    /\ LET ids == req[r].body.recipients IN
       GotoIf(r, Cardinality(Found(ids)) = Len(ids), [req[r] EXCEPT !.at = "create.insert"])
    /\ UNCHANGED <<shares, trashed, roles, trail>>

InsertShare(r, s) ==
    /\ req[r].at = "create.insert"
    /\ s \notin DOMAIN shares
    /\ LET body == req[r].body IN
       shares' = [t \in DOMAIN shares \cup {s} |->
                    IF t = s THEN [permission |-> body.permission, status |-> "ACTIVE",
                                   password |-> body.password, ends |-> body.ends,
                                   download |-> body.download,
                                   recipients |-> Found(body.recipients)]
                    ELSE shares[t]]
    /\ Goto(r, [at |-> "create.trail", share |-> s])
    /\ UNCHANGED <<trashed, roles, trail>>

CreateTrail(r) ==
    /\ req[r].at = "create.trail"
    /\ trail' = trail \cup {[what |-> "SHARE_CREATED", share |-> req[r].share]}
    /\ Finish(r)
    /\ UNCHANGED <<shares, trashed, roles>>

-----------------------------------------------------------------------------
(* PATCH and DELETE /shares/:id/recipients/:userId, DELETE /shares/:id *)

BeginManage(r, op, u, s, target, permission) ==
    /\ req[r] = Idle
    /\ Goto(r, [at |-> "share.read", op |-> op, user |-> u, share |-> s,
                target |-> target, permission |-> permission])
    /\ UNCHANGED <<shares, trashed, roles, trail>>

\* A share that is revoked already needs no further step.
ReadShare(r) ==
    /\ req[r].at = "share.read"
    /\ LET s == req[r].share IN
       GotoIf(r, /\ s \in DOMAIN shares
                 /\ ~(req[r].op = "revoke" /\ shares[s].status = "REVOKED"),
              [req[r] EXCEPT !.at = "share.file"])
    /\ UNCHANGED <<shares, trashed, roles, trail>>

ReadSharedFile(r) ==
    /\ req[r].at = "share.file"
    /\ GotoIf(r, ~trashed, [req[r] EXCEPT !.at = "share.role"])
    /\ UNCHANGED <<shares, trashed, roles, trail>>

ReadSharerRole(r) ==
    /\ req[r].at = "share.role"
    /\ GotoIf(r, MayShare(req[r].user),
              [req[r] EXCEPT !.at = CASE req[r].op = "update" -> "update.recipient"
                                      [] req[r].op = "remove" -> "remove.delete"
                                      [] req[r].op = "revoke" -> "revoke.write"])
    /\ UNCHANGED <<shares, trashed, roles, trail>>

FindRecipient(r) ==
    /\ req[r].at = "update.recipient"
    /\ GotoIf(r, req[r].target \in shares[req[r].share].recipients,
              [req[r] EXCEPT !.at = "update.write"])
    /\ UNCHANGED <<shares, trashed, roles, trail>>

\* Mutant: the update saves the row it has read, an active one.
SaveActiveRow(r) ==
    /\ req[r].at = "update.write"
    /\ shares' = [shares EXCEPT ![req[r].share].permission = req[r].permission,
                                ![req[r].share].status = "ACTIVE"]
    /\ Continue(r, "manage.trail")
    /\ UNCHANGED <<trashed, roles, trail>>

\* The permission is the share's: every recipient has the new one.
UpdatePermission(r) ==
    /\ req[r].at = "update.write"
    /\ shares' = [shares EXCEPT ![req[r].share].permission = req[r].permission]
    /\ Continue(r, "manage.trail")
    /\ UNCHANGED <<trashed, roles, trail>>

\* deleteMany, refused when it deletes nothing.
DeleteRecipient(r) ==
    /\ req[r].at = "remove.delete"
    /\ LET s == req[r].share  u == req[r].target IN
       /\ GotoIf(r, u \in shares[s].recipients, [req[r] EXCEPT !.at = "manage.trail"])
       /\ shares' = [shares EXCEPT ![s].recipients = @ \ {u}]
    /\ UNCHANGED <<trashed, roles, trail>>

\* Written whatever the status has become since it was read.
RevokeWrite(r) ==
    /\ req[r].at = "revoke.write"
    /\ shares' = [shares EXCEPT ![req[r].share].status = "REVOKED"]
    /\ Continue(r, "manage.trail")
    /\ UNCHANGED <<trashed, roles, trail>>

EntryOf(state) ==
    CASE state.op = "update" -> [what |-> "SHARE_PERMISSION_CHANGED",
                                 share |-> state.share, user |-> state.target]
      [] state.op = "remove" -> [what |-> "SHARE_ACCESS_REMOVED",
                                 share |-> state.share, user |-> state.target]
      [] state.op = "revoke" -> [what |-> "SHARE_REVOKED", share |-> state.share]

\* The activity and the audit entry, in a transaction of their own.
ManageTrail(r) ==
    /\ req[r].at = "manage.trail"
    /\ trail' = trail \cup {EntryOf(req[r])}
    /\ Finish(r)
    /\ UNCHANGED <<shares, trashed, roles>>

-----------------------------------------------------------------------------
(* POST /share/public, which needs no session *)

BeginVerify(r, s, password) ==
    /\ req[r] = Idle
    /\ Goto(r, [at |-> "verify.read", share |-> s, password |-> password])
    /\ UNCHANGED <<shares, trashed, roles, trail>>

Opens(password, share) == share.password \in {NoPassword, password}

ReadLink(r) ==
    /\ req[r].at = "verify.read"
    /\ LET s == req[r].share
           active == s \in DOMAIN shares /\ shares[s].status = "ACTIVE"
       IN  Goto(r, IF active /\ Inactive(shares[s]) THEN [at |-> "verify.expire", share |-> s]
                   ELSE IF /\ active
                           /\ Opens(req[r].password, shares[s])
                           /\ shares[s].download
                        THEN [at |-> "verify.sign", share |-> s]
                        ELSE Idle)
    /\ UNCHANGED <<shares, trashed, roles, trail>>

\* Mutant: the status is written without looking at it again.
ExpireAnyway(r) ==
    /\ req[r].at = "verify.expire"
    /\ shares' = [shares EXCEPT ![req[r].share].status = "EXPIRED"]
    /\ Finish(r)
    /\ UNCHANGED <<trashed, roles, trail>>

\* updateMany with the status in its condition.
Expire(r) ==
    /\ req[r].at = "verify.expire"
    /\ shares' = [shares EXCEPT ![req[r].share].status = IF @ = "ACTIVE" THEN "EXPIRED" ELSE @]
    /\ Finish(r)
    /\ UNCHANGED <<trashed, roles, trail>>

\* publicDownloadUrl: signed unless the file is in the trash by now; that the
\* share is still active is not asked again.
SignLink(r) ==
    /\ req[r].at = "verify.sign"
    /\ Finish(r)
    /\ UNCHANGED <<shares, trashed, roles, trail>>

-----------------------------------------------------------------------------
(* What the lists show *)

\* listSharedWithMe, whether or not the file is in the trash.
SharedWithMe(u) == {s \in DOMAIN shares : /\ u \in shares[s].recipients
                                          /\ shares[s].status = "ACTIVE"
                                          /\ ~Inactive(shares[s])}

\* listSharedByMe: every row has a link, so this is every share there is of
\* the organization, by whomever and in whatever status.
SharedByMe == DOMAIN shares

-----------------------------------------------------------------------------
(* The rest of the system *)

TimePasses(s) ==
    /\ s \in DOMAIN shares /\ shares[s].ends = "later"
    /\ shares' = [shares EXCEPT ![s].ends = "past"]
    /\ UNCHANGED <<trashed, roles, trail, req>>

TrashOrRestoreFile ==
    /\ trashed' = ~trashed
    /\ UNCHANGED <<shares, roles, trail, req>>

ChangeRole(u, role) ==
    /\ TeamFolderFile /\ role # roles[u]
    /\ roles' = [roles EXCEPT ![u] = role]
    /\ UNCHANGED <<shares, trashed, trail, req>>

\* A handler stops for good: a statement of it failed, or its process died.
Crash(r) ==
    /\ req[r] # Idle
    /\ Finish(r)
    /\ UNCHANGED <<shares, trashed, roles, trail>>

Begin(r) ==
    \/ \E u \in User, body \in Body : BeginCreate(r, u, body)
    \/ \E u \in User, s \in Share, t \in User, p \in Offered :
            BeginManage(r, "update", u, s, t, p)
    \/ \E u \in User, s \in Share, t \in User : BeginManage(r, "remove", u, s, t, "VIEW")
    \/ \E u \in User, s \in Share : BeginManage(r, "revoke", u, s, u, "VIEW")
    \/ \E s \in Share, p \in Password \cup {NoPassword} : BeginVerify(r, s, p)

Step(r) ==
    \/ CreateReadsFile(r) \/ CreateReadsRole(r) \/ LookupRecipients(r)
    \/ \E s \in Share : InsertShare(r, s)
    \/ CreateTrail(r)
    \/ ReadShare(r) \/ ReadSharedFile(r) \/ ReadSharerRole(r)
    \/ FindRecipient(r) \/ UpdatePermission(r) \/ DeleteRecipient(r) \/ RevokeWrite(r)
    \/ ManageTrail(r)
    \/ ReadLink(r) \/ Expire(r) \/ SignLink(r)
    \/ Crash(r)

Environment ==
    \/ \E s \in Share : TimePasses(s)
    \/ TrashOrRestoreFile
    \/ \E u \in User, role \in Role \cup {NoRole} : ChangeRole(u, role)

ShareNext == (\E r \in Request : Begin(r) \/ Step(r)) \/ Environment

ShareSpec == ShareInit /\ [][ShareNext]_shareVars

-----------------------------------------------------------------------------
ShareTypeOK ==
    /\ shares \in [DOMAIN shares -> ShareRow] /\ DOMAIN shares \subseteq Share
    /\ trashed \in BOOLEAN
    /\ roles \in [User -> Role \cup {NoRole}]
    /\ trail \subseteq Entry
    /\ req \in [Request -> RequestState]

\* What a trail entry says of the lists and of the link.
Truth(entry) ==
    CASE entry.what = "SHARE_CREATED" -> entry.share \in SharedByMe
      [] entry.what = "SHARE_REVOKED" -> /\ \A u \in User : entry.share \notin SharedWithMe(u)
                                         /\ shares[entry.share].status = "REVOKED"
      [] entry.what = "SHARE_ACCESS_REMOVED" -> entry.share \notin SharedWithMe(entry.user)
      [] OTHER -> entry.share \in SharedByMe

\* What the audit trail says has happened stays so, whatever handlers overlap,
\* stop half way or write late: a share that was revoked is closed for its
\* recipients and for visitors of its link, and a recipient whose access was
\* removed never has it again (shares.service.ts: 159-237).
TrailTellsTruth == \A entry \in trail : Truth(entry)

Progress == [ACTIVE |-> 0, EXPIRED |-> 1, REVOKED |-> 2]

\* A share never comes back: not from revoked to expired when a visitor's
\* expiry is written after the revoke, and not to active when its permission
\* changes meanwhile (shares.service.ts: 169, 220, 250).
StatusOnlyAdvances ==
    [][\A s \in DOMAIN shares : /\ s \in DOMAIN shares'
                                /\ Progress[shares[s].status] <= Progress[shares'[s].status]]_shareVars
=============================================================================
