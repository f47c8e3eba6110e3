------------------------------- MODULE Accounts -------------------------------
(***************************************************************************)
(* AuthService (backend/src/auth.service.ts), JwtAuthGuard and              *)
(* OrganizationService (backend/src/organization/organization.service.ts):  *)
(* accounts, the organizations they belong to, their sessions, password     *)
(* resets and invitations.                                                  *)
(*                                                                         *)
(* Each await is a step.  The guard in front of a handler is its first one: *)
(* what it takes from the token (user, organization, role) was true when    *)
(* the session began.  Names and the audit log are left out, except that an *)
(* audit row needs its actor.                                               *)
(***************************************************************************)
EXTENDS FiniteSets, Naturals

CONSTANTS
    User, Org, Email, Session, ResetToken, Invitation,     \* ids
    Password,       \* passwords people use
    NoPassword,     \* password_hash is null; or nobody was asked for one
    Request         \* handler invocations that can be in flight together

ASSUME AccountsAssumption ==
    /\ IsFiniteSet(User)
    /\ NoPassword \notin Password

VARIABLES
    users,          \* users: a function from ids to rows
    sessions,       \* sessions that are neither revoked nor expired
    tokens,         \* password_reset_tokens
    invitations,    \* organization_invitations
    req             \* req[r]: the step handler r is about to run, its locals

vars == <<users, sessions, tokens, invitations, req>>

OrgRole == {"ADMIN", "MEMBER"}

UserRow == [org : Org, email : Email, role : OrgRole, password : Password \cup {NoPassword}]

\* role: what the token says; proof: the password its holder has shown.
SessionRow == [user : User, role : OrgRole, proof : Password \cup {NoPassword}]

\* After half an hour a token is refused, which is a token nobody presents.
TokenRow == [user : User, used : BOOLEAN]

InvitationRow == [org : Org, email : Email, role : OrgRole, by : User,
                  accepted : BOOLEAN, revoked : BOOLEAN, expired : BOOLEAN]

Idle == [at |-> "idle"]

RequestState ==
    [at : {"idle"}]
    \cup [at : {"issue"}, user : User, role : OrgRole, proof : Password \cup {NoPassword}]
    \cup [at : {"signup.invitation", "signup.commit"}, email : Email, password : Password,
          invitation : Invitation]
    \cup [at : {"found"}, email : Email, password : Password \cup {NoPassword}, role : OrgRole]
    \cup [at : {"revoke"}, sub : User, scope : SUBSET Session]
    \cup [at : {"forgot"}, user : User]
    \cup [at : {"reset"}, token : ResetToken, user : User, password : Password]
    \cup [at : {"password.read", "password.commit"}, sub : User, jti : Session,
          password : Password]
    \cup [at : {"role.find", "role.count", "role.audit", "role.commit"}, sub : User,
          org : Org, target : User, role : OrgRole]
    \cup [at : {"remove.find", "remove.count", "remove.commit"}, sub : User, org : Org,
          target : User]
    \cup [at : {"invite.user", "invite.active", "invite.commit"}, sub : User, org : Org,
          email : Email, role : OrgRole]
    \cup [at : {"uninvite.find", "uninvite.commit"}, org : Org, invitation : Invitation]
    \cup [at : {"accept.find", "accept.commit"}, sub : User, org : Org, email : Email,
          invitation : Invitation]

NoRows == [k \in {} |-> Idle]

WithRow(table, key, row) ==
    [k \in DOMAIN table \cup {key} |-> IF k = key THEN row ELSE table[k]]

Keep(table, keys) == [k \in DOMAIN table \cap keys |-> table[k]]

Goto(r, state) == req' = [req EXCEPT ![r] = state]
Finish(r)      == Goto(r, Idle)
Step(r, at)    == Goto(r, [req[r] EXCEPT !.at = at])

\* The step after a check: go on, or answer with an error.
StepIf(r, ok, at) == Goto(r, IF ok THEN [req[r] EXCEPT !.at = at] ELSE Idle)

-----------------------------------------------------------------------------
(* Rows *)

MembersOf(o) == {u \in DOMAIN users : users[u].org = o}
AdminsOf(o)  == {u \in MembersOf(o) : users[u].role = "ADMIN"}
WithEmail(e) == {u \in DOMAIN users : users[u].email = e}
SessionsOf(u) == {s \in DOMAIN sessions : sessions[s].user = u}

Pending(i) == ~invitations[i].accepted /\ ~invitations[i].revoked

\* acceptedAt: null, revokedAt: null, expiresAt: { gt: now }
Open(i) == Pending(i) /\ ~invitations[i].expired

\* An id no request works with, which with the tables makes it a fresh one.
Unnamed(id) == \A r \in Request : \A f \in DOMAIN req[r] : req[r][f] # id

FreshUser == {u \in User \ DOMAIN users : Unnamed(u)}
FreshOrg == {o \in Org : /\ MembersOf(o) = {} /\ Unnamed(o)
                         /\ \A i \in DOMAIN invitations : invitations[i].org # o}
FreshSession == {s \in Session \ DOMAIN sessions :
                    /\ Unnamed(s)
                    /\ \A r \in Request : req[r].at = "revoke" => req[r].scope # {s}}
FreshToken == {t \in ResetToken \ DOMAIN tokens : Unnamed(t)}
FreshInvitation == Invitation \ DOMAIN invitations

\* users.create, which the unique key (org_id, email) can refuse.
Insert(u, row) ==
    /\ \A v \in MembersOf(row.org) : users[v].email # row.email
    /\ users' = WithRow(users, u, row)

-----------------------------------------------------------------------------
Init ==
    /\ users = NoRows
    /\ sessions = NoRows
    /\ tokens = NoRows
    /\ invitations = NoRows
    /\ req = [r \in Request |-> Idle]

(* POST /auth/signup, POST /auth/login, GET /auth/google/callback *)

\* Mutant: an e-mail that is registered is not refused.
SignupAgain(r, e, password) ==
    /\ req[r] = Idle
    /\ \/ \E i \in DOMAIN invitations :
             Goto(r, [at |-> "signup.invitation", email |-> e, password |-> password,
                      invitation |-> i])
       \/ Goto(r, [at |-> "found", email |-> e, password |-> password, role |-> "ADMIN"])
    /\ UNCHANGED <<users, sessions, tokens, invitations>>

\* With an invitation's token or without one.
Signup(r, e, password) ==
    /\ req[r] = Idle
    /\ WithEmail(e) = {}
    /\ \/ \E i \in DOMAIN invitations :
             Goto(r, [at |-> "signup.invitation", email |-> e, password |-> password,
                      invitation |-> i])
       \/ Goto(r, [at |-> "found", email |-> e, password |-> password, role |-> "ADMIN"])
    /\ UNCHANGED <<users, sessions, tokens, invitations>>

SignupInvitation(r) ==
    /\ req[r].at = "signup.invitation"
    /\ LET i == req[r].invitation IN
       StepIf(r, Open(i) /\ invitations[i].email = req[r].email, "signup.commit")
    /\ UNCHANGED <<users, sessions, tokens, invitations>>

\* One transaction; the invitation is updated by its id.
SignupCommit(r, u) ==
    /\ req[r].at = "signup.commit"
    /\ LET i == req[r].invitation IN
       /\ Insert(u, [org |-> invitations[i].org, email |-> req[r].email,
                     role |-> invitations[i].role, password |-> req[r].password])
       /\ invitations' = [invitations EXCEPT ![i].accepted = TRUE]
       /\ Goto(r, [at |-> "issue", user |-> u, role |-> invitations[i].role,
                   proof |-> req[r].password])
    /\ UNCHANGED <<sessions, tokens>>

\* A new organization and its first user.  An organization without users, which
\* is what a failure between the two leaves, is of no consequence.
Found(r, u, o) ==
    /\ req[r].at = "found"
    /\ Insert(u, [org |-> o, email |-> req[r].email, role |-> req[r].role,
                  password |-> req[r].password])
    /\ Goto(r, [at |-> "issue", user |-> u, role |-> req[r].role, proof |-> req[r].password])
    /\ UNCHANGED <<sessions, tokens, invitations>>

\* The right password of the account found by its e-mail; of several accounts
\* with it the database picks one.
Login(r, u) ==
    /\ req[r] = Idle
    /\ users[u].password # NoPassword
    /\ Goto(r, [at |-> "issue", user |-> u, role |-> users[u].role,
                proof |-> users[u].password])
    /\ UNCHANGED <<users, sessions, tokens, invitations>>

\* A Google profile, whose e-mail stays its own.  Linking it to the account found
\* is refused when the account has gone, as the session is a step later.
Google(r, e) ==
    /\ req[r] = Idle
    /\ \/ \E u \in WithEmail(e) :
             Goto(r, [at |-> "issue", user |-> u, role |-> users[u].role,
                      proof |-> NoPassword])
       \/ /\ WithEmail(e) = {}
          /\ Goto(r, [at |-> "found", email |-> e, password |-> NoPassword,
                      role |-> "MEMBER"])
    /\ UNCHANGED <<users, sessions, tokens, invitations>>

\* Mutant: without the foreign key of a session.
IssueUnchecked(r, s) ==
    /\ req[r].at = "issue"
    /\ sessions' = WithRow(sessions, s, [user |-> req[r].user, role |-> req[r].role,
                                         proof |-> req[r].proof])
    /\ Finish(r)
    /\ UNCHANGED <<users, tokens, invitations>>

\* issue: a session refers to its user.
Issue(r, s) ==
    /\ req[r].at = "issue"
    /\ req[r].user \in DOMAIN users
    /\ sessions' = WithRow(sessions, s, [user |-> req[r].user, role |-> req[r].role,
                                         proof |-> req[r].proof])
    /\ Finish(r)
    /\ UNCHANGED <<users, tokens, invitations>>

-----------------------------------------------------------------------------
(* POST /auth/logout, /auth/logout-all, DELETE /auth/sessions/:id *)

\* JwtAuthGuard: the token's session is live.  The scope is the token's own
\* session, all of them, or the one that is named.
Logout(r, s, scope) ==
    /\ req[r] = Idle
    /\ Goto(r, [at |-> "revoke", sub |-> sessions[s].user, scope |-> scope])
    /\ UNCHANGED <<users, sessions, tokens, invitations>>

LogoutCommit(r) ==
    /\ req[r].at = "revoke"
    /\ sessions' = Keep(sessions, DOMAIN sessions \ (SessionsOf(req[r].sub) \cap req[r].scope))
    /\ Finish(r)
    /\ UNCHANGED <<users, tokens, invitations>>

(* POST /auth/forgot-password, /auth/reset-password, /auth/change-password *)

Forgot(r, u) ==
    /\ req[r] = Idle
    /\ Goto(r, [at |-> "forgot", user |-> u])
    /\ UNCHANGED <<users, sessions, tokens, invitations>>

ForgotCommit(r, t) ==
    /\ req[r].at = "forgot"
    /\ req[r].user \in DOMAIN users
    /\ tokens' = WithRow(tokens, t, [user |-> req[r].user, used |-> FALSE])
    /\ Finish(r)
    /\ UNCHANGED <<users, sessions, invitations>>

Reset(r, t, password) ==
    /\ req[r] = Idle
    /\ ~tokens[t].used
    /\ Goto(r, [at |-> "reset", token |-> t, user |-> tokens[t].user, password |-> password])
    /\ UNCHANGED <<users, sessions, tokens, invitations>>

SetPassword(u, password) == users' = [users EXCEPT ![u].password = password]

\* Mutant: the sessions are left alone.
ResetCommitKeepsSessions(r) ==
    /\ req[r].at = "reset"
    /\ req[r].token \in DOMAIN tokens
    /\ SetPassword(req[r].user, req[r].password)
    /\ tokens' = [tokens EXCEPT ![req[r].token].used = TRUE]
    /\ Finish(r)
    /\ UNCHANGED <<sessions, invitations>>

\* Mutant: used_at is not set.
ResetCommitKeepsToken(r) ==
    /\ req[r].at = "reset"
    /\ req[r].token \in DOMAIN tokens
    /\ SetPassword(req[r].user, req[r].password)
    /\ sessions' = Keep(sessions, DOMAIN sessions \ SessionsOf(req[r].user))
    /\ Finish(r)
    /\ UNCHANGED <<tokens, invitations>>

\* One transaction; the token goes with its user.
ResetCommit(r) ==
    /\ req[r].at = "reset"
    /\ req[r].token \in DOMAIN tokens
    /\ SetPassword(req[r].user, req[r].password)
    /\ tokens' = [tokens EXCEPT ![req[r].token].used = TRUE]
    /\ sessions' = Keep(sessions, DOMAIN sessions \ SessionsOf(req[r].user))
    /\ Finish(r)
    /\ UNCHANGED invitations

ChangePassword(r, s, password) ==
    /\ req[r] = Idle
    /\ Goto(r, [at |-> "password.read", sub |-> sessions[s].user, jti |-> s,
                password |-> password])
    /\ UNCHANGED <<users, sessions, tokens, invitations>>

\* The current password is the right one.
ChangePasswordRead(r) ==
    /\ req[r].at = "password.read"
    /\ req[r].sub \in DOMAIN users
    /\ users[req[r].sub].password # NoPassword
    /\ Step(r, "password.commit")
    /\ UNCHANGED <<users, sessions, tokens, invitations>>

\* The session that asked stays; its holder has shown the new password.
ChangePasswordCommit(r) ==
    /\ req[r].at = "password.commit"
    /\ req[r].sub \in DOMAIN users
    /\ SetPassword(req[r].sub, req[r].password)
    /\ LET others == SessionsOf(req[r].sub) \ {req[r].jti} IN
       sessions' = [s \in DOMAIN sessions \ others |->
                       IF sessions[s].user = req[r].sub
                       THEN [sessions[s] EXCEPT !.proof = req[r].password]
                       ELSE sessions[s]]
    /\ Finish(r)
    /\ UNCHANGED <<tokens, invitations>>

-----------------------------------------------------------------------------
(* PATCH and DELETE /organization/members/:id *)

OrgOf(s) == users[sessions[s].user].org

\* assertAdmin looks at the token.  Nobody gives up their own ADMIN role; a body
\* without a role changes nothing.
UpdateMemberRole(r, s, target, role) ==
    /\ req[r] = Idle
    /\ sessions[s].role = "ADMIN"
    /\ target = sessions[s].user => role = "ADMIN"
    /\ Goto(r, [at |-> "role.find", sub |-> sessions[s].user, org |-> OrgOf(s),
                target |-> target, role |-> role])
    /\ UNCHANGED <<users, sessions, tokens, invitations>>

RoleFind(r) ==
    /\ req[r].at = "role.find"
    /\ StepIf(r, req[r].target \in MembersOf(req[r].org),
              IF req[r].target \in AdminsOf(req[r].org) /\ req[r].role # "ADMIN"
              THEN "role.count" ELSE "role.audit")
    /\ UNCHANGED <<users, sessions, tokens, invitations>>

\* Mutant: the last one can go.
RoleCountOne(r) ==
    /\ req[r].at = "role.count"
    /\ StepIf(r, Cardinality(AdminsOf(req[r].org)) >= 1, "role.audit")
    /\ UNCHANGED <<users, sessions, tokens, invitations>>

RoleCount(r) ==
    /\ req[r].at = "role.count"
    /\ StepIf(r, Cardinality(AdminsOf(req[r].org)) > 1, "role.audit")
    /\ UNCHANGED <<users, sessions, tokens, invitations>>

\* The audit row comes before the update, on its own.
RoleAudit(r) ==
    /\ req[r].at = "role.audit"
    /\ req[r].sub \in DOMAIN users
    /\ Step(r, "role.commit")
    /\ UNCHANGED <<users, sessions, tokens, invitations>>

\* The target's sessions keep the role they began with.
RoleCommit(r) ==
    /\ req[r].at = "role.commit"
    /\ req[r].target \in DOMAIN users
    /\ users' = [users EXCEPT ![req[r].target].role = req[r].role]
    /\ Finish(r)
    /\ UNCHANGED <<sessions, tokens, invitations>>

RemoveMember(r, s, target) ==
    /\ req[r] = Idle
    /\ sessions[s].role = "ADMIN"
    /\ target # sessions[s].user
    /\ Goto(r, [at |-> "remove.find", sub |-> sessions[s].user, org |-> OrgOf(s),
                target |-> target])
    /\ UNCHANGED <<users, sessions, tokens, invitations>>

RemoveFind(r) ==
    /\ req[r].at = "remove.find"
    /\ StepIf(r, req[r].target \in MembersOf(req[r].org),
              IF req[r].target \in AdminsOf(req[r].org) THEN "remove.count" ELSE "remove.commit")
    /\ UNCHANGED <<users, sessions, tokens, invitations>>

RemoveCount(r) ==
    /\ req[r].at = "remove.count"
    /\ StepIf(r, Cardinality(AdminsOf(req[r].org)) > 1, "remove.commit")
    /\ UNCHANGED <<users, sessions, tokens, invitations>>

\* Mutant: without ON DELETE CASCADE on the reset tokens.
RemoveCommitKeepsTokens(r) ==
    /\ req[r].at = "remove.commit"
    /\ {req[r].sub, req[r].target} \subseteq DOMAIN users
    /\ \A i \in DOMAIN invitations : invitations[i].by # req[r].target
    /\ users' = Keep(users, User \ {req[r].target})
    /\ sessions' = Keep(sessions, DOMAIN sessions \ SessionsOf(req[r].target))
    /\ Finish(r)
    /\ UNCHANGED <<tokens, invitations>>

\* One transaction, with an audit row of the caller.  The foreign keys refuse it
\* for a user who has invited somebody (as for one who owns files: Fail); sessions
\* and reset tokens go with the user.
RemoveCommit(r) ==
    /\ req[r].at = "remove.commit"
    /\ {req[r].sub, req[r].target} \subseteq DOMAIN users
    /\ \A i \in DOMAIN invitations : invitations[i].by # req[r].target
    /\ users' = Keep(users, User \ {req[r].target})
    /\ sessions' = Keep(sessions, DOMAIN sessions \ SessionsOf(req[r].target))
    /\ tokens' = Keep(tokens, {t \in DOMAIN tokens : tokens[t].user # req[r].target})
    /\ Finish(r)
    /\ UNCHANGED invitations

-----------------------------------------------------------------------------
(* /organization/invitations *)

\* Mutant: without assertAdmin.
InviteByAnyone(r, s, e, role) ==
    /\ req[r] = Idle
    /\ Goto(r, [at |-> "invite.user", sub |-> sessions[s].user, org |-> OrgOf(s),
                email |-> e, role |-> role])
    /\ UNCHANGED <<users, sessions, tokens, invitations>>

Invite(r, s, e, role) ==
    /\ req[r] = Idle
    /\ sessions[s].role = "ADMIN"
    /\ Goto(r, [at |-> "invite.user", sub |-> sessions[s].user, org |-> OrgOf(s),
                email |-> e, role |-> role])
    /\ UNCHANGED <<users, sessions, tokens, invitations>>

\* Mutant: members are invited too.
InviteUserUnchecked(r) ==
    /\ req[r].at = "invite.user"
    /\ Step(r, "invite.active")
    /\ UNCHANGED <<users, sessions, tokens, invitations>>

InviteUser(r) ==
    /\ req[r].at = "invite.user"
    /\ StepIf(r, MembersOf(req[r].org) \cap WithEmail(req[r].email) = {}, "invite.active")
    /\ UNCHANGED <<users, sessions, tokens, invitations>>

OpenFor(o, e) ==
    {i \in DOMAIN invitations : Open(i) /\ invitations[i].org = o /\ invitations[i].email = e}

InviteActive(r) ==
    /\ req[r].at = "invite.active"
    /\ StepIf(r, OpenFor(req[r].org, req[r].email) = {}, "invite.commit")
    /\ UNCHANGED <<users, sessions, tokens, invitations>>

InviteCommit(r, i) ==
    /\ req[r].at = "invite.commit"
    /\ req[r].sub \in DOMAIN users
    /\ invitations' = WithRow(invitations, i,
           [org |-> req[r].org, email |-> req[r].email, role |-> req[r].role,
            by |-> req[r].sub, accepted |-> FALSE, revoked |-> FALSE, expired |-> FALSE])
    /\ Finish(r)
    /\ UNCHANGED <<users, sessions, tokens>>

RevokeInvitation(r, s, i) ==
    /\ req[r] = Idle
    /\ sessions[s].role = "ADMIN"
    /\ Goto(r, [at |-> "uninvite.find", org |-> OrgOf(s), invitation |-> i])
    /\ UNCHANGED <<users, sessions, tokens, invitations>>

\* Mutant: accepted_at is not looked at.
RevokeFindAny(r) ==
    /\ req[r].at = "uninvite.find"
    /\ LET i == req[r].invitation IN
       StepIf(r, invitations[i].org = req[r].org /\ ~invitations[i].revoked, "uninvite.commit")
    /\ UNCHANGED <<users, sessions, tokens, invitations>>

RevokeFind(r) ==
    /\ req[r].at = "uninvite.find"
    /\ LET i == req[r].invitation IN
       StepIf(r, invitations[i].org = req[r].org /\ Pending(i), "uninvite.commit")
    /\ UNCHANGED <<users, sessions, tokens, invitations>>

RevokeCommit(r) ==
    /\ req[r].at = "uninvite.commit"
    /\ invitations' = [invitations EXCEPT ![req[r].invitation].revoked = TRUE]
    /\ Finish(r)
    /\ UNCHANGED <<users, sessions, tokens>>

\* E-mail and organization are those of the token.
Accept(r, s, i) ==
    /\ req[r] = Idle
    /\ Goto(r, [at |-> "accept.find", sub |-> sessions[s].user, org |-> OrgOf(s),
                email |-> users[sessions[s].user].email, invitation |-> i])
    /\ UNCHANGED <<users, sessions, tokens, invitations>>

AcceptFind(r) ==
    /\ req[r].at = "accept.find"
    /\ StepIf(r, req[r].invitation \in OpenFor(req[r].org, req[r].email), "accept.commit")
    /\ UNCHANGED <<users, sessions, tokens, invitations>>

AcceptCommit(r) ==
    /\ req[r].at = "accept.commit"
    /\ req[r].sub \in DOMAIN users
    /\ LET i == req[r].invitation IN
       /\ users' = [users EXCEPT ![req[r].sub].role = invitations[i].role]
       /\ invitations' = [invitations EXCEPT ![i].accepted = TRUE]
    /\ Finish(r)
    /\ UNCHANGED <<sessions, tokens>>

-----------------------------------------------------------------------------
(* Time, and failures *)

SessionExpires(s) ==
    /\ sessions' = Keep(sessions, DOMAIN sessions \ {s})
    /\ UNCHANGED <<users, tokens, invitations, req>>

\* Of one that is accepted or revoked nobody looks at the date.
InvitationExpires(i) ==
    /\ Pending(i)
    /\ invitations' = [invitations EXCEPT ![i].expired = TRUE]
    /\ UNCHANGED <<users, sessions, tokens, req>>

\* A handler is refused what it needs, or dies: what it has not written is not
\* written.
Fail(r) ==
    /\ req[r] # Idle
    /\ Finish(r)
    /\ UNCHANGED <<users, sessions, tokens, invitations>>

\* Handlers without a session.
BeginPublic(r) ==
    \/ \E e \in Email, password \in Password : Signup(r, e, password)
    \/ \E e \in Email : Google(r, e)
    \/ \E u \in DOMAIN users : Login(r, u)
    \/ \E u \in DOMAIN users : Forgot(r, u)
    \/ \E t \in DOMAIN tokens, password \in Password : Reset(r, t, password)

\* Handlers behind the guard.  Ids that never were are refused as those that have
\* gone.
BeginGuarded(r, s) ==
    \/ \E scope \in {Session} \cup {{x} : x \in DOMAIN sessions} : Logout(r, s, scope)
    \/ \E password \in Password : ChangePassword(r, s, password)
    \/ \E target \in DOMAIN users, role \in OrgRole : UpdateMemberRole(r, s, target, role)
    \/ \E target \in DOMAIN users : RemoveMember(r, s, target)
    \/ \E e \in Email, role \in OrgRole : Invite(r, s, e, role)
    \/ \E i \in DOMAIN invitations : RevokeInvitation(r, s, i)
    \/ \E i \in DOMAIN invitations : Accept(r, s, i)

ContinueAccount(r) ==
    \/ SignupInvitation(r)
    \/ \E u \in FreshUser : SignupCommit(r, u)
    \/ \E u \in FreshUser, o \in FreshOrg : Found(r, u, o)
    \/ \E s \in FreshSession : Issue(r, s)
    \/ LogoutCommit(r)
    \/ \E t \in FreshToken : ForgotCommit(r, t)
    \/ ResetCommit(r)
    \/ ChangePasswordRead(r)
    \/ ChangePasswordCommit(r)

ContinueMember(r) ==
    \/ RoleFind(r) \/ RoleCount(r) \/ RoleAudit(r) \/ RoleCommit(r)
    \/ RemoveFind(r) \/ RemoveCount(r) \/ RemoveCommit(r)
    \/ InviteUser(r) \/ InviteActive(r)
    \/ \E i \in FreshInvitation : InviteCommit(r, i)
    \/ RevokeFind(r) \/ RevokeCommit(r)
    \/ AcceptFind(r) \/ AcceptCommit(r)

Next ==
    \/ \E r \in Request :
          \/ BeginPublic(r)
          \/ \E s \in DOMAIN sessions : BeginGuarded(r, s)
          \/ ContinueAccount(r)
          \/ ContinueMember(r)
          \/ Fail(r)
    \/ \E s \in DOMAIN sessions : SessionExpires(s)
    \/ \E i \in DOMAIN invitations : InvitationExpires(i)

Spec == Init /\ [][Next]_vars

-----------------------------------------------------------------------------
UsersOK ==
    /\ DOMAIN users \subseteq User /\ users \in [DOMAIN users -> UserRow]
    /\ \A u \in DOMAIN users, v \in DOMAIN users :
          users[u].org = users[v].org /\ users[u].email = users[v].email => u = v

SessionsOK ==
    /\ DOMAIN sessions \subseteq Session /\ sessions \in [DOMAIN sessions -> SessionRow]
    /\ \A s \in DOMAIN sessions : sessions[s].user \in DOMAIN users

TokensOK ==
    /\ DOMAIN tokens \subseteq ResetToken /\ tokens \in [DOMAIN tokens -> TokenRow]
    /\ \A t \in DOMAIN tokens : tokens[t].user \in DOMAIN users

InvitationsOK ==
    /\ DOMAIN invitations \subseteq Invitation
    /\ invitations \in [DOMAIN invitations -> InvitationRow]
    /\ \A i \in DOMAIN invitations : invitations[i].by \in DOMAIN users

\* Invitations are never deleted.
Named(state) ==
    state.at \in {"signup.invitation", "signup.commit", "uninvite.find", "uninvite.commit",
                  "accept.find", "accept.commit"}
        => state.invitation \in DOMAIN invitations

\* Every table has its type and its keys: an e-mail is one member's of an
\* organization, and the user of a session, of a reset token and of an
\* invitation's sender is there, although users are removed while sessions are
\* issued and invitations sent.
TypeOK ==
    /\ UsersOK /\ SessionsOK /\ TokensOK /\ InvitationsOK
    /\ req \in [Request -> RequestState]
    /\ \A r \in Request : Named(req[r])

-----------------------------------------------------------------------------
(* However requests interleave *)

\* A handler that will not make an ADMIN in organization o, nor remove a member.
Powerless(o, state) ==
    /\ state.at = "issue" /\ state.user \in MembersOf(o) => state.role # "ADMIN"
    /\ state.at \in {"signup.commit", "accept.commit"}
          /\ invitations[state.invitation].org = o
       => invitations[state.invitation].role # "ADMIN"
    /\ state.at \in {"role.find", "role.count", "role.audit", "role.commit",
                     "invite.user", "invite.active", "invite.commit"}
          /\ state.org = o
       => state.role # "ADMIN"
    /\ state.at \in {"remove.find", "remove.count", "remove.commit"} => state.org # o

\* No ADMIN, and nobody who could still make one: no token that says ADMIN, no
\* open invitation for one, no handler that is past its checks.
Locked(o) ==
    /\ MembersOf(o) # {}
    /\ AdminsOf(o) = {}
    /\ \A s \in DOMAIN sessions : OrgOf(s) = o => sessions[s].role # "ADMIN"
    /\ \A i \in DOMAIN invitations :
          invitations[i].org = o /\ Open(i) => invitations[i].role # "ADMIN"
    /\ \A r \in Request : Powerless(o, req[r])

\* An organization that has lost its last ADMIN (or was founded by a Google
\* sign-in, which makes a MEMBER) never has one again: no sequence of sign-ups,
\* invitations, acceptances and role changes lets a MEMBER into the role, whatever
\* tokens and handlers from earlier are still about.
LockedStaysLocked == [][\A o \in Org : Locked(o) => Locked(o)']_vars

-----------------------------------------------------------------------------
(* One request at a time *)

OneRequest == \A r, q \in Request : r = q

\* Every organization that has an ADMIN keeps one, whoever is demoted, removed or
\* accepts an invitation.
KeepsAdmin == [][\A o \in Org : AdminsOf(o) # {} => AdminsOf(o)' # {}]_vars

\* A session that began with a password lives only as long as that password, or
\* as its holder has been the one to change it.
SessionsFollowPassword ==
    \A s \in DOMAIN sessions :
        sessions[s].proof # NoPassword => sessions[s].proof = users[sessions[s].user].password

\* A reset token sets one password: the step that sets it with the token finds
\* the token unused and leaves it used.
TokensSetOnePassword ==
    [][\A r \in Request :
          req[r].at = "reset" /\ users' # users =>
              ~tokens[req[r].token].used /\ tokens'[req[r].token].used]_vars

\* An e-mail is registered once, over all organizations: sign-up, invitations and
\* Google sign-in look first.
EmailsOnce == \A e \in Email : Cardinality(WithEmail(e)) <= 1

\* An open invitation is the only one for its e-mail and is for somebody who is
\* not a member.  (It follows that nobody who is signed in can accept one.)
InvitationsForStrangers ==
    \A i \in DOMAIN invitations :
        Open(i) => /\ OpenFor(invitations[i].org, invitations[i].email) = {i}
                   /\ MembersOf(invitations[i].org) \cap WithEmail(invitations[i].email) = {}

\* No invitation is both accepted and revoked.
InvitationSettled ==
    \A i \in DOMAIN invitations : ~(invitations[i].accepted /\ invitations[i].revoked)

\* What a handler has checked and relies on.
Holds(state) ==
    /\ state.at = "issue" =>
          /\ state.user \in DOMAIN users
          /\ state.proof # NoPassword => state.proof = users[state.user].password
    /\ state.at \in {"signup.invitation", "signup.commit", "found"} =>
          WithEmail(state.email) = {}
    /\ state.at = "signup.commit" =>
          /\ Pending(state.invitation)
          /\ invitations[state.invitation].email = state.email
          /\ OpenFor(invitations[state.invitation].org, state.email) \subseteq {state.invitation}
    /\ state.at = "reset" => state.token \in DOMAIN tokens /\ ~tokens[state.token].used
    /\ state.at \in {"role.count", "remove.count"} => state.target \in AdminsOf(state.org)
    /\ state.at \in {"role.audit", "role.commit", "remove.commit"} =>
          state.target \in MembersOf(state.org)
    /\ \/ state.at \in {"role.audit", "role.commit"} /\ state.role # "ADMIN"
       \/ state.at = "remove.commit"
       => (state.target \in AdminsOf(state.org) => AdminsOf(state.org) \ {state.target} # {})
    /\ state.at \in {"invite.active", "invite.commit"} =>
          MembersOf(state.org) \cap WithEmail(state.email) = {}
    /\ state.at = "invite.commit" => OpenFor(state.org, state.email) = {}
    /\ state.at = "uninvite.commit" => Pending(state.invitation)
    /\ state.at = "accept.find" =>
          state.sub \in MembersOf(state.org) \cap WithEmail(state.email)
    /\ state.at # "accept.commit"

\* The inductive invariant of one request at a time.  A signed-in user never gets
\* as far as accepting an invitation.
SerialInv ==
    /\ SessionsFollowPassword
    /\ InvitationsForStrangers
    /\ InvitationSettled
    /\ \A u \in DOMAIN users, v \in DOMAIN users : users[u].email = users[v].email => u = v
    /\ \A r \in Request : Holds(req[r])
=============================================================================
