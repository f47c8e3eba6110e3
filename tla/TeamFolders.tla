----------------------------- MODULE TeamFolders -----------------------------
(***************************************************************************)
(* TeamFoldersService (backend/src/team-folders/team-folders.service.ts):   *)
(* the life of one Team Folder, its member rows and group rows, and whether *)
(* anything is filed in it.                                                 *)
(*                                                                         *)
(* A handler reads, checks and then writes in one transaction; each await   *)
(* is a step here, so what a handler checked may have changed by the time   *)
(* it writes.  A handler that dies before its transaction has changed       *)
(* nothing, which is a handler that is never continued.                     *)
(***************************************************************************)
EXTENDS Permissions, FiniteSets

CONSTANTS
    User,           \* members of the organization
    OrgAdmin,       \* those whose token says ADMIN
    Group,          \* user groups of the organization
    GroupMember,    \* GroupMember[g]: the users in group g
    Grantable,      \* bound: roles that requests ask for
    Filed,          \* bound: kinds of items that are filed in it
    Request         \* handler invocations that can be in flight together

ASSUME TeamFoldersAssumption ==
    /\ OrgAdmin \subseteq User
    /\ GroupMember \in [Group -> SUBSET User]
    /\ Grantable \subseteq TeamFolderRole
    /\ IsFiniteSet(User)

VARIABLES
    phase,          \* of the team_folders row: "new", "live", "deleted"
    archived,       \* archived_at is set
    isPublic,       \* is_public_to_org
    members,        \* team_folder_members: a function from users to roles
    groups,         \* team_folder_groups: a function from groups to roles
    contents,       \* kinds of items in it, besides its own root folder
    req             \* req[r]: the step handler r is about to run, its locals

vars == <<phase, archived, isPublic, members, groups, contents, req>>

\* A folder below another, a folder at the top level that names the Team Folder
\* (team_folder_id is set, parent_id is NULL), and a file, trashed or not, in a
\* folder of the Team Folder.
Item == {"folder", "topFolder", "file"}

Idle == [at |-> "idle"]

\* What a request is about, besides the caller.
MemberOp == {"updateMember", "removeMember"}
GroupOp == {"addGroup", "updateGroup", "removeGroup"}
ManageOp == {"updateSettings", "archive", "restore", "remove"}

RequestState ==
    [at : {"idle"}]
    \cup [at : {"join.existing", "join.commit"}, user : User]
    \cup [at : {"addMember.role", "addMember.existing", "addMember.commit"},
          user : User, target : User, role : TeamFolderRole]
    \cup [at : {"member.role"}, op : MemberOp, user : User, target : User,
          role : TeamFolderRole \cup {NoRole}]
    \cup [at : {"member.row", "member.count", "member.commit"}, op : MemberOp,
          user : User, target : User, role : TeamFolderRole \cup {NoRole},
          actor : TeamFolderRole \cup {NoRole}]
    \cup [at : {"group.role", "group.row", "group.commit"}, op : GroupOp, user : User,
          group : Group, role : TeamFolderRole \cup {NoRole}]
    \cup [at : {"manage.role", "manage.folders", "manage.files", "manage.commit"},
          op : ManageOp, user : User, public : BOOLEAN]
    \cup [at : {"item.role", "item.commit"}, user : User, item : Item, from : SUBSET Item]

NoRows == [k \in {} |-> NoRole]

WithRow(table, key, row) ==
    [k \in DOMAIN table \cup {key} |-> IF k = key THEN row ELSE table[k]]

WithoutRow(table, key) == [k \in DOMAIN table \ {key} |-> table[k]]

Goto(r, state) == req' = [req EXCEPT ![r] = state]
Finish(r)      == Goto(r, Idle)

\* The step after a check: go on, or answer with an error.
GotoIf(r, ok, state) == Goto(r, IF ok THEN state ELSE Idle)

-----------------------------------------------------------------------------
(* Roles *)

MemberRole(u) == IF u \in DOMAIN members THEN members[u] ELSE NoRole

GroupRoles(u) == {groups[g] : g \in {h \in DOMAIN groups : u \in GroupMember[h]}}

\* resolveCallerRole: the highest of the member row and the groups' rows.
CallerRole(u) == HighestRole({MemberRole(u)} \cup GroupRoles(u))

Caller(u) == [org |-> "org", sub |-> u,
              role |-> IF u \in OrgAdmin THEN "ADMIN" ELSE "MEMBER"]

TeamResource(role) ==
    [org |-> "org", owner |-> "teamFolder", teamFolder |-> TRUE, role |-> role]

MayManage(u, role)  == CanManageTeamFolder(Caller(u), TeamResource(role))
MayMembers(u, role) == CanManageMembers(Caller(u), TeamResource(role))
MayAssign(u, role, target) ==
    CanAssignTeamFolderRole(Caller(u), TeamResource(role), target)

Admins == {u \in DOMAIN members : members[u] = "ADMIN"}

-----------------------------------------------------------------------------
Init ==
    /\ phase = "new"
    /\ archived = FALSE
    /\ isPublic = FALSE
    /\ members = NoRows
    /\ groups = NoRows
    /\ contents = {}
    /\ req = [r \in Request |-> Idle]

\* One transaction.  A creator policy in the console's settings can let any
\* user create one.
Create(u, public) ==
    /\ phase = "new"
    /\ phase' = "live"
    /\ isPublic' = public
    /\ members' = WithRow(members, u, "ADMIN")
    /\ UNCHANGED <<archived, groups, contents, req>>

\* Mutant: archived_at is not looked at.
ReadableArchived == phase = "live"

\* findFirst of the Team Folder (404 without it); assertNotArchived is about
\* this read.
Readable == phase = "live" /\ ~archived

-----------------------------------------------------------------------------
(* POST /team-folders/:id/join *)

Join(r, u) ==
    /\ req[r] = Idle
    /\ Readable /\ isPublic
    /\ Goto(r, [at |-> "join.existing", user |-> u])
    /\ UNCHANGED <<phase, archived, isPublic, members, groups, contents>>

JoinExisting(r) ==
    /\ req[r].at = "join.existing"
    /\ GotoIf(r, req[r].user \notin DOMAIN members, [req[r] EXCEPT !.at = "join.commit"])
    /\ UNCHANGED <<phase, archived, isPublic, members, groups, contents>>

\* Mutant: without the unique key, joining replaces the row.
JoinCommitReplaces(r) ==
    /\ req[r].at = "join.commit"
    /\ phase = "live"
    /\ members' = WithRow(members, req[r].user, "VIEWER")
    /\ Finish(r)
    /\ UNCHANGED <<phase, archived, isPublic, groups, contents>>

\* INSERT; a row that is there already answers alreadyMember.
JoinCommit(r) ==
    /\ req[r].at = "join.commit"
    /\ phase = "live"
    /\ req[r].user \notin DOMAIN members
    /\ members' = WithRow(members, req[r].user, "VIEWER")
    /\ Finish(r)
    /\ UNCHANGED <<phase, archived, isPublic, groups, contents>>

-----------------------------------------------------------------------------
(* POST /team-folders/:id/members *)

AddMember(r, u, target, role) ==
    /\ req[r] = Idle
    /\ Readable
    /\ Goto(r, [at |-> "addMember.role", user |-> u, target |-> target, role |-> role])
    /\ UNCHANGED <<phase, archived, isPublic, members, groups, contents>>

AddMemberRole(r) ==
    /\ req[r].at = "addMember.role"
    /\ GotoIf(r, MayAssign(req[r].user, CallerRole(req[r].user), req[r].role),
              [req[r] EXCEPT !.at = "addMember.existing"])
    /\ UNCHANGED <<phase, archived, isPublic, members, groups, contents>>

AddMemberExisting(r) ==
    /\ req[r].at = "addMember.existing"
    /\ GotoIf(r, req[r].target \notin DOMAIN members,
              [req[r] EXCEPT !.at = "addMember.commit"])
    /\ UNCHANGED <<phase, archived, isPublic, members, groups, contents>>

AddMemberCommit(r) ==
    /\ req[r].at = "addMember.commit"
    /\ phase = "live"
    /\ req[r].target \notin DOMAIN members
    /\ members' = WithRow(members, req[r].target, req[r].role)
    /\ Finish(r)
    /\ UNCHANGED <<phase, archived, isPublic, groups, contents>>

-----------------------------------------------------------------------------
(* PATCH and DELETE /team-folders/:id/members/:userId.  role is the role to    *)
(* give, NoRole to remove the row.                                             *)

ChangeMember(r, u, op, target, role) ==
    /\ req[r] = Idle
    /\ Readable
    /\ Goto(r, [at |-> "member.role", op |-> op, user |-> u, target |-> target,
                role |-> role])
    /\ UNCHANGED <<phase, archived, isPublic, members, groups, contents>>

ChangeMemberRole(r) ==
    LET u == req[r].user IN
    /\ req[r].at = "member.role"
    /\ GotoIf(r, MayMembers(u, CallerRole(u)),
              [at |-> "member.row", op |-> req[r].op, user |-> u, target |-> req[r].target,
               role |-> req[r].role, actor |-> CallerRole(u)])
    /\ UNCHANGED <<phase, archived, isPublic, members, groups, contents>>

\* Mutant: the role the member has now is not looked at.
ChangeMemberRowUnchecked(r) ==
    LET u == req[r].user
        target == req[r].target
        role == req[r].role
    IN
    /\ req[r].at = "member.row"
    /\ GotoIf(r, /\ target \in DOMAIN members
                 /\ role # NoRole => MayAssign(u, req[r].actor, role),
              [req[r] EXCEPT !.at = IF members[target] = "ADMIN" /\ role # "ADMIN"
                                    THEN "member.count" ELSE "member.commit"])
    /\ UNCHANGED <<phase, archived, isPublic, members, groups, contents>>

\* requireMembership, assertCanChangeExistingRole, assertCanAssignRole; only the
\* loss of an ADMIN needs the count.
ChangeMemberRow(r) ==
    LET u == req[r].user
        target == req[r].target
        role == req[r].role
    IN
    /\ req[r].at = "member.row"
    /\ GotoIf(r, /\ target \in DOMAIN members
                 /\ MayAssign(u, req[r].actor, members[target])
                 /\ role # NoRole => MayAssign(u, req[r].actor, role),
              [req[r] EXCEPT !.at = IF members[target] = "ADMIN" /\ role # "ADMIN"
                                    THEN "member.count" ELSE "member.commit"])
    /\ UNCHANGED <<phase, archived, isPublic, members, groups, contents>>

\* Mutant: the count is compared with 0.
ChangeMemberCountZero(r) ==
    /\ req[r].at = "member.count"
    /\ GotoIf(r, Cardinality(Admins) > 0, [req[r] EXCEPT !.at = "member.commit"])
    /\ UNCHANGED <<phase, archived, isPublic, members, groups, contents>>

\* assertNotLastAdmin
ChangeMemberCount(r) ==
    /\ req[r].at = "member.count"
    /\ GotoIf(r, Cardinality(Admins) > 1, [req[r] EXCEPT !.at = "member.commit"])
    /\ UNCHANGED <<phase, archived, isPublic, members, groups, contents>>

\* Mutant: the row of a removed member stays, without a role.
ChangeMemberCommitKeepsRow(r) ==
    /\ req[r].at = "member.commit"
    /\ req[r].target \in DOMAIN members
    /\ members' = WithRow(members, req[r].target, req[r].role)
    /\ Finish(r)
    /\ UNCHANGED <<phase, archived, isPublic, groups, contents>>

\* UPDATE or DELETE of the row, which must still be there.
ChangeMemberCommit(r) ==
    /\ req[r].at = "member.commit"
    /\ req[r].target \in DOMAIN members
    /\ members' = IF req[r].role = NoRole
                  THEN WithoutRow(members, req[r].target)
                  ELSE WithRow(members, req[r].target, req[r].role)
    /\ Finish(r)
    /\ UNCHANGED <<phase, archived, isPublic, groups, contents>>

-----------------------------------------------------------------------------
(* Groups: POST, PATCH and DELETE /team-folders/:id/groups.  role is the role  *)
(* to give, NoRole to remove the row; the role a group has is not looked at.   *)

ChangeGroup(r, u, op, g, role) ==
    /\ req[r] = Idle
    /\ Readable
    /\ Goto(r, [at |-> "group.role", op |-> op, user |-> u, group |-> g, role |-> role])
    /\ UNCHANGED <<phase, archived, isPublic, members, groups, contents>>

ChangeGroupRole(r) ==
    LET u == req[r].user
        role == req[r].role
    IN
    /\ req[r].at = "group.role"
    /\ GotoIf(r, /\ MayMembers(u, CallerRole(u))
                 /\ role # NoRole => MayAssign(u, CallerRole(u), role),
              [req[r] EXCEPT !.at = "group.row"])
    /\ UNCHANGED <<phase, archived, isPublic, members, groups, contents>>

GroupRowFits(op, g) == IF op = "addGroup" THEN g \notin DOMAIN groups ELSE g \in DOMAIN groups

ChangeGroupRow(r) ==
    /\ req[r].at = "group.row"
    /\ GotoIf(r, GroupRowFits(req[r].op, req[r].group), [req[r] EXCEPT !.at = "group.commit"])
    /\ UNCHANGED <<phase, archived, isPublic, members, groups, contents>>

ChangeGroupCommit(r) ==
    /\ req[r].at = "group.commit"
    /\ phase = "live"
    /\ GroupRowFits(req[r].op, req[r].group)
    /\ groups' = IF req[r].role = NoRole
                 THEN WithoutRow(groups, req[r].group)
                 ELSE WithRow(groups, req[r].group, req[r].role)
    /\ Finish(r)
    /\ UNCHANGED <<phase, archived, isPublic, members, contents>>

-----------------------------------------------------------------------------
(* Settings and name, archive, restore, delete                                 *)

Manage(r, u, op, public) ==
    /\ req[r] = Idle
    /\ phase = "live"
    /\ archived = (op = "restore")
    /\ Goto(r, [at |-> "manage.role", op |-> op, user |-> u, public |-> public])
    /\ UNCHANGED <<phase, archived, isPublic, members, groups, contents>>

ManageRole(r) ==
    /\ req[r].at = "manage.role"
    /\ GotoIf(r, MayManage(req[r].user, CallerRole(req[r].user)),
              [req[r] EXCEPT !.at = IF req[r].op = "remove" THEN "manage.folders"
                                    ELSE "manage.commit"])
    /\ UNCHANGED <<phase, archived, isPublic, members, groups, contents>>

\* assertTeamFolderEmpty: a folder that has a parent is looked for, then a file.
RemoveFolders(r) ==
    /\ req[r].at = "manage.folders"
    /\ GotoIf(r, "folder" \notin contents, [req[r] EXCEPT !.at = "manage.files"])
    /\ UNCHANGED <<phase, archived, isPublic, members, groups, contents>>

\* Mutant: files are not looked for.
RemoveFilesUnchecked(r) ==
    /\ req[r].at = "manage.files"
    /\ GotoIf(r, TRUE, [req[r] EXCEPT !.at = "manage.commit"])
    /\ UNCHANGED <<phase, archived, isPublic, members, groups, contents>>

RemoveFiles(r) ==
    /\ req[r].at = "manage.files"
    /\ GotoIf(r, "file" \notin contents, [req[r] EXCEPT !.at = "manage.commit"])
    /\ UNCHANGED <<phase, archived, isPublic, members, groups, contents>>

UpdateCommit(r) ==
    /\ req[r].at = "manage.commit" /\ req[r].op # "remove"
    /\ phase = "live"
    /\ isPublic' = IF req[r].op = "updateSettings" THEN req[r].public ELSE isPublic
    /\ archived' = IF req[r].op = "updateSettings" THEN archived ELSE req[r].op = "archive"
    /\ Finish(r)
    /\ UNCHANGED <<phase, members, groups, contents>>

\* The transaction takes the member rows and every folder with it; a file that
\* was filed in one loses its folder (ON DELETE SET NULL).
RemoveCommit(r) ==
    /\ req[r].at = "manage.commit" /\ req[r].op = "remove"
    /\ phase = "live"
    /\ phase' = "deleted"
    /\ members' = NoRows
    /\ groups' = NoRows
    /\ contents' = {}
    /\ Finish(r)
    /\ UNCHANGED <<archived, isPublic>>

-----------------------------------------------------------------------------
(* What FoldersService and FilesService.requestUpload do to a Team Folder: they  *)
(* look at the member row only, and not at archived_at.                        *)

\* The kinds that a folder of this kind may have been before a move; none stays
\* behind if it was the last.
Left(item) == {{}, {"folder", "topFolder"} \ {item}}

\* A folder or file is created, or a folder moved.  One that names the Team Folder
\* and no parent goes to the top level.  A move changes parent_id and leaves
\* team_folder_id: also to the top level, where the children of a purged folder go
\* as well (ON DELETE SET NULL), and from there below another.
AddItem(r, u, item, from) ==
    /\ req[r] = Idle
    /\ phase = "live"
    /\ from \subseteq contents
    /\ item \in Filed
    /\ Goto(r, [at |-> "item.role", user |-> u, item |-> item, from |-> from])
    /\ UNCHANGED <<phase, archived, isPublic, members, groups, contents>>

AddItemRole(r) ==
    LET u == req[r].user IN
    /\ req[r].at = "item.role"
    /\ GotoIf(r, CanWrite(Caller(u), TeamResource(MemberRole(u))),
              [req[r] EXCEPT !.at = "item.commit"])
    /\ UNCHANGED <<phase, archived, isPublic, members, groups, contents>>

AddItemCommit(r) ==
    /\ req[r].at = "item.commit"
    /\ phase = "live"
    /\ contents' = (contents \ req[r].from) \cup {req[r].item}
    /\ Finish(r)
    /\ UNCHANGED <<phase, archived, isPublic, members, groups>>

\* The last item of a kind is deleted, or a file is moved out.
RemoveItems(item) ==
    /\ phase = "live"
    /\ item \in contents
    /\ contents' = contents \ {item}
    /\ UNCHANGED <<phase, archived, isPublic, members, groups, req>>

-----------------------------------------------------------------------------
\* A write that cannot succeed: the Team Folder is gone, the row is there already
\* or is gone.
Refused(r) ==
    \/ /\ req[r].at \in {"join.commit", "addMember.commit", "group.commit",
                         "manage.commit", "item.commit"}
       /\ phase # "live"
    \/ req[r].at = "join.commit" /\ req[r].user \in DOMAIN members
    \/ req[r].at = "addMember.commit" /\ req[r].target \in DOMAIN members
    \/ req[r].at = "member.commit" /\ req[r].target \notin DOMAIN members
    \/ req[r].at = "group.commit" /\ ~GroupRowFits(req[r].op, req[r].group)

Fail(r) ==
    /\ req[r] # Idle
    /\ Refused(r)
    /\ Finish(r)
    /\ UNCHANGED <<phase, archived, isPublic, members, groups, contents>>

Begin(r, u) ==
    \/ Join(r, u)
    \/ \E target \in User, role \in Grantable :
          \/ AddMember(r, u, target, role)
          \/ ChangeMember(r, u, "updateMember", target, role)
    \/ \E target \in User : ChangeMember(r, u, "removeMember", target, NoRole)
    \/ \E g \in Group, op \in {"addGroup", "updateGroup"}, role \in Grantable :
          ChangeGroup(r, u, op, g, role)
    \/ \E g \in Group : ChangeGroup(r, u, "removeGroup", g, NoRole)
    \/ \E public \in BOOLEAN : Manage(r, u, "updateSettings", public)
    \/ \E op \in {"archive", "restore", "remove"} : Manage(r, u, op, FALSE)
    \/ AddItem(r, u, "file", {})
    \/ \E item \in {"folder", "topFolder"} : \E from \in Left(item) : AddItem(r, u, item, from)

Continue(r) ==
    \/ JoinExisting(r)
    \/ JoinCommit(r)
    \/ AddMemberRole(r)
    \/ AddMemberExisting(r)
    \/ AddMemberCommit(r)
    \/ ChangeMemberRole(r)
    \/ ChangeMemberRow(r)
    \/ ChangeMemberCount(r)
    \/ ChangeMemberCommit(r)
    \/ ChangeGroupRole(r)
    \/ ChangeGroupRow(r)
    \/ ChangeGroupCommit(r)
    \/ ManageRole(r)
    \/ RemoveFolders(r)
    \/ RemoveFiles(r)
    \/ UpdateCommit(r)
    \/ RemoveCommit(r)
    \/ AddItemRole(r)
    \/ AddItemCommit(r)
    \/ Fail(r)

Next ==
    \/ \E u \in User, public \in BOOLEAN : Create(u, public)
    \/ \E item \in Item : RemoveItems(item)
    \/ \E r \in Request : Continue(r) \/ \E u \in User : Begin(r, u)

Spec == Init /\ [][Next]_vars

-----------------------------------------------------------------------------
(* Type invariant, and what holds however requests interleave *)

TypeOK ==
    /\ phase \in {"new", "live", "deleted"}
    /\ archived \in BOOLEAN
    /\ isPublic \in BOOLEAN
    /\ DOMAIN members \subseteq User
    /\ members \in [DOMAIN members -> TeamFolderRole]
    /\ DOMAIN groups \subseteq Group
    /\ groups \in [DOMAIN groups -> TeamFolderRole]
    /\ contents \subseteq Item
    /\ req \in [Request -> RequestState]

Elevated == {"ADMIN", "ORGANIZER"}

\* Nobody can appoint an ADMIN or ORGANIZER any more: no organization
\* administrator, no ADMIN row, and no such appointment past its check.
NoAuthority ==
    /\ phase # "new"
    /\ OrgAdmin = {}
    /\ Admins = {}
    /\ \A g \in DOMAIN groups : groups[g] # "ADMIN"
    /\ \A r \in Request :
          /\ req[r].at \in {"addMember.existing", "addMember.commit", "member.count",
                           "member.commit", "group.row", "group.commit"} =>
                req[r].role \notin Elevated
          /\ req[r].at = "member.row" => req[r].actor # "ADMIN"

NoNewElevated ==
    /\ \A u \in DOMAIN members' :
          members'[u] \in Elevated => u \in DOMAIN members /\ members[u] = members'[u]
    /\ \A g \in DOMAIN groups' :
          groups'[g] \in Elevated => g \in DOMAIN groups /\ groups[g] = groups'[g]

\* Organizers, however many and however their requests interleave, cannot bring
\* an ADMIN or another ORGANIZER into being once the last ADMIN is gone.
ElevationNeedsAdmin == [][NoAuthority => NoNewElevated /\ NoAuthority']_vars

\* A role changes in one way: by an update of that row to that role.  Joining or
\* adding a member that someone else has added meanwhile leaves the role alone.
RolesChangeByUpdate ==
    [][\A u \in DOMAIN members \cap DOMAIN members' :
          members'[u] # members[u] =>
              \E r \in Request : /\ req[r].at = "member.commit"
                                /\ req[r].target = u /\ req[r].role = members'[u]
                                /\ req'[r] = Idle]_vars

-----------------------------------------------------------------------------
(* What holds while one request runs at a time *)

\* "Last TF ADMIN cannot be removed".
LastAdmin == phase = "live" => Admins # {}

\* What a delete sweeps away with the Team Folder holds no file and is not below
\* another folder: the two checks before the transaction still hold in it, and
\* nothing is filed or moved in between (team-folders.service.ts: 309-333, 754-771).
DeletedWithoutFiles ==
    [][phase' = "deleted" /\ phase = "live" => contents \subseteq {"topFolder"}]_vars

\* "ORGANIZER cannot remove TF ADMIN or ORGANIZER rows": a row that an organizer
\* may not hand out is changed or removed only for a caller who was found to be
\* more than an organizer.
OrganizerLimits ==
    [][\A r \in Request :
          /\ req[r].at = "member.commit" /\ req[r].target \in DOMAIN members
          /\ members[req[r].target] \notin AssignableByOrganizer
          /\ members' # members /\ req'[r] = Idle
          => req[r].user \in OrgAdmin \/ req[r].actor = "ADMIN"]_vars

\* "Team Folder is archived and read-only", for its members and groups.
ArchivedMembersFrozen ==
    [][archived /\ archived' => UNCHANGED <<members, groups, isPublic>>]_vars

\* Nothing has happened to a Team Folder that is still to be created.
BlankBeforeCreate ==
    phase = "new" =>
        /\ DOMAIN members = {} /\ ~archived
        /\ \A r \in Request : req[r] = Idle

\* A request that is about to take an ADMIN away leaves another.
AnotherAdmin ==
    \A r \in Request :
        req[r].at = "member.commit" /\ req[r].role # "ADMIN" /\ phase = "live" =>
            \E a \in Admins : a # req[r].target

\* A request past the check of a member's present role could be given that role.
PresentRoleChecked ==
    \A r \in Request :
        /\ req[r].at \in {"member.count", "member.commit"}
        /\ req[r].target \in DOMAIN members
        => MayAssign(req[r].user, req[r].actor, members[req[r].target])

\* A delete past its checks has a Team Folder without files before it, and without
\* folders below others.
EmptinessChecked ==
    \A r \in Request :
        /\ req[r].at = "manage.files" => "folder" \notin contents
        /\ req[r].at = "manage.commit" /\ req[r].op = "remove" =>
              contents \subseteq {"topFolder"}

\* A request about members, groups or settings found the folder not archived.
ArchivalChecked ==
    archived => \A r \in Request :
        \/ req[r].at \in {"idle", "item.role", "item.commit"}
        \/ req[r].at \in {"manage.role", "manage.commit"} /\ req[r].op = "restore"

\* What the four properties above need to be inductive, with one request at a
\* time: what a handler has checked still holds when it writes.
SerialInv ==
    /\ TypeOK
    /\ BlankBeforeCreate
    /\ LastAdmin
    /\ AnotherAdmin
    /\ PresentRoleChecked
    /\ EmptinessChecked
    /\ ArchivalChecked

-----------------------------------------------------------------------------
(* What is said and not kept *)

\* "Delete Team Folder is rejected while any folder/file still references it"
\* (specs/001-team-folders-acl/spec.md: 237): only an empty one is deleted.
DeletedEmpty == [][phase' = "deleted" /\ phase = "live" => contents = {}]_vars

\* "Team Folder is archived and read-only", for what is filed in it.
ArchivedReadOnly == [][archived /\ archived' => contents' \subseteq contents]_vars
=============================================================================
