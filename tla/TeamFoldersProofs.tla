------------------------- MODULE TeamFoldersProofs -------------------------
(***************************************************************************)
(* Proofs about Permissions and TeamFolders: how the permission predicates  *)
(* are ordered, what holds however requests interleave, and what holds      *)
(* while one request runs at a time.                                        *)
(***************************************************************************)
EXTENDS TeamFolders, FiniteSetTheorems, TLAPS

(***************************************************************************)
(* Permissions                                                             *)
(***************************************************************************)

\* PermissionService: who may manage a Team Folder may manage its members, who
\* may manage its members may write in it, and who may write may read; none of
\* them reaches into another organization.
THEOREM PermissionsAreOrdered ==
  ASSUME NEW caller, NEW resource
  PROVE  /\ CanManageTeamFolder(caller, resource) => CanManageMembers(caller, resource)
         /\ CanManageMembers(caller, resource) => CanWrite(caller, resource)
         /\ CanWrite(caller, resource) => CanRead(caller, resource)
         /\ CanRead(caller, resource) => caller.org = resource.org
BY DEF CanManageTeamFolder, CanManageMembers, CanWrite, CanRead, IsSameTenant,
       IsOrgAdmin, InTeamFolder, NoRole

Role == TeamFolderRole \cup {NoRole}

\* HighestRole returns one of the roles given, none of which is above it.
LEMMA HighestRoleIsHighest ==
  ASSUME NEW roles \in SUBSET Role
  PROVE  /\ HighestRole(roles) \in roles \cup {NoRole}
         /\ \A q \in roles : Rank[q] <= Rank[HighestRole(roles)]
<1>. DEFINE above(r) == \A q \in roles : Rank[q] <= Rank[r]
<1>1. \E r \in roles \cup {NoRole} : above(r)
  <2>. USE DEF Role, TeamFolderRole, NoRole, Rank
  <2>1. CASE "ADMIN" \in roles
    BY <2>1
  <2>2. CASE "ADMIN" \notin roles /\ "ORGANIZER" \in roles
    BY <2>2
  <2>3. CASE {"ADMIN", "ORGANIZER"} \cap roles = {} /\ "EDITOR" \in roles
    BY <2>3
  <2>4. CASE {"ADMIN", "ORGANIZER", "EDITOR"} \cap roles = {} /\ "COMMENTER" \in roles
    BY <2>4
  <2>5. CASE roles \subseteq {"VIEWER", "NONE"} /\ "VIEWER" \in roles
    BY <2>5
  <2>6. CASE roles \subseteq {"NONE"}
    BY <2>6
  <2>. QED
    BY <2>1, <2>2, <2>3, <2>4, <2>5, <2>6
<1>. QED
  BY <1>1 DEF HighestRole

\* A caller is an ADMIN of the Team Folder by a row that says so, or not at all.
LEMMA CallerRoleFromRows ==
  ASSUME TypeOK, NEW u
  PROVE  /\ CallerRole(u) \in Role
         /\ CallerRole(u) = "ADMIN" =>
               u \in Admins \/ \E g \in DOMAIN groups : groups[g] = "ADMIN"
<1>. DEFINE roles == {MemberRole(u)} \cup GroupRoles(u)
<1>1. roles \in SUBSET Role
  BY DEF TypeOK, MemberRole, GroupRoles, Role
<1>2. CallerRole(u) \in roles \cup {NoRole}
  BY <1>1, HighestRoleIsHighest DEF CallerRole
<1>. QED
  BY <1>1, <1>2 DEF MemberRole, GroupRoles, Admins, NoRole, Role

(***************************************************************************)
(* Type correctness                                                        *)
(***************************************************************************)

\* The tables after a row is written or deleted.
LEMMA MembersTyped ==
  ASSUME TypeOK, NEW u \in User
  PROVE  /\ \A role \in TeamFolderRole :
               /\ DOMAIN WithRow(members, u, role) \subseteq User
               /\ WithRow(members, u, role)
                     \in [DOMAIN WithRow(members, u, role) -> TeamFolderRole]
         /\ DOMAIN WithoutRow(members, u) \subseteq User
         /\ WithoutRow(members, u) \in [DOMAIN WithoutRow(members, u) -> TeamFolderRole]
BY DEF TypeOK, WithRow, WithoutRow

LEMMA GroupsTyped ==
  ASSUME TypeOK, NEW g \in Group
  PROVE  /\ \A role \in TeamFolderRole :
               /\ DOMAIN WithRow(groups, g, role) \subseteq Group
               /\ WithRow(groups, g, role)
                     \in [DOMAIN WithRow(groups, g, role) -> TeamFolderRole]
         /\ DOMAIN WithoutRow(groups, g) \subseteq Group
         /\ WithoutRow(groups, g) \in [DOMAIN WithoutRow(groups, g) -> TeamFolderRole]
BY DEF TypeOK, WithRow, WithoutRow

LEMMA InitTypeOK == Init => TypeOK
<1>. SUFFICES ASSUME Init PROVE TypeOK
  OBVIOUS
<1>1. /\ DOMAIN NoRows = {}
      /\ NoRows \in [DOMAIN NoRows -> TeamFolderRole]
  BY DEF NoRows
<1>2. req \in [Request -> RequestState]
  BY DEF Init, Idle, RequestState
<1>. QED
  BY <1>1, <1>2 DEF Init, TypeOK

LEMMA BeginTypeOK ==
  ASSUME TypeOK, NEW r \in Request, NEW u \in User, Begin(r, u)
  PROVE  TypeOK'
<1>. USE DEF Goto, Idle, RequestState
<1>. Grantable \subseteq TeamFolderRole
  BY TeamFoldersAssumption
<1>1. CASE Join(r, u)
  BY <1>1 DEF TypeOK, Join
<1>2. ASSUME NEW target \in User, NEW role \in Grantable, AddMember(r, u, target, role)
      PROVE  TypeOK'
  BY <1>2 DEF TypeOK, AddMember
<1>3. ASSUME NEW target \in User, NEW op \in MemberOp, NEW role \in Role,
             ChangeMember(r, u, op, target, role)
      PROVE  TypeOK'
  BY <1>3 DEF TypeOK, ChangeMember, Role
<1>4. ASSUME NEW g \in Group, NEW op \in GroupOp, NEW role \in Role,
             ChangeGroup(r, u, op, g, role)
      PROVE  TypeOK'
  BY <1>4 DEF TypeOK, ChangeGroup, Role
<1>5. ASSUME NEW op \in ManageOp, NEW public \in BOOLEAN, Manage(r, u, op, public)
      PROVE  TypeOK'
  BY <1>5 DEF TypeOK, Manage
<1>6. ASSUME NEW item \in Item, NEW from \in SUBSET Item, AddItem(r, u, item, from)
      PROVE  TypeOK'
  BY <1>6 DEF TypeOK, AddItem
<1>7. /\ "file" \in Item /\ {} \in SUBSET Item
      /\ \A item \in {"folder", "topFolder"} :
            item \in Item /\ Left(item) \subseteq SUBSET Item
  BY DEF Left, Item
<1>8. ASSUME \E item \in {"folder", "topFolder"} : \E from \in Left(item) :
                AddItem(r, u, item, from)
      PROVE  TypeOK'
  BY <1>6, <1>7, <1>8
<1>9. ASSUME AddItem(r, u, "file", {})
      PROVE  TypeOK'
  BY <1>6, <1>7, <1>9
<1>. QED
  BY <1>1, <1>2, <1>3, <1>4, <1>5, <1>8, <1>9
  DEF Begin, MemberOp, GroupOp, ManageOp, Role

LEMMA ContinueTypeOK ==
  ASSUME TypeOK, NEW r \in Request, Continue(r)
  PROVE  TypeOK'
<1>. USE DEF Goto, GotoIf, Finish, Idle, RequestState
<1>1. CASE JoinExisting(r)
  BY <1>1 DEF TypeOK, JoinExisting
<1>2. CASE JoinCommit(r)
  <2>1. /\ req[r].user \in User
        /\ members' = WithRow(members, req[r].user, "VIEWER")
    BY <1>2 DEF TypeOK, JoinCommit
  <2>. QED
    BY <1>2, <2>1, MembersTyped DEF TypeOK, JoinCommit, TeamFolderRole
<1>3. CASE AddMemberRole(r)
  BY <1>3 DEF TypeOK, AddMemberRole
<1>4. CASE AddMemberExisting(r)
  BY <1>4 DEF TypeOK, AddMemberExisting
<1>5. CASE AddMemberCommit(r)
  <2>1. /\ req[r].target \in User /\ req[r].role \in TeamFolderRole
        /\ members' = WithRow(members, req[r].target, req[r].role)
    BY <1>5 DEF TypeOK, AddMemberCommit
  <2>. QED
    BY <1>5, <2>1, MembersTyped DEF TypeOK, AddMemberCommit
<1>6. CASE ChangeMemberRole(r)
  <2>1. CallerRole(req[r].user) \in TeamFolderRole \cup {NoRole}
    BY CallerRoleFromRows DEF Role
  <2>. QED
    BY <1>6, <2>1 DEF TypeOK, ChangeMemberRole
<1>7. CASE ChangeMemberRow(r)
  BY <1>7 DEF TypeOK, ChangeMemberRow
<1>8. CASE ChangeMemberCount(r)
  BY <1>8 DEF TypeOK, ChangeMemberCount
<1>9. CASE ChangeMemberCommit(r)
  <2>1. req[r].target \in User /\ req[r].role \in TeamFolderRole \cup {NoRole}
    BY <1>9 DEF TypeOK, ChangeMemberCommit
  <2>2. DOMAIN members' \subseteq User /\ members' \in [DOMAIN members' -> TeamFolderRole]
    BY <1>9, <2>1, MembersTyped DEF ChangeMemberCommit
  <2>. QED
    BY <1>9, <2>2 DEF TypeOK, ChangeMemberCommit
<1>10. CASE ChangeGroupRole(r)
  BY <1>10 DEF TypeOK, ChangeGroupRole
<1>11. CASE ChangeGroupRow(r)
  BY <1>11 DEF TypeOK, ChangeGroupRow
<1>12. CASE ChangeGroupCommit(r)
  <2>1. req[r].group \in Group /\ req[r].role \in TeamFolderRole \cup {NoRole}
    BY <1>12 DEF TypeOK, ChangeGroupCommit
  <2>2. DOMAIN groups' \subseteq Group /\ groups' \in [DOMAIN groups' -> TeamFolderRole]
    BY <1>12, <2>1, GroupsTyped DEF ChangeGroupCommit
  <2>. QED
    BY <1>12, <2>2 DEF TypeOK, ChangeGroupCommit
<1>13. CASE ManageRole(r)
  BY <1>13 DEF TypeOK, ManageRole
<1>14. CASE RemoveFolders(r) \/ RemoveFiles(r)
  BY <1>14 DEF TypeOK, RemoveFolders, RemoveFiles
<1>15. CASE UpdateCommit(r)
  BY <1>15 DEF TypeOK, UpdateCommit
<1>16. CASE RemoveCommit(r)
  BY <1>16 DEF TypeOK, RemoveCommit, NoRows
<1>17. CASE AddItemRole(r)
  BY <1>17 DEF TypeOK, AddItemRole
<1>18. CASE AddItemCommit(r)
  BY <1>18 DEF TypeOK, AddItemCommit
<1>19. CASE Fail(r)
  BY <1>19 DEF TypeOK, Fail
<1>. QED
  BY <1>1, <1>2, <1>3, <1>4, <1>5, <1>6, <1>7, <1>8, <1>9, <1>10, <1>11, <1>12, <1>13,
     <1>14, <1>15, <1>16, <1>17, <1>18, <1>19 DEF Continue

LEMMA NextTypeOK == TypeOK /\ [Next]_vars => TypeOK'
<1>. SUFFICES ASSUME TypeOK, [Next]_vars PROVE TypeOK'
  OBVIOUS
<1>1. ASSUME NEW u \in User, NEW public \in BOOLEAN, Create(u, public) PROVE TypeOK'
  <2>1. members' = WithRow(members, u, "ADMIN") /\ "ADMIN" \in TeamFolderRole
    BY <1>1 DEF Create, TeamFolderRole
  <2>. QED
    BY <1>1, <2>1, MembersTyped DEF TypeOK, Create
<1>2. ASSUME NEW item \in Item, RemoveItems(item) PROVE TypeOK'
  BY <1>2 DEF TypeOK, RemoveItems
<1>3. CASE UNCHANGED vars
  BY <1>3 DEF TypeOK, vars
<1>. QED
  BY <1>1, <1>2, <1>3, BeginTypeOK, ContinueTypeOK DEF Next

\* Every variable keeps its type, whatever the users, groups and requests are.
THEOREM TypeCorrect == Spec => []TypeOK
<1>. QED
  BY InitTypeOK, NextTypeOK, PTL DEF Spec

(***************************************************************************)
(* However requests interleave                                             *)
(***************************************************************************)

\* A caller who is neither an organization administrator nor found to be an ADMIN
\* is given the roles below ORGANIZER to hand out, at most.
LEMMA OrganizersAssign ==
  ASSUME NEW u, u \notin OrgAdmin, NEW actor, actor # "ADMIN", NEW role,
         MayAssign(u, actor, role)
  PROVE  role \notin Elevated
BY DEF MayAssign, CanAssignTeamFolderRole, IsOrgAdmin, Caller, TeamResource, Elevated,
       AssignableByOrganizer

LEMMA NoAuthorityBegin ==
  ASSUME TypeOK, NoAuthority, NEW r \in Request, NEW u \in User, Begin(r, u)
  PROVE  NoNewElevated /\ NoAuthority'
<1>. USE DEF Goto, Idle
<1>1. /\ UNCHANGED <<phase, members, groups>>
      /\ req' = [req EXCEPT ![r] = req'[r]]
      /\ req'[r].at \in {"join.existing", "addMember.role", "member.role", "group.role",
                        "manage.role", "item.role"}
  BY DEF TypeOK, Begin, Join, AddMember, ChangeMember, ChangeGroup, Manage, AddItem
<1>2. \A q \in Request \ {r} : req'[q] = req[q]
  BY <1>1 DEF TypeOK
<1>3. Admins' = Admins
  BY <1>1 DEF Admins
<1>4. NoNewElevated
  BY <1>1 DEF NoNewElevated
<1>. QED
  BY <1>1, <1>2, <1>3, <1>4 DEF NoAuthority

LEMMA NoAuthorityContinue ==
  ASSUME TypeOK, NoAuthority, NEW r \in Request, Continue(r)
  PROVE  NoNewElevated /\ NoAuthority'
<1>. DEFINE u == req[r].user
            guarded == {"addMember.existing", "addMember.commit", "member.count",
                        "member.commit", "group.row", "group.commit"}
            harmless(s) == /\ s.at \in guarded => s.role \notin Elevated
                           /\ s.at = "member.row" => s.actor # "ADMIN"
            quiet == UNCHANGED <<phase, members, groups>>
<1>. USE DEF Goto, GotoIf, Finish, Idle
<1>1. u \notin OrgAdmin /\ CallerRole(u) # "ADMIN"
  BY CallerRoleFromRows DEF NoAuthority
<1>2. harmless(req[r])
  BY DEF NoAuthority
<1>3. harmless(Idle)
  OBVIOUS
<1>4. ASSUME quiet, req' = [req EXCEPT ![r] = req'[r]], harmless(req'[r])
      PROVE  NoNewElevated /\ NoAuthority'
  <2>1. \A q \in Request \ {r} : req'[q] = req[q]
    BY <1>4 DEF TypeOK
  <2>2. Admins' = Admins /\ NoNewElevated
    BY <1>4 DEF Admins, NoNewElevated
  <2>. QED
    BY <1>4, <2>1, <2>2 DEF NoAuthority
<1>5. ASSUME NEW t, NEW role, role \notin Elevated, UNCHANGED <<phase, groups>>,
             req' = [req EXCEPT ![r] = Idle],
             members' = WithRow(members, t, role) \/ members' = WithoutRow(members, t)
      PROVE  NoNewElevated /\ NoAuthority'
  <2>1. \A q \in Request : req'[q] = IF q = r THEN Idle ELSE req[q]
    BY <1>5 DEF TypeOK
  <2>2. NoNewElevated
    BY <1>5 DEF NoNewElevated, WithRow, WithoutRow
  <2>3. Admins' = {}
    BY <1>5 DEF NoAuthority, Admins, WithRow, WithoutRow, Elevated
  <2>. QED
    BY <1>5, <2>1, <2>2, <2>3 DEF NoAuthority
<1>6. CASE JoinCommit(r)
  <2>1. "VIEWER" \notin Elevated
    BY DEF Elevated
  <2>. QED
    BY <1>5, <1>6, <2>1 DEF JoinCommit
<1>7. CASE AddMemberRole(r)
  <2>1. UNCHANGED <<phase, members, groups>> /\ req' = [req EXCEPT ![r] = req'[r]]
    BY <1>7 DEF TypeOK, AddMemberRole
  <2>2. CASE MayAssign(u, CallerRole(u), req[r].role)
    <3>1. req[r].role \notin Elevated
      BY <1>1, <2>2, OrganizersAssign
    <3>2. req'[r] = [req[r] EXCEPT !.at = "addMember.existing"]
      BY <1>7, <2>2 DEF TypeOK, AddMemberRole
    <3>3. req[r] \in [at : {"addMember.role"}, user : User, target : User,
                      role : TeamFolderRole]
      BY <1>7 DEF TypeOK, AddMemberRole, RequestState
    <3>. QED
      BY <1>4, <2>1, <3>1, <3>2, <3>3
  <2>3. CASE ~MayAssign(u, CallerRole(u), req[r].role)
    <3>1. req'[r] = Idle
      BY <1>7, <2>3 DEF TypeOK, AddMemberRole
    <3>. QED
      BY <1>3, <1>4, <2>1, <3>1
  <2>. QED
    BY <2>2, <2>3
<1>8. CASE AddMemberExisting(r)
  BY <1>2, <1>4, <1>8 DEF TypeOK, AddMemberExisting, RequestState
<1>9. CASE AddMemberCommit(r)
  BY <1>2, <1>5, <1>9 DEF AddMemberCommit
<1>10. CASE ChangeMemberRole(r)
  BY <1>1, <1>4, <1>10 DEF TypeOK, ChangeMemberRole
<1>11. CASE ChangeMemberRow(r)
  <2>. DEFINE target == req[r].target
              role == req[r].role
              next == IF members[target] = "ADMIN" /\ role # "ADMIN"
                      THEN "member.count" ELSE "member.commit"
              ok == /\ target \in DOMAIN members
                    /\ MayAssign(u, req[r].actor, members[target])
                    /\ role # NoRole => MayAssign(u, req[r].actor, role)
  <2>1. quiet /\ req' = [req EXCEPT ![r] = req'[r]]
    BY <1>11 DEF TypeOK, ChangeMemberRow
  <2>2. req'[r] = IF ok THEN [req[r] EXCEPT !.at = next] ELSE Idle
    BY <1>11 DEF TypeOK, ChangeMemberRow
  <2>3. ok => role \notin Elevated
    <3>1. req[r].actor # "ADMIN"
      BY <1>2, <1>11 DEF ChangeMemberRow
    <3>. QED
      BY <1>1, <3>1, OrganizersAssign DEF Elevated, NoRole
  <2>4. req[r] \in [at : {"member.row"}, op : MemberOp, user : User, target : User,
                    role : TeamFolderRole \cup {NoRole},
                    actor : TeamFolderRole \cup {NoRole}]
    BY <1>11 DEF TypeOK, ChangeMemberRow, RequestState
  <2>5. /\ [req[r] EXCEPT !.at = next].role = role
        /\ [req[r] EXCEPT !.at = next].at # "member.row"
    BY <2>4
  <2>. HIDE DEF next, ok, role
  <2>6. harmless(req'[r])
    BY <1>3, <2>2, <2>3, <2>5
  <2>. QED
    BY <1>4, <2>1, <2>6
<1>12. CASE ChangeMemberCount(r)
  BY <1>2, <1>4, <1>12 DEF TypeOK, ChangeMemberCount, RequestState
<1>13. CASE ChangeMemberCommit(r)
  BY <1>2, <1>5, <1>13 DEF ChangeMemberCommit
<1>14. CASE ChangeGroupRole(r)
  <2>. DEFINE role == req[r].role
              ok == /\ MayMembers(u, CallerRole(u))
                    /\ role # NoRole => MayAssign(u, CallerRole(u), role)
  <2>1. quiet /\ req' = [req EXCEPT ![r] = req'[r]]
    BY <1>14 DEF TypeOK, ChangeGroupRole
  <2>2. req'[r] = IF ok THEN [req[r] EXCEPT !.at = "group.row"] ELSE Idle
    BY <1>14 DEF TypeOK, ChangeGroupRole
  <2>3. ok => role \notin Elevated
    BY <1>1, OrganizersAssign DEF Elevated, NoRole
  <2>4. req[r] \in [at : {"group.role"}, op : GroupOp, user : User, group : Group,
                    role : TeamFolderRole \cup {NoRole}]
    BY <1>14 DEF TypeOK, ChangeGroupRole, RequestState
  <2>5. /\ [req[r] EXCEPT !.at = "group.row"].role = role
        /\ [req[r] EXCEPT !.at = "group.row"].at # "member.row"
    BY <2>4
  <2>. HIDE DEF ok, role
  <2>6. harmless(req'[r])
    BY <1>3, <2>2, <2>3, <2>5
  <2>. QED
    BY <1>4, <2>1, <2>6
<1>15. CASE ChangeGroupRow(r)
  BY <1>2, <1>4, <1>15 DEF TypeOK, ChangeGroupRow, RequestState
<1>16. CASE ChangeGroupCommit(r)
  <2>1. req[r].role \notin Elevated
    BY <1>2, <1>16 DEF ChangeGroupCommit
  <2>2. \A q \in Request : req'[q] = IF q = r THEN Idle ELSE req[q]
    BY <1>16 DEF TypeOK, ChangeGroupCommit
  <2>3. UNCHANGED <<phase, members>> /\ Admins' = Admins
    BY <1>16 DEF ChangeGroupCommit, Admins
  <2>4. \A g \in DOMAIN groups' :
           groups'[g] \in Elevated => g \in DOMAIN groups /\ groups[g] = groups'[g]
    BY <1>16, <2>1 DEF ChangeGroupCommit, WithRow, WithoutRow
  <2>5. \A g \in DOMAIN groups' : groups'[g] # "ADMIN"
    BY <2>4 DEF Elevated, NoAuthority
  <2>. QED
    BY <2>2, <2>3, <2>4, <2>5 DEF NoAuthority, NoNewElevated
<1>17. CASE RemoveCommit(r)
  <2>1. \A q \in Request : req'[q] = IF q = r THEN Idle ELSE req[q]
    BY <1>17 DEF TypeOK, RemoveCommit
  <2>2. /\ DOMAIN members' = {} /\ DOMAIN groups' = {}
        /\ phase' # "new"
    BY <1>17 DEF RemoveCommit, NoRows
  <2>3. Admins' = {}
    BY <2>2 DEF Admins
  <2>. QED
    BY <2>1, <2>2, <2>3 DEF NoAuthority, NoNewElevated
<1>18. CASE JoinExisting(r)
  BY <1>4, <1>18 DEF TypeOK, JoinExisting, RequestState
<1>19. CASE ManageRole(r)
  BY <1>4, <1>19 DEF TypeOK, ManageRole, RequestState
<1>20. CASE RemoveFolders(r) \/ RemoveFiles(r)
  BY <1>4, <1>20 DEF TypeOK, RemoveFolders, RemoveFiles, RequestState
<1>21. CASE UpdateCommit(r) \/ AddItemCommit(r) \/ Fail(r)
  BY <1>3, <1>4, <1>21 DEF TypeOK, UpdateCommit, AddItemCommit, Fail
<1>22. CASE AddItemRole(r)
  BY <1>4, <1>22 DEF TypeOK, AddItemRole, RequestState
<1>. QED
  BY <1>6, <1>7, <1>8, <1>9, <1>10, <1>11, <1>12, <1>13, <1>14, <1>15, <1>16, <1>17,
     <1>18, <1>19, <1>20, <1>21, <1>22 DEF Continue

LEMMA NoAuthorityNext ==
  TypeOK /\ [Next]_vars => (NoAuthority => NoNewElevated /\ NoAuthority')
<1>. SUFFICES ASSUME TypeOK, [Next]_vars, NoAuthority PROVE NoNewElevated /\ NoAuthority'
  OBVIOUS
<1>1. ASSUME NEW u \in User, NEW public \in BOOLEAN, Create(u, public) PROVE FALSE
  BY <1>1 DEF Create, NoAuthority
<1>2. ASSUME NEW item \in Item, RemoveItems(item) PROVE NoNewElevated /\ NoAuthority'
  BY <1>2 DEF RemoveItems, NoAuthority, NoNewElevated, Admins
<1>3. CASE UNCHANGED vars
  BY <1>3 DEF vars, NoAuthority, NoNewElevated, Admins
<1>. QED
  BY <1>1, <1>2, <1>3, NoAuthorityBegin, NoAuthorityContinue DEF Next

\* Once nobody holds the authority of an ADMIN, no interleaving of requests gives
\* a user or a group the role ADMIN or ORGANIZER.
THEOREM ElevationStays == Spec => ElevationNeedsAdmin
<1>. QED
  BY TypeCorrect, NoAuthorityNext, PTL DEF Spec, ElevationNeedsAdmin
(***************************************************************************)
(* Roles change by update only                                             *)
(***************************************************************************)

LEMMA BlankInit == Init => BlankBeforeCreate
BY DEF Init, BlankBeforeCreate, NoRows

LEMMA BlankNext ==
  TypeOK /\ BlankBeforeCreate /\ [Next]_vars => BlankBeforeCreate'
<1>. SUFFICES ASSUME TypeOK, BlankBeforeCreate, [Next]_vars, phase' = "new"
              PROVE  DOMAIN members' = {} /\ ~archived' /\ \A r \in Request : req'[r] = Idle
  BY DEF BlankBeforeCreate
<1>1. phase = "new" => UNCHANGED vars
  <2>. SUFFICES ASSUME phase = "new" PROVE UNCHANGED vars
    OBVIOUS
  <2>1. \A u \in User, public \in BOOLEAN : ~Create(u, public)
    BY DEF Create
  <2>2. \A item \in Item : ~RemoveItems(item)
    BY DEF RemoveItems
  <2>3. ASSUME NEW r \in Request, NEW u \in User PROVE ~Begin(r, u)
    BY DEF Begin, Join, AddMember, ChangeMember, ChangeGroup, Manage, AddItem, Readable
  <2>4. ASSUME NEW r \in Request PROVE ~Continue(r)
    <3>1. req[r].at = "idle" /\ req[r] = Idle
      BY DEF BlankBeforeCreate, Idle
    <3>. QED
      BY <3>1 DEF Continue, JoinExisting, JoinCommit, AddMemberRole, AddMemberExisting,
           AddMemberCommit, ChangeMemberRole, ChangeMemberRow, ChangeMemberCount,
           ChangeMemberCommit, ChangeGroupRole, ChangeGroupRow, ChangeGroupCommit,
           ManageRole, RemoveFolders, RemoveFiles, UpdateCommit, RemoveCommit,
           AddItemRole, AddItemCommit, Fail
  <2>. QED
    BY <2>1, <2>2, <2>3, <2>4 DEF Next
<1>2. phase = "new"
  <2>1. \A u \in User, public \in BOOLEAN : ~Create(u, public)
    BY DEF Create
  <2>2. ASSUME NEW r \in Request, NEW u \in User, Begin(r, u) PROVE phase' = phase
    BY <2>2 DEF Begin, Join, AddMember, ChangeMember, ChangeGroup, Manage, AddItem
  <2>3. ASSUME NEW r \in Request, Continue(r) PROVE phase' = phase
    BY <2>3 DEF Continue, JoinExisting, JoinCommit, AddMemberRole, AddMemberExisting,
         AddMemberCommit, ChangeMemberRole, ChangeMemberRow, ChangeMemberCount,
         ChangeMemberCommit, ChangeGroupRole, ChangeGroupRow, ChangeGroupCommit,
         ManageRole, RemoveFolders, RemoveFiles, UpdateCommit, RemoveCommit,
         AddItemRole, AddItemCommit, Fail
  <2>. QED
    BY <2>1, <2>2, <2>3 DEF Next, RemoveItems, vars
<1>. QED
  BY <1>1, <1>2 DEF BlankBeforeCreate, vars

\* Which steps write a member row.
LEMMA MembersWritten ==
  ASSUME [Next]_vars
  PROVE  \/ UNCHANGED members
         \/ \E u \in User, public \in BOOLEAN : Create(u, public)
         \/ \E r \in Request : JoinCommit(r) \/ AddMemberCommit(r)
                               \/ ChangeMemberCommit(r) \/ RemoveCommit(r)
<1>1. ASSUME NEW r \in Request, NEW u \in User, Begin(r, u) PROVE UNCHANGED members
  BY <1>1 DEF Begin, Join, AddMember, ChangeMember, ChangeGroup, Manage, AddItem
<1>2. ASSUME NEW r \in Request, Continue(r)
      PROVE  \/ UNCHANGED members
             \/ JoinCommit(r) \/ AddMemberCommit(r) \/ ChangeMemberCommit(r) \/ RemoveCommit(r)
  BY <1>2 DEF Continue, JoinExisting, AddMemberRole, AddMemberExisting, ChangeMemberRole,
       ChangeMemberRow, ChangeMemberCount, ChangeGroupRole, ChangeGroupRow,
       ChangeGroupCommit, ManageRole, RemoveFolders, RemoveFiles, UpdateCommit,
       AddItemRole, AddItemCommit, Fail
<1>. QED
  BY <1>1, <1>2 DEF Next, RemoveItems, vars

RoleChangedByUpdate(u) ==
    members'[u] # members[u] =>
        \E r \in Request : /\ req[r].at = "member.commit"
                          /\ req[r].target = u /\ req[r].role = members'[u]
                          /\ req'[r] = Idle

LEMMA RolesNext ==
  TypeOK /\ BlankBeforeCreate /\ [Next]_vars =>
      \A u \in DOMAIN members \cap DOMAIN members' : RoleChangedByUpdate(u)
<1>. SUFFICES ASSUME TypeOK, BlankBeforeCreate, [Next]_vars,
                     NEW u \in DOMAIN members \cap DOMAIN members',
                     members'[u] # members[u]
              PROVE  \E r \in Request : /\ req[r].at = "member.commit"
                                       /\ req[r].target = u /\ req[r].role = members'[u]
                                       /\ req'[r] = Idle
  BY DEF RoleChangedByUpdate
<1>1. ASSUME NEW v \in User, NEW public \in BOOLEAN, Create(v, public) PROVE FALSE
  BY <1>1 DEF Create, BlankBeforeCreate
<1>2. ASSUME NEW r \in Request, JoinCommit(r) \/ AddMemberCommit(r) \/ RemoveCommit(r)
      PROVE  FALSE
  BY <1>2 DEF JoinCommit, AddMemberCommit, RemoveCommit, WithRow, NoRows
<1>3. ASSUME NEW r \in Request, ChangeMemberCommit(r)
      PROVE  /\ req[r].at = "member.commit"
             /\ req[r].target = u /\ req[r].role = members'[u]
             /\ req'[r] = Idle
  <2>1. req'[r] = Idle
    BY <1>3 DEF TypeOK, ChangeMemberCommit, Finish, Goto
  <2>2. req[r].target = u /\ req[r].role # NoRole
    BY <1>3 DEF ChangeMemberCommit, WithRow, WithoutRow
  <2>. QED
    BY <1>3, <2>1, <2>2 DEF ChangeMemberCommit, WithRow
<1>. QED
  BY <1>1, <1>2, <1>3, MembersWritten

\* No interleaving of joins, additions, updates and removals changes the role of
\* a member except by the update that asked for that role.
THEOREM RolesStay == Spec => RolesChangeByUpdate
<1>1. Spec => []BlankBeforeCreate
  BY BlankInit, BlankNext, TypeCorrect, PTL DEF Spec
<1>2. TypeOK /\ BlankBeforeCreate /\ [Next]_vars =>
        (\A u \in DOMAIN members \cap DOMAIN members' :
            members'[u] # members[u] =>
                \E r \in Request : /\ req[r].at = "member.commit"
                                  /\ req[r].target = u /\ req[r].role = members'[u]
                                  /\ req'[r] = Idle)
  BY RolesNext DEF RoleChangedByUpdate
<1>. QED
  BY <1>1, <1>2, TypeCorrect, PTL DEF Spec, RolesChangeByUpdate
(***************************************************************************)
(* One request at a time                                                   *)
(***************************************************************************)

\* More than one ADMIN means one besides any given user.
LEMMA OneBesides ==
  ASSUME TypeOK, NEW u, Cardinality(Admins) > 1
  PROVE  \E a \in Admins : a # u
<1>. SUFFICES ASSUME Admins \subseteq {u} PROVE FALSE
  OBVIOUS
<1>1. IsFiniteSet({u}) /\ Cardinality({u}) = 1
  BY FS_Singleton
<1>2. Cardinality(Admins) <= 1 /\ Cardinality(Admins) \in Nat
  BY <1>1, FS_Subset, FS_CardinalityType
<1>. QED
  BY <1>2

LEMMA SerialInit == Init => SerialInv
BY InitTypeOK, BlankInit DEF Init, SerialInv, LastAdmin, AnotherAdmin, PresentRoleChecked,
   EmptinessChecked, ArchivalChecked, Idle

SerialParts ==
    LastAdmin /\ AnotherAdmin /\ PresentRoleChecked /\ EmptinessChecked /\ ArchivalChecked

LEMMA SerialBegin ==
  ASSUME SerialInv, NEW r \in Request, Request = {r}, NEW u \in User, Begin(r, u)
  PROVE  SerialParts'
<1>. USE DEF Goto, Idle, SerialInv
<1>1. UNCHANGED <<phase, archived, isPublic, members, groups, contents>>
  BY DEF Begin, Join, AddMember, ChangeMember, ChangeGroup, Manage, AddItem
<1>2. /\ req'[r].at \in {"join.existing", "addMember.role", "member.role", "group.role",
                        "manage.role", "item.role"}
      /\ archived => \/ req'[r].at = "item.role"
                     \/ req'[r].at = "manage.role" /\ req'[r].op = "restore"
  BY DEF TypeOK, Begin, Join, AddMember, ChangeMember, ChangeGroup, Manage, AddItem,
         Readable
<1>. QED
  BY <1>1, <1>2 DEF SerialParts, LastAdmin, Admins, AnotherAdmin, PresentRoleChecked,
                    EmptinessChecked, ArchivalChecked

LEMMA SerialContinue ==
  ASSUME SerialInv, NEW r \in Request, Request = {r}, Continue(r)
  PROVE  SerialParts'
<1>. USE DEF Goto, GotoIf, Finish
<1>. TypeOK
  BY DEF SerialInv
<1>. DEFINE same == UNCHANGED <<phase, archived, isPublic, members, groups, contents>>
\* A step that ends the handler.
<1>1. ASSUME req' = [req EXCEPT ![r] = Idle], LastAdmin' PROVE SerialParts'
  <2>1. req'[r].at = "idle"
    BY <1>1 DEF TypeOK, Idle
  <2>. QED
    BY <1>1, <2>1 DEF SerialParts, AnotherAdmin, PresentRoleChecked, EmptinessChecked,
                      ArchivalChecked
<1>2. ASSUME UNCHANGED <<phase, members>> PROVE LastAdmin' /\ Admins' = Admins
  BY <1>2 DEF SerialInv, LastAdmin, Admins
\* A step that only reads, and goes on to a step with nothing to remember.
<1>3. ASSUME same, req' = [req EXCEPT ![r] = req'[r]],
             req'[r].at \in {"join.commit", "addMember.existing", "addMember.commit",
                            "member.row", "group.row", "group.commit",
                            "manage.folders", "item.commit"},
             archived => req'[r].at = "item.commit"
      PROVE  SerialParts'
  BY <1>2, <1>3 DEF SerialParts, AnotherAdmin, PresentRoleChecked, EmptinessChecked,
                    ArchivalChecked
<1>4. CASE JoinExisting(r)
  <2>. CASE req'[r] = Idle
    BY <1>1, <1>2, <1>4 DEF TypeOK, JoinExisting
  <2>. CASE req'[r] = [req[r] EXCEPT !.at = "join.commit"]
    BY <1>3, <1>4 DEF TypeOK, JoinExisting, SerialInv, ArchivalChecked, RequestState
  <2>. QED
    BY <1>4 DEF TypeOK, JoinExisting
<1>5. CASE AddMemberRole(r) \/ AddMemberExisting(r)
  <2>. CASE req'[r] = Idle
    BY <1>1, <1>2, <1>5 DEF TypeOK, AddMemberRole, AddMemberExisting
  <2>. CASE req'[r] # Idle
    BY <1>3, <1>5 DEF TypeOK, AddMemberRole, AddMemberExisting, SerialInv,
                      ArchivalChecked, RequestState
  <2>. QED
    OBVIOUS
<1>6. CASE JoinCommit(r) \/ AddMemberCommit(r)
  <2>1. UNCHANGED phase /\ req' = [req EXCEPT ![r] = Idle]
    BY <1>6 DEF JoinCommit, AddMemberCommit
  <2>2. Admins \subseteq Admins'
    BY <1>6 DEF JoinCommit, AddMemberCommit, Admins, WithRow
  <2>. QED
    BY <1>1, <2>1, <2>2 DEF SerialInv, LastAdmin
<1>7. CASE ChangeMemberRole(r)
  <2>. CASE req'[r] = Idle
    BY <1>1, <1>2, <1>7 DEF TypeOK, ChangeMemberRole
  <2>. CASE req'[r] # Idle
    BY <1>3, <1>7 DEF TypeOK, ChangeMemberRole, SerialInv, ArchivalChecked
  <2>. QED
    OBVIOUS
<1>8. CASE ChangeMemberRow(r)
  <2>. DEFINE target == req[r].target
              role == req[r].role
              next == IF members[target] = "ADMIN" /\ role # "ADMIN"
                      THEN "member.count" ELSE "member.commit"
              ok == /\ target \in DOMAIN members
                    /\ MayAssign(req[r].user, req[r].actor, members[target])
                    /\ role # NoRole => MayAssign(req[r].user, req[r].actor, role)
  <2>1. same /\ req' = [req EXCEPT ![r] = req'[r]]
    BY <1>8 DEF TypeOK, ChangeMemberRow
  <2>2. req'[r] = IF ok THEN [req[r] EXCEPT !.at = next] ELSE Idle
    BY <1>8 DEF TypeOK, ChangeMemberRow
  <2>3. req[r] \in [at : {"member.row"}, op : MemberOp, user : User, target : User,
                    role : TeamFolderRole \cup {NoRole},
                    actor : TeamFolderRole \cup {NoRole}]
    BY <1>8 DEF TypeOK, ChangeMemberRow, RequestState
  <2>4. CASE ~ok
    BY <1>1, <1>2, <2>1, <2>2, <2>4
  <2>5. CASE ok
    <3>1. /\ req'[r].at = next /\ req'[r].user = req[r].user
          /\ req'[r].actor = req[r].actor
          /\ req'[r].target = target /\ req'[r].role = role
      BY <2>2, <2>3, <2>5
    <3>2. LastAdmin' /\ Admins' = Admins
      BY <1>2, <2>1
    <3>3. AnotherAdmin'
      BY <2>1, <2>5, <3>1, <3>2 DEF AnotherAdmin, SerialInv, LastAdmin, Admins
    <3>4. PresentRoleChecked'
      BY <2>1, <2>5, <3>1 DEF PresentRoleChecked, MayAssign, CanAssignTeamFolderRole
    <3>5. EmptinessChecked'
      BY <3>1 DEF EmptinessChecked
    <3>6. ~archived'
      BY <1>8, <2>1 DEF SerialInv, ArchivalChecked, ChangeMemberRow
    <3>. QED
      BY <3>2, <3>3, <3>4, <3>5, <3>6 DEF SerialParts, ArchivalChecked
  <2>. QED
    BY <2>4, <2>5
<1>9. CASE ChangeMemberCount(r)
  <2>1. same /\ req' = [req EXCEPT ![r] = req'[r]]
    BY <1>9 DEF TypeOK, ChangeMemberCount
  <2>2. req[r] \in [at : {"member.count"}, op : MemberOp, user : User, target : User,
                    role : TeamFolderRole \cup {NoRole},
                    actor : TeamFolderRole \cup {NoRole}]
    BY <1>9 DEF TypeOK, ChangeMemberCount, RequestState
  <2>3. CASE Cardinality(Admins) > 1
    <3>1. req'[r] = [req[r] EXCEPT !.at = "member.commit"]
      BY <1>9, <2>3 DEF TypeOK, ChangeMemberCount
    <3>2. /\ req'[r].at = "member.commit" /\ req'[r].user = req[r].user
          /\ req'[r].actor = req[r].actor
          /\ req'[r].target = req[r].target /\ req'[r].role = req[r].role
      BY <2>2, <3>1
    <3>3. LastAdmin' /\ Admins' = Admins
      BY <1>2, <2>1
    <3>4. AnotherAdmin'
      BY <2>3, <3>3, OneBesides DEF AnotherAdmin
    <3>5. PresentRoleChecked'
      BY <1>9, <2>1, <3>2 DEF SerialInv, PresentRoleChecked, ChangeMemberCount, MayAssign
    <3>6. EmptinessChecked'
      BY <3>2 DEF EmptinessChecked
    <3>7. ~archived'
      BY <1>9, <2>1 DEF SerialInv, ArchivalChecked, ChangeMemberCount
    <3>. QED
      BY <3>3, <3>4, <3>5, <3>6, <3>7 DEF SerialParts, ArchivalChecked
  <2>4. CASE ~(Cardinality(Admins) > 1)
    BY <1>1, <1>2, <1>9, <2>4 DEF ChangeMemberCount
  <2>. QED
    BY <2>3, <2>4
<1>10. CASE ChangeMemberCommit(r)
  <2>1. UNCHANGED phase /\ req' = [req EXCEPT ![r] = Idle]
    BY <1>10 DEF ChangeMemberCommit
  <2>2. ASSUME phase = "live" PROVE Admins' # {}
    <3>1. CASE req[r].role = "ADMIN"
      BY <1>10, <3>1 DEF ChangeMemberCommit, Admins, WithRow, NoRole
    <3>2. CASE req[r].role # "ADMIN"
      <4>1. PICK a \in Admins : a # req[r].target
        BY <1>10, <2>2, <3>2 DEF SerialInv, AnotherAdmin, ChangeMemberCommit
      <4>2. a \in Admins'
        BY <1>10, <4>1 DEF ChangeMemberCommit, Admins, WithRow, WithoutRow
      <4>. QED
        BY <4>2
    <3>. QED
      BY <3>1, <3>2
  <2>. QED
    BY <1>1, <2>1, <2>2 DEF LastAdmin
<1>11. CASE ChangeGroupRole(r) \/ ChangeGroupRow(r)
  <2>. CASE req'[r] = Idle
    BY <1>1, <1>2, <1>11 DEF TypeOK, ChangeGroupRole, ChangeGroupRow
  <2>. CASE req'[r] # Idle
    BY <1>3, <1>11 DEF TypeOK, ChangeGroupRole, ChangeGroupRow, SerialInv,
                       ArchivalChecked, RequestState
  <2>. QED
    OBVIOUS
<1>12. CASE ChangeGroupCommit(r) \/ UpdateCommit(r) \/ AddItemCommit(r) \/ Fail(r)
  BY <1>1, <1>2, <1>12 DEF ChangeGroupCommit, UpdateCommit, AddItemCommit, Fail
<1>13. CASE ManageRole(r)
  <2>1. same /\ req' = [req EXCEPT ![r] = req'[r]]
    BY <1>13 DEF TypeOK, ManageRole
  <2>2. req[r] \in [at : {"manage.role"}, op : ManageOp, user : User, public : BOOLEAN]
    BY <1>13 DEF TypeOK, ManageRole, RequestState
  <2>3. \/ req'[r] = Idle
        \/ req'[r] = [req[r] EXCEPT !.at = "manage.folders"] /\ req[r].op = "remove"
        \/ req'[r] = [req[r] EXCEPT !.at = "manage.commit"] /\ req[r].op # "remove"
    BY <1>13 DEF TypeOK, ManageRole
  <2>4. archived => req[r].op = "restore"
    BY <1>13 DEF SerialInv, ArchivalChecked, ManageRole
  <2>5. CASE req'[r] = Idle
    BY <1>1, <1>2, <2>1, <2>5
  <2>6. CASE req'[r] = [req[r] EXCEPT !.at = "manage.folders"] /\ req[r].op = "remove"
    BY <1>3, <2>1, <2>2, <2>4, <2>6
  <2>7. CASE req'[r] = [req[r] EXCEPT !.at = "manage.commit"] /\ req[r].op # "remove"
    <3>1. req'[r].at = "manage.commit" /\ req'[r].op = req[r].op
      BY <2>2, <2>7
    <3>. QED
      BY <1>2, <2>1, <2>4, <2>7, <3>1 DEF SerialParts, AnotherAdmin, PresentRoleChecked,
                                       EmptinessChecked, ArchivalChecked
  <2>. QED
    BY <2>3, <2>5, <2>6, <2>7
<1>14. CASE RemoveFolders(r) \/ RemoveFiles(r)
  <2>1. same /\ req' = [req EXCEPT ![r] = req'[r]]
    BY <1>14 DEF TypeOK, RemoveFolders, RemoveFiles
  <2>2. req[r] \in [at : {"manage.folders", "manage.files"}, op : ManageOp, user : User,
                    public : BOOLEAN]
    BY <1>14 DEF TypeOK, RemoveFolders, RemoveFiles, RequestState
  <2>3. ~archived
    BY <1>14 DEF SerialInv, ArchivalChecked, RemoveFolders, RemoveFiles
  <2>4. \/ req'[r] = Idle
        \/ req'[r] = [req[r] EXCEPT !.at = "manage.files"] /\ "folder" \notin contents
        \/ /\ req'[r] = [req[r] EXCEPT !.at = "manage.commit"]
           /\ req[r].at = "manage.files" /\ "file" \notin contents
    BY <1>14 DEF TypeOK, RemoveFolders, RemoveFiles
  <2>5. CASE req'[r] = Idle
    BY <1>1, <1>2, <2>1, <2>5
  <2>6. CASE req'[r] = [req[r] EXCEPT !.at = "manage.files"] /\ "folder" \notin contents
    <3>1. req'[r].at = "manage.files"
      BY <2>2, <2>6
    <3>. QED
      BY <1>2, <2>1, <2>3, <2>6, <3>1 DEF SerialParts, AnotherAdmin, PresentRoleChecked,
                                       EmptinessChecked, ArchivalChecked
  <2>7. CASE /\ req'[r] = [req[r] EXCEPT !.at = "manage.commit"]
             /\ req[r].at = "manage.files" /\ "file" \notin contents
    <3>1. req'[r].at = "manage.commit"
      BY <2>2, <2>7
    <3>2. contents \subseteq {"topFolder"}
      BY <2>7 DEF TypeOK, Item, SerialInv, EmptinessChecked
    <3>3. LastAdmin' /\ EmptinessChecked' /\ ArchivalChecked'
      BY <1>2, <2>1, <2>3, <3>1, <3>2 DEF EmptinessChecked, ArchivalChecked
    <3>4. req'[r].op = req[r].op
      BY <2>2, <2>7
    <3>5. AnotherAdmin' /\ PresentRoleChecked'
      <4>1. req'[r] \in [at : {"manage.commit"}, op : ManageOp, user : User,
                         public : BOOLEAN]
        BY <2>2, <2>7
      <4>. QED
        BY <4>1 DEF AnotherAdmin, PresentRoleChecked
    <3>. QED
      BY <3>3, <3>5 DEF SerialParts
  <2>. QED
    BY <2>4, <2>5, <2>6, <2>7
<1>15. CASE RemoveCommit(r)
  BY <1>1, <1>15 DEF RemoveCommit, LastAdmin
<1>16. CASE AddItemRole(r)
  <2>. CASE req'[r] = Idle
    BY <1>1, <1>2, <1>16 DEF TypeOK, AddItemRole
  <2>. CASE req'[r] # Idle
    BY <1>3, <1>16 DEF TypeOK, AddItemRole, RequestState
  <2>. QED
    OBVIOUS
<1>. QED
  BY <1>4, <1>5, <1>6, <1>7, <1>8, <1>9, <1>10, <1>11, <1>12, <1>13, <1>14, <1>15, <1>16
  DEF Continue

LEMMA SerialNext ==
  ASSUME NEW r, Request = {r}
  PROVE  SerialInv /\ [Next]_vars => SerialInv'
<1>. SUFFICES ASSUME SerialInv, [Next]_vars PROVE SerialInv'
  OBVIOUS
<1>. TypeOK /\ BlankBeforeCreate
  BY DEF SerialInv
<1>1. TypeOK' /\ BlankBeforeCreate'
  BY NextTypeOK, BlankNext
<1>2. ASSUME NEW u \in User, NEW public \in BOOLEAN, Create(u, public) PROVE SerialParts'
  <2>1. req[r] = Idle /\ ~archived /\ UNCHANGED <<archived, req>>
    BY <1>2 DEF Create, BlankBeforeCreate
  <2>2. u \in Admins'
    BY <1>2 DEF Create, Admins, WithRow
  <2>. QED
    BY <2>1, <2>2 DEF SerialParts, LastAdmin, AnotherAdmin, PresentRoleChecked,
                      EmptinessChecked, ArchivalChecked, Idle
<1>3. ASSUME NEW item \in Item, RemoveItems(item) PROVE SerialParts'
  BY <1>3 DEF RemoveItems, SerialInv, SerialParts, LastAdmin, Admins, AnotherAdmin,
              PresentRoleChecked, EmptinessChecked, ArchivalChecked, MayAssign
<1>4. ASSUME UNCHANGED vars PROVE SerialParts'
  <2>1. UNCHANGED <<phase, archived, members, contents, req>>
    BY <1>4 DEF vars
  <2>2. LastAdmin' /\ Admins' = Admins
    BY <2>1 DEF SerialInv, LastAdmin, Admins
  <2>3. AnotherAdmin'
    BY <2>1, <2>2 DEF SerialInv, AnotherAdmin
  <2>4. PresentRoleChecked'
    BY <2>1 DEF SerialInv, PresentRoleChecked, MayAssign
  <2>5. EmptinessChecked' /\ ArchivalChecked'
    BY <2>1 DEF SerialInv, EmptinessChecked, ArchivalChecked
  <2>. QED
    BY <2>2, <2>3, <2>4, <2>5 DEF SerialParts
<1>5. SerialParts'
  <2>1. ASSUME NEW q \in Request, Continue(q) PROVE SerialParts'
    BY <2>1, SerialContinue
  <2>2. ASSUME NEW q \in Request, NEW u \in User, Begin(q, u) PROVE SerialParts'
    BY <2>2, SerialBegin
  <2>. QED
    BY <1>2, <1>3, <1>4, <2>1, <2>2 DEF Next
<1>. QED
  BY <1>1, <1>5 DEF SerialInv, SerialParts

\* With one request at a time, whatever a handler has checked holds when it writes.
THEOREM SerialInvHolds ==
  ASSUME NEW r, Request = {r}
  PROVE  Spec => []SerialInv
<1>. QED
  BY SerialInit, SerialNext, PTL DEF Spec

\* With one request at a time, assertNotLastAdmin keeps a Team Folder that has been
\* created, and not deleted, from being without an ADMIN.
THEOREM LastAdminStays ==
  ASSUME NEW r, Request = {r}
  PROVE  Spec => []LastAdmin
<1>1. SerialInv => LastAdmin
  BY DEF SerialInv
<1>. QED
  BY <1>1, SerialInvHolds, PTL

\* With one request at a time, what a delete sweeps away with a Team Folder holds no
\* file and is not below another folder.
THEOREM NoFilesDeleted ==
  ASSUME NEW r, Request = {r}
  PROVE  Spec => DeletedWithoutFiles
<1>1. SerialInv /\ [Next]_vars =>
        (phase' = "deleted" /\ phase = "live" => contents \subseteq {"topFolder"})
  <2>. SUFFICES ASSUME SerialInv, Next, phase' = "deleted", phase = "live"
                PROVE  contents \subseteq {"topFolder"}
    BY DEF vars
  <2>1. ASSUME NEW q \in Request, Continue(q) PROVE RemoveCommit(q)
    BY <2>1 DEF Continue, JoinExisting, JoinCommit, AddMemberRole, AddMemberExisting,
         AddMemberCommit, ChangeMemberRole, ChangeMemberRow, ChangeMemberCount,
         ChangeMemberCommit, ChangeGroupRole, ChangeGroupRow, ChangeGroupCommit,
         ManageRole, RemoveFolders, RemoveFiles, UpdateCommit,
         AddItemRole, AddItemCommit, Fail
  <2>2. \A q \in Request, u \in User : ~Begin(q, u)
    BY DEF Begin, Join, AddMember, ChangeMember, ChangeGroup, Manage, AddItem
  <2>3. RemoveCommit(r)
    BY <2>1, <2>2 DEF Next, Create, RemoveItems
  <2>. QED
    BY <2>3 DEF SerialInv, EmptinessChecked, RemoveCommit
<1>. QED
  BY <1>1, SerialInvHolds, PTL DEF Spec, DeletedWithoutFiles

\* With one request at a time, an ORGANIZER changes and removes rows of the roles
\* an organizer may hand out, and no others.
THEOREM OrganizersStayInLimits ==
  ASSUME NEW q, Request = {q}
  PROVE  Spec => OrganizerLimits
<1>1. SerialInv /\ [Next]_vars =>
        (\A r \in Request :
            /\ req[r].at = "member.commit" /\ req[r].target \in DOMAIN members
            /\ members[req[r].target] \notin AssignableByOrganizer
            /\ members' # members /\ req'[r] = Idle
            => req[r].user \in OrgAdmin \/ req[r].actor = "ADMIN")
  BY DEF SerialInv, PresentRoleChecked, MayAssign, CanAssignTeamFolderRole, IsOrgAdmin,
         Caller, TeamResource
<1>2. Spec => []SerialInv
  BY SerialInvHolds
<1>. QED
  BY <1>1, <1>2, PTL DEF Spec, OrganizerLimits

\* With one request at a time, the members, groups and publicity of an archived
\* Team Folder are frozen.
THEOREM ArchivedStaysFrozen ==
  ASSUME NEW r, Request = {r}
  PROVE  Spec => ArchivedMembersFrozen
<1>1. SerialInv /\ [Next]_vars =>
        (archived /\ archived' => UNCHANGED <<members, groups, isPublic>>)
  <2>. SUFFICES ASSUME SerialInv, Next, archived, archived'
                PROVE  UNCHANGED <<members, groups, isPublic>>
    BY DEF vars
  <2>1. ASSUME NEW u \in User, NEW public \in BOOLEAN, Create(u, public) PROVE FALSE
    BY <2>1 DEF Create, SerialInv, BlankBeforeCreate
  <2>2. ASSUME NEW q \in Request, NEW u \in User, Begin(q, u)
        PROVE  UNCHANGED <<members, groups, isPublic>>
    BY <2>2 DEF Begin, Join, AddMember, ChangeMember, ChangeGroup, Manage, AddItem
  <2>3. ASSUME NEW q \in Request, Continue(q)
        PROVE  UNCHANGED <<members, groups, isPublic>>
    <3>1. \/ req[q].at \in {"idle", "item.role", "item.commit"}
          \/ req[q].at \in {"manage.role", "manage.commit"} /\ req[q].op = "restore"
      BY DEF SerialInv, ArchivalChecked
    <3>. QED
      BY <2>3, <3>1 DEF Continue, JoinExisting, JoinCommit, AddMemberRole,
           AddMemberExisting, AddMemberCommit, ChangeMemberRole, ChangeMemberRow,
           ChangeMemberCount, ChangeMemberCommit, ChangeGroupRole, ChangeGroupRow,
           ChangeGroupCommit, ManageRole, RemoveFolders, RemoveFiles, UpdateCommit,
           RemoveCommit, AddItemRole, AddItemCommit, Fail
  <2>. QED
    BY <2>1, <2>2, <2>3 DEF Next, RemoveItems
<1>. QED
  BY <1>1, SerialInvHolds, PTL DEF Spec, ArchivedMembersFrozen
=============================================================================
