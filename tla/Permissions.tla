----------------------------- MODULE Permissions -----------------------------
(***************************************************************************)
(* PermissionService (backend/src/permissions/permission.service.ts): what  *)
(* a caller may do with a folder, a file or a Team Folder.                  *)
(*                                                                         *)
(*   caller   == [org, sub, role], from the access token                    *)
(*   resource == [org, owner, teamFolder, role]: whether it belongs to a    *)
(*               Team Folder and the caller's role there, NoRole if none    *)
(*                                                                         *)
(* isPublicToOrg is read by the service and ignored.  A member port is not  *)
(* wired in: every caller of the service resolves the role itself.          *)
(***************************************************************************)
EXTENDS Naturals

TeamFolderRole == {"ADMIN", "ORGANIZER", "EDITOR", "COMMENTER", "VIEWER"}
NoRole == "NONE"

\* The order in which resolveCallerRole prefers roles; no role is below all.
Rank == [VIEWER |-> 1, COMMENTER |-> 2, EDITOR |-> 3, ORGANIZER |-> 4, ADMIN |-> 5, NONE |-> 0]

HighestRole(roles) ==
    CHOOSE r \in roles \cup {NoRole} : \A q \in roles : Rank[q] <= Rank[r]

\* Mutant: organizers also hand out their own role.
AssignableByOrganizerAndSelf == {"ORGANIZER", "EDITOR", "VIEWER"}

AssignableByOrganizer == {"EDITOR", "VIEWER"}

IsSameTenant(caller, resource) == caller.org = resource.org
IsOrgAdmin(caller) == caller.role = "ADMIN"
InTeamFolder(resource) == resource.teamFolder

CanCreateTeamFolder(caller) == IsOrgAdmin(caller)

CanRead(caller, resource) ==
    /\ IsSameTenant(caller, resource)
    /\ \/ IsOrgAdmin(caller)
       \/ ~InTeamFolder(resource)
       \/ resource.role # NoRole

CanWrite(caller, resource) ==
    /\ IsSameTenant(caller, resource)
    /\ \/ IsOrgAdmin(caller)
       \/ /\ ~InTeamFolder(resource)
          /\ caller.role = "MEMBER" /\ caller.sub = resource.owner
       \/ /\ InTeamFolder(resource)
          /\ resource.role \in {"ADMIN", "ORGANIZER", "EDITOR"}

CanShare(caller, resource) == CanWrite(caller, resource)

CanManageTeamFolder(caller, resource) ==
    /\ IsSameTenant(caller, resource)
    /\ InTeamFolder(resource)
    /\ IsOrgAdmin(caller) \/ resource.role = "ADMIN"

CanManageMembers(caller, resource) ==
    /\ IsSameTenant(caller, resource)
    /\ InTeamFolder(resource)
    /\ IsOrgAdmin(caller) \/ resource.role \in {"ADMIN", "ORGANIZER"}

CanAssignTeamFolderRole(caller, resource, targetRole) ==
    /\ CanManageMembers(caller, resource)
    /\ \/ IsOrgAdmin(caller)
       \/ resource.role = "ADMIN"
       \/ resource.role = "ORGANIZER" /\ targetRole \in AssignableByOrganizer
=============================================================================
