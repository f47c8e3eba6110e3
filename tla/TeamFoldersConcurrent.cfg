\* Two requests at a time; nobody is an administrator of the organization.
SPECIFICATION Spec

CONSTANTS
    u1 = u1
    u2 = u2
    u3 = u3
    g1 = g1
    User = {u1, u2}
    OrgAdmin = {}
    Group = {g1}
    GroupMember <- OneGroup
    Grantable = {"ADMIN", "ORGANIZER"}
    Filed = {"folder", "file"}
    Request = {r1, r2}

SYMMETRY Symmetry
CHECK_DEADLOCK FALSE
PROPERTY ElevationNeedsAdmin
PROPERTY RolesChangeByUpdate
