\* One request at a time.
SPECIFICATION Spec

CONSTANTS
    u1 = u1
    u2 = u2
    u3 = u3
    g1 = g1
    User = {u1, u2, u3}
    OrgAdmin = {u3}
    Group = {g1}
    GroupMember <- OneGroup
    Grantable = {"ADMIN", "ORGANIZER", "EDITOR", "COMMENTER"}
    Filed = {"folder", "topFolder", "file"}
    Request = {r1}

INVARIANT TypeOK
INVARIANT LastAdmin
PROPERTY DeletedWithoutFiles
PROPERTY OrganizerLimits
PROPERTY ArchivedMembersFrozen
CHECK_DEADLOCK FALSE
