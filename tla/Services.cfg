\* Shares: two requests of two users about one share.  The object store: one key,
\* two PUTs.  The seed script: a run that is interrupted, and one over what users have
\* changed; with two deletions a user goes, comes back and goes again.  Effective
\* permissions: three folders, of which one moves or is purged.
SPECIFICATION Spec

CONSTANTS
    User = {u1, u2}
    Stranger = u9
    Owner = u1
    OrgAdmin = {}
    Role = {"EDITOR"}
    Share = {s1}
    Body <- MCBody
    Offered = {"EDIT"}
    Password = {}
    NoPassword = NoPassword
    TeamFolderFile = TRUE
    Request = {r1, r2}
    Org = {o1, o2}
    Key = {k1}
    OrgOf <- MCOrgOf
    Lifetime = 1
    MaxTime = 3
    Transfer = {x1, x2}
    MaxRuns = 2
    MaxUploads = 1
    MaxRemovals = 2
    Folder = {"f1", "f2", "f3"}
    NoFolder = NoFolder
    OwnGroup = {"g1"}
    AclRow <- MCAclRow
    Call <- MCCall
    ChainLimit = 3
    MaxMoves = 1

SYMMETRY Symmetry
INVARIANT TypeOK
INVARIANT TrailTellsTruth
PROPERTY StatusOnlyAdvances
PROPERTY ClosedStaysClosed
INVARIANT SeedSettles
PROPERTY SeedRebuilds
INVARIANT NearestRowsDecide
CHECK_DEADLOCK FALSE
