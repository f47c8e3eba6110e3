\* Two requests at a time.
SPECIFICATION Spec

CONSTANTS
    File = {f1, f2}
    Request = {r1, r2}
    MaxLegacy = 2
    LegacyTrash = {}
    MaxFolderFiles = 0
    MaxVersions = 3
    MaxEntries = 1
    MaxUsedBytes = 1
    QuotaBytes = 1
    StepsMayFail = FALSE

SYMMETRY Symmetry

INVARIANT TypeOK
INVARIANT VersionsContiguous
INVARIANT CurrentIsNewest
INVARIANT RestoredEndsActive
PROPERTY HistoryImmutable
PROPERTY LogSpec
