\* One request at a time, none interrupted.
SPECIFICATION Spec

CONSTANTS
    File = {f1, f2}
    Request = {r1}
    MaxLegacy = 2
    LegacyTrash = {f1, f2}
    MaxFolderFiles = 2
    MaxVersions = 3
    MaxEntries = 2
    MaxUsedBytes = 4
    QuotaBytes = 4
    StepsMayFail = FALSE

INVARIANT TrashLedger
PROPERTY SharedBytesSurvive
PROPERTY LiveBytesSurvive
