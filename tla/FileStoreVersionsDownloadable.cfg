\* One request at a time, none interrupted, over files with one version; not kept by
\* the code.
SPECIFICATION FairSpec

CONSTANTS
    File = {f1, f2}
    Request = {r1}
    MaxLegacy = 1
    LegacyTrash = {f1, f2}
    MaxFolderFiles = 2
    MaxVersions = 3
    MaxEntries = 2
    MaxUsedBytes = 4
    QuotaBytes = 4
    StepsMayFail = FALSE

INVARIANT VersionsDownloadable
