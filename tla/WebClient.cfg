\* The preview: two files and three fetches.  The upload queue: two files dropped
\* together and one dropped apart.  The file browser: a folder, a file and two
\* handlers under way together.  The pages: two trashed files and two handlers.
SPECIFICATION ClientSpec

CONSTANTS
    PreviewUrl = {"u1", "u2"}
    NoUrl = NoUrl
    MaxFetches = 3
    Item = {"a", "b", "c"}
    Drop <- MCDrop
    MaxTries = 1
    FolderRow = {"d"}
    FileRow = {"f"}
    Job = {j1, j2}
    Trashed = {"t1", "t2"}
    NoRow = NoRow
    PageJob = {p1, p2}

INVARIANT ClientTypeOK
INVARIANT ObjectUrlsSound
INVARIANT CompletedIsStored
PROPERTY UploadsEnd
PROPERTY SpinnersEnd
CHECK_DEADLOCK FALSE
