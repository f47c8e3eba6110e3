\* One request at a time, none interrupted.
SPECIFICATION FairSpec

CONSTANTS
    Folder = {f1, f2, f3, f4}
    TeamFolder = {t1}
    None = None
    Request = {r1}
    Mover = {r1}
    Filed = {}
    StepsMayFail = FALSE

INVARIANT TypeOK
PROPERTY RemoveLeavesNothingBehind
INVARIANT CopyLeavesItself
PROPERTY HandlersFinish

\* Once every id is used and every folder deleted, no request can begin.
CHECK_DEADLOCK FALSE
