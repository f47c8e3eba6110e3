\* Two requests in flight, one of which moves folders, with files in one of them.
SPECIFICATION Spec

CONSTANTS
    Folder = {f1, f2, f3}
    TeamFolder = {}
    None = None
    Request = {r1, r2}
    Mover = {r1}
    Filed = {f1}
    StepsMayFail = FALSE

SYMMETRY Symmetry

INVARIANT Acyclic

\* Once every id is used and every folder deleted, no request can begin.
CHECK_DEADLOCK FALSE
