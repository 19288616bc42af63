\* Two functions and a visit, with errors, deaths and rotted locks.
SPECIFICATION Spec
CONSTANTS
    A = A
    B = B
    V = V
    L = L
    ann = ann
    bob = bob
    NoOne = NoOne
    Cursor = Cursor
    Players = {ann, bob}
    Codes = {A, B}
    Visits = {V}
    Loopers = {}
    Self <- Callers
    Bodies <- Rich
    MaxId = 2
    Batch = 1
    MayFail = TRUE
    MayCrash = TRUE
    MayRot = TRUE
    MaxFaults = 1
INVARIANTS TypeOK StateIsDone DeletedIsDone VisitSeesAll CheckedIsCurrent LeaderboardAgrees
PROPERTIES OnlyHolderWrites
CHECK_DEADLOCK FALSE
