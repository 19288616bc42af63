\* Two functions and a visit, nothing goes wrong.
SPECIFICATION Spec
CONSTANTS
    A = A
    B = B
    V = V
    L = L
    ann = ann
    bob = bob
    NoOne = NoOne
    Cursor = Cursor
    Players = {ann, bob}
    Codes = {A, B}
    Visits = {V}
    Loopers = {}
    Self <- Callers
    Bodies <- Lean
    MaxId = 2
    Batch = 1
    MayFail = TRUE
    MayCrash = TRUE
    MayRot = TRUE
    MaxFaults = 0
PROPERTIES NoUpdateLost
CHECK_DEADLOCK FALSE
