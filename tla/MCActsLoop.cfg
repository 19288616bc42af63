\* Two functions and the loop.
SPECIFICATION Spec
CONSTANTS
    A = A
    B = B
    V = V
    L = L
    ann = ann
    bob = bob
    NoOne = NoOne
    Cursor = Cursor
    Players = {ann, bob}
    Codes = {A, B}
    Visits = {}
    Loopers = {L}
    Self <- Callers
    Bodies <- Lean
    MaxId = 2
    Batch = 1
    MayFail = TRUE
    MayCrash = TRUE
    MayRot = TRUE
    MaxFaults = 1
INVARIANTS DeletedIsDone
PROPERTIES FunctionsSerialise
