\* A function, a visit and the loop, which has to finish what they leave.
SPECIFICATION FairSpec
CONSTANTS
    A = A
    B = B
    V = V
    L = L
    ann = ann
    bob = bob
    NoOne = NoOne
    Cursor = Cursor
    Players = {ann, bob}
    Codes = {A}
    Visits = {V}
    Loopers = {L}
    Self <- Callers
    Bodies <- Lean
    MaxId = 2
    Batch = 1
    MayFail = TRUE
    MayCrash = TRUE
    MayRot = TRUE
    MaxFaults = 2
PROPERTIES EveryActEnds
