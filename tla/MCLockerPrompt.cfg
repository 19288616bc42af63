\* Three calls on two workers, nothing fails and everything is in time.
SPECIFICATION Spec
CONSTANTS
    c1 = c1
    c2 = c2
    c3 = c3
    w1 = w1
    w2 = w2
    NoCall = NoCall
    Calls = {c1, c2, c3}
    Resources = {r1, r2}
    Workers = {w1, w2}
    WorkerOf <- TwoAndOne
    LockTime = 4
    WaitTime = 2
    MayFail = FALSE
    MayLose = FALSE
    MayCrash = FALSE
    Prompt = TRUE
SYMMETRY Symmetry
INVARIANTS TypeOK NoHoldAndWait NoLostWakeup
