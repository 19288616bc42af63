\* Two calls on two workers with late, failing and lost messages and crashes.
SPECIFICATION FairSpec
CONSTANTS
    c1 = c1
    c2 = c2
    c3 = c3
    w1 = w1
    w2 = w2
    NoCall = NoCall
    Calls = {c1, c2}
    Resources = {r1, r2}
    Workers = {w1, w2}
    WorkerOf <- OneEach
    LockTime = 2
    WaitTime = 1
    MayFail = TRUE
    MayLose = TRUE
    MayCrash = TRUE
    Prompt = FALSE
INVARIANTS MutualExclusion
PROPERTIES OnlyOwnerFrees CalledBackOnce LeaseSpec EveryCallAnswered
