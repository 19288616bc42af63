\* One player who polls while an earlier poll of his is open.
SPECIFICATION Spec
CONSTANTS
    ann = ann
    bob = bob
    cyd = cyd
    segm = segm
    NoOne = NoOne
    Players = {ann}
    Segments = {segm}
    Asks <- Poller
    MaxRequests = 3
    MaxTime = 0
    SearchTime = 1
    AcceptTime = 1
    BookingTime = 1
    RoomTime = 1
    MaxFree = 1
    Parallel = 2
    KeepAlive = TRUE
    MayFail = FALSE
INVARIANTS OnePoll
CHECK_DEADLOCK FALSE
