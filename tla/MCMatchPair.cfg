\* Two players, every kind of request, errors, expiry and a room.
SPECIFICATION Spec
CONSTANTS
    ann = ann
    bob = bob
    cyd = cyd
    segm = segm
    NoOne = NoOne
    Players = {ann, bob}
    Segments = {segm}
    Asks <- TwoPlayers
    MaxRequests = 5
    MaxTime = 2
    SearchTime = 1
    AcceptTime = 1
    BookingTime = 2
    RoomTime = 1
    MaxFree = 1
    Parallel = 1
    KeepAlive = FALSE
    MayFail = TRUE
INVARIANTS TypeOK SearchingIsQueued MutualPair BookingIsNamed
 
CHECK_DEADLOCK FALSE
