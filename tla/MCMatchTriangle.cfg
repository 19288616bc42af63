\* A third player, and a match that was dropped on one side.
SPECIFICATION Spec
CONSTANTS
    ann = ann
    bob = bob
    cyd = cyd
    segm = segm
    NoOne = NoOne
    Players = {ann, bob, cyd}
    Segments = {segm}
    Asks <- Triangle
    MaxRequests = 7
    MaxTime = 0
    SearchTime = 1
    AcceptTime = 1
    BookingTime = 1
    RoomTime = 1
    MaxFree = 1
    Parallel = 1
    KeepAlive = FALSE
    MayFail = FALSE
PROPERTIES BookedTogether
CHECK_DEADLOCK FALSE
