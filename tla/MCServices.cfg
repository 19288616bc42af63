SPECIFICATION ServicesSpec
CONSTANTS
    ann = ann
    bob = bob
    vkA = vkA
    okA = okA
    fbB = fbB
    h1 = h1
    h2 = h2
    n1 = n1
    v1 = v1
    r1 = r1
    r2 = r2
    o1 = o1
    o2 = o2
    NoSocial = noSocial
    Workers = {h1, h2}
    MaxMessages = 2
    Players = {ann, bob}
    Nets <- OneInNetwork
    MaxTickets = 2
    Idents = {vkA, okA, fbB}
    IdentKind <- KindOf
    AidOf <- AccountOf
    Handlers = {h1, h2}
    MaxUnicorns = 2
    MaxOrder = 1
    PveHandlers = {h1, h2}
    MaxBattles = 2
    MaxMoves = 2
    Natives = {n1}
    SocialIds = {v1}
    RequestsOf <- CrossingInOne
    MaxProfiles = 3
    Writers = {h1, h2}
    MaxWrites = 2
    Orders = {o1, o2}
    OrderNet <- NetOf
    OwnerOf <- PayerOf
    Receipts = {rc}
    Buyers = {ann, bob}
    Clerks = {h1, h2}
    MaxPurchases = 2
SYMMETRY Alike
INVARIANTS
    ServicesTypeOK
    MovesInOrder
    OneOutcome
    AnswerIsKept
    EndedStaysEnded
    OneSessionPerAccount
    NoOrderTwice
    BattleIsPlayedOnce
    DebtIsOfUnfinished
    ProfileIsKept
    NoWriteLost
    PaidOnce
CHECK_DEADLOCK FALSE
