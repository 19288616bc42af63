SPECIFICATION Spec
CONSTANTS
    ann = ann
    bob = bob
    carl = carl
    a1 = a1
    b1 = b1
    a2 = a2
    a3 = a3
    c3 = c3
    w1 = w1
    w2 = w2
    None = None
    Players = {ann, bob, carl}
    Keys = {a1, b1, a2, a3, c3}
    Of <- BotOf
    Foe <- BotFoe
    BotKeys = {a2}
    Battles <- BotBattles
    Procs = {w1, w2}
    Capacity = 2
    MaxAsks = 9
INVARIANTS
    RoomTypeOK
    StartedByBoth
    OneEndPerBattle
    
    
CHECK_DEADLOCK FALSE
