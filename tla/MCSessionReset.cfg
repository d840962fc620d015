CONSTANTS
    p1 = p1
    p2 = p2
    Peers = {p1}
    Cooldown = 2
    Window = 8
    MaxResets = 2
    Horizon = 18
    MaxSetBack = 1
SPECIFICATION Spec
INVARIANTS
    BurstIsBounded
    NotBlockedForLong
CHECK_DEADLOCK FALSE
