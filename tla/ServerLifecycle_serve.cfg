CONSTANTS
    c1 = c1
    None = None
    Client = {c1}
    Contested = {"control", "data"}
    MaxClicks = 3
SPECIFICATION FairSpec
CHECK_DEADLOCK FALSE
INVARIANTS SerialIsClean NeverInOwnWay
PROPERTY StopEnds
