CONSTANTS
    c1 = c1
    None = None
    Client = {c1}
    Contested = {"control", "data"}
    MaxClicks = 3
SPECIFICATION Spec
CHECK_DEADLOCK FALSE
INVARIANT FailedStartIsClean
