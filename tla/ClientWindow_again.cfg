SPECIFICATION WindowSpec
CONSTANTS
    f1 = f1  f2 = f2  f3 = f3
    Fwd = {f1}
    Limit = 1
    MaxStep = 1
    Tls = FALSE
INVARIANT WantedKeepsRunning
CHECK_DEADLOCK FALSE
