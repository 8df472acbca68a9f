SPECIFICATION FairWindowSpec
CONSTANTS
    f1 = f1  f2 = f2  f3 = f3
    Fwd = {f1, f2}
    Limit = 1
    MaxStep = 0
    Tls = TRUE
INVARIANTS OldSessionGone ForwardsBounded
PROPERTIES StopEnds SessionRecovers DisconnectReturns
CHECK_DEADLOCK FALSE
