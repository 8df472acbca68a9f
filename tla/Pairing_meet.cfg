SPECIFICATION FairSpec
CONSTANTS
    v1 = v1  v2 = v2  d1 = d1  d2 = d2  a = a  b = b
    Visitor = {v1, v2}
    Data = {d1, d2}
    Client = {a, b}
    Limit = 1
    NoData = NoData
    NoClient = NoClient
    NoVisitor = NoVisitor
INVARIANTS PipeHoldsChannel TableExact QuotaRespected
PROPERTIES ImplementsRendezvous VisitorSettles ChannelReleased
CHECK_DEADLOCK FALSE
