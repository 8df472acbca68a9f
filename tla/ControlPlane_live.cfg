SPECIFICATION FairSpec
CONSTANTS
    c1 = c1  c2 = c2  c3 = c3  a = a  b = b  p1 = p1  p2 = p2  r1 = r1
    Conn = {c1, c2}
    Client = {a, b}
    Port = {p1}
    Req = {r1}
    Offers <- OneOffer
    Allowed <- MCAllowed
    MaxClients = 1
    CooldownOn = TRUE
    NoConn = NoConn
    NoClient = NoClient
INVARIANT CapacityRespected
PROPERTIES VisitorsReleased SilentIsReaped RegistrationSettles
CHECK_DEADLOCK FALSE
