SPECIFICATION Spec
CONSTANTS
    c1 = c1  c2 = c2  c3 = c3  a = a  b = b  p1 = p1  p2 = p2  r1 = r1
    Conn = {c1, c2, c3}
    Client = {a, b}
    Port = {p1, p2}
    Req = {}
    Offers <- MCOffers
    Allowed <- MCAllowed
    MaxClients = 2
    CooldownOn = TRUE
    NoConn = NoConn
    NoClient = NoClient
SYMMETRY ConnSymmetry
INVARIANTS RoutableIsOpen KickedStaysOut HeldPortsOwned
PROPERTIES PortsNotStolen OnlyOwnDisconnect NothingBeforeAck
CHECK_DEADLOCK FALSE
