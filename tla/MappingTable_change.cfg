SPECIFICATION Spec
CONSTANTS
    p1 = p1  p2 = p2  a = a  b = b  h = h  s = s
    plain = plain  lan = lan  tls = tls  t1 = t1  t2 = t2
    Port = {p1, p2}
    Rule = {a, b, h, s}
    Listener = {plain, lan, tls}
    Listens <- MCListens
    Apart <- MCApart
    Tls = {s}
    Certs = TRUE
    Offers <- MCOffers
    Seed <- MCSeed
    Durable = TRUE
    Contested = {p2}
    Waits = TRUE
    Task = {t1, t2}
    NoRule = NoRule  NoPort = NoPort
SYMMETRY TaskSymmetry
INVARIANTS ListenersMatch NoStraySocket RollbackExact RestartSafe
PROPERTIES UntouchedKeepListening
CHECK_DEADLOCK FALSE
