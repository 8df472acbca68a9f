CONSTANTS
    a = a
    b = b
    k1 = k1
    k2 = k2
    x = x
    y = y
    None = None
    Client = {a, b}
    Manager = {a, b}
    User = {a, b}
    Laggard = {a, b}
    Admin = {k1, k2}
    Port = {1, 2}
    Content = {x, y}
    Seed <- MCSeed
    Offers <- MCOffers
    Draft <- MCDraft
    MailLimit = 2
    MaxEvents = 3
SPECIFICATION FairSpec
CHECK_DEADLOCK FALSE
INVARIANTS QuietInSync CleanMeansServed
PROPERTY CatchUp
