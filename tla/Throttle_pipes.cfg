CONSTANTS
    p1 = p1
    p2 = p2
    None = None
    Pipe = {p1, p2}
    Copies = 3
    Unit <- MCUnit
    Visits <- MCVisits
    Rate <- MCRate
    Capacity <- MCCapacity
    MaxKeys = 1
    Chunk = 2
    Bytes <- MCBytes
SPECIFICATION FairSpec
INVARIANTS TableSound RateRespected OnlyOwnForgotten EofIsComplete
PROPERTIES PipeSettles
