SPECIFICATION MaintainedSpec
CONSTANTS
    a = a
    b = b
    c = c
    m1 = m1
    m2 = m2
    p1 = p1
    p2 = p2
    Node = {a}
    Message = {m1, m2}
    Acker = {p1, p2}
    MaxMessageBytes = 2
    DedupTtl = 2
    ReplayWindow = 1
    DefaultTtl = 2
    QuorumNum = 67
    QuorumDen = 100
    Damaging = FALSE
    CryptoFaults = TRUE
    MaxCalls = 2
    MaxTime = 4
    Lag = 1
    Size <- OneFits
    Skew <- AFarAhead
    MaxEncodes <- NoEncodes
INVARIANTS PublishedOnce QuorumKept
PROPERTIES CachesDrain
