SPECIFICATION Spec
CONSTANTS
    a = a
    b = b
    c = c
    m1 = m1
    m2 = m2
    p1 = p1
    p2 = p2
    Node = {a, b, c}
    Message = {m1, m2}
    Acker = {}
    MaxMessageBytes = 1
    DedupTtl = 1
    ReplayWindow = 1
    DefaultTtl = 2
    QuorumNum = 67
    QuorumDen = 100
    Damaging = TRUE
    CryptoFaults = FALSE
    MaxCalls = 0
    MaxTime = 0
    Lag = 0
    Size <- OneFits
    Skew <- NoSkew
    MaxEncodes <- AOnce
INVARIANTS TypeOK AcceptedAuthentic FloodBounded
