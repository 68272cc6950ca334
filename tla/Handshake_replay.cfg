SPECIFICATION Spec
CONSTANTS
    a = a
    b = b
    c = c
    Node = {a, b}
    Direct = {}
    Taking = FALSE
    Lag = 0
    HandshakeTimeout = 0
    TimestampWindow = 1
    MaxTime = 0
    MeshNLow = 1
    MeshN = 1
    MeshNHigh = 1
    Skew <- None
    Duplicating = TRUE
    Lossy = FALSE
    CryptoFaults = FALSE
    MaxConnects <- AOnce
    MaxDraws = 4
    MaxKeyGen <- None
INVARIANTS MatchedSessions
