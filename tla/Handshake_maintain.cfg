SPECIFICATION MaintainedSpec
CONSTANTS
    a = a
    b = b
    c = c
    Node = {a, b, c}
    Direct = {c}
    Taking = FALSE
    Lag = 0
    HandshakeTimeout = 0
    TimestampWindow = 1
    MaxTime = 1
    MeshNLow = 1
    MeshN = 1
    MeshNHigh = 1
    Skew <- None
    Duplicating = FALSE
    Lossy = TRUE
    CryptoFaults = FALSE
    MaxConnects <- ATwice
    MaxDraws = 4
    MaxKeyGen <- None
INVARIANTS MeshSound
PROPERTIES MeshHeals
