SPECIFICATION Spec
CONSTANTS
    a = a
    b = b
    c = c
    Node = {a, b}
    Direct = {b}
    Taking = TRUE
    Lag = 0
    HandshakeTimeout = 0
    TimestampWindow = 1
    MaxTime = 0
    MeshNLow = 1
    MeshN = 1
    MeshNHigh = 1
    Skew <- None
    Duplicating = TRUE
    Lossy = FALSE
    CryptoFaults = TRUE
    MaxConnects <- ATwiceBOnce
    MaxDraws = 3
    MaxKeyGen <- BOnce
INVARIANTS TypeOK ConfirmedIsAccepted NonceUsedOnce SessionIdBound StatsExact IInv
PROPERTIES RefinesSecureSession
