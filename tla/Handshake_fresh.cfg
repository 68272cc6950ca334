SPECIFICATION MaintainedSpec
CONSTANTS
    a = a
    b = b
    c = c
    Node = {a, b}
    Direct = {}
    Taking = FALSE
    Lag = 1
    HandshakeTimeout = 0
    TimestampWindow = 1
    MaxTime = 6
    MeshNLow = 1
    MeshN = 1
    MeshNHigh = 1
    Skew <- AAhead
    Duplicating = FALSE
    Lossy = FALSE
    CryptoFaults = FALSE
    MaxConnects <- AOnce
    MaxDraws = 3
    MaxKeyGen <- None
PROPERTIES ConfirmedFresh ContextsEnd
