SPECIFICATION LiveSpec
CONSTANTS
    a = a
    b = b
    c = c
    Node = {a, b}
    Direct = {b}
    Taking = FALSE
    Lag = 1
    HandshakeTimeout = 1
    TimestampWindow = 2
    MaxTime = 1
    MeshNLow = 1
    MeshN = 1
    MeshNHigh = 1
    Skew <- None
    Duplicating = FALSE
    Lossy = FALSE
    CryptoFaults = FALSE
    MaxConnects <- AOnce
    MaxDraws = 4
    MaxKeyGen <- AOnce
PROPERTIES ConnectSucceeds
