SPECIFICATION Spec
CONSTANTS
    e1 = e1
    e2 = e2
    s1 = s1
    s2 = s2
    p = p
    q = q
    First <- FirstSeeds
    Peer = {p}
    KemSeed = {e1}
    SigSeed = {s1}
    Committed = {s1}
    Restarted = {s1}
    Time = {0}
    MaxRecords = 3
    Careful = TRUE
    MaxSequence = 2
    MaxSent = 3
    MaxGenerated = 1
    Hasty = FALSE
    MaxEnvelopes = 0
    MaxVerified = 0
INVARIANTS ForkIsValidRecord
