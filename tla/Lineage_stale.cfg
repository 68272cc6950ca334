SPECIFICATION Spec
CONSTANTS
    e1 = e1
    e2 = e2
    s1 = s1
    s2 = s2
    p = p
    q = q
    First <- FirstSeeds
    Peer = {p}
    KemSeed = {e1}
    SigSeed = {s1, s2}
    Committed = {s2}
    Restarted = {s1}
    Time = {0}
    MaxRecords = 3
    Careful = FALSE
    MaxSequence = 2
    MaxSent = 2
    MaxGenerated = 0
    Hasty = TRUE
    MaxEnvelopes = 0
    MaxVerified = 0
INVARIANTS TypeOK ChainsVerify CommitmentBinds
PROPERTIES PinnedGrows
