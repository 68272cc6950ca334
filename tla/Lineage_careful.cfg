SPECIFICATION DistributedSpec
CONSTANTS
    e1 = e1
    e2 = e2
    s1 = s1
    s2 = s2
    p = p
    q = q
    First <- FirstSeeds
    Peer = {p}
    KemSeed = {e1}
    SigSeed = {s1, s2}
    Committed = {s2}
    Restarted = {s1}
    Time = {0}
    MaxRecords = 1
    Careful = TRUE
    MaxSequence = 2
    MaxSent = 3
    MaxGenerated = 1
    Hasty = TRUE
    MaxEnvelopes = 1
    MaxVerified = 1
INVARIANTS EngineSpeaks NoFork HeardIsSpoken 
  
