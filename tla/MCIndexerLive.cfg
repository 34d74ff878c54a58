SPECIFICATION FairSpec
CONSTANTS
    Path = {p1}
    Hash = {1, 2}
    ChunkId = {1, 2, 3}
    Build = {b1, b2}
    Model = {m1, m2}
    ModelOf <- MCModelOf
    Dims = {d1}
    Writer = {w1}
    Me = w1
    MaxChunks = 1
    SweepBatch = 1
    AttemptBound = 3
    NoDoc = NoDoc
    Unread = Unread
    NULL = NULL
    Absent = Absent
    Denied = Denied
    Placeholder = Placeholder
    Evictions = FALSE
    ChunkCount <- MCEmptyFirst
    Undecodable = {}
    Flaky = {2}
    Rejected = {2}
    MaxAttempts = 2
    ClaimLimit = 2
    LiveDrift = FALSE
    MaxEdits = 1
    MaxFaults = 1
    MaxOutages = 1
    MaxDrifts = 0
    b1 = b1
    b2 = b2
    m1 = m1
    m2 = m2
INVARIANTS
    StampNamesGeneration
PROPERTIES
    OrphansAreCollected
    DrainEnds
    Converges
