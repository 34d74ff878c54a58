SPECIFICATION FairSpec
CONSTANTS
    Path = {p1}
    Hash = {1, 2}
    ChunkId = {1, 2, 3}
    Build = {b1}
    Model = {m1}
    ModelOf <- MCModelOf
    Dims = {d1, d2}
    Writer = {w1}
    Me = w1
    MaxChunks = 1
    SweepBatch = 1
    AttemptBound = 3
    NoDoc = NoDoc
    Unread = Unread
    NULL = NULL
    Absent = Absent
    Denied = Denied
    Placeholder = Placeholder
    Evictions = FALSE
    ChunkCount <- MCOneChunk
    Undecodable = {}
    Flaky = {}
    Rejected = {}
    MaxAttempts = 2
    ClaimLimit = 2
    LiveDrift = TRUE
    MaxEdits = 0
    MaxFaults = 0
    MaxOutages = 0
    MaxDrifts = 1
    b1 = b1
    b2 = b2
    m1 = m1
    m2 = m2
PROPERTIES
    Converges
