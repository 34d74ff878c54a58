SPECIFICATION Spec
CONSTANTS
    Path = {p1, p2}
    Hash = {1, 2}
    ChunkId = {1, 2, 3, 4}
    Build = {b1}
    Model = {m1}
    ModelOf <- MCModelOf
    Dims = {d1, d2}
    Writer = {w1}
    Me = w1
    MaxChunks = 2
    SweepBatch = 1
    AttemptBound = 3
    NoDoc = NoDoc
    Unread = Unread
    NULL = NULL
    Absent = Absent
    Denied = Denied
    Placeholder = Placeholder
    Evictions = TRUE
    ChunkCount <- MCTwoFirst
    Undecodable = {2}
    Flaky = {1}
    Rejected = {}
    MaxAttempts = 1
    ClaimLimit = 2
    LiveDrift = TRUE
    MaxEdits = 1
    MaxFaults = 1
    MaxOutages = 0
    MaxDrifts = 1
    b1 = b1
    b2 = b2
    m1 = m1
    m2 = m2
INVARIANTS
    ChunksAreOfTheBytes
    ProcessingIsUndisturbed
    TerminalIsStamped
PROPERTY StoreSpec
