SPECIFICATION HistorySpec
CONSTANTS
    Path = {p1}
    Hash = {1, 2}
    ChunkId = {1, 2, 3}
    Build = {b1}
    Model = {m1, m2}
    ModelOf <- MCModelOf
    Dims = {d1}
    Writer = {w1, w2}
    MaxChunks = 1
    SweepBatch = 1
    AttemptBound = 0
    NoDoc = NoDoc
    Unread = Unread
    NULL = NULL
    b1 = b1
    m1 = m1
    m2 = m2
    d1 = d1
    w1 = w1
    w2 = w2
SYMMETRY MCSymmetry
CONSTRAINT InFlightBounds
INVARIANTS
    ForeignKeys
    NoOrphanVectors
    HeldIdsNameTheirContent
PROPERTY
    SweepIsComplete
