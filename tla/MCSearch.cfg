SPECIFICATION Spec
CONSTANTS
    Path = {1, 2, 3}
    Hash = {1, 2}
    Chunk = {1, 2, 3, 4}
    ContentOf <- MCContentOf
    Distances = {0, 1}
    Times = {0, 1}
    Model = {m1, m2}
    Mine = m1
    Dims = {d1, d2}
    NoDoc = NoDoc
    NoTable = NoTable
    OverFetch = 2
    MaxK = 3
    MaxLimit = 2
    Default = 1
ACTION_CONSTRAINT MovesAreSeen
PROPERTIES
    NearestContents
    EveryCopyIsNamed
    OneVectorSpace
