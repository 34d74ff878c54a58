SPECIFICATION FairSpec
CONSTANTS
    p1 = p1
    p2 = p2
    Path = {p1, p2}
    BatchCap = 1
    OutBuffer = 1
    PendingCap = 1
    MaxChanges = 2
    MaxFaults = 1
    MaxStops = 1
INVARIANTS HintIsNotLost FlushIsLast
PROPERTIES Noticed OwedIsNeverForgotten
