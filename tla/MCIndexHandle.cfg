SPECIFICATION FairSpec
CONSTANTS
    r1 = r1
    r2 = r2
    h1 = h1
    h2 = h2
    Request = {r1, r2}
    Handle = {h1, h2}
    None = None
    MaxInFlight = 1
    MaxFiles = 2
INVARIANTS HandleTypeOK NoUseAfterClose NoLeak
PROPERTIES NoGhost ShutdownEnds
CONSTRAINT FirstFileIsBuilt
CHECK_DEADLOCK FALSE
