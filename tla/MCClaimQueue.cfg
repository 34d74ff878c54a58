SPECIFICATION FairSpec
CONSTANTS
    Hash = {1, 2, 3, 4, 5}
    Unreadable = {1, 2}
    Edited = {3}
    Flaky = {5}
    Limit = 4
    AgingShare = 4
    MaxAttempts = 2
    MaxNow = 2
PROPERTIES DrainStopsOnFullBatch NothingStarves
