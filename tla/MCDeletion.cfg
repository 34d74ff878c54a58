SPECIFICATION FairSpec
CONSTANTS
    Path = {1, 2, 3}
    Volume = {v1}
    Root = {r1, r2}
    None = None
    On <- MCOn
    RootOf <- MCRootOf
    RootOn <- MCRootOn
    Linked = {r2}
    Config <- MCConfig
    PageSize = 2
    MaxChanges = 2
    MaxFaults = 1
    r1 = r1
    r2 = r2
    v1 = v1
INVARIANTS
    EvidenceIsKept
    NothingIsSkipped
PROPERTIES
    DeletesOnEvidence
    PrunesByConfiguration
    CatalogFollowsTheDisk
