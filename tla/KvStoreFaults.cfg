SPECIFICATION FairSpec
CONSTANTS
    Texts <- ThinkingTexts
    Snapshots <- ThinkingSnapshots
    Fresh <- MCFresh
    Contexts = {8}
    TrailerSizes = {0}
    Budget = 16
    MinTokens = 2
    ColdMaxTokens = 4
    HeaderBytes = 1
    MaxHits = 0
    MaxLeftover = 6
    Faults = {"crash", "unlink", "io", "damage"}
PROPERTIES
    ImplementsCache
    StoreReturns
