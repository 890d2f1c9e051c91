SPECIFICATION Spec
CONSTANTS
    Texts <- MCTexts
    Snapshots <- MCSnapshots
    Fresh <- MCFresh
    Contexts = {8, 16}
    TrailerSizes = {0, 2}
    Budget = 16
    MinTokens = 2
    ColdMaxTokens = 4
    HeaderBytes = 1
    MaxHits = 1
    MaxLeftover = 12
    Faults = {"crash", "unlink"}
INVARIANTS
    TypeOK
    FiledUnderItsText
    HitRepresentsPrompt
    StoredIsFound
    StoreWithinBudget
PROPERTIES
    EvictionOrder
