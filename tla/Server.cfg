SPECIFICATION FairSpec
CONSTANTS
    c1 = c1
    c2 = c2
    c3 = c3
    Conns <- MCConns
    Handlers = {"main", "client"}
    Faults = {"peer", "spawn"}
INVARIANTS
    SessionExclusive
    NoUseAfterFree
    ClientsCounted
PROPERTIES
    EveryRequestEnds
    StopExits
