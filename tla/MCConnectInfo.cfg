SPECIFICATION FairSpec
CONSTANTS
    Calls = 2
    EventCap = 2
    StrangerCap = 2
    ServerCap = 2
INVARIANTS TypeOK StaleOnlyInFlight
PROPERTIES WaitingEnds
CHECK_DEADLOCK FALSE
