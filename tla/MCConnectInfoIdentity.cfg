SPECIFICATION Spec
CONSTANTS
    Calls = 2
    EventCap = 2
    StrangerCap = 2
    ServerCap = 2
INVARIANT IdentifiesAsTold
CHECK_DEADLOCK FALSE
