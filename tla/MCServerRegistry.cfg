SPECIFICATION FairSpec
CONSTANTS
    s1 = s1  s2 = s2
    c1 = c1  c2 = c2  c3 = c3
    NoCall = NoCall
    Servers <- MCServers
    Calls <- MCCalls
    ServerOf <- MCServerOf
    EventCap = 2
INVARIANTS TypeOK OneCallPerServer RoutedWhileOpen JoinedWhileOpen
PROPERTIES OnlyOwnLeave Exclusive PrepareAnswered
CHECK_DEADLOCK FALSE
