SPECIFICATION FairSpec
CONSTANTS
    c1 = c1
    c2 = c2
    Channels <- MCChannels
    Thread = Thread
    NoChannel = NoChannel
    FrameBound = 2
INVARIANTS TypeOK OwnersMatch ServedWhileLoaded NoRequesterDropped
PROPERTIES RequestsAreCalls UnloadReturns ChannelsAreFreed
CHECK_DEADLOCK FALSE
