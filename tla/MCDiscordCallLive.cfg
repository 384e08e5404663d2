SPECIFICATION FairCallSpec
CONSTANTS
    GwEventCap = 1
    GwCmdCap = 3
    Chatter = {}
    EventCap = 1
    GlobalCap = 1
    GlobalKinds = {"joined", "server"}
    QueueBound = 0
PROPERTIES CallbackReturns ReleasedCallEnds EndIsReported
CHECK_DEADLOCK FALSE
