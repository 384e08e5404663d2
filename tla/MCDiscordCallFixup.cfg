SPECIFICATION CallSpec
CONSTANTS
    GwEventCap = 1
    GwCmdCap = 3
    Chatter = {"SelfLeft"}
    EventCap = 1
    GlobalCap = 1
    GlobalKinds = {"joined", "server"}
    QueueBound = 1
INVARIANT FixupKeepsHandle
CHECK_DEADLOCK FALSE
