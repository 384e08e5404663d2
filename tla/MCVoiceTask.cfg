SPECIFICATION FairSpec
CONSTANTS
    GwEventCap = 1
    GwCmdCap = 3
    Chatter = {"Notice", "SelfLeft", "Ack", "Unexpected"}
    EventCap = 1
    GlobalCap = 1
    GlobalKinds = {"joined", "left", "server"}
INVARIANTS LeaveFollowsJoin CommandsNeverBlock FullyConnectedMeansListening
PROPERTIES CommandsInOrder RequestsServed SocketEndNoticed
CHECK_DEADLOCK FALSE
