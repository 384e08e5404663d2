SPECIFICATION Spec
CONSTANTS
    MaxPacket = 9
    BufLen = 12
    SeqMod = 2
    TsMod = 6
    NumSamples = 4
    CounterMod = 3
    FrameCap = 4
    KeyCap = 2
INVARIANTS TypeOK SentIsReadable NoncesRepeatLate ReceivedIsSent
CHECK_DEADLOCK FALSE
