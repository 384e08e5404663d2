SPECIFICATION FairSpec
CONSTANTS
    u1 = u1  u2 = u2
    a = a  b = b
    NoSsrc = NoSsrc
    Users <- MCUsers
    Ssrcs <- MCSsrcs
    Delay = 2
    JbCap = 2
    Lengths = {480, 960}
INVARIANTS TypeOK UsersHaveParticipants CacheIsAFrame
PROPERTIES DueFramesTaken
CHECK_DEADLOCK FALSE
