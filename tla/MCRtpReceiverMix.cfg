SPECIFICATION Spec
CONSTANTS
    u1 = u1  u2 = u2
    a = a  b = b
    NoSsrc = NoSsrc
    Users <- MCUsers
    Ssrcs <- MCSsrcs
    Delay = 2
    JbCap = 2
    Lengths = {480, 960}
INVARIANT MixStaysInBounds
CHECK_DEADLOCK FALSE
