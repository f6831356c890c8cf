SPECIFICATION FairSpec
CONSTANTS
    Keys = {1, 2}
    RING = 3
    KEYTIME = 2
    SLEEPY = 2
    WINDOW = 1
INVARIANT KeysAgree
PROPERTIES RingIsFifo KeyHeard KeysArrive
CHECK_DEADLOCK FALSE
