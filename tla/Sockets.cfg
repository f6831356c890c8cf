SPECIFICATION FairSpec
CONSTANTS
    BreakMask = {"break"}
    MaxSem = 2
    MaxSent = 2
PROPERTIES OwnResult SignalHeard Joined
CHECK_DEADLOCK FALSE
