CONSTANTS
    Count = 4
    MaxStrays = 1
SPECIFICATION FairSpec
INVARIANTS WrongReplyNeedsMiss TimedInItsRound UnshownNeedMisses
PROPERTY PingEnds
CHECK_DEADLOCK FALSE
