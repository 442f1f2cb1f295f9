CONSTANTS
    Procs = {1, 2}
    Starts <- Pairs
    MaxOthers = 1
    Kinds = {}
    MaxTrouble = 2
SPECIFICATION Spec
INVARIANT OffAtTermination
CHECK_DEADLOCK FALSE
