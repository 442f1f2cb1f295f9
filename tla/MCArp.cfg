CONSTANTS
    Procs = {1, 2}
    Starts <- Pairs
    MaxOthers = 1
    Kinds = {"loss", "death", "exit", "move"}
    MaxTrouble = 2
SPECIFICATION FairSpec
INVARIANTS TypeOK PromiscHeld DeafOnlyByOther UpAsAdminSet NothingMissed
PROPERTY QueryEnds
CHECK_DEADLOCK FALSE
