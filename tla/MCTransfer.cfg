CONSTANTS
    FileBlocks = 7
    BlockWrap = 6
    MaxTimeouts = 1
    Lag = 1
    MaxFaults = 1
SPECIFICATION FairSpec
INVARIANTS WrittenIsPrefix FinishMeansWholeFile InStep IInv
PROPERTIES NoSecondRequest ImplementsFileCopy Termination
