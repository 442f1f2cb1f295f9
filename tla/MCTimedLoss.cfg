CONSTANTS
    FileBlocks = 3
    BlockWrap = 65000
    MaxTimeouts = 10
    Lag = 5
    MaxFaults = 0
    ServerTimeo = 2
    ClientTimeo = 1
    MaxLosses = 1
SPECIFICATION TimedSpec
INVARIANT SurvivesLoss
