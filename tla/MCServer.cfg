CONSTANTS
    Clients = {1, 2}
    Asks <- Pairs
    Lengths = {1, 2}
    Restart = 4
    Ports = {p, q}
    Elsewhere = Elsewhere
    NoPort = NoPort
    MaxTimeouts = 1
    MaxChildren = 3
    Lossy = {"BOOT", "REPLY", "FRQ", "DATA", "ACK", "ERROR"}
    MaxLosses = 3
SPECIFICATION FairSpec
INVARIANTS UnservedOnlyByClash WrongNameNeedsClash WholeUnlessRestarted
PROPERTY AllReturn
