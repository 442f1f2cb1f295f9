CONSTANTS
    Clients = {1}
    Asks <- Alone
    Lengths = {1}
    Restart = 4
    Ports = {p, q}
    Elsewhere = Elsewhere
    NoPort = NoPort
    MaxTimeouts = 10
    MaxChildren = 5
    Lossy = {"BOOT"}
    MaxLosses = 1
SPECIFICATION Spec
INVARIANT RetryFindsServer
