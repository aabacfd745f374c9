SPECIFICATION Spec
CONSTANTS
    Relays = {4, 5}
    Beacons = {8, 9}
    Hears <- ChainHears
    Mifs <- MCMifs
    Leaving = {8, 9}
    Pausing = {4, 5}
    MaxPeers = 3
    TreeMaxHeight = 3
    Timeout = 1
    Punctual = TRUE
    Metric = 60
    Counter = 0
    Metrics = {60, 70}
    Counters = {0, 1}
    NoState = NoState
INVARIANTS
    ElectsBest
PROPERTY
    Converges
