SPECIFICATION Spec
CONSTANTS
    Ids = {a, b, c}
    Ipv6 <- MCIpv6
    Rssi <- MCRssi
    Mifs <- MCMifs
    Expires = TRUE
    MaxPeers = 2
    Step = 1000
    MaxSteps = 2
    MaxAge = 500
    MinRssi <- MCMinRssi
    MinMargin = 8
    SessionWindow = 500
    PreTapGrace = 1000
    MinimumScore = 450
    AmbiguityMargin = 100
SYMMETRY PeerSymmetry
INVARIANTS
    Chronology
    ChosenByLead
