SPECIFICATION Spec
CONSTANTS
    Instances = {"i1", "i2", "j1"}
    Names = {"h1", "g1", "g2"}
    Addresses = {"a1", "b1", "b2"}
    Ports = {1, 2, 3}
    Receivers = {"phone", "laptop"}
    Lives <- MCLives
    Splits = {{"PTR", "TXT"}, {"SRV"}, {"AAAA"}, {"PTR", "SRV", "TXT", "AAAA"}}
    MaxServices = 2
    MaxHosts = 2
    Rounds = 6
    Budget = 1
    Reads = 4
    None = None
INVARIANTS
    EndpointOfOneReceiver
    CompleteOnceHeard
    ConnectsToCurrent
    ResolvedByAsking
