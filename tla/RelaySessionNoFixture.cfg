SPECIFICATION Safety
CONSTANTS
    Files = {f1}
    NoFile = NoFile
    Peers = {a}
    NoPeer = NoPeer
    HostModes = {"none", "auto"}
    MaxAttempts = 1
INVARIANT NoFixture
