SPECIFICATION Spec
CONSTANTS
    Files = {f1}
    NoFile = NoFile
    Peers = {a}
    NoPeer = NoPeer
    HostModes = {"none", "auto"}
    MaxAttempts = 1
INVARIANTS
    ResultOfThisFile
PROPERTIES
    ImplementsClients
    SenderReturns
    RunServed
