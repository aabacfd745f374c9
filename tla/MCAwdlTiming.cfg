SPECIFICATION Spec
CONSTANTS
    Tu = 2
    AwPeriod = 2
    Presence = 2
    Count = 2
    SequenceMod = 8
    Guard = 3
    Pause = 3
    ProbeLimit = 2
    Channel = 6
    Channels <- MCChannels
    Starts <- MCStarts
    Deadline = 25
    None = None
INVARIANTS
    FindsNextCommon
    FollowersInStep
PROPERTIES
    SendsOnChannel
    OncePerInterval
