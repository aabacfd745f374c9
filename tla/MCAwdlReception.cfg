SPECIFICATION Spec
CONSTANTS
    Devices = {phone, laptop, tablet}
    Contents <- MCContents
    Contacts = {phone}
    CapturePeers = 2
    CaptureDepth = 1
    RecordDepth = 1
    RxDepth = 1
    SampledActions = 1
    MaxPeers = 3
    Neighbors = 2
    NoOne = NoOne
    phone = phone
    laptop = laptop
    tablet = tablet
INVARIANTS
    OneEntry
PROPERTIES
    HeldPacketKept
    SampledIsTracked
