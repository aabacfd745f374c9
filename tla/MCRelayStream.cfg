SPECIFICATION Spec
CONSTANTS
    Files <- MCFiles
    NoFile = NoFile
    Bytes = {0, 1}
    CrcMax = 3
    crc32_update <- SmallCrc
    MaxPayload = 4
    ChunkMax = 2
    BufferBytes = 3
    WorkspaceBytes = 2
INVARIANTS
    BodyIntact
    SuccessIsWholePayload
    PayloadAfterAccept
PROPERTIES
    HeldStream
    ImplementsClients
    TransferEnds
    SerialReturns
