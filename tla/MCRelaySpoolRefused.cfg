SPECIFICATION Spec
CONSTANTS
    Files <- MCFiles
    NoFile = NoFile
    Bytes = {0, 1}
    CrcMax = 3
    crc32_update <- SmallCrc
    Capacity = 4
    WorkspaceBytes = 2
    Erased = Erased
    Torn = Torn
    Builds = {TRUE}
    Refusals = {TRUE}
INVARIANT UploadIsStored
