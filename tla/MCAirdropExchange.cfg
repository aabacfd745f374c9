SPECIFICATION ExchangeSpec
CONSTANTS
    Labs = {"discover", "ask", "upload"}
    Sources <- MCSources
    MaxTransfer = 4
    OdcBlock = 4
    DvzipBlock = 6
    Workspace = 2
    NetworkBuffer = 3
    Answers <- MCAnswers
    ResponseBytes = 26
    crc32 <- MCCrc32
    Deflate <- MCDeflate
INVARIANTS
    RequestDecodes
    AnswerAsSent
    SuccessAsAnswered
PROPERTY
    ExchangeEnds
