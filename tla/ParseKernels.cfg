SPECIFICATION FairParseSpec
CONSTANTS
    Messages <- BothKernels
    MsgSize = 72
    StructSize <- Sizes
    Strays <- StrayHeaders
    InetdiagerReportModulus = 2
    MaxMessages = 4
INVARIANTS ParseTypeOK HeadersInPlace PlainMessagesDoNotPanic RecordOfMessage BytesAccounted FieldsInPlace
PROPERTIES ParseEnds
CHECK_DEADLOCK FALSE
