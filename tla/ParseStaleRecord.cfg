SPECIFICATION ParseSpec
CONSTANTS
    Messages <- NewKernel
    MsgSize = 72
    StructSize <- Sizes
    Strays <- StrayHeaders
    InetdiagerReportModulus = 2
    MaxMessages = 4
INVARIANTS RecordOfThisSocket
CHECK_DEADLOCK FALSE
