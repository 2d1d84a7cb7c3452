SPECIFICATION FairNetlinkerParseSpec
CONSTANTS
    n1 = n1  n2 = n2
    Netlinkers <- TwoNetlinkers
    PromNetlinkerChSize = 1
    Dumps <- SmallDumps
    PacketBufferSizes <- BufferSizes
    Strays <- StrayHeaders
    SamplingModulus = 2
    NetlinkerChSize = 1
    MaxDatagrams = 2
INVARIANTS NetlinkerParseTypeOK CountersOfDatagrams ForeignBytesOnlyAtTheCut PlainDumpsDoNotPanic
PROPERTIES ImplementsNetlinker EachLifeCounted
CHECK_DEADLOCK FALSE
