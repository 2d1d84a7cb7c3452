SPECIFICATION FairSpec
CONSTANTS
    n1 = n1  n2 = n2  i1 = i1  i2 = i2
    Dumps <- SampledDumps
    Timeout = 5000
    KernelPrompt = TRUE
    NetlinkerChSize = 1
    StaterChSize <- OneSlot
    Netlinkers <- TwoNetlinkers
    SamplingModulus = 2
    Inetdiagers <- TwoInetdiagers
    InetdiagerReportModulus = 2
    MaxLoops = 1
    ShutdownWorkers = TRUE
INVARIANTS NoSendOnClosedChannel PollInv CycleInv WaitsAreServed
PROPERTIES ImplementsPollCycle PollCompletes DumpsHandled PollerReturns
