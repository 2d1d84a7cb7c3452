SPECIFICATION Spec
CONSTANTS
    n1 = n1  n2 = n2  i1 = i1  i2 = i2
    Dumps <- ShortDumps
    Timeout = 5000
    KernelPrompt = TRUE
    NetlinkerChSize = 1
    StaterChSize <- OneSlot
    Netlinkers <- TwoNetlinkers
    SamplingModulus = 1
    Inetdiagers <- TwoInetdiagers
    InetdiagerReportModulus = 1
    MaxLoops = 1
    ShutdownWorkers = FALSE
SYMMETRY WorkerSymmetry
INVARIANTS NoMorePollsThanMaxLoops
