SPECIFICATION InetdiagerStaterSpec
CONSTANTS
    AddressFamilies <- BothFamilies
    Inetdiagers <- OneEach
    PromInetdiagerChSize = 1
    ShutdownWorkers = TRUE
    MaxMessages = 2
    MaxRestarts = 2
INVARIANTS NoCounterDecrease
CHECK_DEADLOCK FALSE
