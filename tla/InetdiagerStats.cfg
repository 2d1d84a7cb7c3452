SPECIFICATION FairInetdiagerStaterSpec
CONSTANTS
    AddressFamilies <- BothFamilies
    Inetdiagers <- TwoAndOne
    PromInetdiagerChSize = 2
    ShutdownWorkers = TRUE
    MaxMessages = 2
    MaxRestarts = 1
INVARIANTS InetdiagerStaterTypeOK SamplesInOrder NoDecreaseWhileKept TotalsAddUp
PROPERTIES BlockedSampleCounted
CHECK_DEADLOCK FALSE
