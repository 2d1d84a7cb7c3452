SPECIFICATION FairStartupSpec
CONSTANTS
    NoStatsd = FALSE
    StatusAnswers <- ServiceStatus
    PsAnswers <- PsOfPid
    AddressFamilies <- BothFamilies
    NoDisabler = FALSE
    MaxLoops = 2
    CommandExpands = TRUE
INVARIANTS StartupTypeOK NoPollBeforeCheck OneSignal GaugesOfPs
PROPERTIES GateOpens BoundedRunEnds
