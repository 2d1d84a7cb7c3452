SPECIFICATION FairStartupSpec
CONSTANTS
    NoStatsd = FALSE
    StatusAnswers <- ServiceStatus
    PsAnswers <- PsOfPid
    AddressFamilies <- BothFamilies
    NoDisabler = FALSE
    MaxLoops = 0
    CommandExpands = FALSE
PROPERTIES DisableEnds
