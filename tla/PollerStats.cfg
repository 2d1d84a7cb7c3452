SPECIFICATION PollerStaterSpec
CONSTANTS
    AddressFamilies <- BothFamilies
    PromPollerChSize = 2
    MaxLoops = 3
INVARIANTS PollerStaterTypeOK LoopsLag LongPollsCountedOnce
CHECK_DEADLOCK FALSE
