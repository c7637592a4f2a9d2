SPECIFICATION FairSpec
CONSTANTS
    Letters = {l1, l2}
    NoLetter = NoLetter
    EspEvents <- MCEspEvents
    BatchLimit = 2
    MaxAttempts = 2
    MaxFaults = 2
CHECK_DEADLOCK FALSE
INVARIANTS
    TypeOK
    SendsBounded
    CopiesBounded
    FirstTriesInOrder
PROPERTIES
    ImplementsLetterService
    EveryLetterSettles
