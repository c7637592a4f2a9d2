SPECIFICATION FairSpec
CONSTANTS
    Orders = {o1}
    Users = {u1}
    UserOf <- MCUserOf
    Runners = {r1}
    Handlers = {h1}
    NoOrder = NoOrder
    MaxAttempts = 2
    LostReplies = TRUE
    EspRejects = FALSE
    MaxLetters = 4
    MaxFaults = 1
    MaxOthers = 1
INVARIANTS
    AttemptsBounded
    LettersBounded
PROPERTIES
    EveryJobSettles
    AttemptsNeverDecrease
    ClosedJobsStayClosed
