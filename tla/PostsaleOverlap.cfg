SPECIFICATION MCOverlapSpec
CONSTANTS
    Orders = {o1, o2}
    Users = {u1}
    UserOf <- MCUserOf
    Runners = {r1, r2}
    Handlers = {h1}
    NoOrder = NoOrder
    MaxAttempts = 2
    LostReplies = TRUE
    EspRejects = TRUE
    MaxLetters = 2
    MaxFaults = 1
    MaxOthers = 1
SYMMETRY MCSymmetry
INVARIANTS
    TypeOK
    OneLiveLetter
    SentJobHasLetter
    
