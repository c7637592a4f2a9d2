SPECIFICATION Spec
CONSTANTS
    Orders = {o1}
    Users = {u1}
    UserOf <- MCUserOf
    Runners = {r1}
    Handlers = {h1}
    NoOrder = NoOrder
    MaxAttempts = 2
    LostReplies = TRUE
    EspRejects = FALSE
    MaxLetters = 2
    MaxFaults = 0
    MaxOthers = 0
INVARIANT OneLiveLetter
