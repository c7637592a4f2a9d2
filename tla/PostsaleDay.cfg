SPECIFICATION Spec
CONSTANTS
    Orders = {o1, o2}
    Users = {u1}
    UserOf <- MCUserOf
    Runners = {r1, r2}
    Handlers = {h1}
    NoOrder = NoOrder
    MaxAttempts = 2
    LostReplies = FALSE
    EspRejects = FALSE
    MaxLetters = 1
    MaxFaults = 0
    MaxOthers = 0
SYMMETRY MCSymmetry
INVARIANT OneTriggerPerDay
