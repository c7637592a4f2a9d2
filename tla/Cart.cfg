SPECIFICATION Spec
CONSTANTS
    Sessions = {s1, s2}
    Users = {u1}
    UserOf <- MCUserOf
    Runners = {r1}
    Handlers = {h1}
    NoSession = NoSession
    OneC = FALSE
    MaxLetters = 2
    MaxReports = 1
    MaxPings = 2
    MaxFailures = 1
    MaxFaults = 1
CHECK_DEADLOCK FALSE
SYMMETRY MCSymmetry
INVARIANTS
    TypeOK
    CapPerWindow
    BuyerGetsNoLetter
