SPECIFICATION FairSpec
CONSTANTS
    Sessions = {s1}
    Users = {u1}
    UserOf <- MCUserOf
    Runners = {r1, r2}
    Handlers = {h1}
    NoSession = NoSession
    OneC = TRUE
    MaxLetters = 4
    MaxReports = 1
    MaxPings = 1
    MaxFailures = 1
    MaxFaults = 1
CHECK_DEADLOCK FALSE
PROPERTY
    DepartedSettles
