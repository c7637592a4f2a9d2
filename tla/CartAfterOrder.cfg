SPECIFICATION Spec
CONSTANTS
    Sessions = {s1}
    Users = {u1}
    UserOf <- MCUserOf
    Runners = {r1}
    Handlers = {h1}
    NoSession = NoSession
    OneC = FALSE
    MaxLetters = 3
    MaxReports = 1
    MaxPings = 2
    MaxFailures = 0
    MaxFaults = 0
CHECK_DEADLOCK FALSE
INVARIANT
    NewCartIsNotBought
