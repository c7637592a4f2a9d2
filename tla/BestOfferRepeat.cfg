SPECIFICATION Spec
CONSTANTS
    Users = {u1}
    Runners = {r1}
    None = None
    Catalogue <- MCCatalogue
    LastCategory <- MCLastCategory
    ItemsLimit = 2
    LastN = 6
    MaxPerDay = 0
    Tracked = {"opened"}
    MaxLetters = 3
    MaxFaults = 0
CHECK_DEADLOCK FALSE
INVARIANT NoRepeat
