SPECIFICATION MCSpec
CONSTANTS
    None = None
    Gone = Gone
    Miss = Miss
    Bad = Bad
    Empty = Empty
    u1 = u1
    u2 = u2
    r1 = r1
    r2 = r2
    A = A
    B = B
    Runners = {r1, r2}
    Threads = {r1, r2}
    Ticks = {r1, r2}
    Admins = {u1, u2}
    Requests = {"q1", "q2", "q3"}
    Users = {u1, u2}
    Catalogue <- MCCatalogue
    LastCategory <- MCLastCategory
    Shops <- MCShops
    Customers <- MCCustomers
    ItemsLimit = 2
    LastN = 6
    MaxPerDay = 1
    Tracked = {"opened"}
    Codes = {"c1", "c2"}
    Letters = {"n1", "n2"}
    Orders = {A, B}
    Window = 1
    Grace = 1
    TemplateIds = {1, 2}
    Scenarios = {A, B}
    Products = {1, 2, 3}
    Cats = {A, B}
    Listings <- MCListings
    Files <- MCFiles
    PageSize = 1
    TopN = 3
    SortOrders = {1, 2}
    Names = {"n1"}
    Exts <- MCExts
    Batches <- MCBatches
    Urls = {A}
    Numbers = {"5"}
    Patches <- MCPatches
    EnvOnec = None
    MaxLetters = 2
    BatchFaults = 1
    MaxRequests = 4
    PrizeFaults = 2
    Horizon = 2
    MaxOverlaps = 1
    CatalogueChanges = 3
    FileChanges = 2
    ProbeFaults = 1
    MaxPresses = 2
    MailFaults = 2
    MaxSaves = 3
    MaxStarts = 2
CHECK_DEADLOCK FALSE
INVARIANTS
    TypesOK OncePerInterval DayLimit LateLettersBounded LateNeedsTwinOrFeed
    OnePrizeLetter SlotHasLetter OneOrderOneLetter CreditIsEarned SyncIsComplete
    RepeatsAreExplained AnswerIsTrue TicksUseSaved  FairRotation FairCrossSell
PROPERTIES
    ActiveLostOnlyByRemoval TidyingKeepsLists ParsedFileFits MissNeedsProof
