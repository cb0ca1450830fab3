SPECIFICATION FairSpec
CONSTANTS
    r1 = r1
    unlisted = unlisted
    mine = mine
    theirs = theirs
    c1 = c1
    c2 = c2
    NoRoute = NoRoute
    NoTest = NoTest
    NoEntry = NoEntry
    Ws = Ws
    Free = Free
    Deliveries <- MCDeliveries
    Answers <- MCAnswers
    KnownRoutes = {r1}
    TestIds = {mine, theirs}
    OthersTests = {theirs}
    Commands = {c1, c2}
    MaxEntries = 2
    MaxBytes = 4
    MaxResponseBytes = 5
    MaxRequests = 3
INVARIANTS
    HistoryIsTheNewest
    CountersAgree
    EventsInOrder
    ReplaysMatchTheirOriginal
    DeliveriesHandled
PROPERTIES
    EverythingEnds
    ImplementsRequestLog
CHECK_DEADLOCK FALSE
