SPECIFICATION Spec
CONSTANTS
    NoText = NoText
    ListHeights = {2, 3}
    MaxRecords = 5
    MaxDeliveries = 1
    MaxWaits = 2
    MaxReplays = 1
    Forwarding = TRUE
    RouteCount = 2
    ToastFor = 2
    MaxToasts = 2
    MaxCommands = 1
    Outages <- TwoOutages
    PageHeights = {4, 14, 17, 20}
    MaxPageOthers = 2
    TabCount = 2
    MaxArrivals = 3
    Cap = 2
    Lines <- TabLines
    Available <- FourSources
    Arguments <- OnceEach
    SourcesHeights = {4, 8, 9, 10, 12, 24}
    MaxSourcesOthers = 3
    MaxRequests = 3
INVARIANTS
    SelectedRouteIsShown
PROPERTIES
    ListHoldsStill
    OneWaitWorks
    EscapeTakesOneLayer
    PagesLeaveNoGap
CHECK_DEADLOCK FALSE
