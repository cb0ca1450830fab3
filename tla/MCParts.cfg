SPECIFICATION MCSpec
CONSTANTS
    StatsMinutes = 3
    FirstMinute = 4
    MaxMinute = 8
    MaxRequests = 3
    Routes = {r1}
    Unrouted = none
    TextLine = {a, b}
    MaxLines = 4
    MaxDiffLines = 3
    MaxLatencySamples = 4
    Latencies = {1, 2, 3}
    MaxSamples = 9
    History <- TwoRuns
    Large <- LargeBodies
    Unprintable <- OddHeaders
    MaxCommands = 2
    CardLimits <- SomeLimits
    CardWidths <- SomeCardWidths
    CardLines <- SomeLines
    MaxCardLines = 2
    HeaderNames <- SomeHeaders
    CardRows <- SomeRows
    CardBoxes <- SomeBoxes
    SourceWidth = 20
    LineWidths <- SomeLineWidths
    Project = 11
    Reasons = {0, 12, 45}
    Notices = {0, 24, 40}
    Update = 36
    Medians = {4}
    MaxCounted = 2
INVARIANTS
    StatisticsAreTrue
    ComparisonIsTrue
    PercentilesCoverTheNewest
    FilesKeepTheirDelivery
    LinesFit
PROPERTIES
    CallsStayInTheirPlace
    
CHECK_DEADLOCK FALSE
