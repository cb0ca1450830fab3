SPECIFICATION FairSpec
CONSTANTS
    MaxInitialAttempts = 10
    FirstCeiling = 1
    MaxCeiling = 30
    MaxFailures = 10
    MaxOffline = 40
INVARIANTS
    FailuresCountSinceAJoin
PROPERTIES
    OutagesAreShown
    RunGoesOnOrEnds
CHECK_DEADLOCK FALSE
