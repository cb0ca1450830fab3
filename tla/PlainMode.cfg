SPECIFICATION FairSpec
CONSTANTS
    Texts = {t1, t2}
    NoText = none
    MaxLines = 3
    MaxJoins = 3
INVARIANTS
    CommandsEndWithListening
    NoticesAreFresh
PROPERTIES
    RunReturns
CHECK_DEADLOCK FALSE
