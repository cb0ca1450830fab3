SPECIFICATION FairSpec
CONSTANTS
    Deliveries = {d1, d2}
    None = None
    MaxPending = 1
    IdleTicks = 2
    MaxRef = 3
    MaxQueue = 1
INVARIANTS
    AnswersMatchDeliveries
PROPERTIES
    HeartbeatsCount
    ListenEnds
    ImplementsListenCall
CHECK_DEADLOCK FALSE
