SPECIFICATION Spec
CONSTANTS
    MaxRequests = 2
    Workers = {w1, w2}
    Operators = {o1, o2}
    s1 = s1
    p1 = p1
    p2 = p2
    Scopes <- OneScope
    Summaries <- TwoSummaries
    Window <- OneWindow
    OperatorActions <- Everything
    None = None
    Released = Released
CHECK_DEADLOCK FALSE
SYMMETRY Interchangeable
INVARIANTS
    CountersMatchItems
    CompletedMeansDelivered
    RecoveryRetriesUnfinishedWork
    OneWorkerPerRequest
    RunAgreesWithRequest
PROPERTIES
    UnclaimedEndIsFinal
    ImplementsLedger
