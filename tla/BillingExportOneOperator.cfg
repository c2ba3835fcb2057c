SPECIFICATION FairSpec
CONSTANTS
    MaxRequests = 3
    Workers = {w1, w2}
    Operators = {o1}
    s1 = s1
    p1 = p1
    p2 = p2
    Scopes <- OneScope
    Summaries <- OneSummary
    Window <- NarrowWindow
    OperatorActions <- Everything
    None = None
    Released = Released
CHECK_DEADLOCK FALSE
INVARIANTS
    OneActivePerScope
PROPERTIES
    QueuedRequestsEnd
