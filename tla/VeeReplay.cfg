SPECIFICATION FairSpec
CONSTANTS
    MaxRequests = 2
    Workers = {w1, w2}
    Operators = {o1}
    hes = hes
    batch = batch
    m1 = m1
    m2 = m2
    Scopes <- TwoScopes
    Measurements <- TwoMeasurements
    Covers <- Overlapping
    None = None
    Released = Released
CHECK_DEADLOCK FALSE
INVARIANTS
    CountersMatchItems
    OneActivePerScope
PROPERTIES
    ImplementsLedger
    QueuedRequestsEnd
