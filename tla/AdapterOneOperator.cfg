SPECIFICATION FairSpec
CONSTANTS
    Instances = {a1, a2}
    Processors = {p1, p2}
    Operators = {o1}
    OperatorActions <- Everything
    MaxRuns = 2
    MaxRows = 0
    Cursor <- Distinct
    BatchSize = 1
    Limit = 2
    None = None
CHECK_DEADLOCK FALSE
INVARIANTS
    OneActiveRun
    NoWaitCycle
PROPERTIES
    QueuedRunsEnd
