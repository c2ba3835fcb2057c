SPECIFICATION Spec
CONSTANTS
    Instances = {a1}
    Processors = {p1, p2}
    Operators = {o1, o2}
    OperatorActions <- Everything
    MaxRuns = 3
    MaxRows = 3
    Cursor <- Distinct
    BatchSize = 2
    Limit = 2
    None = None
CHECK_DEADLOCK FALSE
SYMMETRY Interchangeable
INVARIANTS
    WatermarkTrail
PROPERTIES
    ImplementsIntake
