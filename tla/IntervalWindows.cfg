SPECIFICATION Spec
CONSTANTS
    Windows <- ThreeWindows
    Slots = {s1, s2}
    MaxClock = 2
    BatchSize = 2
    Operators = {o1}
    Outage = {2}
    Synthetic = synthetic
SYMMETRY SlotSymmetry
CHECK_DEADLOCK FALSE
INVARIANTS
    WindowMatchesRows
    SourceSlotPublishedOnce
    OnlyLateTiesArePassed
