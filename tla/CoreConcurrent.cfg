SPECIFICATION Spec
CONSTANTS
    None = None
    negative = negative
    high = high
    zero = zero
    clean = clean
    other = other
    Initials = {m1}
    Operators = {o1, o2}
    Readings = {zero, clean}
    Surroundings = {"gap"}
    Anomaly <- MCAnomaly
    MaxGenerations = 2
    MaxRevisions = 3
    OperatorActions <- Actions
    m1 = m1
    o1 = o1
    o2 = o2
SYMMETRY Symmetry
INVARIANTS RevisionChain OneActivePerCode
PROPERTIES ImplementsHistory ReopenedOnlyByLateAcknowledgement
