SPECIFICATION Spec
CONSTANTS
    None = None
    negative = negative
    high = high
    zero = zero
    clean = clean
    other = other
    Initials = {m1}
    Operators = {o1}
    Readings = {negative, clean}
    Surroundings = {"gap", "tamper"}
    Anomaly <- MCAnomaly
    MaxGenerations = 2
    MaxRevisions = 2
    OperatorActions <- Actions
    m1 = m1
    o1 = o1
    o2 = o2
INVARIANT AcceptedMeansEligible
