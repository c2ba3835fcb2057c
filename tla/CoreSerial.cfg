SPECIFICATION Spec
CONSTANTS
    None = None
    negative = negative
    high = high
    zero = zero
    clean = clean
    other = other
    Initials = {m1}
    Operators = {o1}
    Readings = {negative, high, clean, other}
    Surroundings = {"gap", "tamper"}
    Anomaly <- MCAnomaly
    MaxGenerations = 3
    MaxRevisions = 3
    OperatorActions <- Actions
    m1 = m1
    o1 = o1
INVARIANT ExceptionMeansBlocked
PROPERTIES FinalOnlyWhenClear FinalTakesWorkingCopy
