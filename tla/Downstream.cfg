SPECIFICATION Spec
CONSTANTS
    MaxRevisions = 2
    Operators = {o1, o2}
    i1 = i1
    i2 = i2
    m1 = m1
    m2 = m2
    m3 = m3
    Intervals = {i1, i2}
    Measurements = {m1, m2, m3}
    IntervalOf <- IntervalOfMeasurement
    read = read
    estimate = estimate
    home = home
    kwh = kwh
    utc = utc
    local = local
    won = won
    None = None
    Readings <- TwoReadings
    Amount <- AmountOf
    Unit <- UnitOf
    Estimated = {estimate}
    Contexts = {home}
    Calendar = {home}
    Zone <- ZoneOf
    Currency <- CurrencyOf
    UsageZone = utc
    Rate = rate
SYMMETRY Symmetry
CHECK_DEADLOCK FALSE
INVARIANTS
    ChargeOfCurrentDeterminant
    EligibleMeansMeasured
    OneChainOfRevisions
PROPERTIES
    RateSurvives
