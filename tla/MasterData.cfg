SPECIFICATION MCSpec
CONSTANTS
    MaxRows = 3
    MaxTime = 3
    SourceSystems = {h1, h2}
    Devices = {d1}
    Components = {k1}
    Listed = {d1}
    MaxInstallations = 2
    MaxAlerts = 2
    Operators = {o1, o2}
SYMMETRY Interchangeable
CHECK_DEADLOCK FALSE
INVARIANTS
    OneWindowAtATime
    SettledMeansRight
    InstalledOnce
