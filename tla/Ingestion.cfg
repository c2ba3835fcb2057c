SPECIFICATION Spec
CONSTANTS
    MaxRows = 5
    Deliverers = {d1, d2}
    Receivers = {d1, d2}
    Operators = {o1}
    read = read
    resent = resent
    faulty = faulty
    old = old
    event = event
    interval = interval
    b1 = b1
    b2 = b2
    b3 = b3
    Records <- FiveRecords
    Batches <- ThreeBatches
    Content <- ContentOf
    SentAt <- TimeOf
    Events <- EventRecords
    SourceKey <- SourceKeyOf
    Key <- KeyOf
    Fault <- FaultOf
    Recoverable <- RecoverableRecords
    Earlier <- EarlierRecords
    None = None
CHECK_DEADLOCK FALSE
INVARIANTS
    RecordStoredOnce
    NothingSkippedIsLost
    KnownKeyPublishedOnce
    StatusesAgree
PROPERTIES
    WatermarkAdvances
