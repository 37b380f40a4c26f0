SPECIFICATION FairSpec
CONSTANTS
    MaxSpan = 4
    MaxInput = 20
    Payloads = {p1}
    Text <- MCText
    Calls <- MCCalls
    NoSnapshot = NoSnapshot
    Erased = Erased
    Workers = {w1, w2}
    NoWorker = NoWorker
    MaxRows = 2
    MaxAttempts = 2
    MaxHalts = 1
    MaxRevivals = 1
    w1 = w1
    w2 = w2
    p1 = p1
INVARIANTS
    AppliedOnce
    RowsSound
    WrittenAsSaid
PROPERTIES
    EventuallyDrained
