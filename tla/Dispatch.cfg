SPECIFICATION Spec
CONSTANTS
    r1 = r1
    r2 = r2
    Requests <- TwoRequests
    Free = Free
    NoRequest = NoRequest
    CbCap = 2
    CacheCap = 1
    MaxAcks = 1
SYMMETRY RequestSymmetry
INVARIANTS
    TypeOK
    OneFinalAnswer
    MutexNeverStuck
    NobodyWaitsForNothing
    CallbackHasWorker
