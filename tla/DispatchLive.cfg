SPECIFICATION FairSpec
CONSTANTS
    r1 = r1
    r2 = r2
    Requests <- OneRequest
    Free = Free
    NoRequest = NoRequest
    CbCap = 5
    CacheCap = 1
    MaxAcks = 4
PROPERTIES
    EveryRequestReturns
    EveryCallbackIsRemoved
