SPECIFICATION Spec
CONSTANTS
    k1 = k1
    k2 = k2
    r1 = r1
    r2 = r2
    MaxPairings = 2
    Keys <- OnePhone
    Requests <- OneRequest
    MeRequests <- OneRequest
    QueueCap = 1
    Bluetooth = Bluetooth
    NoKey = NoKey
    NoMessage = NoMessage
INVARIANTS
    RetiredStaysRetired
