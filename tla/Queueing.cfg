SPECIFICATION Spec
CONSTANTS
    k1 = k1
    k2 = k2
    r1 = r1
    r2 = r2
    MaxPairings = 1
    Keys <- TwoPhones
    Requests <- TwoRequests
    MeRequests <- OneRequest
    QueueCap = 1
    Bluetooth = Bluetooth
    NoKey = NoKey
    NoMessage = NoMessage
SYMMETRY PhoneSymmetry
INVARIANTS
    TypeOK
    RequestNeverVanishes
PROPERTIES
    FirstKeyWins
