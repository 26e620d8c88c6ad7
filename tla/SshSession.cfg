SPECIFICATION Spec
CONSTANTS
    s1 = s1
    s2 = s2
    Sessions = {s1, s2}
    Signers = {s1}
    Empty = Empty
    MaxSigs = 1
    CallbackCap = 1
    Word = 18
    MaxPadding = 2
    MaxPayload = 8
    BufLen = 8
CHECK_DEADLOCK FALSE
INVARIANTS
    TypeOK
    ParsesExactly
    LatestHostsAreKnown
    RejectedSessionIsKilled
PROPERTIES
    SignReturns
    NotificationsAreRead
