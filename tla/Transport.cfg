SPECIFICATION Spec
CONSTANTS
    o1 = o1
    i1 = i1
    g1 = g1
    d1 = d1
    d2 = d2
    Outgoing = {o1}
    Incoming = {i1, g1}
    Garbled = {g1}
    Readers = {d1, d2}
    MaxBatch = 2
    MaxFaults = 2
INVARIANTS
    TypeOK
PROPERTIES
    SendIsChannel
    ReceiveIsChannel
    SentArrives
    AnswersArrive
