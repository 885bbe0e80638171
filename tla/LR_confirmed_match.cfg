SPECIFICATION Spec
CONSTANTS
    Lists = {l1}
    Items = {i1}
    Rows <- SharedRows
    Asins = {a1, a2}
    Workers = {w1, w2}
    MaxMessages = 2
    MaxReceives = 2
    MaxMapping = 2
    MaxCalls = 2
    Null = Null
INVARIANT ConfirmedAsinIsOwners
CHECK_DEADLOCK FALSE
