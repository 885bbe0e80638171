SPECIFICATION CallsSpec
CONSTANTS
    Items = {i1, i2, i3, i4}
    Null = Null
    INITIAL_WAIT = 1
    REMINDER_INTERVAL = 1
    MAX_REMINDERS = 1
    MaxPosition = 4
    MaxAudit = 2
SYMMETRY Rows_symmetry
INVARIANTS ColumnsAgree AtMostOneActive NoneStranded PositionsAboveRank
PROPERTIES OnlyExplicitReorder ReorderedIsNextUp NoPreemption ImplementsLifecycle
CHECK_DEADLOCK FALSE
