SPECIFICATION CallsSpec
CONSTANTS
    Items = {i1, i2, i3, i4}
    Null = Null
    INITIAL_WAIT = 1
    REMINDER_INTERVAL = 1
    MAX_REMINDERS = 1
    MaxPosition = 4
    MaxAudit = 1
SYMMETRY Rows_symmetry
PROPERTIES NewHighRiskIsLast
CHECK_DEADLOCK FALSE
