SPECIFICATION Spec
CONSTANTS
    Items = {i1, i2}
    Null = Null
    INITIAL_WAIT = 1
    REMINDER_INTERVAL = 2
    MAX_REMINDERS = 2
    MaxPosition = 2
    MaxAudit = 3
SYMMETRY Rows_symmetry
PROPERTIES ActivationIsFresh
