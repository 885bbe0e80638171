SPECIFICATION FairSpec
CONSTANTS
    Items = {i1, i2}
    Null = Null
    INITIAL_WAIT = 1
    REMINDER_INTERVAL = 2
    MAX_REMINDERS = 3
    MaxPosition = 2
    MaxAudit = 2
INVARIANTS TypeOK DueTimeDefined AuditExplainsDecision
PROPERTIES HoldingIsSilent DecisionStands UnansweredIsHeld
