SPECIFICATION Spec
CONSTANTS
    Items = {i1, i2, i3}
    Sessions = {s1, s2, s3}
    Calls = {"create", "resolve", "revoke", "reorder", "remind"}
    MaxOpen = 3
    Null = Null
SYMMETRY Interchangeable
INVARIANTS TypeOK OneActiveRow RevokedOnce NoticeNotSkipped TableConsistent
PROPERTIES CallsAreLifecycleSteps
CHECK_DEADLOCK FALSE
