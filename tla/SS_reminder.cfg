SPECIFICATION Spec
CONSTANTS
    Items = {i1, i2, i3}
    Sessions = {s1, s2}
    Calls = {"resolve", "remind"}
    MaxOpen = 2
    Null = Null
SYMMETRY Interchangeable
INVARIANTS DecisionIsTerminal
CHECK_DEADLOCK FALSE
