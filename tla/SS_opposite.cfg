SPECIFICATION Spec
CONSTANTS
    Items = {i1, i2, i3}
    Sessions = {s1, s2}
    Calls = {"resolve"}
    MaxOpen = 2
    Null = Null
SYMMETRY Interchangeable
PROPERTIES NoFlip
CHECK_DEADLOCK FALSE
