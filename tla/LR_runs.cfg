SPECIFICATION FairSpec
CONSTANTS
    Lists = {l1}
    Items = {i1}
    Rows <- SharedRows
    Asins = {a1}
    Workers = {w1, w2}
    MaxMessages = 1
    MaxReceives = 3
    MaxMapping = 2
    MaxCalls = 2
    Null = Null
INVARIANTS TypeOK OnePassAtATime RequestHonoured
PROPERTIES DecidedReviewStands ConfirmationSurvives RequestSettles
CHECK_DEADLOCK FALSE
