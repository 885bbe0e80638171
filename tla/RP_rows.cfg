SPECIFICATION Spec
CONSTANTS
    Null = Null
    Unreadable = Unreadable
    Tiers = Tiers
    Texts <- MCTexts
    Candidates <- MCCandidates
    Answers <- MCAnswers
    Asins <- MCAsins
    MaxPasses = 2
INVARIANTS TypeOK LabelIsDeserved ApprovalTellsWhy UnjudgedIsReviewed
PROPERTIES OwnerDecisionStands ConfirmedMatchKept
CHECK_DEADLOCK FALSE
