SPECIFICATION Spec
CONSTANTS
    Cells <- MCCells
    Files <- MCFiles
    Fields <- MCFields
    Score <- MCScore
    Noise <- MCNoise
    MaxUploads = 2
    Null = Null
INVARIANTS TypeOK RunIsComplete PlainHeadersKeepCells RepeatedHeadersAreDropped
    ProposalIsInjective ProposalIsStable
CHECK_DEADLOCK FALSE
