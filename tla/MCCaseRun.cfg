SPECIFICATION FairSpec
CONSTANTS
    Repeat = 2
    Input = {a, b}
    MaxLines = 3
INVARIANTS
    PassIsEvidence
    BlameIsFair
    LeaderReaped
PROPERTIES
    CaseEnds
