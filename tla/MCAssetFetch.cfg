SPECIFICATION FairSpec
CONSTANTS
    Caller = {c1, c2}
    Assets = 2
    Blocks = 2
    MaxFaults = 2
INVARIANTS
    OnlyPinnedFiles
    OverlapHeals
PROPERTIES
    FetchSucceeds
