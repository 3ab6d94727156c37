SPECIFICATION FairSpec
CONSTANTS
    Ht = 4
    Wt = 4
    Repeats = 2
    InputEntries = 2
    OutputEntries = 2
    SrcBanks = 2
    DestBanks = 2
    Datum <- MCDatum
    Inputs <- MCInputs
    Poison = Poison
    Garbage = Garbage
INVARIANTS
    PublishedComplete
    TransferExclusive
    DestExclusive
    OutputCorrect
    IInv
PROPERTIES
    EveryLaunchFinishes
    ImplementsRowReduce
