SPECIFICATION RunnerSpec
CONSTANTS
    Ht = 2
    MaxRepeats = 3
    Poison = Poison
INVARIANTS
    PassMeansStored
    ExitZeroIsEvidence
    RejectionIsEvidence
    DeviceGivenBack
PROPERTIES
    UploadsDiffer
    ProcessEnds
