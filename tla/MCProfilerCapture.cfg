SPECIFICATION Spec
CONSTANTS
    Site <- MCSite
    Requests <- MCRequests
    MaxCycle = 1
    MaxRows = 4
INVARIANTS
    PassMeansPaired
    IntervalsAreZones
    CaptureIsNew
