SPECIFICATION AuditSpec
SYMMETRY MCSymmetry
CONSTANTS
    Run = {r1, r2}
    Dir = {d}
    Audited = d
    Matrix = 2
    Single = {1}
    MaxEdits = 1
    MaxFailures = 1
    Concurrent = TRUE
INVARIANTS
    CompleteIsComplete
    EarlierKept
    AuditMeansOneRun
    AuditAcceptsComplete
