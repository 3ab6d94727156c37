SPECIFICATION Spec
CONSTANTS
    Run = {r1, r2}
    Dir = {d}
    Matrix = 1
    Single = {1}
    MaxEdits = 0
    MaxFailures = 1
    Concurrent = TRUE
INVARIANTS
    NothingReplaced
