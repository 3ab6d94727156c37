SPECIFICATION Spec
CONSTANTS
    Run = {r1, r2}
    Dir = {d1, d2}
    Matrix = 1
    Single = {1}
    MaxEdits = 0
    MaxFailures = 1
    Concurrent = FALSE
INVARIANTS
    ProcessesSerial
