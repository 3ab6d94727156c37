SPECIFICATION Spec
CONSTANTS
    Wrapper = {w1, w2}
INVARIANTS
    HeavySerial
