SPECIFICATION FairSpec
CONSTANTS
    Wrapper = {w1, w2, w3}
INVARIANTS
    MutualExclusion
    OwnerShown
    LeftExactlyByLeak
PROPERTIES
    RetryServed
