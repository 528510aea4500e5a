\* A buffer of four samples, which two callbacks fill and two drains empty.
SPECIFICATION FairSpec
CONSTANTS
    Limit = 4
    MaxSamples = 2
    MaxFrames = 3
    MaxCaptured = 10
INVARIANTS
    TypeOK
    SentAsCaptured
    CompleteOrRefused
PROPERTIES
    OverflowNoticed
\* A recorder that is gone stays gone.
CHECK_DEADLOCK FALSE
