\* Frames of 3 bytes and parts of 2: 3 fits one frame, 4 is an exact multiple, 5
\* is the limit and 6, an exact multiple too, is refused.  The other end is this
\* code, or sends any frames at all: wrong ids, indexes, totals, sizes, contents.
SPECIFICATION FairChannelSpec
CONSTANTS
    MaxPlaintext = 3
    HeaderLen = 1
    MaxMessage = 5
    ChunkIds = {1, 2}
    MaxSent = 3
    MaxTaken = 4
    MaxTotal = 4
    ForgedFrom = {5}
INVARIANTS
    LimitsMeet
    BufferIsOneRun
PROPERTIES
    KeepsStream
    Delivered
    DecodedFromOneRun
\* All messages are sent and taken, or the session ended.
CHECK_DEADLOCK FALSE
