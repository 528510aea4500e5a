\* Two requests side by side: which answer reaches which call.
SPECIFICATION Spec
CONSTANTS
    Callers = {c1, c2}
    NoCaller = NoCaller
    Ids = {r1, r2}
    NoId = NoId
    QueueCap = 1
    MaxRetired = 1
    MaxUnexpected = 2
    MaxChunk = 1
    MaxFrames = 1
    TransportErrors = {"CONNECTION_INTERRUPTED"}
    CallerOps = {"begin_audio", "send_audio_chunk", "finish_audio", "confirm", "cancel"}
    PeerSends = {"CommandPreview", "ExecutionStatus", "ProgressUpdate", "Error"}
SYMMETRY Symmetry
INVARIANTS
    TypeOK
    RetiredBounded
    RepliesAccounted
    ViolationIffThirdStrike
    DisconnectedIsLast
PROPERTIES
    KeepsPromise
\* A session really ends: once it is closed and its handles are dropped nothing moves.
CHECK_DEADLOCK FALSE
