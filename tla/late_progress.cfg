\* A preview times out, then its progress arrives.
SPECIFICATION FairSpec
CONSTANTS
    Callers = {c1, c2}
    NoCaller = NoCaller
    Ids = {r1}
    NoId = NoId
    QueueCap = 1
    MaxRetired = 1
    MaxUnexpected = 3
    MaxChunk = 1
    MaxFrames = 1
    TransportErrors = {"CONNECTION_INTERRUPTED"}
    CallerOps = {"begin_audio", "send_audio_chunk", "finish_audio"}
    PeerSends = {"ProgressUpdate", "DecisionRequest"}
PROPERTIES
    LateResponsesDoNotStrike
\* A session really ends: once it is closed and its handles are dropped nothing moves.
CHECK_DEADLOCK FALSE
