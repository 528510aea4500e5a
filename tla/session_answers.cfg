\* Liveness: every call returns, unless the socket is never closed.
SPECIFICATION FairSpec
CONSTANTS
    Callers = {c1, c2}
    NoCaller = NoCaller
    Ids = {r1}
    NoId = NoId
    QueueCap = 1
    MaxRetired = 1
    MaxUnexpected = 1
    MaxChunk = 1
    MaxFrames = 1
    TransportErrors = {"CONNECTION_INTERRUPTED"}
    CallerOps = {"begin_audio", "send_audio_chunk", "finish_audio", "confirm", "respond_to_decision",
                 "cancel", "shutdown"}
    PeerSends = {"CommandPreview", "ExecutionStatus", "ProgressUpdate", "DecisionRequest",
                 "AssistantOutput", "Error", "Ping", "other", "part"}
PROPERTIES
    CallsAnswered
\* A session really ends: once it is closed and its handles are dropped nothing moves.
CHECK_DEADLOCK FALSE
