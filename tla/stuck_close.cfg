\* A loop that breaks while the desktop reads no more.
SPECIFICATION FairSpec
CONSTANTS
    Callers = {c1, c2}
    NoCaller = NoCaller
    Ids = {r1}
    NoId = NoId
    QueueCap = 1
    MaxRetired = 1
    MaxUnexpected = 1
    MaxChunk = 1
    MaxFrames = 1
    TransportErrors = {"SEND_TIMEOUT"}
    CallerOps = {"begin_audio", "send_audio_chunk", "finish_audio", "confirm", "respond_to_decision",
                 "cancel", "shutdown"}
    PeerSends = {"CommandPreview", "ExecutionStatus", "ProgressUpdate", "DecisionRequest",
                 "AssistantOutput", "Error", "Ping", "other", "part"}
PROPERTIES
    KeptCallsHaveDeadline
\* A session really ends: once it is closed and its handles are dropped nothing moves.
CHECK_DEADLOCK FALSE
