\* The actor and the reference peer, with two requests and two callers.
SPECIFICATION LinkSpec
CONSTANTS
    Callers = {c1, c2}
    NoCaller = NoCaller
    Ids = {r1, r2}
    NoId = NoId
    WrongId = WrongId
    Behaviors = {"Normal", "WrongPreviewIds", "SilentPreview", "SilentConfirmation", "DecisionFlow"}
    LinkCap = 1
    QueueCap = 1
    MaxRetired = 2
    MaxUnexpected = 2
    MaxChunk = 1
    MaxFrames = 2
    TransportErrors = {"CONNECTION_INTERRUPTED"}
    CallerOps = {"begin_audio", "send_audio_chunk", "finish_audio", "cancel", "confirm", "respond_to_decision"}
    PeerSends = {"CommandPreview", "ExecutionStatus", "DecisionRequest", "Error"}
SYMMETRY Symmetry
VIEW LinkView
INVARIANTS
    EndsAgree
    RefusalsTraced
PROPERTIES
    PreviewEarned
    StrikesExplained
\* A session really ends: once it is closed and its handles are dropped nothing moves.
CHECK_DEADLOCK FALSE
