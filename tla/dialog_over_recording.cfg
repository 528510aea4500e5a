\* A decision, a tap that waits at the gate, and the preview of the upload before it.
SPECIFICATION Spec
CONSTANTS
    MaxSessions = 1
    MaxRequests = 2
    Tasks = {t1, t2, t3}
    PeerDecides = TRUE
    Inputs = {"microphone", "dialog"}
    Permits = {"camera", "microphone"}
SYMMETRY Symmetry
INVARIANTS
    DialogBlocksRecording
\* The user may do nothing, and the bounds end.
CHECK_DEADLOCK FALSE
