\* Two sessions one after the other; what is left of the first may meet the second.
\* The desktop asks for decisions.
SPECIFICATION Spec
CONSTANTS
    MaxSessions = 2
    MaxRequests = 1
    Tasks = {t1, t2, t3}
    PeerDecides = TRUE
    Inputs = {"microphone", "disconnect", "cancel scan", "dialog"}
    Permits = {"camera", "microphone"}
SYMMETRY Symmetry
INVARIANTS
    TypeOK
    RecordsOnCurrentSession
    WindowShowsSession
PROPERTIES
    OnlyOwnEndDisconnects
\* The user may do nothing, and the bounds end.
CHECK_DEADLOCK FALSE
