\* Two uploads, the second asked for while tasks of the first may be under way; the
\* microphone's permission is still to be asked for.
SPECIFICATION FairSpec
CONSTANTS
    MaxSessions = 1
    MaxRequests = 2
    Tasks = {t1, t2, t3}
    PeerDecides = FALSE
    Inputs = {"microphone", "cancel", "dialog"}
    Permits = {"camera"}
PROPERTIES
    BusyEnds
    PendingInputEnds
    UnseenMicrophoneStops
\* The user may do nothing, and the bounds end.
CHECK_DEADLOCK FALSE
