\* One session, two uploads, every tap, pauses and stops; the microphone's
\* permission is still to be asked for, and the desktop asks for no decisions (README,
\* section 6).
SPECIFICATION Spec
CONSTANTS
    MaxSessions = 1
    MaxRequests = 2
    Tasks = {t1, t2, t3, t4}
    PeerDecides = FALSE
    Inputs = {"microphone", "cancel", "dialog", "background"}
    Permits = {"camera"}
SYMMETRY Symmetry
INVARIANTS
    RecordingShown
    BackgroundCancels
    RecordingIsPending
    NoUploadAbandoned
    AnswersWhatWasShown

    
\* The user may do nothing, and the bounds end.
CHECK_DEADLOCK FALSE
