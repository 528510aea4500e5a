----------------------------- MODULE AppSession -----------------------------
(***************************************************************************)
(* The application of ale-gui/src/lib.rs: AppState, the flags of the       *)
(* window, and the tasks its callbacks spawn on the UI's event loop.       *)
(*                                                                         *)
(* One thread runs everything.  A task runs from one await to the next, in *)
(* one step here or in a few where an await does not suspend it; what it   *)
(* read before an await may be stale after.                                *)
(* The loop takes closures and woken tasks in the order they were posted   *)
(* (Slint's invoke_from_event_loop and wakers).  The state mutex is never  *)
(* held across an await, so it never makes a task wait; stream_gate is.    *)
(* A request id carries the session that issued it: <<session, number>>.   *)
(*                                                                         *)
(* The session actors run on other threads.  What is said of them here is  *)
(* what remote_session.rs does: commands in order, a preview and a status  *)
(* kept waiting, a cancel that answers them, a close of the socket that    *)
(* nothing bounds, and after it every call answered before and after       *)
(* Disconnected is published.                                              *)
(***************************************************************************)
EXTENDS Naturals, Sequences, SequencesExt, FiniteSets, FiniteSetsExt

CONSTANTS
    \* Bounds of an instance.
    MaxSessions,   \* pairings that succeed
    MaxRequests,   \* uploads begun in one session
    Tasks,         \* places for tasks that are alive at the same time
    PeerDecides,   \* the desktop asks for decisions
    Inputs,        \* what the user and the system do to the window
    Permits        \* permissions granted in an earlier launch

ASSUME AppAssumption ==
    MaxSessions \in Nat \ {0} /\ MaxRequests \in Nat \ {0} /\ IsFiniteSet(Tasks)
    /\ 0 \notin Tasks      \* 0 stands for no task, and for a command without one
    /\ PeerDecides \in BOOLEAN
    /\ Inputs \subseteq {"microphone", "cancel", "dialog", "disconnect", "cancel scan", "background"}
    /\ Permits \subseteq {"camera", "microphone"}

Sessions == 1 .. MaxSessions
Ids == Sessions \X (1 .. MaxRequests)
NoSession == 0
NoId == <<0, 0>>
Shutdown == 0      \* in a session's queue: the command nobody waits for

VARIABLES
    \* The UI thread.
    state,       \* AppState
    app,         \* the properties of AppWindow that guard something
    activity,    \* the last event of its life cycle; the permissions granted
    loop,        \* tasks, posted work, the task whose turn goes on, and the
                 \* holder of stream_gate with its waiters
    \* The sessions, dead or alive.
    life,        \* per session: "unborn", "open" to calls, "ended"
    closing,     \* open sessions whose loop is left, in the close of the socket
    queue,       \* commands sent and not handled: the tasks that wait for them
    parked,      \* tasks whose reply is kept for a preview or a status
    active,      \* the upload of each session
    event,       \* the value of the watch channel its subscriber has not seen
    issued       \* per session, how many ids it gave out

uiVars == <<state, app, activity>>
sessionVars == <<life, closing, parked, active, event, issued>>
vars == <<uiVars, loop, queue, sessionVars>>

-----------------------------------------------------------------------------

Nothing == [kind |-> "none", id |-> NoId]
Dialogs == {Nothing} \cup [kind : {"decision", "plan"}, id : Ids]
Disconnected == [kind |-> "disconnected", id |-> NoId]
Events == {Nothing, Disconnected} \cup [kind : {"decision"}, id : Ids]

\* A task: which callback or timer started it, the await it is at, the request
\* and the session it works on, whether its ticket of the input epoch or its
\* scan token is still the current one, the generation it started with, what
\* the dialog showed when it was tapped, the answer it was woken with, and
\* whether the recording had reached its limit when a tick drained it.
NoTask == [kind |-> "none", at |-> "none", id |-> NoId, on |-> NoSession, valid |-> FALSE,
           generation |-> 0, saw |-> Nothing, answer |-> "none", due |-> FALSE]
NewTask(kind, at) == [NoTask EXCEPT !.kind = kind, !.at = at, !.valid = TRUE]

TypeOK ==
    /\ state \in [session : Sessions \cup {NoSession}, generation : 0 .. 2 * MaxSessions,
                  recorder : BOOLEAN, recording_request_id : Ids \cup {NoId},
                  pending_request_id : Ids \cup {NoId}, pending_decision : Ids \cup {NoId}]
    /\ app \in [remote_connected : BOOLEAN, is_busy : BOOLEAN, input_pending : BOOLEAN,
                voice_recording : BOOLEAN, remote_scanning : BOOLEAN, dialog : Dialogs]
    /\ activity \in [phase : {"resumed", "paused for dialog", "paused", "stopped"},
                    permits : SUBSET {"camera", "microphone"}]
    /\ DOMAIN loop.task = Tasks
    /\ loop.ready \in Seq(Tasks) /\ IsInjective(loop.ready)
    /\ loop.turn \in Tasks \cup {0}
    /\ loop.gate \in Seq(Tasks) /\ IsInjective(loop.gate)
    /\ life \in [Sessions -> {"unborn", "open", "ended"}]
    /\ closing \subseteq Sessions
    /\ queue \in [Sessions -> Seq(Tasks \cup {Shutdown})]
    /\ parked \subseteq Tasks
    /\ active \in [Sessions -> Ids \cup {NoId}]
    /\ event \in [Sessions -> Events]
    /\ issued \in [Sessions -> 0 .. MaxRequests]

ClearedButRecording(s) ==
    [s EXCEPT !.recording_request_id = NoId, !.pending_request_id = NoId,
              !.pending_decision = NoId]
ClearedRequest(s) ==
    [s EXCEPT !.recorder = FALSE, !.recording_request_id = NoId,
              !.pending_request_id = NoId, !.pending_decision = NoId]

Init ==
    /\ state = [session |-> NoSession, generation |-> 0, recorder |-> FALSE,
                recording_request_id |-> NoId, pending_request_id |-> NoId,
                pending_decision |-> NoId]
    /\ app = [remote_connected |-> FALSE, is_busy |-> FALSE, input_pending |-> FALSE,
              voice_recording |-> FALSE, remote_scanning |-> FALSE, dialog |-> Nothing]
    /\ activity = [phase |-> "resumed", permits |-> Permits]
    /\ loop = [task |-> [t \in Tasks |-> NoTask], ready |-> <<>>, turn |-> 0,
             gate |-> <<>>]
    /\ life = [s \in Sessions |-> "unborn"]
    /\ closing = {}
    /\ queue = [s \in Sessions |-> <<>>]
    /\ parked = {}
    /\ active = [s \in Sessions |-> NoId]
    /\ event = [s \in Sessions |-> Nothing]
    /\ issued = [s \in Sessions |-> 0]

-----------------------------------------------------------------------------
(* The event loop.                                                         *)

task == loop.task
Unused == {t \in Tasks : task[t] = NoTask}
Foreground == activity.phase = "resumed"     \* android::is_foreground
Room == Unused # {}       \* Bound: a callback finds a place for its task

Spawn(l, new) ==
    LET t == CHOOSE t \in Unused : TRUE
    IN [l EXCEPT !.task[t] = new, !.ready = Append(@, t)]
Wake(l, t, answer) == [l EXCEPT !.task[t].answer = answer, !.ready = Append(@, t)]

At(l, t, at) == [l EXCEPT !.task[t].at = at, !.task[t].answer = "none"]
\* Task t goes on in the same turn, past an await that did not suspend it.
Continues(l, t, at) == [At(l, t, at) EXCEPT !.ready = <<t>> \o @, !.turn = t]

\* stream_gate is a tokio mutex: the longest waiting task gets it next.
Unlock(l) == [l EXCEPT !.gate = Tail(@),
                       !.ready = IF Len(l.gate) > 1 THEN Append(@, l.gate[2]) ELSE @]
Lock(l, t, at) ==
    IF l.gate = <<>> THEN [Continues(l, t, at) EXCEPT !.gate = <<t>>]
    ELSE [At(l, t, at) EXCEPT !.gate = Append(@, t)]
Holds(t) == loop.gate # <<>> /\ Head(loop.gate) = t

\* What a turn of task t does to the loop and to the commands in flight.
Polled == [loop EXCEPT !.ready = Tail(@), !.turn = 0]
Resumes(t, kind, at) == task[t].kind \in kind /\ task[t].at = at
Suspends(l) == loop' = l /\ UNCHANGED queue
Locks(t, at) == Suspends(Lock(Polled, t, at))
\* A task that ends lets go of the gate.
Ends(t) == Suspends([IF Holds(t) THEN Unlock(Polled) ELSE Polled EXCEPT !.task[t] = NoTask])
\* A method of session s is called about id and awaited.  On a session that has
\* ended it fails without waiting.
CallsFrom(l, t, s, id, at) ==
    LET call == [At(l, t, at) EXCEPT !.task[t].on = s, !.task[t].id = id]
    IN IF life[s] = "open"
       THEN loop' = call /\ queue' = [queue EXCEPT ![s] = Append(@, t)]
       ELSE /\ loop' = [Continues(call, t, at) EXCEPT !.task[t].answer = "error"]
            /\ UNCHANGED queue
Calls(t, s, id, at) == CallsFrom(Polled, t, s, id, at)
\* shutdown is sent and not awaited; the task ends.
EndsShuttingDown(t, s) ==
    /\ loop' = [IF Holds(t) THEN Unlock(Polled) ELSE Polled EXCEPT !.task[t] = NoTask]
    /\ queue' = IF s # NoSession /\ life[s] = "open"
                THEN [queue EXCEPT ![s] = Append(@, Shutdown)] ELSE queue

OutdatedTask(r, kind) == [r EXCEPT !.valid = @ /\ r.kind # kind]
Outdated(l, kind) == [l EXCEPT !.task = [t \in Tasks |-> OutdatedTask(@[t], kind)]]
AdvancesNot(l) == l
\* The epoch advances: tickets given out before are not current any more.
Advanced(l) == Outdated(l, "toggle")
\* The token in qr_scan_cancel is taken and set.
ScanCancelled(l) == Outdated(l, "scan")

ResetRequestUi(a) ==
    [a EXCEPT !.input_pending = FALSE, !.voice_recording = FALSE, !.dialog = Nothing]
Idle(a) == [a EXCEPT !.is_busy = FALSE]
ResetForgetsBusy(a) == ResetRequestUi(a)
ResetAndIdle(a) == Idle(ResetRequestUi(a))

-----------------------------------------------------------------------------
(* ensure_permission (android.rs).                                         *)

Asked(t) == IF task[t].kind = "scan" THEN "camera" ELSE "microphone"
DialogTasks == {t \in Tasks : task[t].at = "permission" /\ task[t].answer = "none"}
PermissionDialogOpen == DialogTasks # {}

\* A permission that was granted is granted at once; a second dialog is refused.
EnsuresPermission(l, t) ==
    LET answered == Continues(l, t, "permission")
    IN Suspends(IF Asked(t) \in activity.permits
                THEN [answered EXCEPT !.task[t].answer = "granted"]
                ELSE IF PermissionDialogOpen THEN [answered EXCEPT !.task[t].answer = "denied"]
                ELSE At(l, t, "permission"))

\* While its dialog is open the task looks, every quarter of a second, whether
\* the permission is granted and the activity back.  It gives up half a second
\* after the activity is back, or at its deadline.
PermissionPolled(t) ==
    /\ loop.turn = 0
    /\ t \in DialogTasks
    /\ \E answer \in {"granted", "denied"} :
        /\ answer = "granted" => Foreground /\ Asked(t) \in activity.permits
        /\ loop' = [Continues(loop, t, "permission") EXCEPT !.task[t].answer = answer]
    /\ UNCHANGED <<uiVars, queue, sessionVars>>

-----------------------------------------------------------------------------
(* wire_recording: the microphone button, and start_recording.             *)

MayToggleOverDialog == ~app.is_busy /\ ~app.input_pending
\* The button is enabled under this condition, which the task tests again.
MayToggle == ~app.is_busy /\ ~app.input_pending /\ app.dialog = Nothing

TapMicrophone == MayToggle /\ loop' = Spawn(loop, NewTask("toggle", "start")) /\ UNCHANGED app

\* A tap ends the recording if there is one, or asks to start one.
ToggleStarts(t) ==
    /\ Resumes(t, {"toggle"}, "start")
    /\ UNCHANGED state
    /\ LET allowed == app.remote_connected /\ MayToggle /\ Foreground
           ticketed == [Advanced(Polled) EXCEPT !.task[t].valid = TRUE]
       IN \/ ~allowed /\ Ends(t) /\ UNCHANGED app
          \/ allowed /\ state.recorder /\ Locks(t, "finalize") /\ UNCHANGED app
          \/ /\ allowed /\ ~state.recorder
             /\ app' = [app EXCEPT !.input_pending = TRUE]
             /\ EnsuresPermission(ticketed, t)

NotPendingForgotten(t) == app
\* At its end the task clears the flag only while its ticket is current.
NotPending(t) == [app EXCEPT !.input_pending = @ /\ ~task[t].valid]

ToggleResumes(t) ==
    /\ Resumes(t, {"toggle"}, "permission")
    /\ UNCHANGED state
    /\ LET current == app.input_pending /\ task[t].valid
           usable == Foreground /\ app.remote_connected /\ task[t].answer = "granted"
       IN \/ ~current /\ Ends(t) /\ UNCHANGED app
          \/ current /\ ~usable /\ Ends(t) /\ app' = [app EXCEPT !.input_pending = FALSE]
          \/ current /\ usable /\ Locks(t, "record") /\ UNCHANGED app

\* With the gate: the device may refuse, the session may be gone.  The microphone
\* runs from here on, and is the task's alone while begin_audio is awaited.
StartRecording(t) ==
    /\ Resumes(t, {"toggle"}, "record")
    /\ UNCHANGED state
    /\ \/ Ends(t) /\ app' = NotPending(t)
       \/ state.session # NoSession /\ Calls(t, state.session, NoId, "begin") /\ UNCHANGED app

Starting == {t \in Tasks : task[t].kind = "toggle" /\ task[t].at = "begin"}
MicrophoneRuns == state.recorder \/ Starting # {}

StillWantedUnchecked(t) == state.session # NoSession
\* What start_recording looks at again after begin_audio.
StillWanted(t) ==
    task[t].valid /\ app.input_pending /\ Foreground /\ state.session # NoSession
UndoForgotten(t) == Ends(t)
Undo(t) == Calls(t, task[t].on, task[t].id, "undo")

\* The application takes the recorder, or the task stops it.
RecordingBegins(t) ==
    /\ Resumes(t, {"toggle"}, "begin")
    /\ LET began == task[t].answer = "ok"
       IN \/ ~began /\ Ends(t) /\ app' = NotPending(t) /\ UNCHANGED state
          \/ began /\ ~StillWanted(t) /\ Undo(t) /\ UNCHANGED <<state, app>>
          \/ /\ began /\ StillWanted(t)
             /\ state' = [state EXCEPT !.recorder = TRUE,
                                       !.recording_request_id = task[t].id,
                                       !.pending_request_id = task[t].id]
             /\ app' = [NotPending(t) EXCEPT !.voice_recording = TRUE]
             /\ Ends(t)

RecordingUndone(t) ==
    Resumes(t, {"toggle"}, "undo") /\ Ends(t) /\ app' = NotPending(t) /\ UNCHANGED state

-----------------------------------------------------------------------------
(* wire_recording: cancelling a recording, its start, or a request.        *)

CancelsRequest(l, a) ==
    /\ loop' = Spawn(Advanced(l), NewTask("cancel", "start"))
    /\ app' = [a EXCEPT !.input_pending = FALSE, !.voice_recording = FALSE, !.is_busy = TRUE]

TapCancel ==
    /\ app.dialog = Nothing
    /\ app.is_busy \/ app.voice_recording \/ app.input_pending
    /\ CancelsRequest(loop, app)

\* Cancels request id, if any, and resets the window when that is done.
CancelsAndResets(t, id, at) ==
    IF state.session # NoSession /\ id # NoId
    THEN Calls(t, state.session, id, at) /\ UNCHANGED app
    ELSE Ends(t) /\ app' = ResetAndIdle(app)

CancelStarts(t) ==
    /\ Resumes(t, {"cancel"}, "start")
    /\ state' = ClearedRequest(state)
    /\ CancelsAndResets(t, IF state.recording_request_id # NoId THEN state.recording_request_id
                           ELSE state.pending_request_id, "cancelling")

\* The end of a cancel, of abort_recording, and of a finalize_recording whose
\* audio was lost; the last leaves pending_request_id as it is.
CancelDone(t) ==
    /\ \E at \in {"cancelling", "aborting", "dropping"} :
        Resumes(t, {"cancel", "tick", "toggle"}, at)
    /\ Ends(t)
    /\ app' = ResetAndIdle(app)
    /\ UNCHANGED state

-----------------------------------------------------------------------------
(* recording_tick, every 100 ms; drain_running admits one at a time.       *)

\* A tick that finds the gate free and no recorder changes nothing: left out.
TickDue ==
    /\ Room
    /\ state.recorder \/ loop.gate # <<>>
    /\ \A t \in Tasks : task[t].kind # "tick"
    /\ loop' = Spawn(loop, NewTask("tick", "start"))
    /\ UNCHANGED <<uiVars, queue, sessionVars>>

TickStarts(t) == Resumes(t, {"tick"}, "start") /\ Locks(t, "drain") /\ UNCHANGED <<state, app>>

AbortedKeepsRecorder == [state EXCEPT !.recording_request_id = NoId, !.pending_request_id = NoId]
\* abort_recording: the decision of the request stays.
Aborted == [state EXCEPT !.recorder = FALSE, !.recording_request_id = NoId,
                         !.pending_request_id = NoId]
Aborts(t) == state' = Aborted /\ CancelsAndResets(t, state.recording_request_id, "aborting")

\* At the limit of the recording the gate is dropped and locked again.
Drained(t, due) == IF due THEN Suspends(Lock(Unlock(Polled), t, "finalize")) ELSE Ends(t)

\* The recorder has nothing new, or a chunk, or reports that it overflowed.
TickDrains(t) ==
    /\ Resumes(t, {"tick"}, "drain")
    /\ LET s == state.session
           id == state.recording_request_id
           complete == state.recorder /\ s # NoSession /\ id # NoId
       IN \/ ~complete /\ Ends(t) /\ UNCHANGED <<state, app>>
          \/ state.recorder /\ Aborts(t)
          \/ /\ complete
             /\ \E due \in BOOLEAN :
                 \/ Drained(t, due)
                 \/ CallsFrom([Polled EXCEPT !.task[t].due = due], t, s, id, "sending")
             /\ UNCHANGED <<state, app>>

TickSent(t) ==
    /\ Resumes(t, {"tick"}, "sending")
    /\ \/ task[t].answer = "error" /\ Aborts(t)
       \/ task[t].answer = "ok" /\ Drained(t, task[t].due) /\ UNCHANGED <<state, app>>

-----------------------------------------------------------------------------
(* finalize_recording, in the task of a tap or of a tick, gate held to the *)
(* end: the rest of the audio, then finish_audio until its preview.        *)

Finalizers == {"toggle", "tick"}
IsPending(id) == state.pending_request_id = id

\* The next chunk is sent only for the pending request; finish_audio is called
\* after the last one whatever is pending.
SendsRest(t, s, id) ==
    \/ ~IsPending(id) /\ Ends(t)
    \/ IsPending(id) /\ Calls(t, s, id, "last")
    \/ Calls(t, s, id, "finishing")

\* The recorder is asked for its rest, or reports that it overflowed.
Finalize(t) ==
    /\ Resumes(t, Finalizers, "finalize")
    /\ state' = [state EXCEPT !.recorder = FALSE, !.recording_request_id = NoId]
    /\ LET s == state.session
           id == state.recording_request_id
           complete == state.recorder /\ s # NoSession /\ id # NoId
       IN \/ ~complete /\ Ends(t) /\ UNCHANGED app
          \/ /\ complete
             /\ app' = [app EXCEPT !.voice_recording = FALSE, !.is_busy = TRUE]
             /\ SendsRest(t, s, id) \/ Calls(t, s, id, "dropping")

LastChunkSent(t) ==
    /\ Resumes(t, Finalizers, "last")
    /\ UNCHANGED <<state, app>>
    /\ LET s == task[t].on
           id == task[t].id
           failed == task[t].answer = "error"
       IN \/ ~failed /\ SendsRest(t, s, id)
          \/ failed /\ ~IsPending(id) /\ Ends(t)
          \/ failed /\ IsPending(id) /\ Calls(t, s, id, "dropping")

\* With publish_preview: a plan stays pending, an answer without one does not.
PreviewArrives(t) ==
    /\ Resumes(t, Finalizers, "finishing")
    /\ Ends(t)
    /\ LET id == task[t].id
           answer == task[t].answer
           none_pending == [state EXCEPT !.pending_request_id = NoId]
       IN \/ ~IsPending(id) /\ UNCHANGED <<state, app>>
          \/ /\ IsPending(id) /\ answer = "plan"
             /\ app' = [Idle(app) EXCEPT !.dialog = [kind |-> "plan", id |-> id]]
             /\ UNCHANGED state
          \/ /\ IsPending(id) /\ answer = "no_plan"
             /\ app' = [Idle(app) EXCEPT !.dialog = Nothing]
             /\ state' = none_pending
          \/ IsPending(id) /\ answer = "cancelled" /\ app' = Idle(app) /\ UNCHANGED state
          \/ IsPending(id) /\ answer = "error" /\ app' = ResetAndIdle(app) /\ state' = none_pending

-----------------------------------------------------------------------------
(* wire_confirmation: both buttons of a dialog, and back.                  *)

\* The dialog goes when the task starts, not with the tap.
TapDialog ==
    /\ app.dialog # Nothing
    /\ loop' = Spawn(loop, [NewTask("answer", "start") EXCEPT !.saw = app.dialog])
    /\ UNCHANGED app

\* A decision that is pending is answered first, whatever the dialog showed.
AnswerStarts(t) ==
    /\ Resumes(t, {"answer"}, "start")
    /\ state' = [state EXCEPT !.pending_decision = NoId]
    /\ LET s == state.session
           id == IF state.pending_decision # NoId THEN state.pending_decision
                 ELSE state.pending_request_id
           at == IF state.pending_decision # NoId THEN "responding" ELSE "confirming"
           started == [Polled EXCEPT !.task[t].generation = state.generation]
           busy == [app EXCEPT !.is_busy = TRUE, !.dialog = Nothing]
       IN IF s # NoSession /\ id # NoId
          THEN CallsFrom(started, t, s, id, at) /\ app' = busy
          ELSE Ends(t) /\ app' = Idle(busy)

AnyGeneration(t) == TRUE
SameGeneration(t) == task[t].generation = state.generation

DecisionSent(t) ==
    /\ Resumes(t, {"answer"}, "responding")
    /\ Ends(t)
    /\ app' = IF SameGeneration(t) THEN Idle(app) ELSE app
    /\ UNCHANGED state

ConfirmsAnyRequest(t) == SameGeneration(t)
StillConfirming(t) == SameGeneration(t) /\ IsPending(task[t].id)

Confirmed(t) ==
    /\ Resumes(t, {"answer"}, "confirming")
    /\ Ends(t)
    /\ \/ /\ StillConfirming(t)
          /\ state' = [state EXCEPT !.pending_request_id = NoId]
          /\ app' = Idle(app)
       \/ ~StillConfirming(t) /\ UNCHANGED <<state, app>>

-----------------------------------------------------------------------------
(* wire_disconnect.                                                        *)

TapDisconnect ==
    /\ app.remote_connected
    /\ app' = [app EXCEPT !.remote_connected = FALSE, !.input_pending = FALSE, !.is_busy = TRUE]
    /\ loop' = Spawn(ScanCancelled(loop), NewTask("disconnect", "start"))

Disconnects(t) ==
    /\ Resumes(t, {"disconnect"}, "start")
    /\ state' = [ClearedRequest(state) EXCEPT !.generation = @ + 1, !.session = NoSession]
    /\ app' = [ResetAndIdle(app) EXCEPT !.remote_connected = FALSE, !.remote_scanning = FALSE]
    /\ EndsShuttingDown(t, state.session)

-----------------------------------------------------------------------------
(* wire_scan, start_qr_scan and connect_session, one task for the three.   *)

TapScan ==
    /\ ~app.remote_connected /\ ~app.is_busy
    /\ app' = [app EXCEPT !.is_busy = TRUE]
    /\ loop' = Spawn(ScanCancelled(loop), NewTask("scan", "start"))

ScanStarts(t) ==
    /\ Resumes(t, {"scan"}, "start")
    /\ EnsuresPermission(Polled, t)
    /\ UNCHANGED <<state, app>>

\* The button is there while a scan or a connection is under way.
TapCancelScan ==
    /\ ~app.remote_connected
    /\ app.remote_scanning \/ app.is_busy
    /\ loop' = ScanCancelled(loop)
    /\ app' = [Idle(app) EXCEPT !.remote_scanning = FALSE]

ScanResumes(t) ==
    /\ Resumes(t, {"scan"}, "permission")
    /\ UNCHANGED state
    /\ LET current == task[t].valid
           granted == task[t].answer = "granted"
       IN \/ ~current /\ Ends(t) /\ UNCHANGED app
          \/ current /\ ~granted /\ Ends(t) /\ app' = Idle(app)
          \/ /\ current /\ granted
             /\ app' = [app EXCEPT !.is_busy = TRUE, !.remote_connected = FALSE,
                                   !.remote_scanning = TRUE]
             /\ Suspends(At(Polled, t, "camera"))

\* The camera thread returns; only the scan whose token is current is heard.
CameraReturns(t) ==
    /\ task[t].at = "camera" /\ task[t].answer = "none"
    /\ \/ ~task[t].valid /\ loop' = [loop EXCEPT !.task[t] = NoTask]
       \/ task[t].valid /\ \E answer \in {"found", "failed"} : loop' = Wake(loop, t, answer)
    /\ UNCHANGED <<uiVars, queue, sessionVars>>

ScanPublished(t) ==
    /\ Resumes(t, {"scan"}, "camera")
    /\ UNCHANGED state
    /\ LET current == task[t].valid
           scanned == [app EXCEPT !.remote_scanning = FALSE]
       IN \/ ~current /\ Ends(t) /\ UNCHANGED app
          \/ current /\ task[t].answer = "failed" /\ Ends(t) /\ app' = Idle(scanned)
          \/ /\ current /\ task[t].answer = "found"
             /\ Suspends(At(Polled, t, "connecting")) /\ app' = scanned

\* The handshake ends, within its timeouts.
HandshakeEnds(t) ==
    /\ task[t].at = "connecting" /\ task[t].answer = "none"
    /\ loop' = Wake(loop, t, "over")
    /\ UNCHANGED <<uiVars, queue, sessionVars>>

FailureAlwaysHeard(t) == TRUE
FailureHeard(t) == task[t].valid

\* RemoteSession::connect fails, or spawns the actor, which runs from here on.
\* Bound: MaxSessions succeed.
Connects(t) ==
    /\ Resumes(t, {"scan"}, "connecting")
    /\ UNCHANGED <<state, event>>
    /\ \/ /\ Ends(t)
          /\ app' = IF FailureHeard(t) THEN [Idle(app) EXCEPT !.remote_connected = FALSE] ELSE app
          /\ UNCHANGED life
       \/ /\ \E s \in Sessions :
              /\ life[s] = "unborn" /\ \A r \in 1 .. s - 1 : life[r] # "unborn"
              /\ life' = [life EXCEPT ![s] = "open"]
              /\ Suspends([Continues(Polled, t, "connected") EXCEPT !.task[t].on = s])
          /\ UNCHANGED app

\* The subscriber starts from the value of the moment: it is seen.
Subscribes(t) ==
    /\ Resumes(t, {"scan"}, "connected")
    /\ UNCHANGED <<state, app, life>>
    /\ \/ ~task[t].valid /\ EndsShuttingDown(t, task[t].on) /\ UNCHANGED event
       \/ task[t].valid /\ Locks(t, "install") /\ event' = [event EXCEPT ![task[t].on] = Nothing]

\* With the gate, so never between two steps of a recording of an old session.
\* The task goes on as the one that reads the session's events.
Installs(t) ==
    /\ Resumes(t, {"scan"}, "install")
    /\ LET s == task[t].on
           watcher == [NewTask("events", "changed") EXCEPT
                        !.on = s, !.generation = state.generation + 1]
           installed == [Unlock(Polled) EXCEPT !.task[t] = watcher]
       IN \/ ~task[t].valid /\ EndsShuttingDown(t, s) /\ UNCHANGED <<state, app>>
          \/ /\ task[t].valid
             /\ state' = [ClearedRequest(state) EXCEPT !.generation = @ + 1, !.session = s]
             /\ app' = [Idle(app) EXCEPT !.remote_connected = TRUE]
             /\ Suspends(IF event[s] = Nothing THEN installed
                         ELSE [installed EXCEPT !.ready = Append(@, t)])

\* The task of a session's events.  A decision that is not about the pending
\* request clears the one that is pending.
EventRead(t) ==
    /\ Resumes(t, {"events"}, "changed")
    /\ event' = [event EXCEPT ![task[t].on] = Nothing]
    /\ UNCHANGED life
    /\ LET read == event[task[t].on]
           mine == SameGeneration(t)
       IN \/ ~mine /\ Ends(t) /\ UNCHANGED <<state, app>>
          \/ /\ mine /\ read = Disconnected
             /\ state' = [ClearedRequest(state) EXCEPT !.session = NoSession]
             /\ app' = [ResetAndIdle(app) EXCEPT !.remote_connected = FALSE]
             /\ Ends(t)
          \/ /\ mine /\ read.kind = "decision"
             /\ state' = [state EXCEPT !.pending_decision = IF IsPending(read.id) THEN read.id ELSE NoId]
             /\ app' = IF IsPending(read.id) THEN [Idle(app) EXCEPT !.dialog = read] ELSE app
             /\ Suspends(Polled)

-----------------------------------------------------------------------------
(* android_main: the life cycle of the activity.                           *)

\* on_backgrounded.
Backgrounded ==
    LET connected == app.remote_connected
        l == IF connected THEN loop ELSE ScanCancelled(loop)
        a == IF connected THEN app ELSE [Idle(app) EXCEPT !.remote_scanning = FALSE]
    IN IF app.voice_recording \/ app.input_pending THEN Room /\ CancelsRequest(l, a)
       ELSE loop' = l /\ app' = a

\* A pause while a permission dialog is open is taken for the dialog's.
Pause ==
    /\ Foreground
    /\ \/ /\ ~PermissionDialogOpen /\ "background" \in Inputs
          /\ activity' = [activity EXCEPT !.phase = "paused"]
          /\ Backgrounded
       \/ /\ PermissionDialogOpen
          /\ activity' = [activity EXCEPT !.phase = "paused for dialog"]
          /\ UNCHANGED <<loop, app>>
    /\ UNCHANGED <<state, queue, sessionVars>>

Stop ==
    /\ "background" \in Inputs
    /\ activity.phase \in {"paused", "paused for dialog"}
    /\ activity' = [activity EXCEPT !.phase = "stopped"]
    /\ Backgrounded
    /\ UNCHANGED <<state, queue, sessionVars>>

\* The user may have granted what a dialog asked for.
Resume ==
    /\ ~Foreground
    /\ \E granted \in SUBSET {Asked(t) : t \in DialogTasks} :
        activity' = [phase |-> "resumed", permits |-> activity.permits \cup granted]
    /\ UNCHANGED <<state, app, loop, queue, sessionVars>>

-----------------------------------------------------------------------------
(* The session actors (run_session).                                       *)

Woken(l, ts, answer) ==
    [l EXCEPT !.ready = @ \o ts,
              !.task = [t \in Tasks |->
                IF t \in ToSet(ts) THEN [@[t] EXCEPT !.answer = answer] ELSE @[t]]]

ParkedAt(s, at) == {t \in parked : task[t].on = s /\ task[t].at = at}
\* The replies kept about requests ids: each slot has one at most, and that of
\* the preview is answered first.
Kept(s, ids) ==
    LET slot(at) == SetToSeq({t \in ParkedAt(s, at) : task[t].id \in ids})
    IN slot("finishing") \o slot("confirming")

WatcherTwice(s) == SetToSeq({t \in Tasks : task[t].kind = "events" /\ task[t].on = s})
\* The reader of a session's events wakes once for what it has not seen.
Watcher(s) ==
    SetToSeq({t \in Tasks \ ToSet(loop.ready) : task[t].kind = "events" /\ task[t].on = s})

InLoop(s) == life[s] = "open" /\ s \notin closing

HandleCommand(s) ==
    /\ InLoop(s)
    /\ queue[s] # <<>> /\ Head(queue[s]) # Shutdown
    /\ queue' = [queue EXCEPT ![s] = Tail(@)]
    /\ LET t == Head(queue[s])
           id == task[t].id
           Gone == active' = [active EXCEPT ![s] = NoId]
       IN \/ /\ \/ task[t].at \in {"begin", "sending", "last"}
                \/ task[t].at \in {"finishing", "confirming"} /\ ParkedAt(s, task[t].at) # {}
                \/ task[t].at = "finishing" /\ active[s] # id
             /\ loop' = Wake(loop, t, "error")
             /\ UNCHANGED <<parked, active, issued>>
          \/ /\ task[t].at = "finishing"
             /\ active[s] = id /\ ParkedAt(s, "finishing") = {}
             /\ Gone
             /\ \/ loop' = Wake(loop, t, "error") /\ UNCHANGED parked    \* EMPTY_AUDIO
                \/ parked' = parked \cup {t} /\ UNCHANGED loop
             /\ UNCHANGED issued
          \/ /\ task[t].at = "begin"
             /\ active[s] = NoId
             /\ issued[s] < MaxRequests
             /\ issued' = [issued EXCEPT ![s] = @ + 1]
             /\ active' = [active EXCEPT ![s] = <<s, issued'[s]>>]
             /\ loop' = Wake([loop EXCEPT !.task[t].id = active'[s]], t, "ok")
             /\ UNCHANGED parked
          \/ /\ task[t].at \in {"sending", "last"}
             /\ active[s] = id
             /\ loop' = Wake(loop, t, "ok")
             /\ UNCHANGED <<parked, active, issued>>
          \/ /\ task[t].at = "responding"
             /\ loop' = Wake(loop, t, "ok")
             /\ UNCHANGED <<parked, active, issued>>
          \/ /\ task[t].at = "confirming"
             /\ ParkedAt(s, "confirming") = {}
             /\ parked' = parked \cup {t}
             /\ UNCHANGED <<loop, active, issued>>
          \/ /\ task[t].at \in {"undo", "cancelling", "aborting", "dropping"}
             /\ loop' = Wake(Woken(loop, Kept(s, {id}), "cancelled"), t, "ok")
             /\ parked' = parked \ ToSet(Kept(s, {id}))
             /\ IF active[s] = id THEN Gone ELSE UNCHANGED active
             /\ UNCHANGED issued
    /\ UNCHANGED <<uiVars, life, closing, event>>

\* The desktop answers, or its deadline passes.
PeerAnswers(s) ==
    /\ InLoop(s)
    /\ \E t \in parked :
        /\ task[t].on = s
        /\ \E answer \in IF task[t].at = "finishing" THEN {"plan", "no_plan", "cancelled", "error"}
                         ELSE {"ok", "error"} :
            loop' = Wake(loop, t, answer)
        /\ parked' = parked \ {t}
    /\ UNCHANGED <<uiVars, queue, life, closing, active, event, issued>>

\* A decision is routed only for the request whose preview is awaited.
PeerAsks(s) ==
    /\ PeerDecides
    /\ InLoop(s)
    /\ \E t \in ParkedAt(s, "finishing") :
        event' = [event EXCEPT ![s] = [kind |-> "decision", id |-> task[t].id]]
    /\ loop' = [loop EXCEPT !.ready = @ \o Watcher(s)]
    /\ UNCHANGED <<uiVars, queue, life, closing, parked, active, issued>>

\* The loop breaks.  At a failed write its command has been answered with an error
\* by then (HandleCommand); a confirmation is answered so at no other time.
LoopBreaks(s) ==
    /\ InLoop(s)
    /\ closing' = closing \cup {s}
    /\ \/ UNCHANGED <<loop, queue>>
       \/ /\ queue[s] # <<>> /\ Head(queue[s]) # Shutdown
          /\ task[Head(queue[s])].at = "confirming"
          /\ loop' = Wake(loop, Head(queue[s]), "error")
          /\ queue' = [queue EXCEPT ![s] = Tail(@)]
    /\ UNCHANGED <<uiVars, life, parked, active, event, issued>>

ShutdownHandled(s) ==
    /\ InLoop(s)
    /\ queue[s] # <<>> /\ Head(queue[s]) = Shutdown
    /\ queue' = [queue EXCEPT ![s] = Tail(@)]
    /\ closing' = closing \cup {s}
    /\ UNCHANGED <<uiVars, loop, life, parked, active, event, issued>>

\* The commands of a queue that somebody waits for.
Awaited(q) ==
    LET upto[n \in 0 .. Len(q)] ==
            IF n = 0 THEN <<>>
            ELSE IF q[n] = Shutdown THEN upto[n - 1] ELSE Append(upto[n - 1], q[n])
    IN  upto[Len(q)]

\* The close of the socket is over: the kept replies, the event, and then the
\* commands left in the channel.
SessionEnds(s) ==
    /\ life[s] = "open" /\ s \in closing
    /\ LET kept == Kept(s, Ids)
           told == Woken(loop, kept, "error")
           watched == [told EXCEPT !.ready = @ \o Watcher(s)]
       IN /\ loop' = Woken(watched, Awaited(queue[s]), "error")
          /\ parked' = parked \ ToSet(kept)
    /\ life' = [life EXCEPT ![s] = "ended"]
    /\ closing' = closing \ {s}
    /\ event' = [event EXCEPT ![s] = Disconnected]
    /\ queue' = [queue EXCEPT ![s] = <<>>]
    /\ active' = [active EXCEPT ![s] = NoId]
    /\ UNCHANGED <<uiVars, issued>>

-----------------------------------------------------------------------------

\* The user touches the window only in the foreground.
Taps ==
    /\ Foreground /\ Room
    /\ \/ "microphone" \in Inputs /\ TapMicrophone
       \/ "cancel" \in Inputs /\ TapCancel
       \/ "dialog" \in Inputs /\ TapDialog
       \/ "disconnect" \in Inputs /\ TapDisconnect
       \/ "cancel scan" \in Inputs /\ TapCancelScan
       \/ TapScan
    /\ UNCHANGED <<state, activity, queue, sessionVars>>

\* One turn of the event loop: the oldest posted work.
Turn ==
    /\ loop.ready # <<>>
    /\ UNCHANGED <<activity, closing, parked, active, issued>>
    /\ LET t == Head(loop.ready) IN
        \/ /\ \/ ToggleStarts(t) \/ ToggleResumes(t) \/ StartRecording(t)
              \/ RecordingBegins(t) \/ RecordingUndone(t)
              \/ CancelStarts(t) \/ CancelDone(t)
              \/ TickStarts(t) \/ TickDrains(t) \/ TickSent(t)
              \/ Finalize(t) \/ LastChunkSent(t) \/ PreviewArrives(t)
              \/ AnswerStarts(t) \/ DecisionSent(t) \/ Confirmed(t)
              \/ Disconnects(t) \/ ScanStarts(t) \/ ScanResumes(t) \/ ScanPublished(t)
              \/ Installs(t)
           /\ UNCHANGED <<life, event>>
        \/ Connects(t) \/ Subscribes(t) \/ EventRead(t)

Outside == \E t \in Tasks : PermissionPolled(t) \/ CameraReturns(t) \/ HandshakeEnds(t)

Actors ==
    \E s \in Sessions :
        \/ HandleCommand(s) \/ ShutdownHandled(s) \/ PeerAnswers(s) \/ PeerAsks(s)
        \/ LoopBreaks(s) \/ SessionEnds(s)

\* Nothing of the UI thread comes between two steps of one turn.
Callbacks == loop.turn = 0 /\ (Taps \/ TickDue \/ Pause \/ Stop \/ Resume)

Next == Callbacks \/ Turn \/ Outside \/ Actors

Spec == Init /\ [][Next]_vars

\* The event loop runs what is posted.  In its loop an actor handles a command
\* and answers a kept reply within its deadlines, a permission and a handshake end
\* within theirs, and the rest of a recording is finite.  Nothing is assumed of
\* the user, the camera or the network, so nothing of a session that ends.
FairSpec ==
    /\ Spec
    /\ WF_vars(Turn)
    /\ SF_vars(Turn /\ \E t \in Tasks : task[t].at = "last" /\ loop'.task[t].at # "last")
    /\ \A s \in Sessions : WF_vars(HandleCommand(s) \/ ShutdownHandled(s)) /\ WF_vars(PeerAnswers(s))
    /\ \A t \in Tasks : SF_vars(PermissionPolled(t)) /\ WF_vars(HandshakeEnds(t))

-----------------------------------------------------------------------------

Pending(kind) == \E t \in Tasks : task[t].kind = kind /\ task[t].at = "start"
BeingStopped == Pending("cancel") \/ Pending("disconnect")

\* The application never records unseen: while it has a recorder the window says so,
\* or the task that stops it is already posted.  Every flow that resets the window
\* (cancel, abort, a failed upload) must leave alone a recording that began since in
\* the same session.  Of the microphone of a start this says nothing.
RecordingShown == state.recorder => app.voice_recording \/ BeingStopped

StartsOutdated == \A t \in Starting : ~task[t].valid

\* The microphone of a start runs while begin_audio is awaited.  Once its pending
\* input was taken from the window (a cancel, a pause, the reset at the end of an
\* earlier abort) the start never becomes a recording: the flag is back only for a
\* later tap, which outdates every start under way.
CancelledStartsStaySo ==
    [][~app.input_pending /\ app'.input_pending => StartsOutdated']_vars

\* docs/MOBILE-UI-MIGRATION.md: "Backgrounding cancels capture and recording".
\* When the app has left, what stops the recorder is posted and no start is wanted
\* any more, although its microphone runs until begin_audio is answered.  A pause
\* that is taken for the permission dialog's cancels nothing; a stop does.
BackgroundCancels ==
    activity.phase \in {"paused", "stopped"} =>
        (state.recorder => BeingStopped) /\ ~app.input_pending

\* A recording is of the session the application is connected to, and its
\* upload is the one that session has open, until the session is lost.
RecordsOnCurrentSession ==
    state.recorder =>
        /\ state.recording_request_id[1] = state.session
        /\ life[state.session] = "open" => active[state.session] = state.recording_request_id

\* An upload a session has open is being recorded or is in the hands of a task
\* that will finish or cancel it: an abandoned one would make every later
\* begin_audio fail with AUDIO_BUSY.
Handling(t, id) ==
    \/ task[t].id = id /\ task[t].at \in
        {"begin", "undo", "sending", "last", "finishing", "cancelling", "aborting", "dropping"}
NoUploadAbandoned ==
    \A s \in Sessions :
        life[s] = "open" /\ active[s] # NoId /\ s = state.session =>
            \/ state.recorder /\ state.recording_request_id = active[s]
            \/ \E t \in Tasks : Handling(t, active[s])

\* A recording is the request that is pending: what the desktop says of it is
\* shown, and a cancel is about it.  publish_preview and a confirmation that ends
\* late clear or keep pending_request_id and must not touch a newer one.
RecordingIsPending == state.recorder => state.pending_request_id = state.recording_request_id

\* What a tap approves or rejects is what the dialog showed.
AnswersWhatWasShown ==
    \A t \in Tasks :
        /\ task[t].at = "confirming" => task[t].saw = [kind |-> "plan", id |-> task[t].id]
        /\ task[t].at = "responding" => task[t].saw = [kind |-> "decision", id |-> task[t].id]

\* The connection goes from the application only because its user disconnected
\* or because that very session ended: late news of an old session, and a
\* handshake that was cancelled, leave a new session alone.
OnlyOwnEndDisconnects ==
    [][state.session # NoSession /\ state'.session = NoSession
            => Pending("disconnect") \/ life[state.session] = "ended"]_vars

\* The window says it is connected exactly when the application holds a session,
\* but for a disconnect that is posted.
WindowShowsSession ==
    ~Pending("disconnect") => (app.remote_connected <=> state.session # NoSession)

\* Nothing waits for ever, unless a session stays in the close of its socket, for
\* which the code sets no limit.  Outside a scan, which lasts until it is cancelled,
\* the window is busy only for a time, and so is the start of a recording.  Every
\* task that finds its request replaced returns without resetting the window.
NeverClosed == \E s \in Sessions : <>[](s \in closing)
BusyEnds ==
    NeverClosed \/ (app.is_busy /\ ~app.remote_scanning ~> ~app.is_busy \/ app.remote_scanning)
PendingInputEnds == NeverClosed \/ (app.input_pending ~> ~app.input_pending)

\* A microphone that the window does not show, after a cancel or a pause during
\* begin_audio, is stopped in the end.
Unseen == MicrophoneRuns /\ ~app.voice_recording /\ ~app.input_pending
UnseenMicrophoneStops == NeverClosed \/ (Unseen ~> ~Unseen)

-----------------------------------------------------------------------------
(* What the documents say of the application and its code does not do.     *)

\* docs/MOBILE-UI-MIGRATION.md:13: "Confirmation is global and blocks the
\* underlying controls."  While a confirmation shows, nothing records: the
\* button is disabled (start_recording looks at everything else again).
DialogBlocksRecording == app.dialog # Nothing => ~state.recorder
=============================================================================
