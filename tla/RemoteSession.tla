--------------------------- MODULE RemoteSession ---------------------------
(***************************************************************************)
(* The session actor of ale-core/src/remote_session.rs and the callers of  *)
(* its asynchronous methods.                                               *)
(*                                                                         *)
(* A caller (a UI task) hands a command to the bounded queue and waits for *)
(* its one-shot reply.  One background task, run_session, owns the socket: *)
(* each turn of its select! loop handles one command, one inbound frame,   *)
(* one maintenance tick or one heartbeat to the end.  A turn awaits only   *)
(* its own socket writes, each bounded by SEND_TIMEOUT, and nothing else   *)
(* writes the actor's variables, so a turn is one step here.               *)
(*                                                                         *)
(* The desktop is any peer at all: it may answer late, twice, about the    *)
(* wrong request or not at all.  Time is the set of deadlines that have    *)
(* passed: "due" for the two pending requests, "silent" for the heartbeat. *)
(* Noise and AME2 framing are below this module: a message is atomic.      *)
(***************************************************************************)
EXTENDS AudioAssembler, Sequences, SequencesExt

CONSTANTS
    Callers,         \* tasks that call the session's methods
    NoCaller,
    QueueCap,        \* capacity of the command channel        (64)
    MaxRetired,      \* MAX_RETIRED_REQUEST_IDS                (64)
    MaxUnexpected,   \* MAX_UNEXPECTED_RESPONSES               (3)
    TransportErrors, \* codes of a failed write: CONNECTION_INTERRUPTED,
                     \* SEND_TIMEOUT, ENCRYPT_FAILED
    \* Bounds on the environment of an instance.
    CallerOps,       \* the methods its callers use
    PeerSends        \* the messages its peer sends

ASSUME NoCallerAssumption == NoCaller \notin Callers
ASSUME BoundsAssumption ==
    /\ QueueCap \in Nat \ {0}
    /\ MaxRetired \in Nat \ {0}
    /\ MaxUnexpected \in Nat \ {0}
ASSUME TransportAssumption ==
    TransportErrors \subseteq {"CONNECTION_INTERRUPTED", "SEND_TIMEOUT", "ENCRYPT_FAILED"}

Ops == {"begin_audio", "send_audio_chunk", "finish_audio", "confirm",
        "respond_to_decision", "cancel", "shutdown"}
PeerMessages == {"CommandPreview", "ExecutionStatus", "ProgressUpdate", "DecisionRequest",
                 "AssistantOutput", "Error", "Ping", "other", "part"}

ASSUME EnvironmentAssumption == CallerOps \subseteq Ops /\ PeerSends \subseteq PeerMessages

VARIABLES
    \* The callers and the channel between them and the actor.
    call,               \* per caller: its command, or the answer of its last one
    queue,              \* callers in the order their commands were sent; those
                        \* beyond QueueCap still wait for room in the channel
    held,               \* some RemoteSession handle is alive
    \* The locals of run_session.
    phase,              \* "open" in the loop, "closing" after break, while the socket
                        \* is closed, "ending" once the kept replies are sent, "down"
                        \* once Disconnected is published, "closed" once it returned
    final_error,        \* code the loop broke with
    active_audio, pending_preview, pending_execution,
    retired_request_ids,
    unexpected_responses,
    silent,             \* last_seen is HEARTBEAT_TIMEOUT in the past
    \* What others see of it.
    issued,             \* request ids handed out by begin_audio
    event,              \* value of the watch channel the subscriber has not read
    out                 \* message written to the socket by the last step

callerVars == <<call, queue, held>>
loopVars == <<active_audio, pending_preview, pending_execution,
              retired_request_ids, unexpected_responses>>
vars == <<callerVars, phase, final_error, loopVars, silent, issued, event, out>>

-----------------------------------------------------------------------------

\* "arg" is the size of a chunk in PCM frames; MaxChunk + 1 stands for every
\* chunk too large or not aligned to a frame.  For begin_audio it is 1 when the
\* format is supported and 0 when it is not.
Args == 0 .. MaxChunk + 1

Commands ==
    [op : {"begin_audio"}, id : {NoId}, arg : {0, 1}]
    \cup [op : {"send_audio_chunk"}, id : Ids, arg : Args]
    \cup [op : {"finish_audio", "confirm", "respond_to_decision", "cancel"},
          id : Ids, arg : {0}]
    \cup [op : {"shutdown"}, id : {NoId}, arg : {0}]

EndCodes ==
    TransportErrors \cup {"CONNECTION_INTERRUPTED", "SESSION_CLOSED", "DECRYPT_FAILED",
                          "HEARTBEAT_TIMEOUT", "PROTOCOL_VIOLATION", "USER_CLOSED"}

\* "ok" is success; "interim" the success of a confirm whose status is not a
\* terminal one; "REMOTE" any code the desktop chose.
AnswerCodes ==
    EndCodes \cup {"ok", "interim", "REMOTE", "SEND_TIMEOUT", "AUDIO_BUSY",
        "UNSUPPORTED_AUDIO_FORMAT", "UNKNOWN_AUDIO_REQUEST", "INVALID_AUDIO_CHUNK",
        "AUDIO_TOO_LARGE", "EMPTY_AUDIO", "REQUEST_BUSY", "CANCELLED",
        "REQUEST_TIMEOUT", "CONFIRM_TIMEOUT"}

\* The state of a caller: "idle" with the answer of its last call, "queued"
\* while its command is in the channel or waits for room there, "parked" while
\* the actor keeps its reply for the desktop's response.
Idle(code, about) ==
    [stage |-> "idle", op |-> "none", id |-> about, arg |-> 0, code |-> code]
Calling(cmd) ==
    [stage |-> "queued", op |-> cmd.op, id |-> cmd.id, arg |-> cmd.arg, code |-> "none"]
CallStates ==
    [stage : {"idle"}, op : {"none"}, id : Ids \cup {NoId}, arg : {0},
     code : AnswerCodes \cup {"none"}]
    \cup [stage : {"queued", "parked"}, op : {"begin_audio", "shutdown"}, id : {NoId},
          arg : Args, code : {"none"}]
    \cup [stage : {"queued", "parked"}, op : Ops \ {"begin_audio", "shutdown"}, id : Ids,
          arg : Args, code : {"none"}]

NoPending == [caller |-> NoCaller, id |-> NoId, due |-> FALSE]
Pending(c, id) == [caller |-> c, id |-> id, due |-> FALSE]
Pendings == {NoPending} \cup [caller : Callers, id : Ids, due : BOOLEAN]

NoMessage == Request("none", NoId)
Messages ==
    [type : {"none", "AudioStart", "AudioChunk", "AudioEnd", "CancelRequest",
             "ConfirmExecution", "DecisionResponse"},
     id : Ids \cup {NoId}, seq : 0 .. MaxFrames, frames : 0 .. MaxFrames]

\* watch::Sender::send_replace keeps one value, the latest.
Event(kind, id) == [kind |-> kind, id |-> id]
NoEvent == Event("none", NoId)
EventKinds == {"none", "ProgressUpdate", "DecisionRequest", "AssistantOutput", "Disconnected"}
Events == [kind : EventKinds, id : Ids \cup {NoId}]

TypeOK ==
    /\ call \in [Callers -> CallStates]
    /\ queue \in Seq(Callers)
    /\ held \in BOOLEAN
    /\ phase \in {"open", "closing", "ending", "down", "closed"}
    /\ final_error \in EndCodes \cup {"none"}
    /\ active_audio \in Uploads
    /\ pending_preview \in Pendings
    /\ pending_execution \in Pendings
    /\ retired_request_ids \in Seq(Ids)
    /\ unexpected_responses \in 0 .. MaxUnexpected
    /\ silent \in BOOLEAN
    /\ issued \subseteq Ids
    /\ event \in Events
    /\ out \in Messages

Init ==
    /\ call = [c \in Callers |-> Idle("none", NoId)]
    /\ queue = <<>>
    /\ held = TRUE
    /\ phase = "open"
    /\ final_error = "none"
    /\ active_audio = NoUpload
    /\ pending_preview = NoPending
    /\ pending_execution = NoPending
    /\ retired_request_ids = <<>>
    /\ unexpected_responses = 0
    /\ silent = FALSE
    /\ issued = {}
    /\ event = NoEvent
    /\ out = NoMessage

-----------------------------------------------------------------------------
(* Building blocks of a turn of the loop.                                  *)

Continues == UNCHANGED <<phase, final_error>>
Breaks(code) == phase' = "closing" /\ final_error' = code

\* A write either succeeds or breaks the loop; a message that was encrypted may
\* have left although its write failed.
Writes(m) == out' = m /\ Continues
WriteFails(m, code) ==
    /\ code \in TransportErrors
    /\ \/ out' = NoMessage
       \/ out' = m /\ code # "ENCRYPT_FAILED"
    /\ Breaks(code)
WritesNothing == out' = NoMessage /\ Continues

Answer(c, code, about) == call' = [call EXCEPT ![c] = Idle(code, about)]

Retired(id) == \E i \in DOMAIN retired_request_ids : retired_request_ids[i] = id

RetireUnbounded(retired, id) ==
    IF \E i \in DOMAIN retired : retired[i] = id THEN retired ELSE Append(retired, id)

\* retire_request_id: no duplicates, the oldest makes room.
Retire(retired, id) ==
    IF \E i \in DOMAIN retired : retired[i] = id THEN retired
    ELSE Append(IF Len(retired) = MaxRetired THEN Tail(retired) ELSE retired, id)

Publish(kind, id) == event' = Event(kind, id)

-----------------------------------------------------------------------------
(* The callers.                                                            *)

\* Bound: at most Cardinality(Ids) uploads are begun.
BeginsQueued == {c \in Callers : call[c].stage = "queued" /\ call[c].op = "begin_audio"}
WithinBound(cmd) ==
    cmd.op = "begin_audio" => Cardinality(BeginsQueued) < Cardinality(Ids \ issued)

\* A caller with no call in progress makes one, about a request it was given.
Call(c) ==
    /\ held
    /\ call[c].stage = "idle"
    /\ \E cmd \in Commands :
        /\ cmd.op \in CallerOps
        /\ cmd.id \in issued \cup {NoId}
        /\ WithinBound(cmd)
        /\ IF phase = "closed"
           THEN /\ Answer(c, "CONNECTION_INTERRUPTED", NoId)
                /\ UNCHANGED queue
           ELSE /\ call' = [call EXCEPT ![c] = Calling(cmd)]
                /\ queue' = Append(queue, c)
    /\ out' = NoMessage
    /\ UNCHANGED <<held, phase, final_error, loopVars, silent, issued, event>>

\* send_command gives up after SEND_TIMEOUT without room in the channel.
\* shutdown sends its command without that timeout.
EnqueueTimesOut ==
    /\ phase # "closed"
    /\ \E i \in DOMAIN queue :
        /\ i > QueueCap
        /\ call[queue[i]].op # "shutdown"
        /\ queue' = RemoveAt(queue, i)
        /\ Answer(queue[i], "SEND_TIMEOUT", NoId)
    /\ out' = NoMessage
    /\ UNCHANGED <<held, phase, final_error, loopVars, silent, issued, event>>

\* The last handle goes once no call borrows it.
DropHandles ==
    /\ held
    /\ \A c \in Callers : call[c].stage = "idle"
    /\ held' = FALSE
    /\ out' = NoMessage
    /\ UNCHANGED <<call, queue, phase, final_error, loopVars, silent, issued, event>>

\* The subscriber (the UI's event task) reads the latest value.
ReadEvent ==
    /\ event # NoEvent
    /\ event' = NoEvent
    /\ out' = NoMessage
    /\ UNCHANGED <<callerVars, phase, final_error, loopVars, silent, issued>>

-----------------------------------------------------------------------------
(* One command of the queue, handled to the end (handle_command).          *)

Caller == Head(queue)
Command == call[Caller]

Takes(op) ==
    /\ phase = "open"
    /\ queue # <<>>
    /\ Command.op = op
    /\ queue' = Tail(queue)
    /\ UNCHANGED <<held, silent, event>>

\* Answering an error that is not a transport error leaves the session alone.
Rejects(code) == Answer(Caller, code, NoId) /\ WritesNothing

BeginAudio ==
    /\ Takes("begin_audio")
    /\ \/ /\ active_audio # NoUpload
          /\ Rejects("AUDIO_BUSY")
          /\ UNCHANGED <<active_audio, issued>>
       \/ /\ active_audio = NoUpload
          /\ Command.arg = 0
          /\ Rejects("UNSUPPORTED_AUDIO_FORMAT")
          /\ UNCHANGED <<active_audio, issued>>
       \/ /\ active_audio = NoUpload
          /\ Command.arg # 0
          /\ \E id \in Ids \ issued :
              \/ /\ Writes(AudioStart(id))
                 /\ active_audio' = NewUpload(id)
                 /\ issued' = issued \cup {id}
                 /\ Answer(Caller, "ok", id)
              \/ \E code \in TransportErrors :
                 /\ WriteFails(AudioStart(id), code)
                 /\ Answer(Caller, code, NoId)
                 /\ UNCHANGED <<active_audio, issued>>
    /\ UNCHANGED <<pending_preview, pending_execution,
                   retired_request_ids, unexpected_responses>>

OverLimitLate(n) == active_audio.frames + n > MaxFrames + 1
OverLimit(n) == active_audio.frames + n > MaxFrames

\* An empty chunk is accepted before anything about the upload is looked at.
ChunkError ==
    IF active_audio.id # Command.id THEN "UNKNOWN_AUDIO_REQUEST"
    ELSE IF Command.arg > MaxChunk THEN "INVALID_AUDIO_CHUNK"
    ELSE IF OverLimit(Command.arg) THEN "AUDIO_TOO_LARGE"
    ELSE "none"

SendAudioChunk ==
    /\ Takes("send_audio_chunk")
    /\ \/ /\ Command.arg = 0
          /\ Rejects("ok")
          /\ UNCHANGED active_audio
       \/ /\ Command.arg > 0
          /\ ChunkError # "none"
          /\ Rejects(ChunkError)
          /\ UNCHANGED active_audio
       \/ /\ Command.arg > 0
          /\ ChunkError = "none"
          /\ LET m == AudioChunk(Command.id, active_audio.chunks, Command.arg) IN
              \/ /\ Writes(m)
                 /\ active_audio' = Extended(active_audio, Command.arg)
                 /\ Answer(Caller, "ok", NoId)
              \/ \E code \in TransportErrors :
                 /\ WriteFails(m, code)
                 /\ Answer(Caller, code, NoId)
                 /\ UNCHANGED active_audio
    /\ UNCHANGED <<issued, pending_preview, pending_execution,
                   retired_request_ids, unexpected_responses>>

UploadAfterEnd == NoUpload

\* The upload is taken before it is known to be worth sending: an empty one is
\* dropped without a word to the desktop.
FinishAudio ==
    /\ Takes("finish_audio")
    /\ \/ /\ pending_preview # NoPending
          /\ Rejects("REQUEST_BUSY")
          /\ UNCHANGED <<active_audio, pending_preview>>
       \/ /\ pending_preview = NoPending
          /\ active_audio.id # Command.id
          /\ Rejects("UNKNOWN_AUDIO_REQUEST")
          /\ UNCHANGED <<active_audio, pending_preview>>
       \/ /\ pending_preview = NoPending
          /\ active_audio.id = Command.id
          /\ active_audio.frames = 0
          /\ Rejects("EMPTY_AUDIO")
          /\ active_audio' = NoUpload
          /\ UNCHANGED pending_preview
       \/ /\ pending_preview = NoPending
          /\ active_audio.id = Command.id
          /\ active_audio.frames # 0
          /\ active_audio' = UploadAfterEnd
          /\ \/ /\ Writes(AudioEnd(active_audio))
                /\ pending_preview' = Pending(Caller, Command.id)
                /\ call' = [call EXCEPT ![Caller].stage = "parked"]
             \/ \E code \in TransportErrors :
                /\ WriteFails(AudioEnd(active_audio), code)
                /\ Answer(Caller, code, NoId)
                /\ UNCHANGED pending_preview
    /\ UNCHANGED <<issued, pending_execution, retired_request_ids, unexpected_responses>>

ConfirmNeverBusy == FALSE
ConfirmBusy == pending_execution # NoPending

\* Confirm looks at nothing but the slot: not at the preview, not at whether the
\* request was retired.
Confirm ==
    /\ Takes("confirm")
    /\ \/ /\ ConfirmBusy
          /\ Rejects("REQUEST_BUSY")
          /\ UNCHANGED pending_execution
       \/ /\ ~ConfirmBusy
          /\ LET m == Request("ConfirmExecution", Command.id) IN
              \/ /\ Writes(m)
                 /\ pending_execution' = Pending(Caller, Command.id)
                 /\ call' = [call EXCEPT ![Caller].stage = "parked"]
              \/ \E code \in TransportErrors :
                 /\ WriteFails(m, code)
                 /\ Answer(Caller, code, NoId)
                 /\ UNCHANGED pending_execution
    /\ UNCHANGED <<issued, active_audio, pending_preview,
                   retired_request_ids, unexpected_responses>>

RespondToDecision ==
    /\ Takes("respond_to_decision")
    /\ LET m == Request("DecisionResponse", Command.id) IN
        \/ Writes(m) /\ Answer(Caller, "ok", NoId)
        \/ \E code \in TransportErrors :
            WriteFails(m, code) /\ Answer(Caller, code, NoId)
    /\ UNCHANGED <<issued, loopVars>>

KeptUpload == active_audio
UploadAfterCancel == IF active_audio.id = Command.id THEN NoUpload ELSE active_audio
PreviewAfterCancel == IF pending_preview.id = Command.id THEN NoPending ELSE pending_preview

\* The three places that may hold the request are cleared, and the replies they
\* keep answered, whether or not CancelRequest could be written.
AnswerCancel(code) ==
    call' = [c \in Callers |->
        IF c = Caller THEN Idle(code, NoId)
        ELSE IF \/ pending_preview.caller = c /\ pending_preview.id = Command.id
                \/ pending_execution.caller = c /\ pending_execution.id = Command.id
        THEN Idle("CANCELLED", NoId)
        ELSE call[c]]

Cancel ==
    /\ Takes("cancel")
    /\ active_audio' = UploadAfterCancel
    /\ pending_preview' = PreviewAfterCancel
    /\ pending_execution' =
        IF pending_execution.id = Command.id THEN NoPending ELSE pending_execution
    /\ \/ /\ Writes(CancelRequest(Command.id))
          /\ AnswerCancel("ok")
       \/ \E code \in TransportErrors :
          /\ WriteFails(CancelRequest(Command.id), code)
          /\ AnswerCancel(code)
    /\ UNCHANGED <<issued, retired_request_ids, unexpected_responses>>

\* The method shutdown returns as soon as the channel has its command.  Here its
\* caller stays until the command is handled, which forbids only what another
\* caller can do in its place; the answer it then gets is nobody's.
Shutdown ==
    /\ Takes("shutdown")
    /\ Answer(Caller, "none", NoId)
    /\ Breaks("USER_CLOSED")
    /\ out' = NoMessage
    /\ UNCHANGED <<issued, loopVars>>

\* commands.recv() yields None once every handle is gone.
CommandsClosed ==
    /\ phase = "open"
    /\ ~held
    /\ queue = <<>>
    /\ Breaks("SESSION_CLOSED")
    /\ out' = NoMessage
    /\ UNCHANGED <<callerVars, loopVars, silent, issued, event>>

HandleCommand ==
    \/ BeginAudio \/ SendAudioChunk \/ FinishAudio \/ Confirm
    \/ RespondToDecision \/ Cancel \/ Shutdown

-----------------------------------------------------------------------------
(* One inbound frame (handle_remote_message).  Any binary frame counts as  *)
(* a sign of life.                                                         *)

Receives(type) ==
    /\ type \in PeerSends
    /\ phase = "open"
    /\ silent' = FALSE
    /\ UNCHANGED <<queue, held, active_audio, retired_request_ids, issued>>

Ignores ==
    /\ WritesNothing
    /\ UNCHANGED <<call, pending_preview, pending_execution,
                   unexpected_responses, event>>

OneStrikeMore(n) == n > MaxUnexpected
StrikesOut(n) == n >= MaxUnexpected

\* A message nobody waits for: the third one in a session closes it.
Strikes ==
    /\ unexpected_responses' = unexpected_responses + 1
    /\ IF StrikesOut(unexpected_responses')
       THEN Breaks("PROTOCOL_VIOLATION")
       ELSE Continues
    /\ out' = NoMessage
    /\ UNCHANGED <<call, pending_preview, pending_execution, event>>

AnswersPreview(code, about) ==
    /\ Answer(pending_preview.caller, code, about)
    /\ pending_preview' = NoPending
    /\ WritesNothing
    /\ UNCHANGED <<pending_execution, unexpected_responses, event>>

AnswersExecution(code, about) ==
    /\ Answer(pending_execution.caller, code, about)
    /\ pending_execution' = NoPending
    /\ WritesNothing
    /\ UNCHANGED <<pending_preview, unexpected_responses, event>>

Publishes(kind, id) ==
    /\ Publish(kind, id)
    /\ WritesNothing
    /\ UNCHANGED <<call, pending_preview, pending_execution, unexpected_responses>>

PreviewForAny(id) == pending_preview # NoPending /\ id \in Ids
PreviewFor(id) == pending_preview.id = id

CommandPreview(id) ==
    /\ Receives("CommandPreview")
    /\ \/ Retired(id) /\ Ignores
       \/ ~Retired(id) /\ PreviewFor(id) /\ AnswersPreview("ok", id)
       \/ ~Retired(id) /\ ~PreviewFor(id) /\ Strikes

ExecutionStatusAnyAge(id, terminal) ==
    /\ Receives("ExecutionStatus")
    /\ \/ pending_execution.id = id /\ AnswersExecution(IF terminal THEN "ok" ELSE "interim", id)
       \/ pending_execution.id # id /\ Strikes

\* "completed", "failed" and "cancelled" are terminal, "preview_ready" and
\* "executing" are not; the handler does not tell them apart.
ExecutionStatus(id, terminal) ==
    /\ Receives("ExecutionStatus")
    /\ \/ Retired(id) /\ Ignores
       \/ /\ ~Retired(id)
          /\ pending_execution.id = id
          /\ AnswersExecution(IF terminal THEN "ok" ELSE "interim", id)
       \/ ~Retired(id) /\ pending_execution.id # id /\ Strikes

\* ProgressUpdate and DecisionRequest have an arm for the request whose preview
\* is pending; every other one falls through to the last arm.
PreviewUpdate(type, id) ==
    /\ Receives(type)
    /\ \/ pending_preview.id = id /\ Publishes(type, id)
       \/ pending_preview.id # id /\ Strikes

AssistantOutput(id) ==
    /\ Receives("AssistantOutput")
    /\ \/ /\ id \in {NoId, pending_preview.id, pending_execution.id}
          /\ Publishes("AssistantOutput", id)
       \/ /\ id \notin {NoId, pending_preview.id, pending_execution.id}
          /\ Strikes

\* route_remote_error: the preview is asked first, then the execution; an error
\* without an id, or about the upload in progress, has no taker.
RemoteError(id) ==
    /\ Receives("Error")
    /\ \/ Retired(id) /\ Ignores
       \/ ~Retired(id) /\ id # NoId /\ pending_preview.id = id /\ AnswersPreview("REMOTE", NoId)
       \/ /\ ~Retired(id) /\ id # NoId /\ pending_preview.id # id
          /\ pending_execution.id = id
          /\ AnswersExecution("REMOTE", NoId)
       \/ /\ ~Retired(id)
          /\ id = NoId \/ id \notin {pending_preview.id, pending_execution.id}
          /\ Strikes

\* Ping is answered with Pong, which carries no request and is not recorded.
PingOrPong ==
    /\ Receives("Ping")
    /\ \/ Continues
       \/ \E code \in TransportErrors : Breaks(code)
    /\ out' = NoMessage
    /\ UNCHANGED <<call, pending_preview, pending_execution,
                   unexpected_responses, event>>

\* Messages that are not a server's to send in a session.
OtherMessage == Receives("other") /\ Strikes

\* A frame that does not complete an AME2 message.
PartialFrame == Receives("part") /\ Ignores

\* The socket fails or ends, or a frame does not decrypt or decode.
SocketEnds ==
    /\ phase = "open"
    /\ \E code \in {"CONNECTION_INTERRUPTED", "DECRYPT_FAILED"} : Breaks(code)
    /\ out' = NoMessage
    /\ UNCHANGED <<callerVars, loopVars, silent, issued, event>>

Inbound ==
    \/ \E id \in Ids :
        \/ CommandPreview(id)
        \/ \E terminal \in BOOLEAN : ExecutionStatus(id, terminal)
        \/ \E type \in {"ProgressUpdate", "DecisionRequest"} : PreviewUpdate(type, id)
    \/ \E id \in Ids \cup {NoId} : AssistantOutput(id) \/ RemoteError(id)
    \/ PingOrPong
    \/ OtherMessage
    \/ PartialFrame
    \/ SocketEnds

-----------------------------------------------------------------------------
(* Time.                                                                   *)

PreviewFallsDue ==
    /\ phase = "open"
    /\ pending_preview # NoPending
    /\ ~pending_preview.due
    /\ pending_preview' = [pending_preview EXCEPT !.due = TRUE]
    /\ out' = NoMessage
    /\ UNCHANGED <<callerVars, phase, final_error, active_audio, pending_execution,
                   retired_request_ids, unexpected_responses, silent, issued, event>>

ExecutionFallsDue ==
    /\ phase = "open"
    /\ pending_execution # NoPending
    /\ ~pending_execution.due
    /\ pending_execution' = [pending_execution EXCEPT !.due = TRUE]
    /\ out' = NoMessage
    /\ UNCHANGED <<callerVars, phase, final_error, active_audio, pending_preview,
                   retired_request_ids, unexpected_responses, silent, issued, event>>

PeerFallsSilent ==
    /\ phase = "open"
    /\ ~silent
    /\ silent' = TRUE
    /\ out' = NoMessage
    /\ UNCHANGED <<callerVars, phase, final_error, loopVars, issued, event>>

\* The maintenance tick: what is due is given up, preview before execution, and
\* its id remembered; then the heartbeat is looked at.  A response may still
\* overtake the tick.
AnswerOverdue ==
    call' = [c \in Callers |->
        IF pending_preview.due /\ pending_preview.caller = c
        THEN Idle("REQUEST_TIMEOUT", NoId)
        ELSE IF pending_execution.due /\ pending_execution.caller = c
        THEN Idle("CONFIRM_TIMEOUT", NoId)
        ELSE call[c]]

RetirePreview(retired) ==
    IF pending_preview.due THEN Retire(retired, pending_preview.id) ELSE retired
RetireExecution(retired) ==
    IF pending_execution.due THEN Retire(retired, pending_execution.id) ELSE retired

TickNeededWithoutExecution == pending_preview.due \/ silent
TickNeeded == pending_preview.due \/ pending_execution.due \/ silent

Maintenance ==
    /\ phase = "open"
    /\ TickNeeded
    /\ AnswerOverdue
    /\ retired_request_ids' = RetireExecution(RetirePreview(retired_request_ids))
    /\ pending_preview' = IF pending_preview.due THEN NoPending ELSE pending_preview
    /\ pending_execution' = IF pending_execution.due THEN NoPending ELSE pending_execution
    /\ IF silent THEN Breaks("HEARTBEAT_TIMEOUT") ELSE Continues
    /\ out' = NoMessage
    /\ UNCHANGED <<queue, held, active_audio, unexpected_responses, silent, issued, event>>

\* A heartbeat that goes out changes nothing here; one that fails ends the loop.
HeartbeatFails ==
    /\ phase = "open"
    /\ \E code \in TransportErrors : Breaks(code)
    /\ out' = NoMessage
    /\ UNCHANGED <<callerVars, loopVars, silent, issued, event>>

Time ==
    \/ PreviewFallsDue \/ ExecutionFallsDue \/ PeerFallsSilent
    \/ Maintenance \/ HeartbeatFails

-----------------------------------------------------------------------------
(* After the loop.  Commands can still be sent until the receiver goes.    *)

WaitingForPreview == {pending_preview.caller}
LeftWaiting == {pending_preview.caller, pending_execution.caller}

\* socket.close(None) returns, which only this actor sees, and the kept replies are
\* sent.  The close waits until what was written before it, and its own frame, are out,
\* and has no deadline: a peer that reads no more, and whose connection stands, keeps
\* the actor here as long as it likes.
FailPending ==
    /\ phase = "closing"
    /\ phase' = "ending"
    /\ call' = [c \in Callers |->
        IF c \in LeftWaiting
        THEN Idle(final_error, NoId)
        ELSE call[c]]
    /\ pending_preview' = NoPending
    /\ pending_execution' = NoPending
    /\ out' = NoMessage
    /\ UNCHANGED <<queue, held, final_error, active_audio, retired_request_ids,
                   unexpected_responses, silent, issued, event>>

LoopLeft == phase \in {"closing", "ending"}
RepliesSent == phase = "ending"

PublishEnd ==
    /\ RepliesSent
    /\ phase' = "down"
    /\ Publish("Disconnected", NoId)
    /\ out' = NoMessage
    /\ UNCHANGED <<callerVars, final_error, loopVars, silent, issued>>

\* run_session returns: its locals, the receiver and with it every command still
\* queued are dropped, and the dropped replies read as a closed connection.
DropActor ==
    /\ phase = "down"
    /\ phase' = "closed"
    /\ call' = [c \in Callers |->
        IF call[c].stage = "queued"
        THEN Idle("CONNECTION_INTERRUPTED", NoId) ELSE call[c]]
    /\ queue' = <<>>
    /\ active_audio' = NoUpload
    /\ retired_request_ids' = <<>>
    /\ unexpected_responses' = 0
    /\ silent' = FALSE
    /\ out' = NoMessage
    /\ UNCHANGED <<held, final_error, pending_preview, pending_execution, issued, event>>

-----------------------------------------------------------------------------

Next ==
    \/ \E c \in Callers : Call(c)
    \/ EnqueueTimesOut
    \/ DropHandles
    \/ ReadEvent
    \/ HandleCommand
    \/ CommandsClosed
    \/ Inbound
    \/ Time
    \/ FailPending
    \/ PublishEnd
    \/ DropActor

Spec == Init /\ [][Next]_vars

\* select! polls its ready branches in random order, so a command that waits is
\* handled, and the maintenance tick comes; deadlines pass because time does.  That
\* the socket is ever closed (FailPending) no deadline of the code says; once it is,
\* the actor waits for nothing.
Fairness ==
    /\ WF_vars(HandleCommand)
    /\ WF_vars(PreviewFallsDue)
    /\ WF_vars(ExecutionFallsDue)
    /\ WF_vars(Maintenance)
    /\ WF_vars(PublishEnd)
    /\ WF_vars(DropActor)

FairSpec == Spec /\ Fairness

-----------------------------------------------------------------------------
(* Safety.                                                                 *)

QueuedOnce ==
    /\ \A i, j \in DOMAIN queue : queue[i] = queue[j] => i = j
    /\ \A c \in Callers :
        call[c].stage = "queued" <=> \E i \in DOMAIN queue : queue[i] = c

\* A slot is empty, or holds the reply of a parked call of its kind.
SlotOwned(slot, op) ==
    \/ slot = NoPending
    \/ /\ slot.caller \in Callers
       /\ call[slot.caller].stage = "parked"
       /\ call[slot.caller].op = op
       /\ call[slot.caller].id = slot.id
       /\ slot.id \in issued

\* Every call that waits can still be answered: it is in the queue exactly once
\* or its reply is in exactly one of the two slots, under the id it asked about,
\* and a slot never holds the reply of a call that has returned.  So no order of
\* cancel, timeout, late response, busy rejection and disconnect loses a reply
\* (handle_command, handle_remote_message, the maintenance tick and the tail of
\* run_session all move replies).
RepliesAccounted ==
    /\ QueuedOnce
    /\ SlotOwned(pending_preview, "finish_audio")
    /\ SlotOwned(pending_execution, "confirm")
    /\ \A c \in Callers :
        call[c].stage = "parked" => c \in {pending_preview.caller, pending_execution.caller}

\* The session is closed as a protocol violation exactly when the peer used up
\* its unroutable messages, and no later event of the closing session (a second
\* failure, a command) rewrites that reason.
ViolationIffThirdStrike ==
    phase # "closed" =>
    (final_error = "PROTOCOL_VIOLATION" <=> unexpected_responses = MaxUnexpected)

\* Disconnected is the last word of a session: the kept replies go out before it, so
\* that no call is left parked once the subscriber can read it, and when the actor
\* has gone no call waits at all.
DisconnectedIsLast ==
    /\ event.kind = "Disconnected" => phase \in {"down", "closed"}
    /\ phase \in {"down", "closed"} => event.kind \in {"Disconnected", "none"}
    /\ phase \in {"down", "closed"} => \A c \in Callers : call[c].stage # "parked"
    /\ phase = "closed" => \A c \in Callers : call[c].stage = "idle"

\* The memory of retired requests is bounded, holds each id once and only ids
\* this session handed out, so it spends no room on a request timed out twice
\* (preview, then confirm).
RetiredBounded ==
    /\ Len(retired_request_ids) <= MaxRetired
    /\ \A i, j \in DOMAIN retired_request_ids :
        retired_request_ids[i] = retired_request_ids[j] => i = j
    /\ \A i \in DOMAIN retired_request_ids : retired_request_ids[i] \in issued

\* What the callers may rely on, the abstract specification this one implements:
\* a call that is queued or parked waits for its request, an idle one has its
\* answer, and a session that left its loop has ended.
Waits(c) == call[c].stage # "idle"
Session == INSTANCE SessionPromise WITH
    asked <- [c \in Callers |->
        IF Waits(c) THEN [op |-> call[c].op, id |-> call[c].id]
        ELSE [op |-> "none", id |-> NoId]],
    answer <- [c \in Callers |->
        IF Waits(c) THEN [code |-> "none", about |-> NoId]
        ELSE [code |-> call[c].code, about |-> call[c].id]],
    issued <- issued,
    state <- CASE phase = "open" -> "live"
               [] phase \in {"closing", "ending", "down"} -> "ended"
               [] phase = "closed" -> "gone"
KeepsPromise == Session!Promise

(* Liveness, under FairSpec.                                               *)

\* Every call is answered, by the actor, by the peer, by a deadline or by the end
\* of the session, whatever the peer sends or fails to send: but for a session that
\* never gets through the close of its socket.
NeverClosed == <>[](phase = "closing")
CallsAnswered ==
    NeverClosed \/ \A c \in Callers : call[c].stage # "idle" ~> call[c].stage = "idle"

-----------------------------------------------------------------------------
(* What the documentation says and the code does not do.                   *)

\* docs/ARCHITECTURE.md:37, "known responses that arrive after a local deadline
\* are ignored without a strike".  Progress and decisions of a retired request
\* reach the last arm of handle_remote_message.
LateResponsesDoNotStrike ==
    [][\A id \in Ids, type \in {"ProgressUpdate", "DecisionRequest"} :
        Retired(id) /\ PreviewUpdate(type, id)
            => UNCHANGED unexpected_responses]_vars

\* docs/ARCHITECTURE.md:34 and 35, "Preview: 90 seconds after AudioEnd" and
\* "Confirmation result: 30 seconds".  The deadline is looked at in the loop only.  A
\* write that timed out breaks the loop, and the kept calls wait for the close of the
\* same socket; other ends, after which it may be closed at once, are left out.
KeptCallsHaveDeadline ==
    \A c \in Callers : call[c].stage = "parked" ~>
        call[c].stage = "idle" \/ final_error \notin {"none", "SEND_TIMEOUT"}
=============================================================================
