------------------------ MODULE RemoteSessionProofs ------------------------
(***************************************************************************)
(* Theorems about the session actor, for every number of callers, request  *)
(* ids, strikes and retired ids, and every capacity of the channel: its    *)
(* types, that no reply is lost, how a session ends and what it remembers, *)
(* and that it keeps its promise: RemoteSession implements SessionPromise. *)
(*                                                                         *)
(* RepliesAccounted is inductive once it is known that a command names a   *)
(* request this session handed out.  Only FinishAudio and Confirm park a   *)
(* call; every other step leaves the slots alone, or empties one and       *)
(* answers the call it held, which is all NobodyParks asks of it.          *)
(*                                                                         *)
(* For the promise, a call that is made is a request asked; every other    *)
(* step answers some of the calls that wait and leaves the others as they  *)
(* are.  So a step lemma only says of each caller whether it is left       *)
(* alone, refused or served, and StepCourse what becomes of the session.   *)
(***************************************************************************)
EXTENDS RemoteSession, SequenceTheorems, TLAPS

-----------------------------------------------------------------------------
(* What the building blocks build.                                         *)

\* An answer about a request or about none is a state a caller can be in.
LEMMA IdleType ==
    ASSUME NEW code \in AnswerCodes \cup {"none"}, NEW about \in Ids \cup {NoId}
    PROVE  Idle(code, about) \in CallStates
  BY AudioAssumption DEF Idle, CallStates, Args

\* Answering a caller keeps the table of calls a table of calls.
LEMMA AnswerType ==
    ASSUME call \in [Callers -> CallStates],
           NEW c, NEW code \in AnswerCodes \cup {"none"}, NEW about \in Ids \cup {NoId},
           Answer(c, code, about)
    PROVE  call' \in [Callers -> CallStates]
  BY IdleType DEF Answer

\* A command makes a call state, and parking keeps it one.
LEMMA CallingType ==
    ASSUME NEW cmd \in Commands
    PROVE  Calling(cmd) \in CallStates
  BY AudioAssumption DEF Calling, Commands, CallStates, Args, Ops

\* Parking a caller keeps the table of calls a table of calls.
LEMMA ParkType ==
    ASSUME call \in [Callers -> CallStates], NEW c \in Callers, call[c].op # "none"
    PROVE  [call EXCEPT ![c].stage = "parked"] \in [Callers -> CallStates]
  BY DEF CallStates

\* The codes a turn answers with are answer codes.
LEMMA CodeTypes ==
    /\ \A code \in TransportErrors : code \in EndCodes
    /\ \A code \in EndCodes : code \in AnswerCodes
  BY DEF EndCodes, AnswerCodes

\* The messages a turn writes are messages.
LEMMA MessageTypes ==
    /\ NoMessage \in Messages
    /\ \A id \in Ids : /\ AudioStart(id) \in Messages
                       /\ CancelRequest(id) \in Messages
                       /\ Request("ConfirmExecution", id) \in Messages
                       /\ Request("DecisionResponse", id) \in Messages
    /\ \A upload \in Uploads \ {NoUpload} : AudioEnd(upload) \in Messages
    /\ \A id \in Ids, seq \in 0 .. MaxFrames, n \in 0 .. MaxFrames :
        AudioChunk(id, seq, n) \in Messages
  BY AudioAssumption
  DEF Messages, NoMessage, Request, AudioStart, CancelRequest, AudioEnd, AudioChunk, Uploads

\* A fresh upload is an upload, and so is one extended within the limit.
LEMMA UploadTypes ==
    /\ NoUpload \in Uploads
    /\ \A id \in Ids : NewUpload(id) \in Uploads /\ NewUpload(id) # NoUpload
    /\ \A upload \in Uploads : upload.id \in Ids => upload # NoUpload

  <1>1. NoUpload \in Uploads
    BY DEF Uploads
  <1>2. ASSUME NEW id \in Ids PROVE NewUpload(id) \in Uploads /\ NewUpload(id) # NoUpload
    <2>1. NewUpload(id).id # NoUpload.id
      BY NoIdAssumption DEF NoUpload, NewUpload
    <2>2. NewUpload(id) \in [id : Ids, chunks : 0 .. MaxFrames, frames : 0 .. MaxFrames]
      BY AudioAssumption DEF NewUpload
    <2> QED BY <2>1, <2>2 DEF Uploads, NewUpload
  <1>3. \A upload \in Uploads : upload.id \in Ids => upload # NoUpload
    BY NoIdAssumption DEF NoUpload
  <1> QED BY <1>1, <1>2, <1>3

\* A chunk that passes the limit leaves an upload within its length.
LEMMA ExtendedType ==
    ASSUME NEW upload \in Uploads \ {NoUpload}, NEW n \in Nat \ {0},
           upload.frames + n <= MaxFrames
    PROVE  /\ Extended(upload, n) \in Uploads
           /\ upload.chunks \in 0 .. MaxFrames
           /\ n \in 0 .. MaxFrames
  <1>1. /\ upload \in [id : Ids, chunks : 0 .. MaxFrames, frames : 0 .. MaxFrames]
        /\ upload.chunks <= upload.frames
    BY DEF Uploads
  <1>2. /\ upload.chunks + 1 \in 0 .. MaxFrames
        /\ upload.frames + n \in 0 .. MaxFrames
        /\ upload.chunks + 1 <= upload.frames + n
        /\ n \in 0 .. MaxFrames
    BY <1>1, AudioAssumption
  <1>3. /\ Extended(upload, n) \in [id : Ids, chunks : 0 .. MaxFrames, frames : 0 .. MaxFrames]
        /\ Extended(upload, n).chunks = upload.chunks + 1
        /\ Extended(upload, n).frames = upload.frames + n
    BY <1>1, <1>2 DEF Extended
  <1> QED BY <1>1, <1>2, <1>3 DEF Uploads

\* Retiring an id keeps the memory a sequence of ids.
LEMMA RetireType ==
    ASSUME NEW retired \in Seq(Ids), NEW id \in Ids
    PROVE  Retire(retired, id) \in Seq(Ids)
  <1>1. CASE Len(retired) = MaxRetired
    <2>1. retired # <<>>
      BY <1>1, BoundsAssumption
    <2>2. Tail(retired) \in Seq(Ids)
      BY <2>1
    <2> QED BY <1>1, <2>2 DEF Retire
  <1>2. CASE Len(retired) # MaxRetired
    BY <1>2 DEF Retire
  <1> QED BY <1>1, <1>2
-----------------------------------------------------------------------------
(* Type correctness.  A third strike is counted before the loop is left, so *)
(* the strikes stay within their bound only because an open session has one *)
(* left.                                                                    *)

StrikesLeft == phase = "open" => unexpected_responses < MaxUnexpected
TypeInv == TypeOK /\ StrikesLeft

\* The session starts well typed, with no strike (run_session's first lines).
LEMMA InitType == Init => TypeInv
  <1> SUFFICES ASSUME Init PROVE TypeInv
    OBVIOUS
  <1>1. call \in [Callers -> CallStates]
    BY IdleType DEF Init
  <1>2. active_audio \in Uploads /\ out \in Messages
    BY UploadTypes, MessageTypes DEF Init
  <1>3. event \in Events
    BY DEF Init, NoEvent, Event, Events, EventKinds
  <1>4. /\ unexpected_responses \in 0 .. MaxUnexpected
        /\ unexpected_responses < MaxUnexpected
    BY BoundsAssumption DEF Init
  <1>5. queue \in Seq(Callers) /\ retired_request_ids \in Seq(Ids)
    BY DEF Init
  <1>6. pending_preview \in Pendings /\ pending_execution \in Pendings
    BY DEF Init, Pendings
  <1> QED
    BY <1>1, <1>2, <1>3, <1>4, <1>5, <1>6 DEF Init, TypeInv, TypeOK, StrikesLeft

\* What the callers themselves change keeps its type.
LEMMA CallerTypes ==
    ASSUME TypeInv, NEW op, op # "none", Takes(op)
    PROVE  /\ Caller \in Callers
           /\ Command \in CallStates /\ Command.op # "none"
           /\ queue' \in Seq(Callers)
           /\ held' \in BOOLEAN /\ silent' \in BOOLEAN /\ event' \in Events
  BY DEF Takes, TypeInv, TypeOK, Caller, Command

\* A call, a queue timeout, a drop of the handles and a read keep the invariant.
LEMMA TypeCallers ==
    ASSUME TypeInv,
           (\E c \in Callers : Call(c)) \/ EnqueueTimesOut \/ DropHandles \/ ReadEvent
    PROVE  TypeInv'
  <1>1. ASSUME NEW c \in Callers, Call(c) PROVE TypeInv'
    <2>1. PICK cmd \in Commands :
            IF phase = "closed"
            THEN Answer(c, "CONNECTION_INTERRUPTED", NoId) /\ UNCHANGED queue
            ELSE call' = [call EXCEPT ![c] = Calling(cmd)] /\ queue' = Append(queue, c)
      BY <1>1 DEF Call
    <2>2. call' \in [Callers -> CallStates] /\ queue' \in Seq(Callers)
      <3>1. CASE phase = "closed"
        <4>1. call' \in [Callers -> CallStates]
          BY <2>1, <3>1, AnswerType, NoIdAssumption DEF TypeInv, TypeOK, AnswerCodes, EndCodes
        <4> QED BY <2>1, <3>1, <4>1 DEF TypeInv, TypeOK
      <3>2. CASE phase # "closed"
        <4>1. Calling(cmd) \in CallStates
          BY CallingType
        <4>2. call' = [call EXCEPT ![c] = Calling(cmd)] /\ queue' = Append(queue, c)
          BY <2>1, <3>2
        <4> QED BY <4>1, <4>2 DEF TypeInv, TypeOK
      <3> QED BY <3>1, <3>2
    <2> QED BY <1>1, <2>2, MessageTypes DEF Call, TypeInv, TypeOK, StrikesLeft, loopVars
  <1>2. CASE EnqueueTimesOut
    <2>1. PICK i \in DOMAIN queue :
            queue' = RemoveAt(queue, i) /\ Answer(queue[i], "SEND_TIMEOUT", NoId)
      BY <1>2 DEF EnqueueTimesOut
    <2>2. call' \in [Callers -> CallStates]
      BY <2>1, AnswerType DEF TypeInv, TypeOK, AnswerCodes
    <2>3. queue' \in Seq(Callers)
      BY <2>1 DEF TypeInv, TypeOK, RemoveAt
    <2> QED BY <1>2, <2>2, <2>3, MessageTypes
            DEF EnqueueTimesOut, TypeInv, TypeOK, StrikesLeft, loopVars
  <1>3. CASE DropHandles
    BY <1>3, MessageTypes DEF DropHandles, TypeInv, TypeOK, StrikesLeft, loopVars
  <1>4. CASE ReadEvent
    <2>1. NoEvent \in Events
      BY DEF NoEvent, Event, Events, EventKinds
    <2> QED BY <1>4, <2>1, MessageTypes
            DEF ReadEvent, TypeInv, TypeOK, StrikesLeft, callerVars, loopVars
  <1> QED BY <1>1, <1>2, <1>3, <1>4

\* begin_audio keeps the invariant.
LEMMA TypeBegin == ASSUME TypeInv, BeginAudio PROVE TypeInv'
  <1>1. ASSUME NEW code \in {"AUDIO_BUSY", "UNSUPPORTED_AUDIO_FORMAT"},
               Rejects(code), UNCHANGED <<active_audio, issued>>
        PROVE  TypeInv'
    BY <1>1, AnswerType, CallerTypes, MessageTypes
    DEF BeginAudio, Rejects, WritesNothing, Continues, TypeInv, TypeOK, StrikesLeft, AnswerCodes
  <1>2. ASSUME NEW id \in Ids, Writes(AudioStart(id)), active_audio' = NewUpload(id),
               issued' = issued \cup {id}, Answer(Caller, "ok", id)
        PROVE  TypeInv'
    BY <1>2, AnswerType, CallerTypes, MessageTypes, UploadTypes
    DEF BeginAudio, Writes, Continues, TypeInv, TypeOK, StrikesLeft, AnswerCodes
  <1>3. ASSUME NEW id \in Ids, NEW code \in TransportErrors, WriteFails(AudioStart(id), code),
               Answer(Caller, code, NoId), UNCHANGED <<active_audio, issued>>
        PROVE  TypeInv'
    BY <1>3, AnswerType, CallerTypes, MessageTypes, CodeTypes
    DEF BeginAudio, WriteFails, Breaks, TypeInv, TypeOK, StrikesLeft
  <1> QED BY <1>1, <1>2, <1>3 DEF BeginAudio

\* send_audio keeps the invariant: ChunkError is what bounds the upload.
LEMMA TypeChunk == ASSUME TypeInv, SendAudioChunk PROVE TypeInv'
  <1> USE DEF SendAudioChunk
  <1>1. ASSUME NEW code \in AnswerCodes, Rejects(code), UNCHANGED active_audio
        PROVE  TypeInv'
    BY <1>1, AnswerType, CallerTypes, MessageTypes
    DEF Rejects, WritesNothing, Continues, TypeInv, TypeOK, StrikesLeft
  <1>2. ChunkError # "none" => ChunkError \in AnswerCodes
    BY DEF ChunkError, AnswerCodes
  <1>3. ASSUME Command.arg > 0, ChunkError = "none"
        PROVE  /\ active_audio # NoUpload
               /\ Command.id \in Ids
               /\ Command.arg \in Nat \ {0}
               /\ active_audio.frames + Command.arg <= MaxFrames
    <2>1. Command.id \in Ids /\ Command.arg \in Nat
      BY CallerTypes DEF Takes, CallStates, Args
    <2>2. active_audio.id = Command.id /\ ~OverLimit(Command.arg)
      BY <1>3 DEF ChunkError
    <2>3. active_audio # NoUpload
      BY <2>1, <2>2, NoIdAssumption DEF NoUpload
    <2> QED BY <1>3, <2>1, <2>2, <2>3, AudioAssumption
            DEF OverLimit, TypeInv, TypeOK, Uploads
  <1>4. ASSUME Command.arg > 0, ChunkError = "none",
               Writes(AudioChunk(Command.id, active_audio.chunks, Command.arg)),
               active_audio' = Extended(active_audio, Command.arg),
               Answer(Caller, "ok", NoId)
        PROVE  TypeInv'
    <2>1. out' \in Messages /\ active_audio' \in Uploads
      BY <1>3, <1>4, ExtendedType, MessageTypes DEF Writes, TypeInv, TypeOK
    <2> QED BY <1>4, <2>1, AnswerType, CallerTypes
            DEF Writes, Continues, TypeInv, TypeOK, StrikesLeft, AnswerCodes
  <1>5. ASSUME Command.arg > 0, ChunkError = "none", NEW code \in TransportErrors,
               WriteFails(AudioChunk(Command.id, active_audio.chunks, Command.arg), code),
               Answer(Caller, code, NoId), UNCHANGED active_audio
        PROVE  TypeInv'
    <2>1. out' \in Messages
      BY <1>3, <1>5, ExtendedType, MessageTypes DEF WriteFails, TypeInv, TypeOK
    <2> QED BY <1>5, <2>1, AnswerType, CallerTypes, CodeTypes
            DEF WriteFails, Breaks, TypeInv, TypeOK, StrikesLeft
  <1> QED BY <1>1, <1>2, <1>4, <1>5 DEF AnswerCodes

\* finish_audio keeps the invariant.
LEMMA TypeFinish == ASSUME TypeInv, FinishAudio PROVE TypeInv'
  <1> USE DEF FinishAudio
  <1>1. ASSUME NEW code \in AnswerCodes, Rejects(code), active_audio' \in Uploads,
               UNCHANGED pending_preview
        PROVE  TypeInv'
    BY <1>1, AnswerType, CallerTypes, MessageTypes
    DEF Rejects, WritesNothing, Continues, TypeInv, TypeOK, StrikesLeft
  <1>2. ASSUME active_audio.id = Command.id, active_audio.frames # 0, active_audio' = NoUpload,
               Writes(AudioEnd(active_audio)),
               pending_preview' = Pending(Caller, Command.id),
               call' = [call EXCEPT ![Caller].stage = "parked"]
        PROVE  TypeInv'
    <2>1. active_audio # NoUpload /\ Command.id \in Ids
      BY <1>2 DEF TypeInv, TypeOK, Uploads, NoUpload
    <2>2. out' \in Messages
      BY <1>2, <2>1, MessageTypes DEF Writes, TypeInv, TypeOK
    <2>3. pending_preview' \in Pendings
      BY <1>2, <2>1, CallerTypes DEF Pending, Pendings
    <2> QED BY <1>2, <2>2, <2>3, ParkType, CallerTypes, UploadTypes
            DEF Command, Writes, Continues, TypeInv, TypeOK, StrikesLeft
  <1>3. ASSUME active_audio.frames # 0, active_audio' = NoUpload, NEW code \in TransportErrors,
               WriteFails(AudioEnd(active_audio), code), Answer(Caller, code, NoId),
               UNCHANGED pending_preview
        PROVE  TypeInv'
    <2>1. active_audio # NoUpload
      BY <1>3 DEF TypeInv, TypeOK, Uploads, NoUpload
    <2>2. out' \in Messages
      BY <1>3, <2>1, MessageTypes DEF WriteFails, TypeInv, TypeOK
    <2> QED BY <1>3, <2>2, AnswerType, CallerTypes, CodeTypes, UploadTypes
            DEF WriteFails, Breaks, TypeInv, TypeOK, StrikesLeft
  <1> QED BY <1>1, <1>2, <1>3, UploadTypes DEF TypeInv, TypeOK, AnswerCodes, UploadAfterEnd

\* The confirm command keeps the invariant.
LEMMA TypeConfirm == ASSUME TypeInv, Confirm PROVE TypeInv'
  <1> DEFINE m == Request("ConfirmExecution", Command.id)
  <1> USE DEF Confirm
  <1>1. Command.id \in Ids /\ m \in Messages
    BY CallerTypes, MessageTypes DEF Takes, CallStates
  <1>2. CASE Rejects("REQUEST_BUSY") /\ UNCHANGED pending_execution
    BY <1>2, AnswerType, CallerTypes, MessageTypes
    DEF Rejects, WritesNothing, Continues, TypeInv, TypeOK, StrikesLeft, AnswerCodes
  <1>3. CASE Writes(m) /\ pending_execution' = Pending(Caller, Command.id)
             /\ call' = [call EXCEPT ![Caller].stage = "parked"]
    <2>1. pending_execution' \in Pendings
      BY <1>1, <1>3, CallerTypes DEF Pending, Pendings
    <2> QED BY <1>1, <1>3, <2>1, ParkType, CallerTypes
            DEF Command, Writes, Continues, TypeInv, TypeOK, StrikesLeft
  <1>4. ASSUME NEW code \in TransportErrors, WriteFails(m, code), Answer(Caller, code, NoId),
               UNCHANGED pending_execution
        PROVE  TypeInv'
    BY <1>1, <1>4, AnswerType, CallerTypes, CodeTypes, MessageTypes
    DEF WriteFails, Breaks, TypeInv, TypeOK, StrikesLeft
  <1> QED BY <1>2, <1>3, <1>4

\* The answer to a decision keeps the invariant.
LEMMA TypeRespond == ASSUME TypeInv, RespondToDecision PROVE TypeInv'
  <1> DEFINE m == Request("DecisionResponse", Command.id)
  <1> USE DEF RespondToDecision
  <1>1. Command.id \in Ids /\ m \in Messages
    BY CallerTypes, MessageTypes DEF Takes, CallStates
  <1>2. CASE Writes(m) /\ Answer(Caller, "ok", NoId)
    BY <1>1, <1>2, AnswerType, CallerTypes
    DEF Writes, Continues, TypeInv, TypeOK, StrikesLeft, AnswerCodes, loopVars
  <1>3. ASSUME NEW code \in TransportErrors, WriteFails(m, code), Answer(Caller, code, NoId)
        PROVE  TypeInv'
    BY <1>1, <1>3, AnswerType, CallerTypes, CodeTypes, MessageTypes
    DEF WriteFails, Breaks, TypeInv, TypeOK, StrikesLeft, loopVars
  <1> QED BY <1>2, <1>3

\* Cancel keeps the invariant, whichever replies it releases.
LEMMA TypeCancel == ASSUME TypeInv, Cancel PROVE TypeInv'
  <1> USE DEF Cancel
  <1>1. Command.id \in Ids /\ CancelRequest(Command.id) \in Messages
    BY CallerTypes, MessageTypes DEF Takes, CallStates
  <1>2. /\ active_audio' \in Uploads
        /\ pending_preview' \in Pendings
        /\ pending_execution' \in Pendings
    BY UploadTypes DEF TypeInv, TypeOK, UploadAfterCancel, PreviewAfterCancel, Pendings
  <1>3. ASSUME NEW code \in AnswerCodes, AnswerCancel(code)
        PROVE  call' \in [Callers -> CallStates]
    <2>1. Idle(code, NoId) \in CallStates /\ Idle("CANCELLED", NoId) \in CallStates
      BY IdleType DEF AnswerCodes
    <2> QED BY <1>3, <2>1 DEF AnswerCancel, TypeInv, TypeOK
  <1>4. CASE Writes(CancelRequest(Command.id)) /\ AnswerCancel("ok")
    <2>1. call' \in [Callers -> CallStates]
      BY <1>3, <1>4 DEF AnswerCodes
    <2> QED BY <1>1, <1>2, <1>4, <2>1, CallerTypes
            DEF Writes, Continues, TypeInv, TypeOK, StrikesLeft
  <1>5. ASSUME NEW code \in TransportErrors, WriteFails(CancelRequest(Command.id), code),
               AnswerCancel(code)
        PROVE  TypeInv'
    <2>1. call' \in [Callers -> CallStates]
      BY <1>3, <1>5, CodeTypes
    <2> QED BY <1>1, <1>2, <1>5, <2>1, CallerTypes, CodeTypes, MessageTypes
            DEF WriteFails, Breaks, TypeInv, TypeOK, StrikesLeft
  <1> QED BY <1>4, <1>5

\* Shutdown and a channel without senders keep the invariant.
LEMMA TypeShutdown == ASSUME TypeInv, Shutdown \/ CommandsClosed PROVE TypeInv'
  <1>1. CASE Shutdown
    BY <1>1, AnswerType, CallerTypes, MessageTypes
    DEF Shutdown, Breaks, TypeInv, TypeOK, StrikesLeft, EndCodes, loopVars
  <1>2. CASE CommandsClosed
    BY <1>2, MessageTypes
    DEF CommandsClosed, Breaks, TypeInv, TypeOK, StrikesLeft, EndCodes, callerVars, loopVars
  <1> QED BY <1>1, <1>2

\* Every command of handle_command keeps the invariant.
LEMMA TypeCommand == ASSUME TypeInv, HandleCommand PROVE TypeInv'
  BY TypeBegin, TypeChunk, TypeFinish, TypeConfirm, TypeRespond, TypeCancel, TypeShutdown
  DEF HandleCommand

(* The ways a received message is disposed of.                             *)

\* An inbound message that is dropped keeps the invariant.
LEMMA TypeIgnores == ASSUME TypeInv, NEW type, Receives(type), Ignores PROVE TypeInv'
  BY MessageTypes
  DEF Receives, Ignores, WritesNothing, Continues, TypeInv, TypeOK, StrikesLeft

\* A strike keeps the counter within its limit: the last one ends the loop.
LEMMA TypeStrikes == ASSUME TypeInv, NEW type, Receives(type), Strikes PROVE TypeInv'
  <1>1. unexpected_responses \in Nat /\ unexpected_responses < MaxUnexpected
    BY BoundsAssumption DEF Receives, TypeInv, TypeOK, StrikesLeft
  <1>2. unexpected_responses' \in 0 .. MaxUnexpected
    BY <1>1, BoundsAssumption DEF Strikes
  <1>3. \/ Breaks("PROTOCOL_VIOLATION")
        \/ Continues /\ unexpected_responses' < MaxUnexpected
    BY <1>2, BoundsAssumption DEF Strikes, StrikesOut
  <1> QED BY <1>2, <1>3, MessageTypes
          DEF Receives, Strikes, Breaks, Continues, TypeInv, TypeOK, StrikesLeft, EndCodes

\* An inbound message that answers a call and frees its slot keeps the invariant.
LEMMA TypeAnswers ==
    ASSUME TypeInv, NEW type, Receives(type),
           NEW code \in AnswerCodes, NEW about \in Ids \cup {NoId},
           AnswersPreview(code, about) \/ AnswersExecution(code, about)
    PROVE  TypeInv'
  <1>1. NoPending \in Pendings
    BY DEF Pendings
  <1>2. CASE AnswersPreview(code, about)
    BY <1>1, <1>2, AnswerType, MessageTypes
    DEF Receives, AnswersPreview, WritesNothing, Continues, TypeInv, TypeOK, StrikesLeft
  <1>3. CASE AnswersExecution(code, about)
    BY <1>1, <1>3, AnswerType, MessageTypes
    DEF Receives, AnswersExecution, WritesNothing, Continues, TypeInv, TypeOK, StrikesLeft
  <1> QED BY <1>2, <1>3

\* An inbound message that is published keeps the invariant.
LEMMA TypePublishes ==
    ASSUME TypeInv, NEW type, Receives(type), NEW kind \in EventKinds,
           NEW id \in Ids \cup {NoId}, Publishes(kind, id)
    PROVE  TypeInv'
  <1>1. event' \in Events
    BY DEF Publishes, Publish, Event, Events
  <1> QED BY <1>1, MessageTypes
          DEF Receives, Publishes, WritesNothing, Continues, TypeInv, TypeOK, StrikesLeft

\* Every arm of handle_remote_message keeps the invariant.
LEMMA TypeInbound == ASSUME TypeInv, Inbound PROVE TypeInv'
  <1>1. ASSUME NEW id \in Ids, CommandPreview(id) PROVE TypeInv'
    BY <1>1, TypeIgnores, TypeStrikes, TypeAnswers DEF CommandPreview, AnswerCodes
  <1>2. ASSUME NEW id \in Ids, NEW terminal \in BOOLEAN, ExecutionStatus(id, terminal)
        PROVE  TypeInv'
    BY <1>2, TypeIgnores, TypeStrikes, TypeAnswers DEF ExecutionStatus, AnswerCodes
  <1>3. ASSUME NEW id \in Ids, NEW type \in {"ProgressUpdate", "DecisionRequest"},
               PreviewUpdate(type, id)
        PROVE  TypeInv'
    BY <1>3, TypeStrikes, TypePublishes DEF PreviewUpdate, EventKinds
  <1>4. ASSUME NEW id \in Ids \cup {NoId}, AssistantOutput(id) PROVE TypeInv'
    BY <1>4, TypeStrikes, TypePublishes DEF AssistantOutput, EventKinds
  <1>5. ASSUME NEW id \in Ids \cup {NoId}, RemoteError(id) PROVE TypeInv'
    BY <1>5, TypeIgnores, TypeStrikes, TypeAnswers DEF RemoteError, AnswerCodes
  <1>6. CASE PingOrPong
    BY <1>6, MessageTypes, CodeTypes
    DEF PingOrPong, Receives, Continues, Breaks, TypeInv, TypeOK, StrikesLeft
  <1>7. CASE OtherMessage \/ PartialFrame
    BY <1>7, TypeStrikes, TypeIgnores DEF OtherMessage, PartialFrame
  <1>8. CASE SocketEnds
    BY <1>8, MessageTypes
    DEF SocketEnds, Breaks, TypeInv, TypeOK, StrikesLeft, EndCodes, callerVars, loopVars
  <1> QED BY <1>1, <1>2, <1>3, <1>4, <1>5, <1>6, <1>7, <1>8 DEF Inbound

\* Deadlines, the maintenance tick and the heartbeat keep the invariant.
LEMMA TypeTime == ASSUME TypeInv, Time PROVE TypeInv'
  <1>1. CASE PreviewFallsDue
    <2>1. pending_preview' \in Pendings
      BY <1>1 DEF PreviewFallsDue, Pendings, TypeInv, TypeOK
    <2> QED BY <1>1, <2>1, MessageTypes
            DEF PreviewFallsDue, TypeInv, TypeOK, StrikesLeft, callerVars
  <1>2. CASE ExecutionFallsDue
    <2>1. pending_execution' \in Pendings
      BY <1>2 DEF ExecutionFallsDue, Pendings, TypeInv, TypeOK
    <2> QED BY <1>2, <2>1, MessageTypes
            DEF ExecutionFallsDue, TypeInv, TypeOK, StrikesLeft, callerVars
  <1>3. CASE PeerFallsSilent
    BY <1>3, MessageTypes
    DEF PeerFallsSilent, TypeInv, TypeOK, StrikesLeft, callerVars, loopVars
  <1>4. CASE Maintenance
    <2>1. call' \in [Callers -> CallStates]
      <3>1. /\ Idle("REQUEST_TIMEOUT", NoId) \in CallStates
            /\ Idle("CONFIRM_TIMEOUT", NoId) \in CallStates
        BY IdleType DEF AnswerCodes
      <3> QED BY <1>4, <3>1 DEF Maintenance, AnswerOverdue, TypeInv, TypeOK
    <2>2. \A slot \in Pendings : slot.due => slot.id \in Ids
      BY DEF Pendings, NoPending
    <2>3. RetirePreview(retired_request_ids) \in Seq(Ids)
      BY <2>2, RetireType DEF RetirePreview, TypeInv, TypeOK
    <2>4. retired_request_ids' \in Seq(Ids)
      BY <1>4, <2>2, <2>3, RetireType DEF Maintenance, RetireExecution, TypeInv, TypeOK
    <2>5. pending_preview' \in Pendings /\ pending_execution' \in Pendings
      BY <1>4 DEF Maintenance, Pendings, TypeInv, TypeOK
    <2> QED BY <1>4, <2>1, <2>4, <2>5, MessageTypes
            DEF Maintenance, Breaks, Continues, TypeInv, TypeOK, StrikesLeft, EndCodes
  <1>5. CASE HeartbeatFails
    BY <1>5, MessageTypes, CodeTypes
    DEF HeartbeatFails, Breaks, TypeInv, TypeOK, StrikesLeft, callerVars, loopVars
  <1> QED BY <1>1, <1>2, <1>3, <1>4, <1>5 DEF Time

\* The tail of run_session and its return keep the invariant.
LEMMA TypeEnd == ASSUME TypeInv, FailPending \/ PublishEnd \/ DropActor PROVE TypeInv'
  <1>1. CASE FailPending
    <2>1. call' \in [Callers -> CallStates]
      <3>1. Idle(final_error, NoId) \in CallStates
        BY IdleType, CodeTypes DEF TypeInv, TypeOK
      <3> QED BY <1>1, <3>1 DEF FailPending, TypeInv, TypeOK
    <2>2. NoPending \in Pendings
      BY DEF Pendings
    <2> QED BY <1>1, <2>1, <2>2, MessageTypes DEF FailPending, TypeInv, TypeOK, StrikesLeft
  <1>2. CASE DropActor
    <2>1. call' \in [Callers -> CallStates]
      <3>1. Idle("CONNECTION_INTERRUPTED", NoId) \in CallStates
        BY IdleType DEF AnswerCodes, EndCodes
      <3> QED BY <1>2, <3>1 DEF DropActor, TypeInv, TypeOK
    <2>2. <<>> \in Seq(Callers) /\ <<>> \in Seq(Ids) /\ 0 \in 0 .. MaxUnexpected
      BY BoundsAssumption
    <2> QED BY <1>2, <2>1, <2>2, MessageTypes, UploadTypes
            DEF DropActor, TypeInv, TypeOK, StrikesLeft
  <1>3. CASE PublishEnd
    <2>1. event' \in Events
      BY <1>3 DEF PublishEnd, Publish, Event, Events, EventKinds
    <2> QED BY <1>3, <2>1, MessageTypes
            DEF PublishEnd, RepliesSent, callerVars, loopVars, TypeInv, TypeOK, StrikesLeft
  <1> QED BY <1>1, <1>2, <1>3

\* Every step keeps the invariant.
LEMMA StepType == ASSUME TypeInv, [Next]_vars PROVE TypeInv'
  <1>1. CASE UNCHANGED vars
    BY <1>1 DEF vars, callerVars, loopVars, TypeInv, TypeOK, StrikesLeft
  <1> QED BY <1>1, TypeCallers, TypeCommand, TypeShutdown, TypeInbound, TypeTime, TypeEnd DEF Next

\* Every variable of the session keeps its type, the counter of unroutable
\* responses (unexpected_responses) its bound and the upload its limit.
THEOREM TypeCorrect == Spec => []TypeOK
  <1>1. Spec => []TypeInv
    BY InitType, StepType, PTL DEF Spec
  <1>2. TypeInv => TypeOK
    BY DEF TypeInv
  <1> QED BY <1>1, <1>2, PTL

AskedIssued ==
    \A c \in Callers : call[c].stage # "idle" => call[c].id \in issued \cup {NoId}

ReplyInv == TypeInv /\ RepliesAccounted /\ AskedIssued

-----------------------------------------------------------------------------
(* The queue.                                                              *)

\* A caller that was idle joins the end of the queue.
LEMMA Enqueues ==
    ASSUME TypeInv, QueuedOnce, NEW c \in Callers, call[c].stage = "idle",
           NEW s, s.stage = "queued", call' = [call EXCEPT ![c] = s], queue' = Append(queue, c)
    PROVE  QueuedOnce'
  <1>1. /\ queue \in Seq(Callers)
        /\ call \in [Callers -> CallStates]
    BY DEF TypeInv, TypeOK
  <1>2. \A i \in DOMAIN queue : queue[i] # c
    BY <1>1 DEF QueuedOnce
  <1>3. /\ DOMAIN queue' = 1 .. Len(queue) + 1
        /\ \A i \in DOMAIN queue : queue'[i] = queue[i]
        /\ queue'[Len(queue) + 1] = c
        /\ DOMAIN queue = 1 .. Len(queue)
    BY <1>1
  <1>4. \A i, j \in DOMAIN queue' : queue'[i] = queue'[j] => i = j
    BY <1>1, <1>2, <1>3 DEF QueuedOnce
  <1>5. ASSUME NEW d \in Callers
        PROVE  call'[d].stage = "queued" <=> \E i \in DOMAIN queue' : queue'[i] = d
    <2>1. CASE d = c
      BY <1>1, <1>3, <2>1
    <2>2. CASE d # c
      <3>1. call'[d] = call[d]
        BY <1>1, <2>2
      <3>2. (\E i \in DOMAIN queue' : queue'[i] = d) <=> \E i \in DOMAIN queue : queue[i] = d
        BY <1>1, <1>3, <2>2
      <3> QED BY <3>1, <3>2 DEF QueuedOnce
    <2> QED BY <2>1, <2>2
  <1> QED BY <1>4, <1>5 DEF QueuedOnce

\* The head leaves the queue and is queued no more.
LEMMA Dequeues ==
    ASSUME TypeInv, QueuedOnce, queue # <<>>, queue' = Tail(queue),
           call'[Caller].stage # "queued",
           \A c \in Callers \ {Caller} : call'[c].stage = "queued" <=> call[c].stage = "queued"
    PROVE  QueuedOnce'
  <1>1. queue \in Seq(Callers)
    BY DEF TypeInv, TypeOK
  <1>2. /\ DOMAIN queue = 1 .. Len(queue)
        /\ DOMAIN queue' = 1 .. Len(queue) - 1
        /\ \A i \in DOMAIN queue' : queue'[i] = queue[i + 1] /\ i + 1 \in DOMAIN queue
        /\ \A i \in DOMAIN queue : i = 1 \/ i - 1 \in DOMAIN queue'
        /\ 1 \in DOMAIN queue /\ Caller = queue[1]
    BY <1>1 DEF Caller
  <1>3. \A i, j \in DOMAIN queue' : queue'[i] = queue'[j] => i = j
    <2> SUFFICES ASSUME NEW i \in DOMAIN queue', NEW j \in DOMAIN queue', queue'[i] = queue'[j]
                 PROVE  i = j
      OBVIOUS
    <2>1. i + 1 = j + 1
      BY <1>2 DEF QueuedOnce
    <2> QED BY <1>1, <1>2, <2>1
  <1>4. ASSUME NEW c \in Callers
        PROVE  call'[c].stage = "queued" <=> \E i \in DOMAIN queue' : queue'[i] = c
    <2>1. CASE c = Caller
      <3>1. ASSUME NEW i \in DOMAIN queue', queue'[i] = c PROVE FALSE
        <4>1. i + 1 = 1
          BY <1>2, <2>1, <3>1 DEF QueuedOnce
        <4> QED BY <1>1, <1>2, <4>1
      <3> QED BY <2>1, <3>1
    <2>2. CASE c # Caller
      <3>1. ASSUME NEW i \in DOMAIN queue, queue[i] = c
            PROVE  \E j \in DOMAIN queue' : queue'[j] = c
        <4>1. i # 1 /\ i - 1 \in DOMAIN queue'
          BY <1>2, <2>2, <3>1
        <4>2. (i - 1) + 1 = i
          BY <1>1
        <4> QED BY <1>2, <3>1, <4>1, <4>2
      <3>2. (\E i \in DOMAIN queue' : queue'[i] = c) <=> \E i \in DOMAIN queue : queue[i] = c
        BY <1>2, <3>1
      <3> QED BY <2>2, <3>2 DEF QueuedOnce
    <2> QED BY <2>1, <2>2
  <1> QED BY <1>3, <1>4 DEF QueuedOnce

\* A command that waits for room gives up and leaves from the middle.
LEMMA GivesUp ==
    ASSUME TypeInv, QueuedOnce, NEW k \in DOMAIN queue, queue' = RemoveAt(queue, k),
           NEW s, s.stage = "idle", call' = [call EXCEPT ![queue[k]] = s]
    PROVE  QueuedOnce'
  <1> DEFINE was(i) == IF i < k THEN i ELSE i + 1
  <1>1. queue \in Seq(Callers) /\ call \in [Callers -> CallStates] /\ queue[k] \in Callers
    BY DEF TypeInv, TypeOK
  <1>2. /\ DOMAIN queue = 1 .. Len(queue)
        /\ DOMAIN queue' = 1 .. Len(queue) - 1
        /\ \A i \in DOMAIN queue' : queue'[i] = queue[was(i)]
    <2> DEFINE a == SubSeq(queue, 1, k - 1)
               b == SubSeq(queue, k + 1, Len(queue))
    <2>1. k \in 1 .. Len(queue) /\ Len(queue) \in Nat /\ DOMAIN queue = 1 .. Len(queue)
      BY <1>1
    <2>2. /\ a \in Seq(Callers) /\ Len(a) = k - 1
          /\ \A i \in 1 .. k - 1 : a[i] = queue[i]
      BY <1>1, <2>1
    <2>3. /\ b \in Seq(Callers) /\ Len(b) = Len(queue) - k
          /\ \A i \in 1 .. Len(queue) - k : b[i] = queue[k + i]
      BY <1>1, <2>1
    <2>4. queue' = a \o b
      BY DEF RemoveAt
    <2> HIDE DEF a, b
    <2>5. /\ Len(queue') = Len(queue) - 1
          /\ DOMAIN queue' = 1 .. Len(queue) - 1
          /\ \A i \in 1 .. k - 1 : queue'[i] = a[i]
          /\ \A i \in k .. Len(queue) - 1 : queue'[i] = b[i - (k - 1)]
      <3>1. /\ Len(queue') = Len(a) + Len(b)
            /\ DOMAIN queue' = 1 .. Len(a) + Len(b)
            /\ \A i \in 1 .. Len(a) + Len(b) :
                queue'[i] = IF i <= Len(a) THEN a[i] ELSE b[i - Len(a)]
        <4>1. /\ a \o b \in Seq(Callers)
              /\ Len(a \o b) = Len(a) + Len(b)
              /\ \A i \in 1 .. Len(a) + Len(b) :
                (a \o b)[i] = IF i <= Len(a) THEN a[i] ELSE b[i - Len(a)]
          BY <2>2, <2>3, ConcatProperties
        <4>2. DOMAIN (a \o b) = 1 .. Len(a \o b)
          BY <4>1
        <4> QED BY <2>4, <4>1, <4>2
      <3>2. Len(a) + Len(b) = Len(queue) - 1
        BY <2>1, <2>2, <2>3
      <3> QED BY <2>1, <2>2, <3>1, <3>2
    <2>6. ASSUME NEW i \in DOMAIN queue' PROVE queue'[i] = queue[was(i)]
      <3>1. CASE i < k
        BY <2>1, <2>2, <2>5, <3>1
      <3>2. CASE i >= k
        <4>1. i - (k - 1) \in 1 .. Len(queue) - k /\ k + (i - (k - 1)) = i + 1
          BY <2>1, <2>5, <3>2
        <4> QED BY <2>1, <2>3, <2>5, <3>2, <4>1
      <3> QED BY <2>1, <2>5, <3>1, <3>2
    <2> QED BY <2>1, <2>5, <2>6
  <1>3. /\ k \in Nat
        /\ \A i \in DOMAIN queue' : was(i) \in DOMAIN queue \ {k}
        /\ \A i, j \in DOMAIN queue' : was(i) = was(j) => i = j
        /\ \A i \in DOMAIN queue \ {k} : \E j \in DOMAIN queue' : was(j) = i
    <2>1. k \in 1 .. Len(queue) /\ Len(queue) \in Nat
      BY <1>1, <1>2
    <2>2. \A i \in DOMAIN queue' : was(i) \in DOMAIN queue \ {k}
      BY <1>2, <2>1
    <2>3. \A i, j \in DOMAIN queue' : was(i) = was(j) => i = j
      BY <1>2, <2>1
    <2>4. ASSUME NEW i \in DOMAIN queue \ {k} PROVE \E j \in DOMAIN queue' : was(j) = i
      <3>1. CASE i < k
        BY <1>2, <2>1, <3>1
      <3>2. CASE i > k
        <4>1. i - 1 \in DOMAIN queue' /\ was(i - 1) = i
          BY <1>2, <2>1, <3>2
        <4> QED BY <4>1
      <3> QED BY <1>2, <2>1, <3>1, <3>2
    <2> QED BY <2>1, <2>2, <2>3, <2>4
  <1>4. \A i, j \in DOMAIN queue' : queue'[i] = queue'[j] => i = j
    <2> SUFFICES ASSUME NEW i \in DOMAIN queue', NEW j \in DOMAIN queue', queue'[i] = queue'[j]
                 PROVE  i = j
      OBVIOUS
    <2> HIDE DEF was
    <2>1. was(i) = was(j)
      BY <1>2, <1>3 DEF QueuedOnce
    <2> QED BY <1>3, <2>1
  <1>5. ASSUME NEW c \in Callers
        PROVE  call'[c].stage = "queued" <=> \E i \in DOMAIN queue' : queue'[i] = c
    <2> HIDE DEF was
    <2>1. CASE c = queue[k]
      <3>1. \A i \in DOMAIN queue' : queue'[i] # c
        BY <1>2, <1>3, <2>1 DEF QueuedOnce
      <3> QED BY <1>1, <2>1, <3>1
    <2>2. CASE c # queue[k]
      <3>1. (\E i \in DOMAIN queue' : queue'[i] = c) <=> \E i \in DOMAIN queue : queue[i] = c
        BY <1>2, <1>3, <2>2
      <3>2. call'[c] = call[c]
        BY <1>1, <2>2
      <3> QED BY <3>1, <3>2 DEF QueuedOnce
    <2> QED BY <2>1, <2>2
  <1> QED BY <1>4, <1>5 DEF QueuedOnce

\* A step that leaves the queue alone and queues nobody.
LEMMA QueueStays ==
    ASSUME QueuedOnce, UNCHANGED queue,
           \A c \in Callers : call'[c].stage = "queued" <=> call[c].stage = "queued"
    PROVE  QueuedOnce'
  BY DEF QueuedOnce

-----------------------------------------------------------------------------
(* Steps that park nobody.                                                 *)

\* What such a step does to a caller, and to a slot.
CallerMoves(c) ==
    \/ call'[c] = call[c]
    \/ call'[c].stage = "idle"
    \/ call'[c].stage = "queued" /\ call'[c].id \in issued' \cup {NoId}

SlotKept(slot) ==
    /\ slot # NoPending
    /\ slot'.caller = slot.caller
    /\ slot'.id = slot.id
    /\ call'[slot.caller] = call[slot.caller]
SlotEmptied(slot) ==
    /\ slot' = NoPending
    /\ slot = NoPending \/ call'[slot.caller].stage = "idle"

\* The two slots hold the replies of different callers, a filled one that of a
\* parked call, an empty one nobody's.
LEMMA SlotFacts ==
    ASSUME ReplyInv
    PROVE  /\ pending_preview # NoPending =>
                /\ pending_preview.caller \in Callers
                /\ pending_preview.id \in Ids \cap issued
                /\ call[pending_preview.caller].stage = "parked"
                /\ call[pending_preview.caller].id = pending_preview.id
                /\ call[pending_preview.caller].op = "finish_audio"
           /\ pending_execution # NoPending =>
                /\ pending_execution.caller \in Callers
                /\ pending_execution.id \in Ids \cap issued
                /\ call[pending_execution.caller].stage = "parked"
                /\ call[pending_execution.caller].id = pending_execution.id
                /\ call[pending_execution.caller].op = "confirm"
           /\ pending_preview.caller \in Callers => pending_preview # NoPending
           /\ pending_execution.caller \in Callers => pending_execution # NoPending
           /\ pending_preview.id \in Ids => pending_preview # NoPending
           /\ pending_execution.id \in Ids => pending_execution # NoPending
  <1>1. pending_preview \in Pendings /\ pending_execution \in Pendings
    BY DEF ReplyInv, TypeInv, TypeOK
  <1>2. /\ SlotOwned(pending_preview, "finish_audio")
        /\ SlotOwned(pending_execution, "confirm")
    BY DEF ReplyInv, RepliesAccounted
  <1>3. \A slot \in Pendings : slot # NoPending => slot.id \in Ids
    BY DEF Pendings
  <1>4. NoPending.caller \notin Callers /\ NoPending.id \notin Ids
    BY NoCallerAssumption, NoIdAssumption DEF NoPending
  <1> QED BY <1>1, <1>2, <1>3, <1>4 DEF SlotOwned

\* Enough for a step that parks nobody to keep every reply accounted for.
LEMMA NobodyParks ==
    ASSUME ReplyInv, TypeInv', QueuedOnce', issued \subseteq issued',
           \A c \in Callers : CallerMoves(c),
           SlotKept(pending_preview) \/ SlotEmptied(pending_preview),
           SlotKept(pending_execution) \/ SlotEmptied(pending_execution)
    PROVE  ReplyInv'
  <1>1. SlotOwned(pending_preview, "finish_audio")'
    <2>1. CASE SlotKept(pending_preview)
      BY <2>1, SlotFacts DEF SlotKept, SlotOwned
    <2>2. CASE SlotEmptied(pending_preview)
      BY <2>2 DEF SlotEmptied, SlotOwned
    <2> QED BY <2>1, <2>2
  <1>2. SlotOwned(pending_execution, "confirm")'
    <2>1. CASE SlotKept(pending_execution)
      BY <2>1, SlotFacts DEF SlotKept, SlotOwned
    <2>2. CASE SlotEmptied(pending_execution)
      BY <2>2 DEF SlotEmptied, SlotOwned
    <2> QED BY <2>1, <2>2
  <1>3. ASSUME NEW c \in Callers, call'[c].stage = "parked"
        PROVE  c \in {pending_preview'.caller, pending_execution'.caller}
    <2>1. call'[c] = call[c]
      BY <1>3 DEF CallerMoves
    <2>2. c \in {pending_preview.caller, pending_execution.caller}
      BY <1>3, <2>1 DEF ReplyInv, RepliesAccounted
    <2>3. CASE c = pending_preview.caller
      BY <1>3, <2>3, SlotFacts DEF SlotKept, SlotEmptied
    <2>4. CASE c = pending_execution.caller
      BY <1>3, <2>4, SlotFacts DEF SlotKept, SlotEmptied
    <2> QED BY <2>2, <2>3, <2>4
  <1>4. AskedIssued'
    BY DEF AskedIssued, ReplyInv, CallerMoves
  <1> QED BY <1>1, <1>2, <1>3, <1>4 DEF ReplyInv, RepliesAccounted

\* A step that touches neither call nor slot nor queue.
LEMMA NothingMoves ==
    ASSUME ReplyInv, TypeInv',
           UNCHANGED <<call, queue, pending_preview, pending_execution, issued>>
    PROVE  ReplyInv'
  BY DEF ReplyInv, RepliesAccounted, QueuedOnce, SlotOwned, AskedIssued

-----------------------------------------------------------------------------
(* The steps of the callers.                                               *)

\* A method is called, gives up waiting for room, or the handles go.
LEMMA RepliesCallers ==
    ASSUME ReplyInv, TypeInv',
           (\E c \in Callers : Call(c)) \/ EnqueueTimesOut \/ DropHandles \/ ReadEvent
    PROVE  ReplyInv'
  <1> USE DEF ReplyInv
  <1>0. call \in [Callers -> CallStates] /\ QueuedOnce
    BY DEF TypeInv, TypeOK, RepliesAccounted
  <1>1. ASSUME NEW c \in Callers, Call(c) PROVE ReplyInv'
    <2>1. PICK cmd \in Commands :
            /\ cmd.id \in issued \cup {NoId}
            /\ IF phase = "closed"
               THEN Answer(c, "CONNECTION_INTERRUPTED", NoId) /\ UNCHANGED queue
               ELSE call' = [call EXCEPT ![c] = Calling(cmd)] /\ queue' = Append(queue, c)
      BY <1>1 DEF Call
    <2>2. call[c].stage = "idle" /\ issued' = issued
          /\ UNCHANGED <<pending_preview, pending_execution>>
      BY <1>1 DEF Call, loopVars
    <2>3. \A d \in Callers \ {c} : call'[d] = call[d]
      BY <1>0, <2>1 DEF Answer
    <2>4. SlotKept(pending_preview) \/ SlotEmptied(pending_preview)
      BY <2>2, <2>3, SlotFacts DEF SlotKept, SlotEmptied
    <2>5. SlotKept(pending_execution) \/ SlotEmptied(pending_execution)
      BY <2>2, <2>3, SlotFacts DEF SlotKept, SlotEmptied
    <2>6. CASE phase = "closed"
      <3>1. call'[c].stage = "idle" /\ UNCHANGED queue
        BY <1>0, <2>1, <2>6 DEF Answer, Idle
      <3>2. QueuedOnce'
        BY <1>0, <2>2, <2>3, <3>1, QueueStays
      <3> QED BY <2>2, <2>3, <2>4, <2>5, <3>1, <3>2, NobodyParks DEF CallerMoves
    <2>7. CASE phase # "closed"
      <3>1. call' = [call EXCEPT ![c] = Calling(cmd)] /\ queue' = Append(queue, c)
        BY <2>1, <2>7
      <3>2. Calling(cmd).stage = "queued" /\ Calling(cmd).id = cmd.id
        BY DEF Calling
      <3>3. QueuedOnce'
        BY <1>0, <2>2, <3>1, <3>2, Enqueues
      <3>4. CallerMoves(c)
        BY <1>0, <2>1, <2>2, <3>1, <3>2 DEF CallerMoves
      <3> QED BY <2>2, <2>3, <2>4, <2>5, <3>3, <3>4, NobodyParks DEF CallerMoves
    <2> QED BY <2>6, <2>7
  <1>2. CASE EnqueueTimesOut
    <2>1. PICK k \in DOMAIN queue :
            queue' = RemoveAt(queue, k) /\ Answer(queue[k], "SEND_TIMEOUT", NoId)
      BY <1>2 DEF EnqueueTimesOut
    <2>2. /\ issued' = issued
          /\ UNCHANGED <<pending_preview, pending_execution>>
      BY <1>2 DEF EnqueueTimesOut, loopVars
    <2>3. call' = [call EXCEPT ![queue[k]] = Idle("SEND_TIMEOUT", NoId)]
          /\ Idle("SEND_TIMEOUT", NoId).stage = "idle"
      BY <2>1 DEF Answer, Idle
    <2>4. QueuedOnce'
      BY <1>0, <2>1, <2>3, GivesUp
    <2>5. queue[k] \in Callers /\ call[queue[k]].stage = "queued"
      BY <1>0 DEF QueuedOnce, TypeInv, TypeOK
    <2>6. \A d \in Callers : CallerMoves(d)
      BY <1>0, <2>3 DEF CallerMoves
    <2>7. SlotKept(pending_preview) \/ SlotEmptied(pending_preview)
      BY <1>0, <2>2, <2>3, <2>5, SlotFacts DEF SlotKept, SlotEmptied
    <2>8. SlotKept(pending_execution) \/ SlotEmptied(pending_execution)
      BY <1>0, <2>2, <2>3, <2>5, SlotFacts DEF SlotKept, SlotEmptied
    <2> QED BY <2>2, <2>4, <2>6, <2>7, <2>8, NobodyParks
  <1>3. CASE DropHandles \/ ReadEvent
    BY <1>3, NothingMoves DEF DropHandles, ReadEvent, callerVars, loopVars
  <1> QED BY <1>1, <1>2, <1>3

-----------------------------------------------------------------------------
(* The commands.                                                           *)

\* The caller whose command is handled is queued, so neither slot is its own.
LEMMA CallerFacts ==
    ASSUME ReplyInv, NEW op, Takes(op)
    PROVE  /\ queue # <<>> /\ queue' = Tail(queue)
           /\ Caller \in Callers
           /\ call \in [Callers -> CallStates]
           /\ call[Caller].stage = "queued"
           /\ Caller \notin {pending_preview.caller, pending_execution.caller}
           /\ Command.id \in issued \cup {NoId}
  <1>1. Caller \in Callers /\ call \in [Callers -> CallStates] /\ 1 \in DOMAIN queue
        /\ Caller = queue[1]
    BY DEF Takes, ReplyInv, TypeInv, TypeOK, Caller
  <1>2. call[Caller].stage = "queued"
    BY <1>1 DEF ReplyInv, RepliesAccounted, QueuedOnce
  <1>3. Caller # pending_preview.caller /\ Caller # pending_execution.caller
    BY <1>1, <1>2, SlotFacts
  <1> QED BY <1>1, <1>2, <1>3 DEF Takes, ReplyInv, AskedIssued, Command

\* A command answered at once.
LEMMA RepliesAtOnce ==
    ASSUME ReplyInv, TypeInv', NEW op, Takes(op), NEW code, NEW about,
           Answer(Caller, code, about), issued \subseteq issued',
           UNCHANGED <<pending_preview, pending_execution>>
    PROVE  ReplyInv'
  <1>1. call' = [call EXCEPT ![Caller] = Idle(code, about)] /\ Idle(code, about).stage = "idle"
    BY DEF Answer, Idle
  <1>2. /\ call'[Caller].stage = "idle"
        /\ \A c \in Callers \ {Caller} : call'[c] = call[c]
    BY <1>1, CallerFacts
  <1>3. QueuedOnce'
    BY <1>2, CallerFacts, Dequeues DEF ReplyInv, RepliesAccounted
  <1>4. SlotKept(pending_preview) \/ SlotEmptied(pending_preview)
    BY <1>2, SlotFacts, CallerFacts DEF SlotKept, SlotEmptied
  <1>5. SlotKept(pending_execution) \/ SlotEmptied(pending_execution)
    BY <1>2, SlotFacts, CallerFacts DEF SlotKept, SlotEmptied
  <1> QED BY <1>2, <1>3, <1>4, <1>5, NobodyParks DEF CallerMoves

\* A command whose reply goes into the empty slot of its kind.
LEMMA RepliesParked ==
    ASSUME ReplyInv, TypeInv', NEW op, Takes(op), Command.id \in Ids,
           call' = [call EXCEPT ![Caller].stage = "parked"], UNCHANGED issued,
           \/ /\ op = "finish_audio" /\ pending_preview = NoPending
              /\ pending_preview' = Pending(Caller, Command.id)
              /\ UNCHANGED pending_execution
           \/ /\ op = "confirm" /\ pending_execution = NoPending
              /\ pending_execution' = Pending(Caller, Command.id)
              /\ UNCHANGED pending_preview
    PROVE  ReplyInv'
  <1>1. /\ call'[Caller].stage = "parked"
        /\ call'[Caller].op = op
        /\ call'[Caller].id = Command.id
        /\ \A c \in Callers \ {Caller} : call'[c] = call[c]
    BY CallerFacts DEF CallStates, Takes, Command
  <1>2. QueuedOnce'
    BY <1>1, CallerFacts, Dequeues DEF ReplyInv, RepliesAccounted
  <1>3. Command.id \in issued'
    BY CallerFacts, NoIdAssumption
  <1>4. AskedIssued'
    BY <1>1, <1>3 DEF AskedIssued, ReplyInv
  <1>5. Pending(Caller, Command.id).caller = Caller /\ Pending(Caller, Command.id).id = Command.id
    BY DEF Pending
  <1>6. SlotOwned(pending_preview, "finish_audio")'
    BY <1>1, <1>3, <1>5, SlotFacts, CallerFacts DEF SlotOwned
  <1>7. SlotOwned(pending_execution, "confirm")'
    BY <1>1, <1>3, <1>5, SlotFacts, CallerFacts DEF SlotOwned
  <1>8. ASSUME NEW c \in Callers, call'[c].stage = "parked"
        PROVE  c \in {pending_preview'.caller, pending_execution'.caller}
    <2>1. CASE c = Caller
      BY <1>5, <2>1
    <2>2. CASE c # Caller
      <3>1. c \in {pending_preview.caller, pending_execution.caller}
        BY <1>1, <1>8, <2>2 DEF ReplyInv, RepliesAccounted
      <3> QED BY <3>1, SlotFacts
    <2> QED BY <2>1, <2>2
  <1> QED BY <1>2, <1>4, <1>6, <1>7, <1>8 DEF ReplyInv, RepliesAccounted

\* Cancel answers its caller and those whose slots it empties.
LEMMA RepliesCancel == ASSUME ReplyInv, TypeInv', Cancel PROVE ReplyInv'
  <1> DEFINE hit(slot, c) == slot.caller = c /\ slot.id = Command.id
  <1>1. /\ Takes("cancel")
        /\ issued' = issued
        /\ pending_preview' = IF pending_preview.id = Command.id THEN NoPending ELSE pending_preview
        /\ pending_execution' =
            IF pending_execution.id = Command.id THEN NoPending ELSE pending_execution
    BY DEF Cancel, PreviewAfterCancel
  <1>2. PICK code : AnswerCancel(code)
    BY DEF Cancel
  <1>3. \A c \in Callers :
          call'[c] = IF c = Caller THEN Idle(code, NoId)
                     ELSE IF hit(pending_preview, c) \/ hit(pending_execution, c)
                     THEN Idle("CANCELLED", NoId) ELSE call[c]
    BY <1>2 DEF AnswerCancel
  <1>4. Idle(code, NoId).stage = "idle" /\ Idle("CANCELLED", NoId).stage = "idle"
    BY DEF Idle
  <1>5. call'[Caller].stage = "idle" /\ \A c \in Callers : CallerMoves(c)
    BY <1>1, <1>3, <1>4, CallerFacts DEF CallerMoves
  <1>6. \A c \in Callers \ {Caller} : call'[c].stage = "queued" <=> call[c].stage = "queued"
    BY <1>3, <1>4, SlotFacts
  <1>7. QueuedOnce'
    BY <1>1, <1>5, <1>6, CallerFacts, Dequeues DEF ReplyInv, RepliesAccounted
  <1>8. SlotKept(pending_preview) \/ SlotEmptied(pending_preview)
    <2>1. CASE pending_preview = NoPending
      BY <1>1, <2>1 DEF SlotEmptied
    <2>2. CASE pending_preview # NoPending /\ pending_preview.id = Command.id
      BY <1>1, <1>3, <1>4, <2>2, SlotFacts DEF SlotEmptied
    <2>3. CASE pending_preview # NoPending /\ pending_preview.id # Command.id
      <3>1. pending_preview.caller # pending_execution.caller
        BY <2>3, SlotFacts
      <3> QED BY <1>1, <1>3, <2>3, <3>1, SlotFacts, CallerFacts DEF SlotKept
    <2> QED BY <2>1, <2>2, <2>3
  <1>9. SlotKept(pending_execution) \/ SlotEmptied(pending_execution)
    <2>1. CASE pending_execution = NoPending
      BY <1>1, <2>1 DEF SlotEmptied
    <2>2. CASE pending_execution # NoPending /\ pending_execution.id = Command.id
      BY <1>1, <1>3, <1>4, <2>2, SlotFacts DEF SlotEmptied
    <2>3. CASE pending_execution # NoPending /\ pending_execution.id # Command.id
      <3>1. pending_preview.caller # pending_execution.caller
        BY <2>3, SlotFacts
      <3> QED BY <1>1, <1>3, <2>3, <3>1, SlotFacts, CallerFacts DEF SlotKept
    <2> QED BY <2>1, <2>2, <2>3
  <1> QED BY <1>1, <1>5, <1>7, <1>8, <1>9, NobodyParks

\* Every command moves its reply to its caller, to a slot or to nobody else's.
LEMMA RepliesCommand == ASSUME ReplyInv, TypeInv', HandleCommand PROVE ReplyInv'
  <1>1. CASE BeginAudio
    <2>1. Takes("begin_audio") /\ UNCHANGED <<pending_preview, pending_execution>>
      BY <1>1 DEF BeginAudio
    <2>2. /\ \E code, about : Answer(Caller, code, about)
          /\ issued \subseteq issued'
      BY <1>1 DEF BeginAudio, Rejects
    <2> QED BY <2>1, <2>2, RepliesAtOnce
  <1>2. CASE SendAudioChunk
    <2>1. /\ Takes("send_audio_chunk")
          /\ UNCHANGED <<pending_preview, pending_execution, issued>>
      BY <1>2 DEF SendAudioChunk
    <2>2. \E code, about : Answer(Caller, code, about)
      BY <1>2 DEF SendAudioChunk, Rejects
    <2> QED BY <2>1, <2>2, RepliesAtOnce
  <1>3. CASE FinishAudio
    <2>1. Takes("finish_audio") /\ UNCHANGED <<pending_execution, issued>>
      BY <1>3 DEF FinishAudio
    <2>2. Command.id \in Ids
      BY <2>1, CallerTypes DEF ReplyInv, Takes, CallStates
    <2>3. \/ (\E code, about : Answer(Caller, code, about)) /\ UNCHANGED pending_preview
          \/ /\ pending_preview = NoPending
             /\ pending_preview' = Pending(Caller, Command.id)
             /\ call' = [call EXCEPT ![Caller].stage = "parked"]
      BY <1>3 DEF FinishAudio, Rejects
    <2> QED BY <2>1, <2>2, <2>3, RepliesAtOnce, RepliesParked
  <1>4. CASE Confirm
    <2>1. Takes("confirm") /\ UNCHANGED <<pending_preview, issued>>
      BY <1>4 DEF Confirm
    <2>2. Command.id \in Ids
      BY <2>1, CallerTypes DEF ReplyInv, Takes, CallStates
    <2>3. \/ (\E code, about : Answer(Caller, code, about)) /\ UNCHANGED pending_execution
          \/ /\ pending_execution = NoPending
             /\ pending_execution' = Pending(Caller, Command.id)
             /\ call' = [call EXCEPT ![Caller].stage = "parked"]
      BY <1>4 DEF Confirm, Rejects, ConfirmBusy
    <2> QED BY <2>1, <2>2, <2>3, RepliesAtOnce, RepliesParked
  <1>5. CASE RespondToDecision
    <2>1. /\ Takes("respond_to_decision")
          /\ UNCHANGED <<pending_preview, pending_execution, issued>>
      BY <1>5 DEF RespondToDecision, loopVars
    <2>2. \E code, about : Answer(Caller, code, about)
      BY <1>5 DEF RespondToDecision
    <2> QED BY <2>1, <2>2, RepliesAtOnce
  <1>6. CASE Shutdown
    BY <1>6, RepliesAtOnce DEF Shutdown, loopVars
  <1> QED BY <1>1, <1>2, <1>3, <1>4, <1>5, <1>6, RepliesCancel DEF HandleCommand

-----------------------------------------------------------------------------
(* What the desktop sends.                                                 *)

\* A response answers the call in the slot it matches, and empties the slot.
LEMMA RepliesAnswered ==
    ASSUME ReplyInv, TypeInv', NEW type, Receives(type), NEW code, NEW about,
           \/ AnswersPreview(code, about) /\ pending_preview # NoPending
           \/ AnswersExecution(code, about) /\ pending_execution # NoPending
    PROVE  ReplyInv'
  <1>1. call \in [Callers -> CallStates] /\ QueuedOnce /\ UNCHANGED <<queue, issued>>
    BY DEF ReplyInv, TypeInv, TypeOK, RepliesAccounted, Receives
  <1>2. Idle(code, about).stage = "idle"
    BY DEF Idle
  <1>3. CASE AnswersPreview(code, about) /\ pending_preview # NoPending
    <2>1. /\ call' = [call EXCEPT ![pending_preview.caller] = Idle(code, about)]
          /\ pending_preview' = NoPending
          /\ UNCHANGED pending_execution
      BY <1>3 DEF AnswersPreview, Answer
    <2>2. \A c \in Callers : CallerMoves(c)
      BY <1>1, <1>2, <2>1 DEF CallerMoves
    <2>3. SlotEmptied(pending_preview)
      BY <1>1, <1>2, <1>3, <2>1, SlotFacts DEF SlotEmptied
    <2>4. SlotKept(pending_execution) \/ SlotEmptied(pending_execution)
      BY <1>1, <1>3, <2>1, SlotFacts DEF SlotEmptied, SlotKept
    <2>5. QueuedOnce'
      BY <1>1, <1>2, <1>3, <2>1, SlotFacts, QueueStays
    <2> QED BY <1>1, <2>2, <2>3, <2>4, <2>5, NobodyParks
  <1>4. CASE AnswersExecution(code, about) /\ pending_execution # NoPending
    <2>1. /\ call' = [call EXCEPT ![pending_execution.caller] = Idle(code, about)]
          /\ pending_execution' = NoPending
          /\ UNCHANGED pending_preview
      BY <1>4 DEF AnswersExecution, Answer
    <2>2. \A c \in Callers : CallerMoves(c)
      BY <1>1, <1>2, <2>1 DEF CallerMoves
    <2>3. SlotEmptied(pending_execution)
      BY <1>1, <1>2, <1>4, <2>1, SlotFacts DEF SlotEmptied
    <2>4. SlotKept(pending_preview) \/ SlotEmptied(pending_preview)
      BY <1>1, <1>4, <2>1, SlotFacts DEF SlotEmptied, SlotKept
    <2>5. QueuedOnce'
      BY <1>1, <1>2, <1>4, <2>1, SlotFacts, QueueStays
    <2> QED BY <1>1, <2>2, <2>3, <2>4, <2>5, NobodyParks
  <1> QED BY <1>3, <1>4

\* A message that is ignored, published or counted moves no reply.
LEMMA RepliesUntouched ==
    ASSUME ReplyInv, TypeInv', NEW type, Receives(type),
           Ignores \/ Strikes \/ \E kind, id : Publishes(kind, id)
    PROVE  ReplyInv'
  BY NothingMoves DEF Receives, Ignores, Strikes, Publishes

\* No inbound frame loses a reply.
LEMMA RepliesInbound == ASSUME ReplyInv, TypeInv', Inbound PROVE ReplyInv'
  <1> USE NoIdAssumption
  <1>1. ASSUME NEW id \in Ids, CommandPreview(id) PROVE ReplyInv'
    BY <1>1, RepliesUntouched, RepliesAnswered, SlotFacts DEF CommandPreview, PreviewFor
  <1>2. ASSUME NEW id \in Ids, NEW terminal \in BOOLEAN, ExecutionStatus(id, terminal)
        PROVE  ReplyInv'
    BY <1>2, RepliesUntouched, RepliesAnswered, SlotFacts DEF ExecutionStatus
  <1>3. ASSUME NEW id \in Ids, NEW type \in {"ProgressUpdate", "DecisionRequest"},
               PreviewUpdate(type, id)
        PROVE  ReplyInv'
    BY <1>3, RepliesUntouched DEF PreviewUpdate
  <1>4. ASSUME NEW id \in Ids \cup {NoId}, AssistantOutput(id) PROVE ReplyInv'
    BY <1>4, RepliesUntouched DEF AssistantOutput
  <1>5. ASSUME NEW id \in Ids \cup {NoId}, RemoteError(id) PROVE ReplyInv'
    BY <1>5, RepliesUntouched, RepliesAnswered, SlotFacts DEF RemoteError
  <1>6. CASE PingOrPong \/ SocketEnds
    BY <1>6, NothingMoves DEF PingOrPong, SocketEnds, Receives, callerVars, loopVars
  <1>7. CASE OtherMessage \/ PartialFrame
    BY <1>7, RepliesUntouched DEF OtherMessage, PartialFrame
  <1> QED BY <1>1, <1>2, <1>3, <1>4, <1>5, <1>6, <1>7 DEF Inbound

-----------------------------------------------------------------------------
(* Time and the end of the session.                                        *)

\* A deadline that passes marks its slot; the tick answers and empties it.
LEMMA RepliesTime == ASSUME ReplyInv, TypeInv', Time PROVE ReplyInv'
  <1>0. /\ pending_preview \in Pendings /\ pending_execution \in Pendings
        /\ call \in [Callers -> CallStates] /\ QueuedOnce
    BY DEF ReplyInv, TypeInv, TypeOK, RepliesAccounted
  <1>1. ASSUME UNCHANGED <<call, queue, issued>>,
               \/ UNCHANGED pending_execution /\ pending_preview # NoPending
                  /\ pending_preview' = [pending_preview EXCEPT !.due = TRUE]
               \/ UNCHANGED pending_preview /\ pending_execution # NoPending
                  /\ pending_execution' = [pending_execution EXCEPT !.due = TRUE]
        PROVE  ReplyInv'
    <2>1. QueuedOnce' /\ \A c \in Callers : CallerMoves(c)
      BY <1>0, <1>1, QueueStays DEF CallerMoves
    <2>2. /\ pending_preview'.caller = pending_preview.caller
          /\ pending_preview'.id = pending_preview.id
          /\ pending_execution'.caller = pending_execution.caller
          /\ pending_execution'.id = pending_execution.id
      BY <1>0, <1>1 DEF Pendings, NoPending
    <2>3. SlotKept(pending_preview) \/ SlotEmptied(pending_preview)
      BY <1>1, <2>2 DEF SlotKept, SlotEmptied
    <2>4. SlotKept(pending_execution) \/ SlotEmptied(pending_execution)
      BY <1>1, <2>2 DEF SlotKept, SlotEmptied
    <2> QED BY <1>1, <2>1, <2>3, <2>4, NobodyParks
  <1>2. CASE PreviewFallsDue \/ ExecutionFallsDue
    BY <1>1, <1>2 DEF PreviewFallsDue, ExecutionFallsDue, callerVars
  <1>3. CASE PeerFallsSilent \/ HeartbeatFails
    BY <1>3, NothingMoves DEF PeerFallsSilent, HeartbeatFails, callerVars, loopVars
  <1>4. CASE Maintenance
    <2>1. /\ pending_preview' = IF pending_preview.due THEN NoPending ELSE pending_preview
          /\ pending_execution' = IF pending_execution.due THEN NoPending ELSE pending_execution
          /\ UNCHANGED <<queue, issued>>
          /\ \A c \in Callers : call'[c] =
                IF pending_preview.due /\ pending_preview.caller = c
                THEN Idle("REQUEST_TIMEOUT", NoId)
                ELSE IF pending_execution.due /\ pending_execution.caller = c
                THEN Idle("CONFIRM_TIMEOUT", NoId) ELSE call[c]
      BY <1>4 DEF Maintenance, AnswerOverdue
    <2>2. /\ Idle("REQUEST_TIMEOUT", NoId).stage = "idle"
          /\ Idle("CONFIRM_TIMEOUT", NoId).stage = "idle"
      BY DEF Idle
    <2>3. \A c \in Callers : CallerMoves(c)
      BY <2>1, <2>2 DEF CallerMoves
    <2>4. QueuedOnce'
      BY <1>0, <2>1, <2>2, SlotFacts, QueueStays
    <2>5. pending_preview # NoPending /\ pending_execution # NoPending
            => pending_preview.caller # pending_execution.caller
      BY SlotFacts
    <2>6. SlotKept(pending_preview) \/ SlotEmptied(pending_preview)
      <3>1. CASE pending_preview = NoPending
        BY <2>1, <3>1 DEF SlotEmptied
      <3>2. CASE pending_preview # NoPending /\ pending_preview.due
        BY <2>1, <2>2, <3>2, SlotFacts DEF SlotEmptied
      <3>3. CASE pending_preview # NoPending /\ ~pending_preview.due
        BY <2>1, <2>5, <3>3, SlotFacts DEF SlotKept
      <3> QED BY <3>1, <3>2, <3>3
    <2>7. SlotKept(pending_execution) \/ SlotEmptied(pending_execution)
      <3>1. CASE pending_execution = NoPending
        BY <2>1, <3>1 DEF SlotEmptied
      <3>2. CASE pending_execution # NoPending /\ pending_execution.due
        BY <2>1, <2>2, <3>2, SlotFacts DEF SlotEmptied
      <3>3. CASE pending_execution # NoPending /\ ~pending_execution.due
        BY <2>1, <2>5, <3>3, SlotFacts DEF SlotKept
      <3> QED BY <3>1, <3>2, <3>3
    <2> QED BY <2>1, <2>3, <2>4, <2>6, <2>7, NobodyParks
  <1> QED BY <1>2, <1>3, <1>4 DEF Time

\* The tail of run_session answers what the slots hold, the dropped receiver
\* what the channel holds.
LEMMA RepliesEnd ==
    ASSUME ReplyInv, TypeInv', FailPending \/ PublishEnd \/ DropActor PROVE ReplyInv'
  <1>0. QueuedOnce
    BY DEF ReplyInv, RepliesAccounted
  <1>1. CASE FailPending
    <2>1. /\ pending_preview' = NoPending /\ pending_execution' = NoPending
          /\ UNCHANGED <<queue, issued>>
          /\ \A c \in Callers : call'[c] =
                IF c \in {pending_preview.caller, pending_execution.caller}
                THEN Idle(final_error, NoId) ELSE call[c]
      BY <1>1 DEF FailPending, LeftWaiting
    <2>2. Idle(final_error, NoId).stage = "idle"
      BY DEF Idle
    <2>3. \A c \in Callers : CallerMoves(c)
      BY <2>1, <2>2 DEF CallerMoves
    <2>4. QueuedOnce'
      BY <1>0, <2>1, <2>2, SlotFacts, QueueStays
    <2>5. SlotEmptied(pending_preview) /\ SlotEmptied(pending_execution)
      BY <2>1, <2>2, SlotFacts DEF SlotEmptied
    <2> QED BY <2>1, <2>3, <2>4, <2>5, NobodyParks
  <1>2. CASE DropActor
    <2>1. /\ UNCHANGED <<pending_preview, pending_execution, issued>>
          /\ queue' = <<>>
          /\ \A c \in Callers : call'[c] =
                IF call[c].stage = "queued" THEN Idle("CONNECTION_INTERRUPTED", NoId) ELSE call[c]
      BY <1>2 DEF DropActor
    <2>2. Idle("CONNECTION_INTERRUPTED", NoId).stage = "idle"
      BY DEF Idle
    <2>3. \A c \in Callers : CallerMoves(c) /\ call'[c].stage # "queued"
      BY <2>1, <2>2 DEF CallerMoves
    <2>4. QueuedOnce'
      BY <2>1, <2>3 DEF QueuedOnce
    <2>5. SlotKept(pending_preview) \/ SlotEmptied(pending_preview)
      BY <2>1, SlotFacts DEF SlotEmptied, SlotKept
    <2>6. SlotKept(pending_execution) \/ SlotEmptied(pending_execution)
      BY <2>1, SlotFacts DEF SlotEmptied, SlotKept
    <2> QED BY <2>1, <2>3, <2>4, <2>5, <2>6, NobodyParks
  <1>3. CASE PublishEnd
    BY <1>3, NothingMoves DEF PublishEnd, callerVars, loopVars
  <1> QED BY <1>1, <1>2, <1>3

\* Every step of the session keeps every reply accounted for.
LEMMA StepReplies == ASSUME ReplyInv, [Next]_vars PROVE ReplyInv'
  <1>1. TypeInv'
    BY StepType DEF ReplyInv
  <1>2. CASE UNCHANGED vars
    BY <1>1, <1>2, NothingMoves DEF vars, callerVars, loopVars
  <1>3. CASE CommandsClosed
    BY <1>1, <1>3, NothingMoves DEF CommandsClosed, callerVars, loopVars
  <1> QED
    BY <1>1, <1>2, <1>3, RepliesCallers, RepliesCommand, RepliesInbound, RepliesTime, RepliesEnd
    DEF Next

\* A session starts with no call made.
LEMMA InitReplies == Init => ReplyInv
  <1> SUFFICES ASSUME Init PROVE ReplyInv
    OBVIOUS
  <1>1. \A c \in Callers : call[c].stage = "idle"
    BY DEF Init, Idle
  <1>2. QueuedOnce
    BY <1>1 DEF QueuedOnce, Init
  <1> QED BY <1>1, <1>2, InitType
          DEF ReplyInv, RepliesAccounted, SlotOwned, AskedIssued, Init

\* The invariant, for the theorems that rest on it.
LEMMA RepliesInvariant == Spec => []ReplyInv
  BY InitReplies, StepReplies, PTL DEF Spec

\* Every call that waits can still be answered, exactly once: its command is in
\* the channel once, or its reply is in one slot under the id it asked about
\* (handle_command, handle_remote_message, the maintenance tick and the tail of
\* run_session, in any order).
THEOREM NoReplyLost == Spec => []RepliesAccounted
  <1>1. ReplyInv => RepliesAccounted
    BY DEF ReplyInv
  <1> QED BY <1>1, RepliesInvariant, PTL

-----------------------------------------------------------------------------
(* What the desktop says of a request that a deadline retired.             *)

-----------------------------------------------------------------------------
(* What a step may do to the course of a session.                          *)

Stays == UNCHANGED <<phase, final_error, unexpected_responses>>
Fails ==
    /\ phase = "open"
    /\ \E code \in EndCodes \ {"PROTOCOL_VIOLATION"} : Breaks(code)
    /\ UNCHANGED unexpected_responses
Counts ==
    /\ phase = "open"
    /\ Strikes

\* The course of a session: it stays as it is, fails for a reason of its own,
\* counts a strike, or goes through the tail of run_session.
Course == Stays \/ Fails \/ Counts \/ FailPending \/ PublishEnd \/ DropActor

\* A failed write never breaks the loop as a protocol violation.
LEMMA WriteCodes ==
    /\ TransportErrors \subseteq EndCodes \ {"PROTOCOL_VIOLATION"}
    /\ {"SESSION_CLOSED", "USER_CLOSED", "CONNECTION_INTERRUPTED", "DECRYPT_FAILED",
        "HEARTBEAT_TIMEOUT"} \subseteq EndCodes \ {"PROTOCOL_VIOLATION"}
  BY TransportAssumption DEF EndCodes

\* Every step takes one of these courses.
LEMMA StepCourse == ASSUME [Next]_vars PROVE Course
  <1> USE DEF Course, Stays
  <1>1. CASE UNCHANGED vars
    BY <1>1 DEF vars, loopVars
  <1>2. CASE \/ \E c \in Callers : Call(c)
             \/ EnqueueTimesOut \/ DropHandles \/ ReadEvent
    BY <1>2 DEF Call, EnqueueTimesOut, DropHandles, ReadEvent, loopVars
  <1>3. CASE HandleCommand
    <2> USE WriteCodes DEF Takes, Rejects, WritesNothing, Writes, WriteFails, Continues, Fails
    <2>1. CASE BeginAudio
      BY <2>1 DEF BeginAudio
    <2>2. CASE SendAudioChunk
      BY <2>2 DEF SendAudioChunk
    <2>3. CASE FinishAudio
      BY <2>3 DEF FinishAudio
    <2>4. CASE Confirm
      BY <2>4 DEF Confirm
    <2>5. CASE RespondToDecision
      BY <2>5 DEF RespondToDecision, loopVars
    <2>6. CASE Cancel
      BY <2>6 DEF Cancel
    <2>7. CASE Shutdown
      BY <2>7 DEF Shutdown, loopVars
    <2> QED BY <1>3, <2>1, <2>2, <2>3, <2>4, <2>5, <2>6, <2>7 DEF HandleCommand
  <1>4. CASE CommandsClosed
    BY <1>4, WriteCodes DEF CommandsClosed, loopVars, Fails
  <1>5. CASE Inbound
    <2> USE DEF Receives, Ignores, AnswersPreview, AnswersExecution, Publishes,
                WritesNothing, Continues, Counts
    <2>1. ASSUME NEW id \in Ids, CommandPreview(id) PROVE Course
      BY <2>1 DEF CommandPreview
    <2>2. ASSUME NEW id \in Ids, NEW terminal \in BOOLEAN, ExecutionStatus(id, terminal)
          PROVE  Course
      BY <2>2 DEF ExecutionStatus
    <2>3. ASSUME NEW id \in Ids, NEW type \in {"ProgressUpdate", "DecisionRequest"},
                 PreviewUpdate(type, id)
          PROVE  Course
      BY <2>3 DEF PreviewUpdate
    <2>4. ASSUME NEW id \in Ids \cup {NoId}, AssistantOutput(id) PROVE Course
      BY <2>4 DEF AssistantOutput
    <2>5. ASSUME NEW id \in Ids \cup {NoId}, RemoteError(id) PROVE Course
      BY <2>5 DEF RemoteError
    <2>6. CASE PingOrPong \/ SocketEnds
      BY <2>6, WriteCodes DEF PingOrPong, SocketEnds, loopVars, Fails
    <2>7. CASE OtherMessage \/ PartialFrame
      BY <2>7 DEF OtherMessage, PartialFrame
    <2> QED BY <1>5, <2>1, <2>2, <2>3, <2>4, <2>5, <2>6, <2>7 DEF Inbound
  <1>6. CASE Time
    BY <1>6, WriteCodes
    DEF Time, PreviewFallsDue, ExecutionFallsDue, PeerFallsSilent, Maintenance, HeartbeatFails,
        Continues, Fails, loopVars
  <1> QED BY <1>1, <1>2, <1>3, <1>4, <1>5, <1>6 DEF Next

-----------------------------------------------------------------------------
(* The reason of the end.                                                  *)

ReasonInv ==
    /\ phase = "open" => final_error = "none"
    /\ phase # "closed" =>
        (final_error = "PROTOCOL_VIOLATION" <=> unexpected_responses = MaxUnexpected)

\* The reason is fixed when the loop breaks, and strikes count only before.
LEMMA StepReason ==
    ASSUME TypeInv, ReasonInv, [Next]_vars
    PROVE  ReasonInv'
  <1> USE DEF ReasonInv
  <1>1. unexpected_responses \in Nat /\ (phase = "open" => unexpected_responses < MaxUnexpected)
    BY BoundsAssumption DEF TypeInv, TypeOK, StrikesLeft
  <1>2. CASE Stays
    BY <1>2 DEF Stays
  <1>3. CASE Fails
    <2>1. PICK code \in EndCodes \ {"PROTOCOL_VIOLATION"} : Breaks(code)
      BY <1>3 DEF Fails
    <2>2. phase' = "closing" /\ final_error' # "PROTOCOL_VIOLATION"
      BY <2>1 DEF Breaks
    <2>3. unexpected_responses' # MaxUnexpected
      BY <1>1, <1>3, BoundsAssumption DEF Fails
    <2> QED BY <2>2, <2>3
  <1>4. CASE Counts
    <2>1. unexpected_responses' = unexpected_responses + 1
          /\ unexpected_responses' <= MaxUnexpected
      BY <1>1, <1>4, BoundsAssumption DEF Counts, Strikes
    <2>2. CASE StrikesOut(unexpected_responses')
      BY <1>4, <2>1, <2>2, BoundsAssumption DEF Counts, Strikes, StrikesOut, Breaks
    <2>3. CASE ~StrikesOut(unexpected_responses')
      BY <1>4, <2>1, <2>3, BoundsAssumption DEF Counts, Strikes, StrikesOut, Continues
    <2> QED BY <2>2, <2>3
  <1>5. CASE FailPending \/ PublishEnd
    BY <1>5 DEF FailPending, PublishEnd, RepliesSent, loopVars
  <1>6. CASE DropActor
    BY <1>6 DEF DropActor
  <1> QED BY <1>2, <1>3, <1>4, <1>5, <1>6, StepCourse DEF Course

\* A session is closed as a protocol violation exactly when its peer used up its
\* unroutable messages (handle_remote_message), and nothing that happens to the
\* closing session rewrites the reason (final_error of run_session).
THEOREM ViolationExact == Spec => []ViolationIffThirdStrike
  <1>1. Init => ReasonInv
    BY BoundsAssumption DEF Init, ReasonInv
  <1>2. Spec => []TypeInv
    BY InitType, StepType, PTL DEF Spec
  <1>3. ReasonInv => ViolationIffThirdStrike
    BY DEF ReasonInv, ViolationIffThirdStrike
  <1> QED BY <1>1, <1>2, <1>3, StepReason, PTL DEF Spec
-----------------------------------------------------------------------------
(* The last word.                                                          *)

\* A call that waits after the loop was left is still queued, and the event
\* Disconnected belongs to the tail.
LastInv ==
    /\ ReplyInv
    /\ DisconnectedIsLast
    /\ phase \in {"ending", "down", "closed"} =>
        pending_preview = NoPending /\ pending_execution = NoPending

\* The arms of select! run only in an open session, and say what they say there.
LEMMA LoopRuns == HandleCommand \/ Inbound \/ Time => phase = "open"
  <1>1. HandleCommand => phase = "open"
    BY DEF HandleCommand, BeginAudio, SendAudioChunk, FinishAudio, Confirm,
           RespondToDecision, Cancel, Shutdown, Takes
  <1>2. Inbound => phase = "open"
    BY DEF Inbound, CommandPreview, ExecutionStatus, PreviewUpdate, AssistantOutput,
           RemoteError, PingOrPong, OtherMessage, PartialFrame, SocketEnds, Receives
  <1>3. Time => phase = "open"
    BY DEF Time, PreviewFallsDue, ExecutionFallsDue, PeerFallsSilent, Maintenance, HeartbeatFails
  <1> QED BY <1>1, <1>2, <1>3

\* Only the tail moves the phase past closing, only the tail says Disconnected.
LEMMA PhaseMoves ==
    ASSUME [Next]_vars
    PROVE  \/ FailPending \/ PublishEnd \/ DropActor
           \/ /\ phase' # phase => phase = "open" /\ phase' = "closing"
              /\ event' = event \/ event'.kind # "Disconnected"
              /\ phase # "open" =>
                    /\ event' \in {event, NoEvent}
                    /\ UNCHANGED <<pending_preview, pending_execution>>
  <1>1. \/ FailPending \/ PublishEnd \/ DropActor
        \/ phase' # phase => phase = "open" /\ phase' = "closing"
    BY StepCourse DEF Course, Stays, Fails, Counts, Strikes, Breaks, Continues
  <1>2. CASE \/ UNCHANGED vars
             \/ \E c \in Callers : Call(c)
             \/ EnqueueTimesOut \/ DropHandles \/ ReadEvent \/ CommandsClosed
    <2>1. /\ event' \in {event, NoEvent}
          /\ UNCHANGED <<pending_preview, pending_execution>>
      BY <1>2 DEF vars, loopVars, Call, EnqueueTimesOut, DropHandles, ReadEvent, CommandsClosed
    <2> QED BY <1>1, <2>1 DEF NoEvent, Event
  <1>3. CASE HandleCommand
    <2>1. UNCHANGED event
      BY <1>3 DEF HandleCommand, BeginAudio, SendAudioChunk, FinishAudio, Confirm,
                  RespondToDecision, Cancel, Shutdown, Takes
    <2> QED BY <1>1, <1>3, <2>1, LoopRuns
  <1>4. CASE Inbound
    <2>1. \/ UNCHANGED event
          \/ \E kind \in {"ProgressUpdate", "DecisionRequest", "AssistantOutput"} :
                \E id : event' = Event(kind, id)
      BY <1>4 DEF Inbound, CommandPreview, ExecutionStatus, PreviewUpdate, AssistantOutput,
                  RemoteError, PingOrPong, OtherMessage, PartialFrame, SocketEnds,
                  Ignores, Strikes, AnswersPreview, AnswersExecution, Publishes, Publish
    <2> QED BY <1>1, <1>4, <2>1, LoopRuns DEF Event
  <1>5. CASE Time
    <2>1. UNCHANGED event
      BY <1>5 DEF Time, PreviewFallsDue, ExecutionFallsDue, PeerFallsSilent, Maintenance,
                  HeartbeatFails
    <2> QED BY <1>1, <1>5, <2>1, LoopRuns
  <1> QED BY <1>2, <1>3, <1>4, <1>5 DEF Next

\* Once the loop is left, a step parks nobody and, once the actor is gone, queues
\* nobody.
LEMMA CallsAfterLoop ==
    ASSUME LastInv, ReplyInv', [Next]_vars, phase \in {"down", "closed"}, ~DropActor
    PROVE  phase = "closed" => \A c \in Callers : call'[c].stage = "idle"
  <1>1. CASE \E c \in Callers : Call(c)
    BY <1>1 DEF Call, Answer, Idle, LastInv, DisconnectedIsLast, ReplyInv, TypeInv, TypeOK
  <1>2. CASE UNCHANGED call
    BY <1>2 DEF LastInv, DisconnectedIsLast
  <1>3. CASE EnqueueTimesOut \/ DropHandles \/ ReadEvent \/ CommandsClosed \/ UNCHANGED vars
    BY <1>2, <1>3 DEF EnqueueTimesOut, DropHandles, ReadEvent, CommandsClosed, vars, callerVars
  <1>4. ~FailPending /\ ~PublishEnd
    BY DEF FailPending, PublishEnd, RepliesSent
  <1> QED BY <1>1, <1>3, <1>4, LoopRuns DEF Next

\* The tail of run_session and what follows it keep the last word.
LEMMA StepLast == ASSUME LastInv, [Next]_vars PROVE LastInv'
  <1>1. ReplyInv'
    BY StepReplies DEF LastInv
  <1>2. phase' \in {"open", "closing", "ending", "down", "closed"}
    BY <1>1 DEF ReplyInv, TypeInv, TypeOK
  <1>3. ASSUME pending_preview' = NoPending, pending_execution' = NoPending
        PROVE  \A c \in Callers : call'[c].stage # "parked"
    BY <1>1, <1>3, NoCallerAssumption DEF ReplyInv, RepliesAccounted, NoPending
  <1>4. CASE FailPending
    <2>1. /\ phase = "closing" /\ phase' = "ending" /\ UNCHANGED event
          /\ pending_preview' = NoPending /\ pending_execution' = NoPending
      BY <1>4 DEF FailPending
    <2> QED BY <1>1, <1>3, <2>1 DEF LastInv, DisconnectedIsLast
  <1>7. CASE PublishEnd
    <2>1. /\ phase = "ending" /\ phase' = "down" /\ event'.kind = "Disconnected"
          /\ UNCHANGED <<pending_preview, pending_execution>>
      BY <1>7 DEF PublishEnd, RepliesSent, Publish, Event, loopVars
    <2>2. pending_preview' = NoPending /\ pending_execution' = NoPending
      BY <2>1 DEF LastInv
    <2> QED BY <1>1, <1>3, <2>1, <2>2 DEF LastInv, DisconnectedIsLast
  <1>5. CASE DropActor
    <2>1. /\ phase = "down" /\ phase' = "closed" /\ UNCHANGED event
          /\ UNCHANGED <<pending_preview, pending_execution>>
          /\ \A c \in Callers : call'[c].stage # "queued"
      BY <1>5 DEF DropActor, Idle
    <2>2. pending_preview' = NoPending /\ pending_execution' = NoPending
      BY <2>1 DEF LastInv
    <2>3. \A c \in Callers : call'[c].stage \in {"idle", "queued", "parked"}
      BY <1>1 DEF ReplyInv, TypeInv, TypeOK, CallStates
    <2> QED BY <1>1, <1>3, <2>1, <2>2, <2>3 DEF LastInv, DisconnectedIsLast
  <1>6. CASE ~FailPending /\ ~PublishEnd /\ ~DropActor
    <2>1. /\ phase' # phase => phase = "open" /\ phase' = "closing"
          /\ event' = event \/ event'.kind # "Disconnected"
          /\ phase # "open" =>
                /\ event' \in {event, NoEvent}
                /\ UNCHANGED <<pending_preview, pending_execution>>
      BY <1>6, PhaseMoves
    <2>2. event'.kind = "Disconnected" => phase' \in {"down", "closed"}
      BY <2>1 DEF LastInv, DisconnectedIsLast
    <2>5. phase' = "ending" => pending_preview' = NoPending /\ pending_execution' = NoPending
      BY <2>1 DEF LastInv
    <2>3. phase' \in {"down", "closed"} =>
            /\ phase = phase'
            /\ event'.kind \in {"Disconnected", "none"}
            /\ pending_preview' = NoPending /\ pending_execution' = NoPending
      BY <2>1 DEF LastInv, DisconnectedIsLast, NoEvent, Event
    <2>4. phase' = "closed" => \A c \in Callers : call'[c].stage = "idle"
      BY <1>1, <1>6, <2>3, CallsAfterLoop
    <2> QED BY <1>1, <1>3, <2>2, <2>3, <2>4, <2>5 DEF LastInv, DisconnectedIsLast
  <1> QED BY <1>4, <1>5, <1>6, <1>7

\* Disconnected is the last word of a session: when it can be read no call is
\* parked, and when the actor has gone no call waits (the tail of run_session).
THEOREM LastWord == Spec => []DisconnectedIsLast
  <1>1. Init => LastInv
    BY InitReplies DEF Init, LastInv, DisconnectedIsLast, NoEvent, Event
  <1>2. LastInv => DisconnectedIsLast
    BY DEF LastInv
  <1> QED BY <1>1, <1>2, StepLast, PTL DEF Spec
-----------------------------------------------------------------------------
(* The memory of retired requests.                                         *)

Bounded(retired, ids) ==
    /\ Len(retired) <= MaxRetired
    /\ \A i, j \in DOMAIN retired : retired[i] = retired[j] => i = j
    /\ \A i \in DOMAIN retired : retired[i] \in ids

\* Retiring an id of the session keeps the memory within its bound and free of
\* duplicates: the oldest id makes room, an id that is known takes none.
LEMMA RetireBounded ==
    ASSUME NEW ids, NEW retired \in Seq(Ids), Bounded(retired, ids), NEW id \in Ids \cap ids
    PROVE  Bounded(Retire(retired, id), ids)
  <1> DEFINE known == \E i \in DOMAIN retired : retired[i] = id
             kept == IF Len(retired) = MaxRetired THEN Tail(retired) ELSE retired
  <1>1. CASE known
    BY <1>1 DEF Retire
  <1>2. CASE ~known
    <2>1. Retire(retired, id) = Append(kept, id)
      BY <1>2 DEF Retire
    <2>2. /\ kept \in Seq(Ids)
          /\ Len(kept) < MaxRetired
          /\ \A i, j \in DOMAIN kept : kept[i] = kept[j] => i = j
          /\ \A i \in DOMAIN kept : kept[i] \in ids \ {id}
      <3>0. DOMAIN retired = 1 .. Len(retired) /\ Len(retired) \in Nat /\ MaxRetired \in Nat \ {0}
        BY BoundsAssumption
      <3>1. CASE Len(retired) < MaxRetired
        <4>0. Len(retired) # MaxRetired
          <5>1. \A m \in Nat, n \in Nat : m < n => m # n
            OBVIOUS
          <5> QED BY <3>0, <3>1, <5>1
        <4>1. kept = retired
          BY <4>0
        <4> HIDE DEF kept
        <4> QED BY <1>2, <3>1, <4>1 DEF Bounded
      <3>2. CASE Len(retired) = MaxRetired
        <4>1. retired # <<>>
          BY <3>0, <3>2
        <4>2. /\ kept = Tail(retired)
              /\ kept \in Seq(Ids)
              /\ Len(kept) = Len(retired) - 1
              /\ DOMAIN kept = 1 .. Len(retired) - 1
              /\ \A i \in DOMAIN kept : kept[i] = retired[i + 1] /\ i + 1 \in DOMAIN retired
          BY <3>0, <3>2, <4>1
        <4> HIDE DEF kept
        <4>3. ASSUME NEW i \in DOMAIN kept, NEW j \in DOMAIN kept, kept[i] = kept[j]
              PROVE  i = j
          <5>1. i + 1 = j + 1
            BY <4>2, <4>3 DEF Bounded
          <5> QED BY <3>0, <4>2, <5>1
        <4> QED BY <1>2, <3>0, <3>2, <4>2, <4>3 DEF Bounded
      <3>3. Len(retired) < MaxRetired \/ Len(retired) = MaxRetired
        <4>1. Len(retired) <= MaxRetired
          BY DEF Bounded
        <4>2. \A m \in Nat, n \in Nat : m <= n => m < n \/ m = n
          OBVIOUS
        <4> QED BY <3>0, <4>1, <4>2
      <3> QED BY <3>1, <3>2, <3>3
    <2> HIDE DEF kept
    <2>3. /\ Len(Append(kept, id)) = Len(kept) + 1
          /\ DOMAIN Append(kept, id) = 1 .. Len(kept) + 1
          /\ \A i \in 1 .. Len(kept) : Append(kept, id)[i] = kept[i]
          /\ Append(kept, id)[Len(kept) + 1] = id
          /\ DOMAIN kept = 1 .. Len(kept) /\ Len(kept) \in Nat
      BY <2>2
    <2> QED BY <2>1, <2>2, <2>3, BoundsAssumption DEF Bounded
  <1> QED BY <1>1, <1>2

\* Only the maintenance tick and the end of the actor change the memory.
LEMMA MemoryMoves ==
    ASSUME [Next]_vars
    PROVE  \/ Maintenance \/ DropActor
           \/ UNCHANGED retired_request_ids /\ issued \subseteq issued'
  <1>1. CASE HandleCommand
    BY <1>1 DEF HandleCommand, BeginAudio, SendAudioChunk, FinishAudio, Confirm,
                RespondToDecision, Cancel, Shutdown, loopVars
  <1>2. CASE Inbound
    BY <1>2 DEF Inbound, CommandPreview, ExecutionStatus, PreviewUpdate, AssistantOutput,
                RemoteError, PingOrPong, OtherMessage, PartialFrame, SocketEnds, Receives, loopVars
  <1>3. CASE Time
    BY <1>3 DEF Time, PreviewFallsDue, ExecutionFallsDue, PeerFallsSilent, HeartbeatFails, loopVars
  <1>4. CASE \/ UNCHANGED vars \/ FailPending \/ PublishEnd \/ CommandsClosed
             \/ \E c \in Callers : Call(c)
             \/ EnqueueTimesOut \/ DropHandles \/ ReadEvent
    BY <1>4 DEF vars, FailPending, PublishEnd, CommandsClosed, Call, EnqueueTimesOut, DropHandles, ReadEvent,
                loopVars
  <1> QED BY <1>1, <1>2, <1>3, <1>4 DEF Next

\* A tick retires at most the two pending requests, both handed out here.
LEMMA StepRetired ==
    ASSUME ReplyInv, RetiredBounded, [Next]_vars
    PROVE  RetiredBounded'
  <1>1. /\ retired_request_ids \in Seq(Ids)
        /\ pending_preview \in Pendings /\ pending_execution \in Pendings
    BY DEF ReplyInv, TypeInv, TypeOK
  <1>2. Bounded(retired_request_ids, issued)
    BY DEF RetiredBounded, Bounded
  <1>3. CASE Maintenance
    <2>1. /\ pending_preview.due => pending_preview.id \in Ids \cap issued
          /\ pending_execution.due => pending_execution.id \in Ids \cap issued
      BY SlotFacts DEF NoPending
    <2>2. /\ RetirePreview(retired_request_ids) \in Seq(Ids)
          /\ Bounded(RetirePreview(retired_request_ids), issued)
      BY <1>1, <1>2, <2>1, RetireType, RetireBounded DEF RetirePreview
    <2>3. Bounded(RetireExecution(RetirePreview(retired_request_ids)), issued)
      BY <2>1, <2>2, RetireBounded DEF RetireExecution
    <2>4. /\ retired_request_ids' = RetireExecution(RetirePreview(retired_request_ids))
          /\ issued' = issued
      BY <1>3 DEF Maintenance
    <2> QED BY <2>3, <2>4 DEF RetiredBounded, Bounded
  <1>4. CASE DropActor
    <2>1. retired_request_ids' = <<>>
      BY <1>4 DEF DropActor
    <2> QED BY <2>1, BoundsAssumption DEF RetiredBounded
  <1>5. CASE UNCHANGED retired_request_ids /\ issued \subseteq issued'
    BY <1>5 DEF RetiredBounded
  <1> QED BY <1>3, <1>4, <1>5, MemoryMoves

\* The memory of retired requests is bounded, without duplicates, and holds only
\* ids of this session (retire_request_id and the maintenance tick).
THEOREM MemoryBounded == Spec => []RetiredBounded
  <1>1. Init => RetiredBounded
    BY BoundsAssumption DEF Init, RetiredBounded
  <1> QED BY <1>1, RepliesInvariant, StepRetired, PTL DEF Spec

\* What the abstract session sees of a caller: the refinement mapping of Session.
RequestOf(c) ==
    IF Waits(c) THEN [op |-> call[c].op, id |-> call[c].id] ELSE [op |-> "none", id |-> NoId]
AnswerOf(c) ==
    IF Waits(c) THEN [code |-> "none", about |-> NoId]
    ELSE [code |-> call[c].code, about |-> call[c].id]

\* What a step does to one caller.
LeftAlone(c) == RequestOf(c)' = RequestOf(c) /\ AnswerOf(c)' = AnswerOf(c)
Refused(c) ==
    /\ Waits(c)
    /\ \E failure \in Session!Failures : call'[c] = Idle(failure.code, failure.about)
Served(c) ==
    /\ Waits(c) /\ phase = "open"
    /\ call[c].op # "begin_audio"
    /\ \E success \in Session!Successes(RequestOf(c)) :
        call'[c] = Idle(success.code, success.about)

\* A session that has left its loop has a reason, which is a failure.
HasReason == phase # "open" => final_error \in EndCodes
PromiseInv == LastInv /\ HasReason

-----------------------------------------------------------------------------
(* The mapping.                                                            *)

\* Whatever ends a session is a failure for those who wait.
LEMMA EndIsFailure ==
    \A code \in EndCodes \cup {"SEND_TIMEOUT", "REMOTE", "AUDIO_BUSY",
        "UNSUPPORTED_AUDIO_FORMAT", "UNKNOWN_AUDIO_REQUEST", "INVALID_AUDIO_CHUNK",
        "AUDIO_TOO_LARGE", "EMPTY_AUDIO", "REQUEST_BUSY", "CANCELLED",
        "REQUEST_TIMEOUT", "CONFIRM_TIMEOUT"} :
      \E failure \in Session!Failures : failure.code = code /\ failure.about = NoId
  <1> SUFFICES ASSUME NEW code \in EndCodes \cup {"SEND_TIMEOUT", "REMOTE", "AUDIO_BUSY",
        "UNSUPPORTED_AUDIO_FORMAT", "UNKNOWN_AUDIO_REQUEST", "INVALID_AUDIO_CHUNK",
        "AUDIO_TOO_LARGE", "EMPTY_AUDIO", "REQUEST_BUSY", "CANCELLED",
        "REQUEST_TIMEOUT", "CONFIRM_TIMEOUT"}
      PROVE \E failure \in Session!Failures : failure.code = code /\ failure.about = NoId
    OBVIOUS
  <1>1. [code |-> code, about |-> NoId] \in Session!Failures
    BY TransportAssumption DEF EndCodes, Session!Failures
  <1> QED BY <1>1

\* A caller that waits asks for something, an idle one for nothing.
LEMMA AsksIfWaits ==
    ASSUME TypeOK, NEW c \in Callers
    PROVE  /\ Waits(c) <=> RequestOf(c) # Session!NoRequest
           /\ RequestOf(c).op = "begin_audio" <=> Waits(c) /\ call[c].op = "begin_audio"
  <1>1. call[c] \in CallStates
    BY DEF TypeOK
  <1> QED BY <1>1 DEF RequestOf, Waits, CallStates, Session!NoRequest, Ops

\* Nobody begins an upload: answers are replies.
LEMMA AnswersReply ==
    ASSUME TypeOK, UNCHANGED issued,
           \A c \in Callers : LeftAlone(c) \/ Refused(c) \/ Served(c)
    PROVE  Session!Replies
  <1>1. ASSUME NEW c \in Callers
        PROVE  \/ LeftAlone(c)
               \/ /\ RequestOf(c) # Session!NoRequest
                  /\ RequestOf(c)' = Session!NoRequest
                  /\ \/ AnswerOf(c)' \in Session!Failures
                     \/ /\ phase = "open"
                        /\ RequestOf(c).op # "begin_audio"
                        /\ AnswerOf(c)' \in Session!Successes(RequestOf(c))
    <2>1. CASE LeftAlone(c)
      BY <2>1
    <2>2. CASE Refused(c)
      <3>1. PICK failure \in Session!Failures : call'[c] = Idle(failure.code, failure.about)
        BY <2>2 DEF Refused
      <3>2. RequestOf(c)' = Session!NoRequest /\ AnswerOf(c)' = failure
        BY <3>1 DEF RequestOf, AnswerOf, Waits, Idle, Session!NoRequest, Session!Failures
      <3> QED BY <2>2, <3>2, AsksIfWaits DEF Refused
    <2>3. CASE Served(c)
      <3>1. PICK success \in Session!Successes(RequestOf(c)) :
              call'[c] = Idle(success.code, success.about)
        BY <2>3 DEF Served
      <3>2. success = [code |-> success.code, about |-> success.about]
        BY DEF Session!Successes, Session!Ok, Session!NoAnswer
      <3>3. RequestOf(c)' = Session!NoRequest /\ AnswerOf(c)' = success
        BY <3>1, <3>2 DEF RequestOf, AnswerOf, Waits, Idle, Session!NoRequest
      <3> QED BY <2>3, <3>3, AsksIfWaits DEF Served
    <2> QED BY <2>1, <2>2, <2>3
  <1>2. \A c \in Callers, id \in Ids :
          ~(RequestOf(c).op = "begin_audio" /\ RequestOf(c) # Session!NoRequest
            /\ RequestOf(c)' = Session!NoRequest /\ AnswerOf(c)' = Session!Ok(id))
    BY <1>1 DEF LeftAlone, Session!Failures, Session!Ok
  <1> QED BY <1>1, <1>2, AsksIfWaits
          DEF Session!Replies, Session!Waiting, LeftAlone, RequestOf, AnswerOf

\* The session lives on, ends, or stays what it was.
LEMMA LivesOn ==
    ASSUME phase \in {"open", "closing", "ending", "down", "closed"},
           \/ phase' = phase
           \/ phase = "open" /\ phase' = "closing"
           \/ phase = "closing" /\ phase' = "ending"
           \/ phase = "ending" /\ phase' = "down"
    PROVE  Session!Lives
  BY DEF Session!Lives

-----------------------------------------------------------------------------
(* The callers.                                                            *)

\* A step that touches no call answers nobody.
LEMMA NobodyAnswered ==
    ASSUME TypeOK, UNCHANGED <<call, issued>>
    PROVE  Session!Replies
  <1>1. \A c \in Callers : LeftAlone(c)
    BY DEF LeftAlone, RequestOf, AnswerOf, Waits
  <1> QED BY <1>1, AnswersReply

\* A method that is called asks for its request.
LEMMA CallAsks ==
    ASSUME TypeOK, NEW c \in Callers, Call(c)
    PROVE  Session!Ask(c)
  <1> DEFINE asks == [d \in Callers |-> RequestOf(d)]
             answers == [d \in Callers |-> AnswerOf(d)]
  <1>1. /\ call \in [Callers -> CallStates]
        /\ call[c].stage = "idle"
        /\ phase \in {"open", "closing", "ending", "down", "closed"}
        /\ UNCHANGED <<phase, issued>>
    BY DEF Call, TypeOK
  <1>2. PICK cmd \in Commands :
          IF phase = "closed"
          THEN Answer(c, "CONNECTION_INTERRUPTED", NoId)
          ELSE call' = [call EXCEPT ![c] = Calling(cmd)]
    BY DEF Call
  <1>3. RequestOf(c) = Session!NoRequest
    BY <1>1 DEF RequestOf, Waits, Session!NoRequest
  <1>4. \A d \in Callers \ {c} : LeftAlone(d)
    BY <1>1, <1>2 DEF Answer, LeftAlone, RequestOf, AnswerOf, Waits
  <1>5. CASE phase = "closed"
    <2>1. PICK failure \in Session!Failures :
            failure.code = "CONNECTION_INTERRUPTED" /\ failure.about = NoId
      BY EndIsFailure DEF EndCodes
    <2>2. failure = [code |-> "CONNECTION_INTERRUPTED", about |-> NoId]
      BY <2>1 DEF Session!Failures
    <2>3. RequestOf(c)' = RequestOf(c) /\ AnswerOf(c)' = failure
      BY <1>1, <1>2, <1>3, <1>5, <2>2 DEF Answer, Idle, RequestOf, AnswerOf, Waits, Session!NoRequest
    <2>4. answers' = [answers EXCEPT ![c] = failure] /\ asks' = asks
      BY <1>4, <2>3 DEF LeftAlone
    <2> QED BY <1>1, <1>3, <1>5, <2>4 DEF Session!Ask, RequestOf, AnswerOf
  <1>6. CASE phase # "closed"
    <2>1. call'[c] = Calling(cmd)
      BY <1>1, <1>2, <1>6
    <2>2. [op |-> cmd.op, id |-> cmd.id] \in Session!Requests
      BY DEF Commands, Session!Requests
    <2>3. /\ RequestOf(c)' = [op |-> cmd.op, id |-> cmd.id]
          /\ AnswerOf(c)' = Session!NoAnswer
      BY <2>1 DEF Calling, RequestOf, AnswerOf, Waits, Session!NoAnswer
    <2>4. /\ asks' = [asks EXCEPT ![c] = [op |-> cmd.op, id |-> cmd.id]]
          /\ answers' = [answers EXCEPT ![c] = Session!NoAnswer]
      BY <1>4, <2>3 DEF LeftAlone
    <2> QED BY <1>1, <1>3, <1>6, <2>2, <2>4 DEF Session!Ask, RequestOf, AnswerOf
  <1> QED BY <1>5, <1>6

\* One caller is answered.
LEMMA OneAnswer ==
    ASSUME TypeOK, NEW c \in Callers, NEW code, NEW about, Answer(c, code, about),
           UNCHANGED issued, Refused(c) \/ Served(c)
    PROVE  Session!Replies
  <1>1. \A d \in Callers \ {c} : LeftAlone(d)
    BY DEF Answer, TypeOK, LeftAlone, RequestOf, AnswerOf, Waits
  <1> QED BY <1>1, AnswersReply

\* Who gives up waiting for room is refused.
LEMMA TimeoutReplies ==
    ASSUME ReplyInv, EnqueueTimesOut
    PROVE  Session!Replies
  <1>1. PICK i \in DOMAIN queue : Answer(queue[i], "SEND_TIMEOUT", NoId)
    BY DEF EnqueueTimesOut
  <1>2. TypeOK /\ call \in [Callers -> CallStates] /\ queue[i] \in Callers
        /\ call[queue[i]].stage = "queued"
    BY DEF ReplyInv, TypeInv, TypeOK, RepliesAccounted, QueuedOnce
  <1>3. Refused(queue[i])
    BY <1>1, <1>2, EndIsFailure DEF Refused, Waits, Answer
  <1> QED BY <1>1, <1>2, <1>3, OneAnswer DEF EnqueueTimesOut

-----------------------------------------------------------------------------
(* The commands.                                                           *)

FailureCodes == {failure.code : failure \in Session!Failures}

\* A command that fails is refused.
LEMMA CommandRefused ==
    ASSUME ReplyInv, NEW op, Takes(op), UNCHANGED issued,
           NEW code \in FailureCodes, Answer(Caller, code, NoId)
    PROVE  Session!Replies
  <1>1. PICK failure \in Session!Failures : failure.code = code /\ failure.about = NoId
    BY DEF FailureCodes, Session!Failures
  <1>2. Refused(Caller)
    BY <1>1, CallerFacts DEF Refused, Waits, Answer
  <1> QED BY <1>2, CallerFacts, OneAnswer DEF ReplyInv, TypeInv

\* A command that is not begin_audio is served with what its method promises.
LEMMA CommandServed ==
    ASSUME ReplyInv, NEW op \in Ops \ {"begin_audio"}, Takes(op), UNCHANGED issued,
           NEW success \in Session!Successes(RequestOf(Caller)),
           Answer(Caller, success.code, success.about)
    PROVE  Session!Replies
  <1>1. Served(Caller)
    BY CallerFacts DEF Served, Waits, Answer, Takes, Command
  <1> QED BY <1>1, CallerFacts, OneAnswer DEF ReplyInv, TypeInv

\* A begun upload has an id nobody has.
LEMMA BeginServed ==
    ASSUME ReplyInv, Takes("begin_audio"), NEW id \in Ids \ issued,
           issued' = issued \cup {id}, Answer(Caller, "ok", id)
    PROVE  Session!Replies
  <1>1. PICK c \in Callers : c = Caller
    BY CallerFacts
  <1>2. /\ TypeOK /\ call \in [Callers -> CallStates]
        /\ Waits(c) /\ call[c].op = "begin_audio" /\ phase = "open"
    BY <1>1, CallerFacts DEF ReplyInv, TypeInv, Waits, Takes, Command
  <1>3. call'[c] = Idle("ok", id) /\ \A d \in Callers \ {c} : call'[d] = call[d]
    BY <1>1, <1>2 DEF Answer
  <1>4. RequestOf(c)' = Session!NoRequest /\ AnswerOf(c)' = Session!Ok(id)
    BY <1>3 DEF Idle, RequestOf, AnswerOf, Waits, Session!NoRequest, Session!Ok
  <1>5. RequestOf(c) # Session!NoRequest /\ RequestOf(c).op = "begin_audio"
    BY <1>2, AsksIfWaits
  <1>6. \A d \in Callers \ {c} : LeftAlone(d)
    BY <1>3 DEF LeftAlone, RequestOf, AnswerOf, Waits
  <1>7. Session!Ok(id) \in Session!Successes(RequestOf(c))
    BY <1>5 DEF Session!Successes
  <1>8. \A i \in Ids :
            (\E d \in Callers :
                /\ RequestOf(d) # Session!NoRequest /\ RequestOf(d).op = "begin_audio"
                /\ RequestOf(d)' = Session!NoRequest /\ AnswerOf(d)' = Session!Ok(i)) <=> i = id
    BY <1>4, <1>5, <1>6 DEF LeftAlone, Session!Ok
  <1> QED BY <1>2, <1>4, <1>5, <1>6, <1>7, <1>8
          DEF Session!Replies, Session!Waiting, LeftAlone, RequestOf, AnswerOf

\* A reply that is kept answers nobody yet.
LEMMA CommandParked ==
    ASSUME ReplyInv, NEW op, Takes(op), UNCHANGED issued,
           call' = [call EXCEPT ![Caller].stage = "parked"]
    PROVE  Session!Replies
  <1>1. TypeOK /\ call \in [Callers -> CallStates] /\ call[Caller].stage = "queued"
    BY CallerFacts DEF ReplyInv, TypeInv
  <1>2. ASSUME NEW c \in Callers PROVE LeftAlone(c)
    <2>1. /\ call'[c].op = call[c].op /\ call'[c].id = call[c].id
          /\ Waits(c)' <=> Waits(c)
          /\ ~Waits(c) => call'[c] = call[c]
      BY <1>1 DEF CallStates, Waits
    <2> QED BY <2>1 DEF LeftAlone, RequestOf, AnswerOf
  <1> QED BY <1>1, <1>2, AnswersReply

\* What the methods that wait for nothing but their own command return.
LEMMA PlainSuccess ==
    ASSUME ReplyInv, NEW op, Takes(op)
    PROVE  /\ op \in {"send_audio_chunk", "respond_to_decision", "cancel"} =>
                Session!Ok(NoId) \in Session!Successes(RequestOf(Caller))
           /\ op = "shutdown" => Session!NoAnswer \in Session!Successes(RequestOf(Caller))
  <1>1. RequestOf(Caller).op = op
    BY CallerFacts DEF RequestOf, Waits, Takes, Command
  <1> QED BY <1>1 DEF Session!Successes

\* The codes of the commands are failures.
LEMMA CommandCodes ==
    EndCodes \cup {"SEND_TIMEOUT", "REMOTE", "AUDIO_BUSY", "UNSUPPORTED_AUDIO_FORMAT",
        "UNKNOWN_AUDIO_REQUEST", "INVALID_AUDIO_CHUNK", "AUDIO_TOO_LARGE", "EMPTY_AUDIO",
        "REQUEST_BUSY", "CANCELLED", "REQUEST_TIMEOUT", "CONFIRM_TIMEOUT"} \subseteq FailureCodes
    /\ TransportErrors \subseteq FailureCodes
  BY EndIsFailure DEF FailureCodes, EndCodes

\* Every command is refused, served as promised, or parked.
LEMMA CommandReplies == ASSUME ReplyInv, HandleCommand PROVE Session!Replies
  <1> DEFINE refused(op) ==
        Takes(op) /\ UNCHANGED issued /\ \E code \in FailureCodes : Answer(Caller, code, NoId)
             parked(op) ==
        Takes(op) /\ UNCHANGED issued /\ call' = [call EXCEPT ![Caller].stage = "parked"]
             served(op) ==
        Takes(op) /\ UNCHANGED issued /\ Answer(Caller, "ok", NoId)
  <1>1. CASE BeginAudio
    <2>1. \/ refused("begin_audio")
          \/ /\ Takes("begin_audio")
             /\ \E id \in Ids \ issued : issued' = issued \cup {id} /\ Answer(Caller, "ok", id)
      BY <1>1, CommandCodes DEF BeginAudio, Rejects, Writes, WriteFails
    <2> QED BY <2>1, CommandRefused, BeginServed
  <1>2. CASE SendAudioChunk
    <2>1. served("send_audio_chunk") \/ refused("send_audio_chunk")
      BY <1>2, CommandCodes DEF SendAudioChunk, ChunkError, Rejects, Writes, WriteFails
    <2> QED BY <2>1, CommandRefused, CommandServed, PlainSuccess DEF Ops, Session!Ok
  <1>3. CASE FinishAudio
    <2>1. parked("finish_audio") \/ refused("finish_audio")
      BY <1>3, CommandCodes DEF FinishAudio, Rejects, Writes, WriteFails
    <2> QED BY <2>1, CommandRefused, CommandParked
  <1>4. CASE Confirm
    <2>1. parked("confirm") \/ refused("confirm")
      BY <1>4, CommandCodes DEF Confirm, Rejects, Writes, WriteFails
    <2> QED BY <2>1, CommandRefused, CommandParked
  <1>5. CASE RespondToDecision
    <2>1. served("respond_to_decision") \/ refused("respond_to_decision")
      BY <1>5, CommandCodes DEF RespondToDecision, Writes, WriteFails
    <2> QED BY <2>1, CommandRefused, CommandServed, PlainSuccess DEF Ops, Session!Ok
  <1>6. CASE Shutdown
    <2>1. /\ Takes("shutdown") /\ UNCHANGED issued
          /\ Answer(Caller, "none", NoId)
      BY <1>6 DEF Shutdown
    <2> QED BY <2>1, CommandServed, PlainSuccess DEF Ops, Session!NoAnswer
  <1>7. CASE Cancel
    <2>1. Takes("cancel") /\ UNCHANGED issued
      BY <1>7 DEF Cancel
    <2>2. PICK code \in {"ok"} \cup TransportErrors : AnswerCancel(code)
      BY <1>7 DEF Cancel
    <2>3. /\ TypeOK /\ Caller \in Callers /\ Waits(Caller) /\ phase = "open"
          /\ call[Caller].op = "cancel"
      BY <2>1, CallerFacts DEF ReplyInv, TypeInv, Waits, Takes, Command
    <2>4. Refused(Caller) \/ Served(Caller)
      <3>1. call'[Caller] = Idle(code, NoId)
        BY <2>2, <2>3 DEF AnswerCancel
      <3>2. CASE code = "ok"
        BY <2>1, <2>3, <3>1, <3>2, PlainSuccess DEF Served, Session!Ok
      <3>3. CASE code \in TransportErrors
        BY <2>3, <3>1, <3>3, EndIsFailure, CodeTypes DEF Refused
      <3> QED BY <3>2, <3>3
    <2>5. ASSUME NEW c \in Callers, c # Caller PROVE LeftAlone(c) \/ Refused(c)
      <3>1. CASE call'[c] = call[c]
        BY <3>1 DEF LeftAlone, RequestOf, AnswerOf, Waits
      <3>2. CASE call'[c] # call[c]
        <4>1. /\ call'[c] = Idle("CANCELLED", NoId)
              /\ c \in {pending_preview.caller, pending_execution.caller}
          BY <2>2, <2>5, <3>2 DEF AnswerCancel
        <4> QED BY <4>1, SlotFacts, EndIsFailure DEF Refused, Waits
      <3> QED BY <3>1, <3>2
    <2> QED BY <2>1, <2>3, <2>4, <2>5, AnswersReply
  <1> QED BY <1>1, <1>2, <1>3, <1>4, <1>5, <1>6, <1>7 DEF HandleCommand

-----------------------------------------------------------------------------
(* What the desktop sends, and time.                                       *)

\* A response answers the call of the slot it matches, with a success about the
\* request asked about.
LEMMA ResponseReplies ==
    ASSUME ReplyInv, NEW type, Receives(type), NEW code, NEW about,
           \/ /\ AnswersPreview(code, about) /\ pending_preview # NoPending
              /\ code = "ok" /\ about = pending_preview.id
           \/ /\ AnswersExecution(code, about) /\ pending_execution # NoPending
              /\ code \in {"ok", "interim"} /\ about = pending_execution.id
    PROVE  Session!Replies
  <1>1. TypeOK /\ UNCHANGED issued /\ phase = "open" /\ call \in [Callers -> CallStates]
    BY DEF ReplyInv, TypeInv, TypeOK, Receives
  <1>2. PICK c \in Callers :
          /\ Waits(c) /\ call[c].op # "begin_audio"
          /\ Answer(c, code, about) /\ call'[c] = Idle(code, about)
          /\ \/ call[c].op = "finish_audio" /\ code = "ok" /\ about = call[c].id
             \/ call[c].op = "confirm" /\ code \in {"ok", "interim"} /\ about = call[c].id
    BY <1>1, SlotFacts DEF Waits, AnswersPreview, AnswersExecution, Answer
  <1>3. [code |-> code, about |-> about] \in Session!Successes(RequestOf(c))
    BY <1>2 DEF RequestOf, Session!Successes, Session!Ok
  <1>4. Served(c)
    BY <1>1, <1>2, <1>3 DEF Served
  <1> QED BY <1>1, <1>2, <1>4, OneAnswer

\* An error of the desktop refuses the call of the slot it matches.
LEMMA ErrorReplies ==
    ASSUME ReplyInv, Receives("Error"),
           \/ AnswersPreview("REMOTE", NoId) /\ pending_preview # NoPending
           \/ AnswersExecution("REMOTE", NoId) /\ pending_execution # NoPending
    PROVE  Session!Replies
  <1>1. TypeOK /\ UNCHANGED issued /\ call \in [Callers -> CallStates]
    BY DEF ReplyInv, TypeInv, TypeOK, Receives
  <1>2. PICK c \in Callers :
          Waits(c) /\ Answer(c, "REMOTE", NoId) /\ call'[c] = Idle("REMOTE", NoId)
    BY <1>1, SlotFacts DEF Waits, AnswersPreview, AnswersExecution, Answer
  <1>3. Refused(c)
    BY <1>2, EndIsFailure DEF Refused
  <1> QED BY <1>1, <1>2, <1>3, OneAnswer

\* A message that answers nobody.
LEMMA MessageIgnored ==
    ASSUME ReplyInv, NEW type, Receives(type),
           Ignores \/ Strikes \/ \E kind, id : Publishes(kind, id)
    PROVE  Session!Replies
  BY NobodyAnswered DEF ReplyInv, TypeInv, Receives, Ignores, Strikes, Publishes

\* Every inbound frame answers nobody, or the call it is about.
LEMMA InboundReplies == ASSUME ReplyInv, Inbound PROVE Session!Replies
  <1> USE NoIdAssumption
  <1>1. ASSUME NEW id \in Ids, CommandPreview(id) PROVE Session!Replies
    BY <1>1, MessageIgnored, ResponseReplies, SlotFacts DEF CommandPreview, PreviewFor
  <1>2. ASSUME NEW id \in Ids, NEW terminal \in BOOLEAN, ExecutionStatus(id, terminal)
        PROVE  Session!Replies
    BY <1>2, MessageIgnored, ResponseReplies, SlotFacts DEF ExecutionStatus
  <1>3. ASSUME NEW id \in Ids, NEW type \in {"ProgressUpdate", "DecisionRequest"},
               PreviewUpdate(type, id)
        PROVE  Session!Replies
    BY <1>3, MessageIgnored DEF PreviewUpdate
  <1>4. ASSUME NEW id \in Ids \cup {NoId}, AssistantOutput(id) PROVE Session!Replies
    BY <1>4, MessageIgnored DEF AssistantOutput
  <1>5. ASSUME NEW id \in Ids \cup {NoId}, RemoteError(id) PROVE Session!Replies
    <2>1. Receives("Error")
      BY <1>5 DEF RemoteError
    <2>2. \/ Ignores \/ Strikes
          \/ AnswersPreview("REMOTE", NoId) /\ pending_preview # NoPending
          \/ AnswersExecution("REMOTE", NoId) /\ pending_execution # NoPending
      BY <1>5, SlotFacts DEF RemoteError
    <2> QED BY <2>1, <2>2, MessageIgnored, ErrorReplies
  <1>6. CASE PingOrPong \/ SocketEnds
    BY <1>6, NobodyAnswered
    DEF ReplyInv, TypeInv, PingOrPong, SocketEnds, Receives, callerVars
  <1>7. CASE OtherMessage \/ PartialFrame
    BY <1>7, MessageIgnored DEF OtherMessage, PartialFrame
  <1> QED BY <1>1, <1>2, <1>3, <1>4, <1>5, <1>6, <1>7 DEF Inbound

\* The tick refuses the calls whose deadline has passed; time alone answers nobody.
LEMMA TimeReplies == ASSUME ReplyInv, Time PROVE Session!Replies
  <1>1. CASE PreviewFallsDue \/ ExecutionFallsDue \/ PeerFallsSilent \/ HeartbeatFails
    BY <1>1, NobodyAnswered
    DEF ReplyInv, TypeInv, PreviewFallsDue, ExecutionFallsDue, PeerFallsSilent, HeartbeatFails,
        callerVars
  <1>2. CASE Maintenance
    <2>1. ASSUME NEW c \in Callers PROVE LeftAlone(c) \/ Refused(c)
      <3>1. CASE call'[c] = call[c]
        BY <3>1 DEF LeftAlone, RequestOf, AnswerOf, Waits
      <3>2. CASE call'[c] # call[c]
        <4>1. /\ \/ call'[c] = Idle("REQUEST_TIMEOUT", NoId)
                 \/ call'[c] = Idle("CONFIRM_TIMEOUT", NoId)
              /\ c \in {pending_preview.caller, pending_execution.caller}
          BY <1>2, <3>2 DEF Maintenance, AnswerOverdue
        <4> QED BY <4>1, SlotFacts, EndIsFailure DEF Refused, Waits
      <3> QED BY <3>1, <3>2
    <2> QED BY <1>2, <2>1, AnswersReply DEF Maintenance, ReplyInv, TypeInv
  <1> QED BY <1>1, <1>2 DEF Time

-----------------------------------------------------------------------------
(* The end.                                                                *)

\* The tail refuses whom the slots hold, for the reason of the end; the dropped
\* receiver whom the channel holds.
LEMMA TailReplies ==
    ASSUME PromiseInv, FailPending \/ DropActor
    PROVE  Session!Replies
  <1>1. TypeOK /\ ReplyInv /\ UNCHANGED issued
    BY DEF PromiseInv, LastInv, ReplyInv, TypeInv, FailPending, DropActor
  <1>2. ASSUME NEW c \in Callers PROVE LeftAlone(c) \/ Refused(c)
    <2>1. CASE call'[c] = call[c]
      BY <2>1 DEF LeftAlone, RequestOf, AnswerOf, Waits
    <2>2. CASE call'[c] # call[c] /\ FailPending
      <3>1. /\ call'[c] = Idle(final_error, NoId)
            /\ c \in {pending_preview.caller, pending_execution.caller}
            /\ phase = "closing"
        BY <2>2 DEF FailPending, LeftWaiting
      <3>2. final_error \in EndCodes
        BY <3>1 DEF PromiseInv, HasReason
      <3> QED BY <1>1, <3>1, <3>2, SlotFacts, EndIsFailure DEF Refused, Waits
    <2>3. CASE call'[c] # call[c] /\ DropActor
      <3>1. call'[c] = Idle("CONNECTION_INTERRUPTED", NoId) /\ call[c].stage = "queued"
        BY <2>3 DEF DropActor
      <3> QED BY <3>1, EndIsFailure DEF Refused, Waits, EndCodes
    <2> QED BY <2>1, <2>2, <2>3
  <1> QED BY <1>1, <1>2, AnswersReply

\* The session goes when its actor is dropped, with nobody left to answer.
LEMMA ActorGoes ==
    ASSUME PromiseInv, LastInv', DropActor
    PROVE  Session!Goes
  <1>1. phase = "down" /\ phase' = "closed" /\ \A c \in Callers : call'[c].stage = "idle"
    BY DEF DropActor, LastInv, DisconnectedIsLast
  <1>2. \A c \in Callers : RequestOf(c)' = Session!NoRequest
    BY <1>1 DEF RequestOf, Waits, Session!NoRequest
  <1> QED BY <1>1, <1>2 DEF Session!Goes, RequestOf

\* A loop is left for a reason, and the reason stays.
LEMMA StepReasonStays ==
    ASSUME HasReason, [Next]_vars
    PROVE  HasReason'
  <1> USE WriteCodes DEF HasReason
  <1>1. CASE Stays
    BY <1>1 DEF Stays
  <1>2. CASE Fails
    BY <1>2 DEF Fails, Breaks
  <1>3. CASE Counts
    BY <1>3 DEF Counts, Strikes, Breaks, Continues, EndCodes
  <1>4. CASE FailPending \/ PublishEnd \/ DropActor
    BY <1>4 DEF FailPending, PublishEnd, RepliesSent, DropActor
  <1> QED BY <1>1, <1>2, <1>3, <1>4, StepCourse DEF Course

\* Every step of the session is a step of the promise.
LEMMA StepPromise ==
    ASSUME PromiseInv, [Next]_vars
    PROVE  Session!PromiseNext
  <1>1. ReplyInv /\ TypeOK /\ LastInv'
    BY StepLast DEF PromiseInv, LastInv, ReplyInv, TypeInv
  <1>2. Session!Lives \/ DropActor
    BY <1>1, LivesOn, StepCourse
    DEF TypeOK, Course, Stays, Fails, Counts, Strikes, Breaks, Continues, FailPending, PublishEnd, RepliesSent
  <1>3. CASE \E c \in Callers : Call(c)
    BY <1>1, <1>3, CallAsks DEF Session!PromiseNext
  <1>4. CASE ~ \E c \in Callers : Call(c)
    <2>1. ASSUME UNCHANGED vars \/ DropHandles \/ ReadEvent \/ CommandsClosed \/ PublishEnd
          PROVE  Session!Replies
      BY <1>1, <2>1, NobodyAnswered
      DEF vars, callerVars, DropHandles, ReadEvent, CommandsClosed, PublishEnd
    <2>2. Session!Replies
      BY <1>1, <1>4, <2>1, TimeoutReplies, CommandReplies, InboundReplies, TimeReplies, TailReplies
      DEF Next
    <2> QED BY <1>1, <1>2, <2>2, ActorGoes DEF Session!PromiseNext
  <1> QED BY <1>3, <1>4

\* A session starts as a promise to nobody yet.
LEMMA InitPromise == Init => PromiseInv /\ Session!PromiseInit
  <1> SUFFICES ASSUME Init PROVE PromiseInv /\ Session!PromiseInit
    OBVIOUS
  <1>1. LastInv
    BY InitReplies DEF Init, LastInv, DisconnectedIsLast, NoEvent, Event
  <1>2. PromiseInv
    BY <1>1 DEF Init, PromiseInv, HasReason
  <1>3. Session!PromiseInit
    BY DEF Init, Idle, Waits, Session!PromiseInit, Session!NoRequest, Session!NoAnswer
  <1> QED BY <1>2, <1>3

\* The session actor, with its queue, slots, deadlines, strikes and any desktop at
\* the other end, implements the promise its methods make to the application: one
\* answer per call, about the request asked about, a fresh id per upload, only
\* failures once the session has ended, nobody waiting once it is gone (the methods
\* of RemoteSession over run_session).
THEOREM PromiseKept == Spec => KeepsPromise
  <1>1. PromiseInv /\ [Next]_vars => PromiseInv'
    BY StepLast, StepReasonStays DEF PromiseInv
  <1>2. PromiseInv /\ [Next]_vars => [Session!PromiseNext]_(Session!promiseVars)
    BY StepPromise
  <1> QED BY <1>1, <1>2, InitPromise, PTL DEF Spec, KeepsPromise, Session!Promise
=============================================================================
