-------------------------- MODULE AppSessionTimely --------------------------
(***************************************************************************)
(* Theorems about recordings, requests and dialogs, for any number of      *)
(* tasks, sessions and requests, in timely runs.                           *)
(*                                                                         *)
(* A run is timely if the desktop asks for no decision, and if no cancel   *)
(* is waited for in a session that another has replaced.  Without the one, *)
(* the answer to a decision hides what else is pending; without the other, *)
(* the late cancel resets what is not its own.  With one session and no    *)
(* decisions every run is timely (the last theorems).                      *)
(*                                                                         *)
(* The invariant has four parts besides IInv: where the calls are          *)
(* (CallInv), in which order the tasks of a request come and what its      *)
(* fields hold meanwhile (FlowInv), that recordings are shown and stopped  *)
(* in the background (ShownInv), and that the upload a session has open    *)
(* has a keeper (UploadInv).  A step is calm if it only goes on, answers,  *)
(* forgets or ends; most steps are.                                        *)
(***************************************************************************)
EXTENDS AppSessionProofs

-----------------------------------------------------------------------------
(***************************************************************************)
(* What a turn makes of its task and of the queues.                        *)
(***************************************************************************)

(* What is put in front of a sequence is before all the others. *)
LEMMA PrependBefore ==
    ASSUME NEW S, NEW s \in Seq(S), NEW x \in S, NEW h, h = Ahead(x, s)
    PROVE  /\ \A y : Occurs(s, y) => Before(h, x, y)
           /\ Occurs(h, x)
<1>1. <<x>> \in Seq(S) /\ Len(<<x>>) = 1 /\ <<x>>[1] = x /\ Len(s) \in Nat
  OBVIOUS
<1>2. /\ h \in Seq(S) /\ Len(h) = 1 + Len(s) /\ h[1] = x
      /\ \A i \in 1 .. Len(s) : h[i + 1] = s[i]
  <2>1. /\ Len(h) = 1 + Len(s) /\ h \in Seq(S)
        /\ \A i \in 1 .. 1 + Len(s) : h[i] = IF i <= 1 THEN <<x>>[i] ELSE s[i - 1]
    BY <1>1, ConcatProperties DEF Ahead
  <2>2. h[1] = x
    BY <1>1, <2>1
  <2>3. ASSUME NEW i \in 1 .. Len(s) PROVE h[i + 1] = s[i]
    <3>1. i + 1 \in 1 .. 1 + Len(s) /\ ~(i + 1 <= 1) /\ (i + 1) - 1 = i
      BY <1>1
    <3> QED BY <2>1, <3>1
  <2> QED BY <2>1, <2>2, <2>3
<1>3. Occurs(h, x)
  BY <1>1, <1>2 DEF Occurs
<1>4. ASSUME NEW y, Occurs(s, y) PROVE Before(h, x, y)
  <2>1. PICK i \in 1 .. Len(s) : s[i] = y
    BY <1>4 DEF Occurs
  <2>2. 1 \in 1 .. Len(h) /\ i + 1 \in 1 .. Len(h) /\ 1 < i + 1 /\ h[i + 1] = y
    BY <1>1, <1>2, <2>1
  <2> QED BY <1>2, <2>2 DEF Before
<1> QED BY <1>3, <1>4

(* Nothing is before the first of a line. *)
LEMMA FirstIsFirst ==
    ASSUME NEW S, NEW s \in Seq(S), IsInjective(s), s # <<>>
    PROVE  \A v : ~Before(s, v, s[1])
<1> SUFFICES ASSUME NEW v, NEW i \in 1 .. Len(s), NEW j \in 1 .. Len(s), i < j, s[j] = s[1]
             PROVE FALSE
  BY DEF Before
<1>1. DOMAIN s = 1 .. Len(s) /\ 1 \in 1 .. Len(s)
  OBVIOUS
<1>2. j = 1
  BY <1>1 DEF IsInjective
<1> QED BY <1>2

\* Commands only join the ends of the queues.
QueuesGrow ==
    \A s \in Sessions : /\ \A v : Occurs(queue[s], v) => Occurs(queue'[s], v)
                        /\ \A v, w : Before(queue[s], v, w) => Before(queue'[s], v, w)

(* One command more at the end of one queue. *)
LEMMA SentGrows ==
    ASSUME AllInPlace, NEW s \in Sessions, NEW x \in Tasks \cup {Shutdown},
           queue' = [queue EXCEPT ![s] = Append(@, x)]
    PROVE  /\ QueuesGrow /\ Occurs(queue'[s], x)
           /\ \A v : Occurs(queue[s], v) => Before(queue'[s], v, x)
<1>1. queue \in [Sessions -> Seq(Tasks \cup {Shutdown})]
  BY LoopTyped
<1>2. queue'[s] = Append(queue[s], x) /\ \A z \in Sessions \ {s} : queue'[z] = queue[z]
  BY <1>1
<1>3. queue[s] \in Seq(Tasks \cup {Shutdown})
  BY <1>1
<1>4. /\ \A y : Occurs(queue'[s], y) <=> Occurs(queue[s], y) \/ y = x
      /\ \A y, z : Before(queue[s], y, z) => Before(queue'[s], y, z)
      /\ \A y : Occurs(queue[s], y) => Before(queue'[s], y, x)
  BY <1>2, <1>3, AppendOccurs
<1> QED BY <1>2, <1>4 DEF QueuesGrow

(* The queues as they are. *)
LEMMA SameGrows == queue' = queue => QueuesGrow
BY DEF QueuesGrow

\* Task t has called a session: it waits in the queue behind all others, or is
\* told at once, before all others that are ready, that the session has ended.
CallMade(t) ==
    LET s == task'[t].on
    IN  IF life[s] = "open"
        THEN /\ task'[t].answer = "none" /\ Occurs(queue'[s], t)
             /\ \A v : Occurs(queue[s], v) => Before(queue'[s], v, t)
        ELSE /\ task'[t].answer = "error" /\ Occurs(loop'.ready, t)
             /\ \A v : v # t /\ Occurs(loop.ready, v) => Before(loop'.ready, t, v)
CallStations == HeldCalls \cup FreeCalls
\* A turn of t that makes it r, and sends its call if it makes one.
Goes(t, r) ==
    /\ Turned(t, r) /\ QueuesGrow
    /\ r.at # "start" /\ (r.at \in CallStations => CallMade(t))

(* A turn that ends its task. *)
LEMMA EndGoes ==
    ASSUME NEW t, OnTurn(t), parked' = parked, Ends(t)
    PROVE  Goes(t, NoTask)
<1>1. queue' = queue
  BY EndMoves
<1> QED BY <1>1, SameGrows, EndTurn DEF Goes, NoTask, CallStations, HeldCalls, FreeCalls

(* A turn that ends its task and shuts a session down. *)
LEMMA ShutGoes ==
    ASSUME NEW t, NEW s \in Sessions \cup {NoSession}, OnTurn(t), parked' = parked,
           EndsShuttingDown(t, s)
    PROVE  Goes(t, NoTask)
<1>1. QueuesGrow
  <2>1. CASE s # NoSession /\ life[s] = "open"
    <3>1. queue' = [queue EXCEPT ![s] = Append(@, Shutdown)] /\ s \in Sessions
      BY <2>1 DEF EndsShuttingDown
    <3> QED BY <3>1, SentGrows DEF OnTurn
  <2>2. CASE ~(s # NoSession /\ life[s] = "open")
    BY <2>2, SameGrows DEF EndsShuttingDown
  <2> QED BY <2>1, <2>2
<1> QED BY <1>1, ShutTurn DEF Goes, NoTask, CallStations, HeldCalls, FreeCalls

(* A turn that makes no call and leaves the queues alone. *)
LEMMA RestGoes ==
    ASSUME NEW t, NEW r, Turned(t, r), queue' = queue, r.at # "start", r.at \notin CallStations
    PROVE  Goes(t, r)
BY SameGrows DEF Goes

(* A turn that wants the gate. *)
LEMMA LockGoes ==
    ASSUME NEW t, NEW at \in GateStations, OnTurn(t), ~AtGate(task[t]), parked' = parked,
           Locks(t, at)
    PROVE  Goes(t, Moved(task[t], at))
<1>1. queue' = queue /\ Turned(t, Moved(task[t], at))
  BY LocksMoves, LockTurn
<1>2. Moved(task[t], at).at = at
  <2>1. task[t] \in TaskType /\ at \in Stations
    BY PolledFacts DEF Stations
  <2> QED BY <2>1, MovedType
<1>3. at # "start" /\ at \notin CallStations
  BY DEF GateStations, CallStations, HeldCalls, FreeCalls
<1> QED BY <1>1, <1>2, <1>3, RestGoes

(* A turn that waits for something outside. *)
LEMMA WaitGoes ==
    ASSUME NEW t, NEW at \in Waits, OnTurn(t), ~AtGate(task[t]), parked' = parked,
           Suspends(At(Polled, t, at))
    PROVE  Goes(t, Moved(task[t], at))
<1>1. queue' = queue /\ Turned(t, Moved(task[t], at))
  BY WaitMoves, WaitTurn
<1>2. Moved(task[t], at).at = at
  <2>1. task[t] \in TaskType /\ at \in Stations
    BY PolledFacts DEF Stations
  <2> QED BY <2>1, MovedType
<1>3. at # "start" /\ at \notin CallStations
  BY DEF Waits, CallStations, HeldCalls, FreeCalls
<1> QED BY <1>1, <1>2, <1>3, RestGoes

(* A call that is made. *)
LEMMA CallIsMade ==
    ASSUME NEW t, OnTurn(t), NEW l \in LoopType, l.ready = Polled.ready,
           NEW s \in Sessions, NEW id \in Ids \cup {NoId}, NEW at \in CallStations,
           NEW x \in TaskType, Turned(t, Called(x, s, id, at)), CallsFrom(l, t, s, id, at)
    PROVE  Goes(t, Called(x, s, id, at))
<1>1. PICK r : r = Called(x, s, id, at)
  OBVIOUS
<1>2. at \in Stations
  BY DEF CallStations, Stations
<1>3. r.at = at /\ r.on = s /\ r.answer = (IF life[s] = "open" THEN "none" ELSE "error")
  BY <1>1, <1>2, CalledType
<1>4. task'[t] = r
  BY <1>1 DEF Turned
<1>5. t \in Tasks /\ AllInPlace /\ at # "start"
  BY PolledFacts DEF OnTurn, CallStations, HeldCalls, FreeCalls
<1>6. CASE life[s] = "open"
  <2>1. queue' = [queue EXCEPT ![s] = Append(@, t)]
    BY <1>6 DEF CallsFrom
  <2>2. /\ QueuesGrow /\ Occurs(queue'[s], t)
        /\ \A v : Occurs(queue[s], v) => Before(queue'[s], v, t)
    BY <1>5, <2>1, SentGrows
  <2>3. CallMade(t)
    BY <1>3, <1>4, <1>6, <2>2 DEF CallMade
  <2> QED BY <1>1, <1>3, <1>5, <2>2, <2>3 DEF Goes
<1>7. CASE life[s] # "open"
  <2>1. PICK c : c = [At(l, t, at) EXCEPT !.task[t].on = s, !.task[t].id = id]
    OBVIOUS
  <2>2. loop' = [Continues(c, t, at) EXCEPT !.task[t].answer = "error"] /\ queue' = queue
    BY <1>7, <2>1 DEF CallsFrom
  <2>3. loop'.ready = Ahead(t, l.ready)
    <3>1. PICK b : b = At(l, t, at)
      OBVIOUS
    <3>2. b \in LoopType /\ b.ready = l.ready
      BY <1>2, <1>5, <3>1, AtSets
    <3>3. c.ready = l.ready
      BY <2>1, <3>1, <3>2 DEF LoopType
    <3>4. c \in LoopType
      <4>1. b.task[t] \in TaskType
        BY <1>5, <3>2, LoopFields
      <4>2. [b.task[t] EXCEPT !.on = s, !.id = id] \in TaskType
        BY <4>1 DEF TaskType
      <4>3. c = [b EXCEPT !.task = [b.task EXCEPT ![t] = [b.task[t] EXCEPT !.on = s, !.id = id]]]
        BY <1>5, <2>1, <3>1, <3>2 DEF LoopType
      <4> QED BY <1>5, <3>2, <4>2, <4>3 DEF LoopType
    <3>5. PICK d : d = Continues(c, t, at)
      OBVIOUS
    <3>6. d \in LoopType /\ d.ready = <<t>> \o c.ready
      <4>1. t \in Tasks /\ at \in Stations
        BY <1>2, <1>5
      <4>2. /\ Continues(c, t, at) \in LoopType
            /\ Continues(c, t, at).ready = <<t>> \o c.ready
        BY <3>4, <4>1, ContinuesSets, Zenon
      <4> QED BY <3>5, <4>2
    <3>7. loop'.ready = d.ready
      BY <2>2, <3>5, <3>6 DEF LoopType
    <3> QED BY <3>3, <3>6, <3>7 DEF Ahead
  <2>4. l.ready \in Seq(Tasks)
    BY LoopFields
  <2>5. Occurs(loop'.ready, t) /\ \A v : Occurs(l.ready, v) => Before(loop'.ready, t, v)
    BY <1>5, <2>3, <2>4, PrependBefore
  <2>6. \A v : v # t /\ Occurs(loop.ready, v) => Before(loop'.ready, t, v)
    BY <2>5, PolledFacts
  <2>7. CallMade(t)
    BY <1>3, <1>4, <1>7, <2>5, <2>6 DEF CallMade
  <2> QED BY <1>1, <1>3, <1>5, <2>2, <2>7, SameGrows DEF Goes
<1> QED BY <1>6, <1>7

(* A turn that calls a session. *)
LEMMA CallGoes ==
    ASSUME NEW t, NEW s \in Sessions, NEW id \in Ids \cup {NoId},
           NEW at \in CallStations, OnTurn(t), at \in HeldCalls <=> AtGate(task[t]),
           parked' = parked, Calls(t, s, id, at)
    PROVE  Goes(t, Called(task[t], s, id, at))
<1>1. Polled \in LoopType /\ task[t] \in TaskType /\ at \in HeldCalls \cup FreeCalls
  BY PolledFacts DEF CallStations
<1>2. CallsFrom(Polled, t, s, id, at)
  BY DEF Calls
<1>3. Turned(t, Called(task[t], s, id, at))
  BY <1>1, CallTurn
<1> QED BY <1>1, <1>2, <1>3, CallIsMade

(* A task notes something of its own and then calls. *)
LEMMA NotedCallGoes ==
    ASSUME NEW t, NEW s \in Sessions, NEW id \in Ids \cup {NoId},
           NEW at \in CallStations, OnTurn(t), at \in HeldCalls <=> AtGate(task[t]),
           parked' = parked, NEW x \in TaskType, x.at = task[t].at, x.on = task[t].on,
           x.answer = task[t].answer, CallsFrom(WithTask(Polled, t, x), t, s, id, at)
    PROVE  Goes(t, Called(x, s, id, at))
<1>1. Polled \in LoopType /\ t \in Tasks /\ at \in HeldCalls \cup FreeCalls
  BY PolledFacts DEF CallStations
<1>2. Turned(t, Called(x, s, id, at))
  BY <1>1, NotedCallTurn
<1>3. PICK l : l = WithTask(Polled, t, x)
  OBVIOUS
<1>4. l \in LoopType /\ l.ready = Polled.ready
  BY <1>1, <1>3, TaskSet DEF WithTask
<1>5. CallsFrom(l, t, s, id, at)
  BY <1>3
<1> QED BY <1>2, <1>4, <1>5, CallIsMade

(* A turn that has sent a chunk and ends, or goes on to finalize. *)
LEMMA DrainGoes ==
    ASSUME NEW t, NEW due, OnTurn(t), AtGate(task[t]), parked' = parked, Drained(t, due)
    PROVE  \E r \in {NoTask, Moved(task[t], "finalize")} : Goes(t, r)
<1>1. Holds(t) /\ task[t] \in TaskType
  BY PolledFacts
<1>2. queue' = queue
  BY <1>1, DrainedMoves
<1>3. PICK r \in {NoTask, Moved(task[t], "finalize")} : Turned(t, r)
  BY DrainTurn
<1>4. "finalize" \in Stations
  BY DEF Stations, GateStations
<1>5. r.at \in {"none", "finalize"}
  BY <1>1, <1>3, <1>4, MovedType DEF NoTask
<1>6. r.at # "start" /\ r.at \notin CallStations
  BY <1>5 DEF CallStations, HeldCalls, FreeCalls
<1> QED BY <1>2, <1>3, <1>6, RestGoes

(* A turn that asks for a permission, with its own ticket or a new one. *)
LEMMA AskGoes ==
    ASSUME NEW t, NEW x \in TaskType, NEW a \in {"none", "granted", "denied"}, queue' = queue,
           Turned(t, WithAnswer(Moved(x, "permission"), a))
    PROVE  Goes(t, WithAnswer(Moved(x, "permission"), a))
<1>1. "permission" \in Stations /\ a \in Answers
  BY DEF Stations, Waits, Answers
<1>2. PICK y \in TaskType : y = Moved(x, "permission") /\ y.at = "permission"
  BY <1>1, MovedType
<1>3. WithAnswer(y, a).at = "permission"
  BY <1>1, <1>2, WithAnswerType
<1> QED BY <1>2, <1>3, RestGoes DEF CallStations, HeldCalls, FreeCalls

-----------------------------------------------------------------------------
(***************************************************************************)
(* Where the calls are: no task that waits is forgotten.                   *)
(***************************************************************************)

\* A task that was posted is in the line.  A task that calls a session waits for a
\* session that is open, in its queue or with its reply kept, until it is answered;
\* then it is in the line.
CallAt(u) ==
    /\ task[u].at = "start" => Occurs(loop.ready, u)
    /\ task[u].at \in CallStations =>
         IF task[u].answer = "none"
         THEN life[task[u].on] = "open" /\ (Occurs(queue[task[u].on], u) \/ u \in parked)
         ELSE Occurs(loop.ready, u)
CallInv == \A u \in Tasks : CallAt(u)

\* A step on the UI thread that moves the tasks of T only.
Moves(T) ==
    /\ AllInPlace' /\ parked' = parked /\ QueuesGrow /\ Orderly(T)
    /\ \A u \in Tasks \ T : Undisturbed(u)
LivesStay == \A s \in Sessions : life[s] = "open" => life'[s] = "open"

(* A turn moves its own task. *)
LEMMA TurnMoves ==
    ASSUME NEW t, OnTurn(t), NEW r, Goes(t, r), parked' = parked
    PROVE  Moves({t}) /\ t \in Tasks /\ task'[t] = r
BY PolledFacts DEF Goes, Turned, Moves

(* A step that moves some tasks forgets none of the others. *)
LEMMA MovesCalls ==
    ASSUME IInv, CallInv, NEW T, Moves(T), LivesStay, \A u \in T : CallAt(u)'
    PROVE  CallInv'
<1> SUFFICES ASSUME NEW u \in Tasks \ T PROVE CallAt(u)'
  BY DEF CallInv
<1>1. CallAt(u) /\ Undisturbed(u)
  BY DEF CallInv, Moves
<1>2. Occurs(loop.ready, u) => Occurs(loop'.ready, u)
  BY DEF Moves, Orderly
<1>3. /\ task'[u].at = task[u].at /\ task'[u].on = task[u].on /\ task'[u].answer = task[u].answer
  BY <1>1 DEF Undisturbed
<1>4. CASE task[u].at \in CallStations /\ task[u].answer = "none"
  <2>1. task[u].on \in Sessions /\ task[u].at # "start"
    BY <1>4, Parts DEF Shaped, CallStations, HeldCalls, FreeCalls
  <2>2. life[task[u].on] = "open" /\ (Occurs(queue[task[u].on], u) \/ u \in parked)
    BY <1>1, <1>4 DEF CallAt
  <2>3. life'[task[u].on] = "open" /\ (Occurs(queue'[task[u].on], u) \/ u \in parked')
    BY <2>1, <2>2 DEF LivesStay, Moves, QueuesGrow
  <2> QED BY <1>3, <1>4, <2>1, <2>3 DEF CallAt
<1>5. CASE ~(task[u].at \in CallStations /\ task[u].answer = "none")
  BY <1>1, <1>2, <1>3, <1>5 DEF CallAt
<1> QED BY <1>4, <1>5

(* A turn forgets no task. *)
LEMMA TurnCalls ==
    ASSUME IInv, CallInv, NEW t, OnTurn(t), NEW r, Goes(t, r), parked' = parked, LivesStay,
           r.at \in CallStations => r.on \in Sessions
    PROVE  CallInv'
<1>1. Moves({t}) /\ t \in Tasks /\ task'[t] = r
  BY TurnMoves
<1>2. CallAt(t)'
  BY <1>1 DEF Goes, CallMade, CallAt, LivesStay
<1> QED BY <1>1, <1>2, MovesCalls

-----------------------------------------------------------------------------
(***************************************************************************)
(* The flow of a request, from the tap that starts it to its end.          *)
(***************************************************************************)

(* Conditions of a timely run: no desktop asks for a decision, and no cancel is
   waited for in a session that another has replaced. *)
Undecided == \A s \in Sessions : event[s].kind # "decision"
InTime == \A u \in Tasks :
    task[u].at = "cancelling" /\ state.session # NoSession => task[u].on = state.session
Timely == Undecided /\ InTime

(* The stations of an upload that is being finished; a tap that is on its way to
   record, and one that may still do it; the upload in hand that is pending; a
   session that answers; a task of a kind that was posted. *)
Sending == {"last", "finishing", "dropping"}
InStart(u) ==
    task[u].kind = "toggle" /\ task[u].at \in {"permission", "record", "begin"} /\ task[u].valid
Live(u) == InStart(u) /\ app.input_pending
InHand(u) == /\ task[u].at \in Sending /\ task[u].id = state.pending_request_id
             /\ state.pending_request_id # NoId
Usable == state.session # NoSession /\ life[state.session] = "open"
PendingIs(id) == state.pending_request_id \in {NoId, id}
Posted(u, kind) == task[u].kind = kind /\ task[u].at = "start"
Requests == {"toggle", "cancel", "answer"}
(* What keeps a tap from starting a recording, or a request from being there. *)
Blocked ==
    \/ ~app.remote_connected \/ app.is_busy \/ app.dialog # Nothing
    \/ state.recorder \/ state.pending_request_id = NoId \/ ~Usable

\* The fields: a recording is the request that is pending, which is of the session.
FlowState ==
    /\ state.pending_decision = NoId
    /\ state.recorder => state.pending_request_id = state.recording_request_id
    /\ ~state.recorder => state.recording_request_id = NoId
    /\ state.pending_request_id # NoId => state.pending_request_id[1] = state.session
    /\ app.dialog # Nothing => /\ app.dialog.kind = "plan" /\ PendingIs(app.dialog.id)
                               /\ ~state.recorder

\* A task and the fields.
FlowTask(u) ==
    /\ task[u].at # "responding"
    /\ InStart(u) => ~state.recorder
    /\ task[u].at \in Sending \cup {"aborting", "cancelling"} => ~state.recorder
    /\ task[u].at \in {"aborting", "cancelling"} => state.pending_request_id = NoId
    /\ task[u].at \in Sending => PendingIs(task[u].id) /\ task[u].id[1] = task[u].on
    /\ task[u].at = "confirming" =>
         /\ task[u].saw = [kind |-> "plan", id |-> task[u].id]
         /\ state.recorder => state.recording_request_id # task[u].id
    /\ Posted(u, "answer") =>
         task[u].saw.kind = "plan" /\ PendingIs(task[u].saw.id) /\ ~state.recorder
    /\ InHand(u) => (app.is_busy \/ ~app.remote_connected) /\ app.dialog = Nothing
    /\ Live(u) => app.dialog = Nothing

\* The cancel of an upload is handled before the begin of the next is heard.
CancelFirst(u, v) ==
    /\ task[v].answer = "ok" => Before(loop.ready, u, v)
    /\ task[v].answer = "none" => task[u].answer # "none" \/ Before(queue[task[v].on], u, v)

\* Two tasks, and which of them comes first.
FlowPair(u, v) ==
    /\ InStart(u) /\ InStart(v) => u = v
    /\ task[u].at = "confirming" /\ task[v].at \in Sending => task[u].id # task[v].id
    /\ ~(Posted(u, "answer") /\ InHand(v))
    /\ Posted(u, "answer") /\ Fresh(v) /\ Live(v) => Before(loop.ready, u, v)
    /\ ~(InHand(u) /\ Live(v))
    /\ task[u].at = "cancelling" /\ Live(v) /\ task[v].at = "begin" /\ task[u].on = task[v].on =>
         CancelFirst(u, v)
    /\ Posted(u, "cancel") /\ Live(v) => state.pending_request_id = NoId \/ ~Usable
    /\ Posted(u, "cancel") /\ Posted(v, "toggle") => Blocked \/ Before(loop.ready, u, v)
    /\ InHand(u) /\ task[u].answer # "none" /\ app.remote_connected /\ Usable
         /\ Posted(v, "toggle") => Before(loop.ready, v, u)

FlowInv == FlowState /\ \A u \in Tasks : FlowTask(u) /\ \A v \in Tasks : FlowPair(u, v)

-----------------------------------------------------------------------------
(***************************************************************************)
(* Calm steps: those that only go on, answer, forget or end.               *)
(***************************************************************************)

(* A task starts nothing, and if it was posted or is cancelling it keeps its place in
   line. *)
CalmTask(u) ==
    /\ InStart(u)' => InStart(u)
    /\ Live(u)' => Live(u)
    /\ Fresh(u)' => Fresh(u)
    /\ task'[u].at = "begin" =>
         /\ task[u].at = "begin" /\ task'[u].on = task[u].on
         /\ task'[u].answer = "none" => task[u].answer = "none"
    /\ task'[u].at = "cancelling" =>
         /\ task[u].at = "cancelling" /\ task'[u].on = task[u].on
         /\ task'[u].answer = "none" => task[u].answer = "none"
    /\ task'[u].at = "confirming" =>
         /\ task[u].at = "confirming" /\ task'[u].id = task[u].id /\ task'[u].saw = task[u].saw
    /\ task'[u].at \in Sending =>
         /\ task[u].at \in Sending /\ task'[u].id = task[u].id /\ task'[u].on = task[u].on
         /\ task'[u].answer # "none" =>
              \/ task[u].answer # "none" \/ ~Usable'
              \/ \A v \in Tasks : Posted(v, "toggle") => Before(loop'.ready, v, u)
    /\ \A k \in Requests : Posted(u, k)' => Posted(u, k) /\ task'[u].saw = task[u].saw
    /\ task'[u].at = "aborting" =>
         task[u].at = "aborting" \/ (state'.pending_request_id = NoId /\ ~state'.recorder)
    /\ task'[u].at = "responding" => task[u].at = "responding"
    /\ \A v \in Tasks :
         /\ (\E k \in Requests : Posted(u, k)') /\ Before(loop.ready, u, v) =>
              Before(loop'.ready, u, v)
         /\ task'[u].at = "cancelling" =>
              /\ Before(loop.ready, u, v) => Before(loop'.ready, u, v)
              /\ \A s \in Sessions : task'[u].answer = "none" /\ Before(queue[s], u, v) =>
                   Before(queue'[s], u, v)

(* The fields forget, or stay as they are. *)
CalmState ==
    /\ state'.recorder =>
         state.recorder /\ state'.recording_request_id = state.recording_request_id
    /\ ~state'.recorder => state'.recording_request_id = NoId
    /\ \/ state'.pending_request_id = NoId /\ ~state'.recorder
       \/ state'.pending_request_id = state.pending_request_id /\ state'.session = state.session
    /\ state'.pending_decision = NoId
(* The window stays blocked, and busy while an upload is in hand; a new dialog waits
   for both. *)
CalmApp ==
    /\ app'.dialog \in {app.dialog, Nothing} \/ \A u \in Tasks : ~InHand(u)' /\ ~Live(u)'
    /\ state'.pending_request_id # NoId =>
         /\ app'.remote_connected => app.remote_connected
         /\ Usable' => Usable
         /\ Blocked /\ (\E v \in Tasks : Posted(v, "toggle")') => Blocked'
         /\ app.is_busy \/ ~app.remote_connected =>
              app'.is_busy \/ ~app'.remote_connected \/ \A u \in Tasks : ~InHand(u)'

(* A calm step of the fields keeps what the fields are. *)
LEMMA CalmStateKeeps ==
    ASSUME FlowState, CalmState, app'.dialog \in {app.dialog, Nothing}
    PROVE  FlowState'
BY DEF FlowState, CalmState, PendingIs

(* A calm step of a task keeps what holds of it. *)
LEMMA CalmTaskKeeps ==
    ASSUME CalmState, CalmApp, NEW u \in Tasks, FlowTask(u), CalmTask(u)
    PROVE  FlowTask(u)'
<1>1. InHand(u)' => InHand(u)
  BY DEF InHand, CalmTask, CalmState
<1>2. Live(u)' => Live(u)
  BY DEF CalmTask
<1>3. /\ task'[u].at # "responding"
      /\ InStart(u)' => ~state'.recorder
      /\ task'[u].at \in Sending \cup {"aborting", "cancelling"} => ~state'.recorder
      /\ task'[u].at \in {"aborting", "cancelling"} => state'.pending_request_id = NoId
  BY DEF FlowTask, CalmTask, CalmState
<1>4. /\ task'[u].at \in Sending => PendingIs(task[u].id)' /\ task'[u].id[1] = task'[u].on
      /\ Posted(u, "answer")' =>
           task'[u].saw.kind = "plan" /\ PendingIs(task[u].saw.id)' /\ ~state'.recorder
  BY DEF FlowTask, CalmTask, CalmState, PendingIs, Requests
<1>5. task'[u].at = "confirming" =>
        /\ task'[u].saw = [kind |-> "plan", id |-> task'[u].id]
        /\ state'.recorder => state'.recording_request_id # task'[u].id
  BY DEF FlowTask, CalmTask, CalmState
<1>6. InHand(u)' => (app'.is_busy \/ ~app'.remote_connected) /\ app'.dialog = Nothing
  BY <1>1 DEF FlowTask, CalmApp, InHand
<1>7. Live(u)' => app'.dialog = Nothing
  BY <1>2 DEF FlowTask, CalmApp
<1> QED BY <1>3, <1>4, <1>5, <1>6, <1>7 DEF FlowTask

(* A calm step of two tasks keeps what holds of them. *)
LEMMA CalmPairKeeps ==
    ASSUME IInv, CallInv, CalmState, CalmApp, NEW u \in Tasks, NEW v \in Tasks,
           FlowPair(u, v), CalmTask(u), CalmTask(v)
    PROVE  FlowPair(u, v)'
<1>1. (InHand(u)' => InHand(u)) /\ (InHand(v)' => InHand(v))
  BY DEF InHand, CalmTask, CalmState
<1>2. Live(v)' => Live(v)
  BY DEF CalmTask
<1>3. \A k \in Requests : (Posted(u, k)' => Posted(u, k)) /\ (Posted(v, k)' => Posted(v, k))
  BY DEF CalmTask
<1>4. \A k \in Requests :
        /\ Posted(u, k)' /\ Before(loop.ready, u, v) => Before(loop'.ready, u, v)
        /\ Posted(v, k)' /\ Before(loop.ready, v, u) => Before(loop'.ready, v, u)
  BY DEF CalmTask
<1>14. "toggle" \in Requests /\ "cancel" \in Requests /\ "answer" \in Requests
  BY DEF Requests
<1>5. InStart(u)' /\ InStart(v)' => u = v
  BY DEF FlowPair, CalmTask
<1>6. task'[u].at = "confirming" /\ task'[v].at \in Sending => task'[u].id # task'[v].id
  BY DEF FlowPair, CalmTask
<1>7. ~(Posted(u, "answer")' /\ InHand(v)') /\ ~(InHand(u)' /\ Live(v)')
  BY <1>1, <1>2, <1>3, <1>14 DEF FlowPair
<1>8. Posted(u, "answer")' /\ Fresh(v)' /\ Live(v)' => Before(loop'.ready, u, v)
  BY <1>2, <1>3, <1>4, <1>14 DEF FlowPair, CalmTask
<1>9. ASSUME task'[u].at = "cancelling", Live(v)', task'[v].at = "begin", task'[u].on = task'[v].on
      PROVE  CancelFirst(u, v)'
  <2>1. /\ task[u].at = "cancelling" /\ Live(v) /\ task[v].at = "begin"
        /\ task'[u].on = task[u].on /\ task'[v].on = task[v].on /\ task[u].on = task[v].on
    BY <1>2, <1>9 DEF CalmTask
  <2>2. CancelFirst(u, v)
    BY <2>1 DEF FlowPair
  <2>3. task'[v].answer = "ok" => Before(loop'.ready, u, v)
    BY <1>9, <2>1, <2>2 DEF CancelFirst, CalmTask, Fresh
  <2>4. ASSUME task'[v].answer = "none", task'[u].answer = "none"
        PROVE  Before(queue'[task'[v].on], u, v)
    <3>1. task[v].answer = "none" /\ task[u].answer = "none"
      BY <1>9, <2>4 DEF CalmTask
    <3>2. Before(queue[task[v].on], u, v)
      BY <2>2, <3>1 DEF CancelFirst
    <3>3. task[v].on \in Sessions
      BY <2>1, Parts DEF Shaped, HeldCalls
    <3> QED BY <1>9, <2>1, <2>4, <3>2, <3>3 DEF CalmTask
  <2> QED BY <2>3, <2>4 DEF CancelFirst
<1>10. Posted(u, "cancel")' /\ Live(v)' => state'.pending_request_id = NoId \/ ~Usable'
  BY <1>2, <1>3, <1>14 DEF FlowPair, CalmState, CalmApp
<1>11. Posted(u, "cancel")' /\ Posted(v, "toggle")' => Blocked' \/ Before(loop'.ready, u, v)
  <2>1. state'.pending_request_id = NoId => Blocked'
    BY DEF Blocked
  <2> QED BY <1>3, <1>4, <1>14, <2>1 DEF FlowPair, CalmApp
<1>12. ASSUME InHand(u)', task'[u].answer # "none", app'.remote_connected, Usable',
              Posted(v, "toggle")'
       PROVE  Before(loop'.ready, v, u)
  <2>1. InHand(u) /\ Posted(v, "toggle") /\ state'.pending_request_id # NoId
        /\ task'[u].at \in Sending
    BY <1>1, <1>3, <1>12, <1>14 DEF InHand
  <2>2. app.remote_connected /\ Usable
    BY <1>12, <2>1 DEF CalmApp
  <2>3. task[u].answer # "none" => Before(loop.ready, v, u)
    BY <2>1, <2>2, <1>12 DEF FlowPair
  <2>4. task[u].answer # "none" \/ Before(loop'.ready, v, u)
    BY <1>12, <2>1 DEF CalmTask
  <2> QED BY <1>4, <1>12, <1>14, <2>3, <2>4
<1> QED BY <1>5, <1>6, <1>7, <1>8, <1>9, <1>10, <1>11, <1>12 DEF FlowPair

(* A step that is calm but for task t, of which the flow holds after it. *)
LEMMA MoverKeeps ==
    ASSUME IInv, CallInv, FlowInv, CalmState, CalmApp, FlowState', NEW t,
           \A u \in Tasks \ {t} : CalmTask(u), t \in Tasks => FlowTask(t)',
           t \in Tasks => \A v \in Tasks : FlowPair(t, v)' /\ FlowPair(v, t)'
    PROVE  FlowInv'
<1>1. \A u \in Tasks : FlowTask(u)'
  BY CalmTaskKeeps DEF FlowInv
<1>2. \A u, v \in Tasks : FlowPair(u, v)'
  BY CalmPairKeeps DEF FlowInv
<1> QED BY <1>1, <1>2 DEF FlowInv

(* A calm step keeps the flow. *)
LEMMA CalmKeeps ==
    ASSUME IInv, CallInv, FlowInv, CalmState, CalmApp, FlowState', \A u \in Tasks : CalmTask(u)
    PROVE  FlowInv'
BY CalmTaskKeeps, CalmPairKeeps DEF FlowInv

-----------------------------------------------------------------------------
(***************************************************************************)
(* The ways in which a turn keeps the flow.                                *)
(***************************************************************************)

\* A turn of task t in a flow that is in order, and a step that keeps it so.
Flows(t) == IInv /\ CallInv /\ FlowInv /\ OnTurn(t)
FlowKept == CallInv' /\ FlowInv'

(* What is known of the flow. *)
LEMMA FlowParts ==
    ASSUME FlowInv
    PROVE  /\ FlowState
           /\ \A u \in Tasks : FlowTask(u)
           /\ \A u, v \in Tasks : FlowPair(u, v)
BY DEF FlowInv

(* The task whose turn it is has been answered, and nobody is before it. *)
LEMMA FirstAnswered ==
    ASSUME NEW t, Flows(t)
    PROVE  /\ t \in Tasks /\ task[t] \in TaskType
           /\ \A v : ~Before(loop.ready, v, t)
           /\ task[t].at \in CallStations => task[t].answer # "none"
<1>1. t \in Tasks /\ task[t] \in TaskType
  BY PolledFacts DEF Flows
<1>2. loop.ready \in Seq(Tasks) /\ IsInjective(loop.ready) /\ loop.ready # <<>>
      /\ t = loop.ready[1]
  BY LoopTyped, HeadOccurs DEF Flows, OnTurn
<1>3. \A v : ~Before(loop.ready, v, t)
  BY <1>2, FirstIsFirst
<1>4. ASSUME task[t].at \in CallStations, task[t].answer = "none" PROVE FALSE
  <2>1. task[t].on \in Sessions
    BY <1>1, <1>4, Parts DEF Shaped, CallStations, HeldCalls, FreeCalls, Flows
  <2>2. Occurs(queue[task[t].on], t) \/ t \in parked
    BY <1>1, <1>4 DEF Flows, CallInv, CallAt
  <2>3. Occurs(loop.ready, t) /\ Placed(loop, queue, parked, {}, t)
    BY <1>1, <1>2, HeadOccurs DEF Flows, OnTurn, AllInPlace, InPlace
  <2> QED BY <2>1, <2>2, <2>3 DEF Placed
<1> QED BY <1>1, <1>3, <1>4

(* A call in a session's queue has no answer; one that is answered is in the line. *)
LEMMA CallsWait ==
    ASSUME IInv, CallInv, NEW u \in Tasks, task[u].at \in CallStations
    PROVE  /\ \A s \in Sessions : Occurs(queue[s], u) => task[u].answer = "none"
           /\ u \in parked => task[u].answer = "none" /\ task[u].at \in {"finishing", "confirming"}
           /\ task[u].answer # "none" => Occurs(loop.ready, u)
           /\ task[u].answer = "none" /\ u \notin parked =>
                life[task[u].on] = "open" /\ Occurs(queue[task[u].on], u)
<1>1. Placed(loop, queue, parked, {}, u) /\ CallAt(u)
  BY DEF IInv, AllInPlace, InPlace, CallInv
<1> QED BY <1>1 DEF Placed, CallAt, task

(* A task that is not disturbed is calm, unless its ticket is wanted again. *)
LEMMA UndisturbedCalm ==
    ASSUME NEW T, NEW u \in Tasks \ T, Undisturbed(u), Orderly(T), QueuesGrow,
           InStart(u)' /\ app'.input_pending => app.input_pending
    PROVE  CalmTask(u)
<1>1. InStart(u)' => InStart(u)
  BY DEF InStart, Undisturbed
<1>2. Live(u)' => Live(u)
  BY <1>1 DEF Live
<1>3. /\ Fresh(u)' => Fresh(u)
      /\ \A k : Posted(u, k)' => Posted(u, k)
      /\ task'[u].at = task[u].at /\ task'[u].on = task[u].on /\ task'[u].id = task[u].id
      /\ task'[u].saw = task[u].saw /\ task'[u].answer = task[u].answer
  BY DEF Fresh, Posted, Undisturbed
<1>4. \A v \in Tasks : /\ Before(loop.ready, u, v) => Before(loop'.ready, u, v)
                       /\ \A s \in Sessions : Before(queue[s], u, v) => Before(queue'[s], u, v)
  BY DEF Orderly, QueuesGrow
<1> QED BY <1>1, <1>2, <1>3, <1>4 DEF CalmTask

(* In a turn the other tasks are calm. *)
LEMMA OthersCalm ==
    ASSUME NEW t, NEW r, Goes(t, r),
           \A u \in Tasks \ {t} : InStart(u)' /\ app'.input_pending => app.input_pending
    PROVE  \A u \in Tasks \ {t} : CalmTask(u)
BY UndisturbedCalm DEF Goes, Turned

\* Stations at which nothing is asked of the flow.
Idling == {"start", "begin", "cancelling", "confirming", "responding", "aborting"} \cup Sending

(* A task that goes to none of the stations that matter, or ends, is calm. *)
LEMMA IdlesCalm ==
    ASSUME NEW t, task'[t].at \notin Idling,
           InStart(t)' => InStart(t), app'.input_pending => app.input_pending
    PROVE  CalmTask(t)
<1>1. Live(t)' => Live(t)
  BY DEF Live
<1>2. ~Fresh(t)' /\ \A k : ~Posted(t, k)'
  BY DEF Fresh, Posted, Idling
<1> QED BY <1>1, <1>2 DEF CalmTask, Idling

(* A task that is over is calm. *)
LEMMA OverCalm ==
    ASSUME NEW t, task'[t] = NoTask
    PROVE  CalmTask(t)
<1>1. task'[t].at = "none" /\ task'[t].kind = "none"
  BY DEF NoTask
<1>2. ~InStart(t)' /\ ~Live(t)' /\ ~Fresh(t)' /\ \A k : ~Posted(t, k)'
  BY <1>1 DEF InStart, Live, Fresh, Posted
<1> QED BY <1>1, <1>2 DEF CalmTask, Sending

(* A turn in which all is calm. *)
LEMMA CalmTurn ==
    ASSUME NEW t, Flows(t), NEW r, Goes(t, r), parked' = parked, LivesStay,
           r.at \in CallStations => r.on \in Sessions,
           app'.input_pending => app.input_pending, CalmState, CalmApp, FlowState', CalmTask(t)
    PROVE  FlowKept
<1>1. CallInv'
  BY TurnCalls DEF Flows
<1>2. \A u \in Tasks : CalmTask(u)
  BY OthersCalm
<1> QED BY <1>1, <1>2, CalmKeeps DEF Flows, FlowKept

(* A turn that ends its task, calm else. *)
LEMMA CalmEnd ==
    ASSUME NEW t, Flows(t), Goes(t, NoTask), parked' = parked, LivesStay,
           app'.input_pending => app.input_pending, CalmState, CalmApp, FlowState'
    PROVE  FlowKept
<1>1. task'[t] = NoTask
  BY DEF Goes, Turned
<1>2. NoTask.at \notin CallStations
  BY DEF NoTask, CallStations, HeldCalls, FreeCalls
<1> QED BY <1>1, <1>2, OverCalm, CalmTurn

(* A turn of a task about which there is more to say. *)
LEMMA MoverTurn ==
    ASSUME NEW t, Flows(t), NEW r, Goes(t, r), parked' = parked, LivesStay,
           r.at \in CallStations => r.on \in Sessions,
           \A u \in Tasks \ {t} : InStart(u)' /\ app'.input_pending => app.input_pending,
           CalmState, CalmApp, FlowState',
           FlowTask(t)', \A v \in Tasks : FlowPair(t, v)' /\ FlowPair(v, t)'
    PROVE  FlowKept
<1>1. CallInv'
  BY TurnCalls DEF Flows
<1>2. \A u \in Tasks \ {t} : CalmTask(u)
  BY OthersCalm
<1> QED BY <1>1, <1>2, MoverKeeps DEF Flows, FlowKept

-----------------------------------------------------------------------------
(* The fields and the window of a calm step.                               *)

(* The fields forget. *)
LEMMA StatesCalm ==
    ASSUME IInv, FlowState,
           \/ state' = state
           \/ state' = [state EXCEPT !.pending_decision = NoId]
           \/ state' = [state EXCEPT !.recorder = FALSE, !.recording_request_id = NoId]
           \/ state' = Aborted
           \/ state' = ClearedRequest(state)
           \/ ~state.recorder /\ state' = [state EXCEPT !.pending_request_id = NoId]
    PROVE  CalmState
<1>1. state \in StateType
  BY Parts
<1>2. CASE state' = state
  BY <1>2 DEF CalmState, FlowState
<1>3. CASE state' = [state EXCEPT !.pending_decision = NoId]
  BY <1>1, <1>3 DEF CalmState, FlowState, StateType
<1>4. CASE state' = [state EXCEPT !.recorder = FALSE, !.recording_request_id = NoId]
  BY <1>1, <1>4 DEF CalmState, FlowState, StateType
<1>5. CASE state' = Aborted
  BY <1>1, <1>5 DEF CalmState, FlowState, StateType, Aborted
<1>6. CASE state' = ClearedRequest(state)
  BY <1>1, <1>6 DEF CalmState, FlowState, StateType, ClearedRequest
<1>7. CASE ~state.recorder /\ state' = [state EXCEPT !.pending_request_id = NoId]
  BY <1>1, <1>7 DEF CalmState, FlowState, StateType
<1> QED BY <1>2, <1>3, <1>4, <1>5, <1>6, <1>7

(* Nothing waits for the window when no request is pending. *)
LEMMA ClearedApp ==
    ASSUME state'.pending_request_id = NoId, app'.dialog \in {app.dialog, Nothing}
    PROVE  CalmApp
BY DEF CalmApp

(* The flags that block a tap are as they were. *)
LEMMA SameCalmApp ==
    ASSUME app'.remote_connected = app.remote_connected, app'.is_busy = app.is_busy,
           app'.dialog = app.dialog, Usable' => Usable, CalmState,
           state'.recorder = state.recorder \/ state'.pending_request_id = NoId
    PROVE  CalmApp
BY DEF CalmApp, Blocked, CalmState

(* The window is busy. *)
LEMMA BusyCalmApp ==
    ASSUME app'.remote_connected = app.remote_connected, app'.is_busy = TRUE,
           app'.dialog \in {app.dialog, Nothing}, Usable' => Usable
    PROVE  CalmApp
BY DEF CalmApp, Blocked

(* A session of which the application has seen the end is not usable later. *)
LEMMA UsableStays ==
    ASSUME life' = life, CalmState, state'.pending_request_id # NoId
    PROVE  Usable' => Usable
BY DEF CalmState, Usable

(* The turn that ends an upload in hand: no tap that comes later is posted. *)
LEMMA HandOver ==
    ASSUME NEW t, Flows(t), task[t].at \in Sending, Goes(t, NoTask), CalmState, life' = life,
           app'.remote_connected = app.remote_connected, app'.input_pending => app.input_pending,
           app'.dialog \in {app.dialog, Nothing} \/ InHand(t)
    PROVE  CalmApp
<1>1. CASE state'.pending_request_id = NoId /\ app'.dialog \in {app.dialog, Nothing}
  BY <1>1, ClearedApp
<1>2. t \in Tasks /\ (\A v : ~Before(loop.ready, v, t)) /\ task[t].answer # "none"
  BY FirstAnswered DEF Sending, CallStations, HeldCalls
<1>3. task'[t] = NoTask /\ \A u \in Tasks \ {t} : Undisturbed(u)
  BY DEF Goes, Turned
<1>4. /\ \A u \in Tasks : FlowTask(u)
      /\ \A u, v \in Tasks : FlowPair(u, v)
  BY FlowParts DEF Flows
<1>5. \A u \in Tasks : task'[u].at \notin Sending
  <2> SUFFICES ASSUME NEW u \in Tasks, task'[u].at \in Sending PROVE FALSE
    OBVIOUS
  <2>1. u # t /\ task[u].at \in Sending
    BY <1>3 DEF NoTask, Sending, Undisturbed
  <2>2. task[u].at \in HeldCalls /\ task[t].at \in HeldCalls
    BY <2>1 DEF Sending, HeldCalls
  <2> QED BY <1>2, <2>1, <2>2, OneHolds, Parts DEF Flows
<1>6. \A u \in Tasks : ~InHand(u)'
  BY <1>5 DEF InHand
<1>7. CASE InHand(t)
  <2>1. \A u \in Tasks : ~Live(u)'
    <3> SUFFICES ASSUME NEW u \in Tasks, Live(u)' PROVE FALSE
      OBVIOUS
    <3>1. u # t
      BY <1>3 DEF Live, InStart, NoTask
    <3>2. Live(u)
      BY <1>3, <3>1 DEF Live, InStart, Undisturbed
    <3> QED BY <1>2, <1>4, <1>7, <3>2 DEF FlowPair
  <2>2. ASSUME state'.pending_request_id # NoId, Blocked, NEW v \in Tasks, Posted(v, "toggle")'
        PROVE  Blocked'
    <3>1. v # t /\ Posted(v, "toggle")
      BY <1>3, <2>2 DEF Posted, NoTask, Undisturbed
    <3>2. ~app.remote_connected \/ ~Usable
      BY <1>2, <1>4, <1>7, <3>1 DEF FlowPair
    <3> QED BY <2>2, <3>2, UsableStays DEF Blocked
  <2> QED BY <1>6, <2>1, <2>2, UsableStays DEF CalmApp
<1>8. CASE ~InHand(t) /\ app'.dialog \in {app.dialog, Nothing}
  <2>1. state.pending_request_id = NoId
    BY <1>2, <1>4, <1>8 DEF FlowTask, InHand, PendingIs
  <2>2. state'.pending_request_id = NoId
    BY <2>1 DEF CalmState
  <2> QED BY <1>8, <2>2, ClearedApp
<1> QED BY <1>7, <1>8

(* What is known in an action of a task. *)
LEMMA FlowTaken ==
    ASSUME NEW t, NEW kinds, NEW at, Flows(t), Resumes(t, kinds, at)
    PROVE  /\ task[t].kind \in kinds /\ task[t].at = at /\ t \in Tasks
           /\ task[t] \in TaskType /\ Shaped(task[t]) /\ FlowState /\ FlowTask(t)
           /\ state \in StateType /\ app \in AppType
BY FirstAnswered, FlowParts, Parts DEF Resumes, Flows

(* What the ways of resetting the window leave of its flags. *)
LEMMA AppFields ==
    ASSUME NEW a \in AppType
    PROVE  /\ Idle(a).dialog = a.dialog /\ Idle(a).input_pending = a.input_pending
           /\ Idle(a).voice_recording = a.voice_recording /\ Idle(a).is_busy = FALSE
           /\ Idle(a).remote_connected = a.remote_connected
           /\ ResetAndIdle(a).dialog = Nothing /\ ResetAndIdle(a).input_pending = FALSE
           /\ ResetAndIdle(a).voice_recording = FALSE /\ ResetAndIdle(a).is_busy = FALSE
           /\ ResetAndIdle(a).remote_connected = a.remote_connected
<1>1. ASSUME NEW b \in AppType
      PROVE  /\ Idle(b).dialog = b.dialog /\ Idle(b).input_pending = b.input_pending
             /\ Idle(b).voice_recording = b.voice_recording /\ Idle(b).is_busy = FALSE
             /\ Idle(b).remote_connected = b.remote_connected
  BY DEF Idle, AppType
<1>2. PICK b \in AppType : b = ResetRequestUi(a)
  BY AppKept
<1>3. /\ b.dialog = Nothing /\ b.input_pending = FALSE /\ b.voice_recording = FALSE
      /\ b.remote_connected = a.remote_connected
  BY <1>2 DEF ResetRequestUi, AppType
<1> QED BY <1>1, <1>2, <1>3 DEF ResetAndIdle

(* Withdrawing the pending flag leaves the rest. *)
LEMMA NotPendingFields ==
    ASSUME app \in AppType, NEW t, task[t].valid \in BOOLEAN
    PROVE  /\ NotPending(t) \in AppType
           /\ NotPending(t).dialog = app.dialog /\ NotPending(t).is_busy = app.is_busy
           /\ NotPending(t).remote_connected = app.remote_connected
           /\ NotPending(t).voice_recording = app.voice_recording
           /\ NotPending(t).input_pending => app.input_pending /\ ~task[t].valid
BY DEF NotPending, AppType

(* The fields and the flags that block a tap are as they were. *)
LEMMA SameCalm ==
    ASSUME IInv, FlowState, state' = state, life' = life,
           app'.remote_connected = app.remote_connected, app'.is_busy = app.is_busy,
           app'.dialog = app.dialog
    PROVE  CalmState /\ CalmApp /\ FlowState'
<1>1. CalmState
  BY StatesCalm
<1>2. Usable' => Usable
  BY DEF Usable
<1> QED BY <1>1, <1>2, SameCalmApp, CalmStateKeeps

(* A turn that ends its task, ... *)
LEMMA EndKeeps ==
    ASSUME NEW t, Flows(t), parked' = parked, life' = life, Ends(t),
           app'.input_pending => app.input_pending, CalmState, CalmApp, FlowState'
    PROVE  FlowKept
<1>1. Goes(t, NoTask)
  BY EndGoes DEF Flows
<1> QED BY <1>1, CalmEnd DEF LivesStay

(* ... that wants the gate, ... *)
LEMMA LockKeeps ==
    ASSUME NEW t, NEW at \in GateStations, Flows(t), parked' = parked, life' = life,
           Locks(t, at), ~AtGate(task[t]), at = "record" => task[t].at = "permission",
           app'.input_pending => app.input_pending, CalmState, CalmApp, FlowState'
    PROVE  FlowKept
<1>1. Goes(t, Moved(task[t], at))
  BY LockGoes DEF Flows
<1>2. PICK r : r = Moved(task[t], at)
  OBVIOUS
<1>3. task[t] \in TaskType /\ at \in Stations
  BY FirstAnswered DEF Stations
<1>4. r.at = at /\ r.kind = task[t].kind /\ r.valid = task[t].valid
  BY <1>2, <1>3, MovedType
<1>5. task'[t] = r
  BY <1>1, <1>2 DEF Goes, Turned
<1>6. at \notin Idling /\ at \notin CallStations /\ at \notin {"permission", "begin"}
  BY DEF GateStations, Idling, Sending, CallStations, HeldCalls, FreeCalls
<1>7. InStart(t)' => InStart(t)
  BY <1>4, <1>5, <1>6 DEF InStart
<1>8. CalmTask(t)
  BY <1>4, <1>5, <1>6, <1>7, IdlesCalm
<1> QED BY <1>1, <1>2, <1>4, <1>6, <1>8, CalmTurn DEF LivesStay

(* ... and that waits for the outside. *)
LEMMA WaitKeeps ==
    ASSUME NEW t, NEW at \in Waits \ {"permission"}, Flows(t), parked' = parked, life' = life,
           Suspends(At(Polled, t, at)), ~AtGate(task[t]),
           app'.input_pending => app.input_pending, CalmState, CalmApp, FlowState'
    PROVE  FlowKept
<1>1. Goes(t, Moved(task[t], at))
  BY WaitGoes DEF Flows
<1>2. PICK r : r = Moved(task[t], at)
  OBVIOUS
<1>3. task[t] \in TaskType /\ at \in Stations
  BY FirstAnswered DEF Stations
<1>4. r.at = at
  BY <1>2, <1>3, MovedType
<1>5. task'[t] = r
  BY <1>1, <1>2 DEF Goes, Turned
<1>6. at \notin Idling /\ at \notin CallStations /\ at \notin {"permission", "record", "begin"}
  BY DEF Waits, Idling, Sending, CallStations, HeldCalls, FreeCalls
<1>7. ~InStart(t)'
  BY <1>4, <1>5, <1>6 DEF InStart
<1>8. CalmTask(t)
  BY <1>4, <1>5, <1>6, <1>7, IdlesCalm
<1> QED BY <1>1, <1>2, <1>4, <1>6, <1>8, CalmTurn DEF LivesStay

-----------------------------------------------------------------------------

(* A tap on the microphone. *)
LEMMA FlowToggleStarts ==
    ASSUME NEW t, Flows(t), Aside, ToggleStarts(t)
    PROVE  FlowKept
<1>1. /\ task[t].kind = "toggle" /\ task[t].at = "start" /\ t \in Tasks /\ task[t] \in TaskType
      /\ FlowState /\ FlowTask(t) /\ app \in AppType /\ ~AtGate(task[t])
  BY FlowTaken DEF ToggleStarts, AtGate, GateStations, HeldCalls
<1>2. IInv /\ parked' = parked /\ life' = life /\ state' = state
  BY DEF Flows, Aside, ToggleStarts
<1>3. CASE UNCHANGED app /\ (Ends(t) \/ Locks(t, "finalize"))
  <2>1. CalmState /\ CalmApp /\ FlowState'
    BY <1>1, <1>2, <1>3, SameCalm
  <2>2. "finalize" \in GateStations /\ "finalize" # "record"
    BY DEF GateStations
  <2> QED BY <1>1, <1>2, <1>3, <2>1, <2>2, EndKeeps, LockKeeps
<1>4. CASE /\ app.remote_connected /\ MayToggle /\ ~state.recorder
           /\ app' = [app EXCEPT !.input_pending = TRUE]
           /\ EnsuresPermission([Advanced(Polled) EXCEPT !.task[t].valid = TRUE], t)
  <2>1. /\ app'.remote_connected = app.remote_connected /\ app'.is_busy = app.is_busy
        /\ app'.dialog = app.dialog /\ ~app.is_busy /\ ~app.input_pending /\ app.dialog = Nothing
    BY <1>1, <1>4 DEF AppType, MayToggle
  <2>2. CalmState /\ CalmApp /\ FlowState'
    BY <1>1, <1>2, <2>1, SameCalm
  <2>3. PICK a \in {"none", "granted", "denied"} :
          /\ Turned(t, WithAnswer(Moved(Ticketed(task[t]), "permission"), a))
          /\ \A u \in Tasks \ {t} : task'[u].kind = "toggle" => ~task'[u].valid
    BY <1>1, <1>2, <1>4, TicketTurn DEF Flows
  <2>4. PICK x \in TaskType : x = Ticketed(task[t])
    BY <1>1, TicketedType
  <2>5. PICK r : r = WithAnswer(Moved(x, "permission"), a)
    OBVIOUS
  <2>6. queue' = queue
    BY <1>4 DEF EnsuresPermission, Suspends
  <2>7. Goes(t, r)
    BY <2>3, <2>4, <2>5, <2>6, AskGoes
  <2>8. r.at = "permission"
    <3>1. "permission" \in Stations /\ a \in Answers
      BY DEF Stations, Waits, Answers
    <3>2. Moved(x, "permission") \in TaskType /\ Moved(x, "permission").at = "permission"
      BY <3>1, MovedType
    <3> QED BY <2>5, <3>1, <3>2, WithAnswerType
  <2>9. task'[t] = r /\ \A u \in Tasks \ {t} : Undisturbed(u)
    BY <2>7 DEF Goes, Turned
  <2>10. \A u \in Tasks \ {t} : ~InStart(u)'
    BY <2>3 DEF InStart
  <2>11. FlowTask(t)'
    BY <1>1, <1>2, <1>4, <2>1, <2>8, <2>9 DEF FlowTask, Sending, Posted, InHand, Live
  <2>12. ASSUME NEW v \in Tasks PROVE FlowPair(t, v)'
    BY <2>8, <2>9, <2>10 DEF FlowPair, Posted, InHand, Sending
  <2>13. ASSUME NEW v \in Tasks PROVE FlowPair(v, t)'
    <3>1. CASE v = t
      BY <2>12, <3>1
    <3>2. CASE v # t
      <4>1. ~InStart(v)' /\ ~Live(v)' /\ Undisturbed(v)
        BY <2>9, <2>10, <3>2 DEF Live
      <4>2. ~(InHand(v) /\ ~app.is_busy /\ app.remote_connected)
        BY FlowParts DEF Flows, FlowTask
      <4>3. ~InHand(v)'
        BY <1>2, <1>4, <2>1, <4>1, <4>2 DEF InHand, Undisturbed
      <4>4. Posted(v, "cancel")' => state'.pending_request_id = NoId \/ ~Usable'
        <5>1. Posted(v, "cancel")' => Posted(v, "cancel")
          BY <4>1 DEF Posted, Undisturbed
        <5>2. Posted(t, "toggle") /\ ~Before(loop.ready, v, t)
          BY <1>1, FirstAnswered DEF Posted
        <5>3. Posted(v, "cancel") => Blocked
          BY <1>1, <5>2, FlowParts DEF Flows, FlowPair
        <5> QED BY <1>2, <1>4, <2>1, <5>1, <5>3 DEF Blocked, Usable
      <4> QED BY <2>8, <2>9, <4>1, <4>3, <4>4 DEF FlowPair, Posted, Fresh, Sending, InHand
    <3> QED BY <3>1, <3>2
  <2>14. r.at \notin CallStations
    BY <2>8 DEF CallStations, HeldCalls, FreeCalls
  <2> QED BY <1>2, <2>2, <2>7, <2>10, <2>11, <2>12, <2>13, <2>14, MoverTurn DEF LivesStay
<1> QED BY <1>3, <1>4 DEF ToggleStarts

(* The permission for the microphone was answered. *)
LEMMA FlowToggleResumes ==
    ASSUME NEW t, Flows(t), Aside, ToggleResumes(t)
    PROVE  FlowKept
<1>1. /\ task[t].kind = "toggle" /\ task[t].at = "permission" /\ t \in Tasks
      /\ FlowState /\ app \in AppType /\ ~AtGate(task[t])
  BY FlowTaken DEF ToggleResumes, AtGate, GateStations, HeldCalls
<1>2. IInv /\ parked' = parked /\ life' = life /\ state' = state
  BY DEF Flows, Aside, ToggleResumes
<1>3. /\ app'.remote_connected = app.remote_connected /\ app'.is_busy = app.is_busy
      /\ app'.dialog = app.dialog /\ (app'.input_pending => app.input_pending)
  BY <1>1 DEF ToggleResumes, AppType
<1>4. CalmState /\ CalmApp /\ FlowState'
  BY <1>1, <1>2, <1>3, SameCalm
<1>5. "record" \in GateStations
  BY DEF GateStations
<1>6. Ends(t) \/ Locks(t, "record")
  BY DEF ToggleResumes
<1> QED BY <1>1, <1>2, <1>3, <1>4, <1>5, <1>6, EndKeeps, LockKeeps

(* An upload that came too late was cancelled. *)
LEMMA FlowRecordingUndone ==
    ASSUME NEW t, Flows(t), Aside, RecordingUndone(t)
    PROVE  FlowKept
<1>1. FlowState /\ app \in AppType /\ task[t] \in TaskType
  BY FlowTaken DEF RecordingUndone
<1>2. IInv /\ parked' = parked /\ life' = life /\ state' = state /\ Ends(t)
      /\ app' = NotPending(t)
  BY DEF Flows, Aside, RecordingUndone
<1>3. /\ app'.remote_connected = app.remote_connected /\ app'.is_busy = app.is_busy
      /\ app'.dialog = app.dialog /\ (app'.input_pending => app.input_pending)
  BY <1>1, <1>2, TaskFields, NotPendingFields
<1> QED BY <1>1, <1>2, <1>3, SameCalm, EndKeeps

(* A recording starts under the gate: a cancel of the same session was sent first. *)
LEMMA FlowStartRecording ==
    ASSUME NEW t, Flows(t), Aside, StartRecording(t)
    PROVE  FlowKept
<1>1. /\ task[t].kind = "toggle" /\ task[t].at = "record" /\ t \in Tasks /\ task[t] \in TaskType
      /\ FlowState /\ FlowTask(t) /\ app \in AppType /\ state \in StateType /\ AtGate(task[t])
  BY FlowTaken DEF StartRecording, AtGate, GateStations
<1>2. IInv /\ parked' = parked /\ life' = life /\ state' = state
  BY DEF Flows, Aside, StartRecording
<1>3. CASE Ends(t) /\ app' = NotPending(t)
  <2>1. /\ app'.remote_connected = app.remote_connected /\ app'.is_busy = app.is_busy
        /\ app'.dialog = app.dialog /\ (app'.input_pending => app.input_pending)
    BY <1>1, <1>3, TaskFields, NotPendingFields
  <2> QED BY <1>1, <1>2, <1>3, <2>1, SameCalm, EndKeeps
<1>4. CASE state.session # NoSession /\ Calls(t, state.session, NoId, "begin") /\ UNCHANGED app
  <2>1. CalmState /\ CalmApp /\ FlowState'
    BY <1>1, <1>2, <1>4, SameCalm
  <2>2. state.session \in Sessions /\ "begin" \in CallStations /\ "begin" \in HeldCalls
        /\ "begin" \in Stations
    BY <1>1, <1>4 DEF StateType, CallStations, HeldCalls, Stations
  <2>3. Goes(t, Called(task[t], state.session, NoId, "begin"))
    BY <1>1, <1>2, <1>4, <2>2, CallGoes DEF Flows
  <2>4. PICK r : r = Called(task[t], state.session, NoId, "begin")
    OBVIOUS
  <2>5. /\ r.at = "begin" /\ r.on = state.session /\ r.kind = "toggle" /\ r.valid = task[t].valid
        /\ r.answer \in {"none", "error"}
    BY <1>1, <2>2, <2>4, CalledType
  <2>6. task'[t] = r /\ CallMade(t) /\ \A u \in Tasks \ {t} : Undisturbed(u)
    BY <2>2, <2>3, <2>4, <2>5 DEF Goes, Turned
  <2>7. InStart(t)' => InStart(t)
    BY <1>1, <2>5, <2>6 DEF InStart
  <2>8. Live(t)' => Live(t)
    BY <1>4, <2>7 DEF Live
  <2>9. FlowTask(t)'
    BY <1>1, <1>2, <1>4, <2>5, <2>6, <2>7, <2>8 DEF FlowTask, Sending, Posted, InHand
  <2>10. \A u \in Tasks : InStart(u)' => InStart(u)
    BY <2>6, <2>7 DEF InStart, Undisturbed
  <2>11. \A u, v \in Tasks : FlowPair(u, v)
    BY FlowParts DEF Flows
  <2>12. ASSUME NEW u \in Tasks, NEW v \in Tasks, InStart(u)', InStart(v)' PROVE u = v
    BY <2>10, <2>11, <2>12 DEF FlowPair
  <2>13. ASSUME NEW v \in Tasks PROVE FlowPair(t, v)'
    BY <1>1, <2>5, <2>6, <2>12 DEF FlowPair, Posted, InHand, Sending
  <2>14. ASSUME NEW v \in Tasks PROVE FlowPair(v, t)'
    <3>1. CASE v = t
      BY <2>13, <3>1
    <3>2. CASE v # t
      <4>1. Undisturbed(v) /\ FlowPair(v, t)
        BY <1>1, <2>6, <2>11, <3>2
      <4>2. ~(InHand(v)' /\ Live(t)')
        BY <1>2, <2>8, <4>1 DEF FlowPair, InHand, Undisturbed
      <4>3. Posted(v, "cancel")' /\ Live(t)' => state'.pending_request_id = NoId \/ ~Usable'
        BY <1>2, <2>8, <4>1 DEF FlowPair, Posted, Usable, Undisturbed
      <4>4. ASSUME task'[v].at = "cancelling", task'[v].on = task'[t].on
            PROVE  CancelFirst(v, t)'
        <5>1. /\ task[v].at = "cancelling" /\ task[v].on = state.session
              /\ task'[v].answer = task[v].answer
          BY <2>5, <2>6, <4>1, <4>4 DEF Undisturbed
        <5>2. ASSUME task'[t].answer = "none", task'[v].answer = "none"
              PROVE  Before(queue'[state.session], v, t)
          <6>1. task[v].answer = "none" /\ task[v].at \in CallStations
                /\ task[v].at \notin {"finishing", "confirming"}
            BY <5>1, <5>2 DEF CallStations, FreeCalls
          <6>2. life[state.session] = "open" /\ Occurs(queue[state.session], v)
            BY <5>1, <6>1, CallsWait DEF Flows
          <6> QED BY <2>5, <2>6, <6>2 DEF CallMade
        <5> QED BY <2>5, <2>6, <5>2 DEF CancelFirst
      <4>5. /\ ~Fresh(t)' /\ ~InHand(t)' /\ ~Posted(t, "toggle")'
            /\ task'[t].at \notin Sending
        BY <2>5, <2>6 DEF Posted, Fresh, InHand, Sending
      <4> QED BY <1>1, <2>12, <4>2, <4>3, <4>4, <4>5 DEF FlowPair
    <3> QED BY <3>1, <3>2
  <2>15. \A u \in Tasks \ {t} : InStart(u)' /\ app'.input_pending => app.input_pending
    BY <1>4
  <2> QED BY <1>2, <2>1, <2>2, <2>3, <2>4, <2>5, <2>9, <2>13, <2>14, <2>15, MoverTurn
          DEF LivesStay
<1> QED BY <1>3, <1>4 DEF StartRecording

(* begin_audio was answered and the tap is still wanted: nothing of an earlier
   request is left that could touch the new one. *)
LEMMA FlowBegins ==
    ASSUME NEW t, Flows(t), InTime, Aside, Resumes(t, {"toggle"}, "begin"),
           task[t].answer = "ok", StillWanted(t), Ends(t),
           state' = [state EXCEPT !.recorder = TRUE, !.recording_request_id = task[t].id,
                                  !.pending_request_id = task[t].id],
           app' = [NotPending(t) EXCEPT !.voice_recording = TRUE]
    PROVE  FlowKept
<1>1. /\ task[t].kind = "toggle" /\ task[t].at = "begin" /\ t \in Tasks /\ task[t] \in TaskType
      /\ FlowState /\ FlowTask(t) /\ app \in AppType /\ state \in StateType /\ Shaped(task[t])
  BY FlowTaken
<1>2. IInv /\ parked' = parked /\ life' = life /\ AllInPlace /\ RecordInv
  BY Parts DEF Flows, Aside
<1>3. Fresh(t) /\ InStart(t) /\ Live(t)
  BY <1>1 DEF Fresh, InStart, Live, StillWanted
<1>4. /\ task[t].on \in Sessions /\ task[t].on = state.session /\ task[t].id[1] = state.session
      /\ \A u \in Tasks \ {t} : task[u].id # task[t].id
  BY <1>1, <1>2, <1>3 DEF RecordInv, StillWanted, Shaped, HeldCalls
<1>5. /\ state'.recorder = TRUE /\ state'.recording_request_id = task[t].id
      /\ state'.pending_request_id = task[t].id
      /\ state'.session = state.session /\ state'.pending_decision = state.pending_decision
  BY <1>1 DEF StateType
<1>6. /\ app'.dialog = app.dialog /\ (app'.input_pending => app.input_pending)
  <2>1. PICK a \in AppType : a = NotPending(t)
    BY <1>1, TaskFields, NotPendingFields
  <2>2. a.dialog = app.dialog /\ (a.input_pending => app.input_pending)
    BY <1>1, <2>1, TaskFields, NotPendingFields
  <2>3. app' = [a EXCEPT !.voice_recording = TRUE]
    BY <2>1
  <2> QED BY <2>1, <2>2, <2>3 DEF AppType
<1>7. Goes(t, NoTask)
  BY <1>2, EndGoes DEF Flows
<1>8. task'[t] = NoTask /\ \A u \in Tasks \ {t} : Undisturbed(u)
  BY <1>7 DEF Goes, Turned
<1>9. /\ \A u \in Tasks : FlowTask(u)
      /\ \A u, v \in Tasks : FlowPair(u, v)
      /\ \A u \in Tasks : ~Before(loop.ready, u, t)
  BY FlowParts, FirstAnswered DEF Flows
<1>10. app.dialog = Nothing
  BY <1>1, <1>3 DEF FlowTask
<1>11. FlowState'
  BY <1>1, <1>4, <1>5, <1>6, <1>10 DEF FlowState
<1>12. \A u \in Tasks : ~InStart(u)'
  <2> SUFFICES ASSUME NEW u \in Tasks, InStart(u)' PROVE FALSE
    OBVIOUS
  <2>1. u # t
    BY <1>8 DEF InStart, NoTask
  <2>2. InStart(u)
    BY <1>8, <2>1 DEF InStart, Undisturbed
  <2> QED BY <1>1, <1>3, <1>9, <2>1, <2>2 DEF FlowPair
<1>13. \A u \in Tasks : task'[u].at \notin HeldCalls
  <2> SUFFICES ASSUME NEW u \in Tasks, task'[u].at \in HeldCalls PROVE FALSE
    OBVIOUS
  <2>1. u # t
    BY <1>8 DEF NoTask, HeldCalls
  <2>2. task[u].at \in HeldCalls /\ task[t].at \in HeldCalls
    BY <1>1, <1>8, <2>1 DEF Undisturbed, HeldCalls
  <2> QED BY <1>1, <1>2, <2>1, <2>2, OneHolds
<1>14. \A u \in Tasks : task'[u].at # "cancelling"
  <2> SUFFICES ASSUME NEW u \in Tasks, task'[u].at = "cancelling" PROVE FALSE
    OBVIOUS
  <2>1. task[u].at = "cancelling"
    BY <1>8 DEF NoTask, Undisturbed
  <2>2. task[u].on = task[t].on
    BY <1>4, <2>1 DEF InTime, StillWanted
  <2>3. CancelFirst(u, t)
    BY <1>1, <1>3, <1>9, <2>1, <2>2 DEF FlowPair
  <2> QED BY <1>9, <2>3 DEF CancelFirst
<1>15. \A u \in Tasks : ~Posted(u, "answer")'
  <2> SUFFICES ASSUME NEW u \in Tasks, Posted(u, "answer")' PROVE FALSE
    OBVIOUS
  <2>1. Posted(u, "answer")
    BY <1>8 DEF NoTask, Posted, Undisturbed
  <2> QED BY <1>1, <1>3, <1>9, <2>1 DEF FlowPair
<1>16. \A u \in Tasks : ~InHand(u)' /\ ~Live(u)'
  BY <1>12, <1>13 DEF InHand, Live, Sending, HeldCalls
<1>17. Sending \subseteq HeldCalls /\ "aborting" \in HeldCalls
  BY DEF Sending, HeldCalls
<1>18. ASSUME NEW u \in Tasks, task'[u].at = "confirming"
       PROVE  /\ task'[u].saw = [kind |-> "plan", id |-> task'[u].id]
              /\ task'[u].id # task[t].id
  <2>1. u # t /\ task[u].at = "confirming" /\ task'[u].id = task[u].id /\ task'[u].saw = task[u].saw
    BY <1>8, <1>18 DEF NoTask, Undisturbed
  <2> QED BY <1>4, <1>9, <2>1 DEF FlowTask
<1>19. \A u \in Tasks : task'[u].at # "responding"
  <2>1. \A u \in Tasks : task[u].at # "responding"
    BY <1>9 DEF FlowTask
  <2> QED BY <1>8, <2>1 DEF NoTask, Undisturbed
<1>20. \A u \in Tasks : FlowTask(u)'
  BY <1>5, <1>12, <1>13, <1>14, <1>15, <1>16, <1>17, <1>18, <1>19 DEF FlowTask
<1>21. \A u, v \in Tasks : FlowPair(u, v)'
  BY <1>5, <1>12, <1>13, <1>14, <1>15, <1>16, <1>17 DEF FlowPair, Blocked
<1>22. CallInv'
  <2>1. NoTask.at \notin CallStations
    BY DEF NoTask, CallStations, HeldCalls, FreeCalls
  <2> QED BY <1>2, <1>7, <2>1, TurnCalls DEF Flows, LivesStay
<1> QED BY <1>11, <1>20, <1>21, <1>22 DEF FlowInv, FlowKept

(* begin_audio was answered. *)
LEMMA FlowRecordingBegins ==
    ASSUME NEW t, Flows(t), InTime, Aside, RecordingBegins(t)
    PROVE  FlowKept
<1>1. /\ task[t].kind = "toggle" /\ task[t].at = "begin" /\ t \in Tasks /\ task[t] \in TaskType
      /\ FlowState /\ FlowTask(t) /\ app \in AppType /\ state \in StateType /\ Shaped(task[t])
      /\ Resumes(t, {"toggle"}, "begin")
  BY FlowTaken DEF RecordingBegins
<1>2. IInv /\ parked' = parked /\ life' = life
  BY DEF Flows, Aside
<1>3. CASE Ends(t) /\ app' = NotPending(t) /\ UNCHANGED state
  <2>1. /\ app'.remote_connected = app.remote_connected /\ app'.is_busy = app.is_busy
        /\ app'.dialog = app.dialog /\ (app'.input_pending => app.input_pending)
    BY <1>1, <1>3, TaskFields, NotPendingFields
  <2> QED BY <1>1, <1>2, <1>3, <2>1, SameCalm, EndKeeps
<1>4. CASE Undo(t) /\ UNCHANGED <<state, app>>
  <2>1. CalmState /\ CalmApp /\ FlowState'
    BY <1>1, <1>2, <1>4, SameCalm
  <2>2. /\ task[t].on \in Sessions /\ task[t].id \in Ids \cup {NoId} /\ "undo" \in CallStations
        /\ "undo" \in HeldCalls /\ "undo" \in Stations /\ AtGate(task[t])
    BY <1>1, TaskFields DEF Shaped, CallStations, HeldCalls, Stations, AtGate
  <2>3. Goes(t, Called(task[t], task[t].on, task[t].id, "undo"))
    BY <1>1, <1>2, <1>4, <2>2, CallGoes DEF Flows, Undo
  <2>4. PICK r : r = Called(task[t], task[t].on, task[t].id, "undo")
    OBVIOUS
  <2>5. r.at = "undo" /\ r.on = task[t].on
    BY <1>1, <2>2, <2>4, CalledType
  <2>6. task'[t] = r
    BY <2>3, <2>4 DEF Goes, Turned
  <2>7. ~InStart(t)' /\ task'[t].at \notin Idling
    BY <2>5, <2>6 DEF InStart, Idling, Sending
  <2>8. CalmTask(t)
    BY <1>4, <2>7, IdlesCalm
  <2> QED BY <1>2, <1>4, <2>1, <2>2, <2>3, <2>4, <2>5, <2>8, CalmTurn DEF LivesStay
<1>5. CASE /\ task[t].answer = "ok" /\ StillWanted(t) /\ Ends(t)
           /\ state' = [state EXCEPT !.recorder = TRUE, !.recording_request_id = task[t].id,
                                     !.pending_request_id = task[t].id]
           /\ app' = [NotPending(t) EXCEPT !.voice_recording = TRUE]
  BY <1>1, <1>5, FlowBegins
<1> QED BY <1>3, <1>4, <1>5 DEF RecordingBegins

(* What forgetting a recording leaves of the fields. *)
LEMMA AbortedFields ==
    ASSUME state \in StateType, state' = Aborted \/ state' = ClearedRequest(state)
    PROVE  /\ state'.recorder = FALSE /\ state'.recording_request_id = NoId
           /\ state'.pending_request_id = NoId /\ state'.session = state.session
BY DEF Aborted, ClearedRequest, StateType

(* A cancel starts: if its session is open no start of a recording is under way, and
   if it has ended the cancel is told so before all others. *)
LEMMA FlowCancelStarts ==
    ASSUME NEW t, Flows(t), Aside, CancelStarts(t)
    PROVE  FlowKept
<1>1. /\ task[t].kind = "cancel" /\ task[t].at = "start" /\ t \in Tasks /\ task[t] \in TaskType
      /\ FlowState /\ FlowTask(t) /\ app \in AppType /\ state \in StateType /\ ~AtGate(task[t])
  BY FlowTaken DEF CancelStarts, AtGate, GateStations, HeldCalls
<1>2. IInv /\ parked' = parked /\ life' = life /\ state' = ClearedRequest(state)
  BY DEF Flows, Aside, CancelStarts
<1>3. state'.recorder = FALSE /\ state'.pending_request_id = NoId
  BY <1>1, <1>2, AbortedFields
<1>4. CalmState
  BY <1>1, <1>2, StatesCalm
<1>5. CASE Ends(t) /\ app' = ResetAndIdle(app)
  <2>1. app'.dialog = Nothing /\ app'.input_pending = FALSE
    BY <1>1, <1>5, AppFields
  <2>2. CalmApp /\ FlowState'
    BY <1>1, <1>3, <1>4, <2>1, ClearedApp, CalmStateKeeps
  <2> QED BY <1>2, <1>4, <1>5, <2>1, <2>2, EndKeeps
<1>6. ASSUME state.session # NoSession, NEW id, id # NoId, UNCHANGED app,
             id = IF state.recording_request_id # NoId THEN state.recording_request_id
                  ELSE state.pending_request_id,
             Calls(t, state.session, id, "cancelling")
      PROVE  FlowKept
  <2>1. CalmApp /\ FlowState'
    BY <1>1, <1>3, <1>4, <1>6, ClearedApp, CalmStateKeeps
  <2>2. /\ state.session \in Sessions /\ id \in Ids \cup {NoId} /\ "cancelling" \in CallStations
        /\ "cancelling" \in Stations /\ "cancelling" \notin HeldCalls
    BY <1>1, <1>6 DEF StateType, CallStations, FreeCalls, HeldCalls, Stations
  <2>3. Goes(t, Called(task[t], state.session, id, "cancelling"))
    BY <1>1, <1>2, <1>6, <2>2, CallGoes DEF Flows
  <2>4. PICK r : r = Called(task[t], state.session, id, "cancelling")
    OBVIOUS
  <2>5. /\ r.at = "cancelling" /\ r.on = state.session
        /\ r.answer = (IF life[state.session] = "open" THEN "none" ELSE "error")
    BY <1>1, <2>2, <2>4, CalledType
  <2>6. task'[t] = r /\ CallMade(t) /\ \A u \in Tasks \ {t} : Undisturbed(u)
    BY <2>2, <2>3, <2>4, <2>5 DEF Goes, Turned
  <2>7. ~InStart(t)' /\ ~Live(t)' /\ ~Fresh(t)' /\ ~InHand(t)' /\ \A k : ~Posted(t, k)'
    BY <2>5, <2>6 DEF InStart, Live, Fresh, InHand, Posted, Sending
  <2>8. FlowTask(t)'
    BY <1>3, <2>5, <2>6, <2>7 DEF FlowTask, Sending
  <2>9. ASSUME NEW v \in Tasks, Live(v)', task'[v].at = "begin" PROVE CancelFirst(t, v)'
    <3>1. v # t
      BY <2>5, <2>6, <2>9
    <3>2. Live(v) /\ task'[v].answer = task[v].answer /\ task[v].at = "begin"
      BY <1>6, <2>6, <2>9, <3>1 DEF Live, InStart, Undisturbed
    <3>3. FlowTask(v) /\ FlowPair(t, v)
      BY <1>1, FlowParts DEF Flows
    <3>4. id = state.pending_request_id
      <4>1. ~state.recorder
        BY <3>2, <3>3 DEF FlowTask, Live
      <4> QED BY <1>1, <1>6, <4>1 DEF FlowState
    <3>5. life[state.session] # "open"
      BY <1>1, <1>6, <3>2, <3>3, <3>4 DEF FlowPair, Posted, Usable
    <3>6. /\ task'[t].answer # "none"
          /\ \A w : w # t /\ Occurs(loop.ready, w) => Before(loop'.ready, t, w)
      BY <2>5, <2>6, <3>5 DEF CallMade
    <3>7. ASSUME task'[v].answer = "ok" PROVE Before(loop'.ready, t, v)
      <4>1. task[v].at \in CallStations /\ task[v].answer # "none"
        BY <3>2, <3>7 DEF CallStations, HeldCalls
      <4>2. Occurs(loop.ready, v)
        BY <4>1, CallsWait DEF Flows
      <4> QED BY <3>1, <3>6, <4>2
    <3> QED BY <3>6, <3>7 DEF CancelFirst
  <2>10. ASSUME NEW v \in Tasks PROVE FlowPair(t, v)'
    <3>1. task'[t].at # "confirming"
      BY <2>5, <2>6
    <3> QED BY <2>7, <2>9, <3>1 DEF FlowPair
  <2>11. ASSUME NEW v \in Tasks PROVE FlowPair(v, t)'
    <3>1. task'[t].at \notin Sending
      BY <2>5, <2>6 DEF Sending
    <3> QED BY <2>7, <3>1 DEF FlowPair
  <2> QED BY <1>2, <1>4, <1>6, <2>1, <2>2, <2>3, <2>4, <2>5, <2>8, <2>10, <2>11, MoverTurn
          DEF LivesStay
<1>7. PICK id : /\ id = (IF state.recording_request_id # NoId THEN state.recording_request_id
                         ELSE state.pending_request_id)
                /\ CancelsAndResets(t, id, "cancelling")
  BY DEF CancelStarts
<1> QED BY <1>5, <1>6, <1>7 DEF CancelsAndResets

(* A cancellation was answered. *)
LEMMA FlowCancelDone ==
    ASSUME NEW t, Flows(t), Aside, CancelDone(t)
    PROVE  FlowKept
<1>1. PICK at \in {"cancelling", "aborting", "dropping"} :
        Resumes(t, {"cancel", "tick", "toggle"}, at)
  BY DEF CancelDone
<1>2. task[t].at = at /\ FlowState /\ FlowTask(t) /\ app \in AppType /\ t \in Tasks
  BY <1>1, FlowTaken
<1>3. IInv /\ parked' = parked /\ life' = life /\ state' = state /\ Ends(t)
      /\ app' = ResetAndIdle(app)
  BY DEF Flows, Aside, CancelDone
<1>4. app'.dialog = Nothing /\ app'.input_pending = FALSE
      /\ app'.remote_connected = app.remote_connected
  BY <1>2, <1>3, AppFields
<1>5. CalmState
  BY <1>2, <1>3, StatesCalm
<1>6. FlowState'
  BY <1>2, <1>4, <1>5, CalmStateKeeps
<1>7. CalmApp
  <2>1. CASE at = "dropping"
    <3>1. Goes(t, NoTask) /\ task[t].at \in Sending
      BY <1>2, <1>3, <2>1, EndGoes DEF Flows, Sending
    <3> QED BY <1>3, <1>4, <1>5, <3>1, HandOver
  <2>2. CASE at # "dropping"
    <3>1. state'.pending_request_id = NoId
      BY <1>2, <1>3, <2>2 DEF FlowTask
    <3> QED BY <1>4, <3>1, ClearedApp
  <2> QED BY <2>1, <2>2
<1> QED BY <1>3, <1>4, <1>5, <1>6, <1>7, EndKeeps

(* The recording timer fired. *)
LEMMA FlowTickStarts ==
    ASSUME NEW t, Flows(t), Aside, TickStarts(t)
    PROVE  FlowKept
<1>1. task[t].at = "start" /\ FlowState
  BY FlowTaken DEF TickStarts
<1>2. ~AtGate(task[t]) /\ "drain" \in GateStations
  BY <1>1 DEF AtGate, GateStations, HeldCalls
<1>3. IInv /\ parked' = parked /\ life' = life /\ state' = state /\ app' = app /\ Locks(t, "drain")
  BY DEF Flows, Aside, TickStarts
<1>4. CalmState /\ CalmApp /\ FlowState'
  BY <1>1, <1>3, SameCalm
<1> QED BY <1>1, <1>2, <1>3, <1>4, LockKeeps

(* abort_recording keeps the flow. *)
LEMMA AbortsKeep ==
    ASSUME NEW t, Flows(t), Aside, AtGate(task[t]), Aborts(t)
    PROVE  FlowKept
<1>1. /\ t \in Tasks /\ task[t] \in TaskType /\ FlowState /\ app \in AppType
      /\ state \in StateType
  BY FirstAnswered, FlowParts, Parts DEF Flows
<1>2. IInv /\ parked' = parked /\ life' = life /\ state' = Aborted
  BY DEF Flows, Aside, Aborts
<1>3. state'.recorder = FALSE /\ state'.pending_request_id = NoId
  BY <1>1, <1>2, AbortedFields
<1>4. CalmState
  BY <1>1, <1>2, StatesCalm
<1>5. CASE Ends(t) /\ app' = ResetAndIdle(app)
  <2>1. app'.dialog = Nothing /\ app'.input_pending = FALSE
    BY <1>1, <1>5, AppFields
  <2>2. CalmApp /\ FlowState'
    BY <1>1, <1>3, <1>4, <2>1, ClearedApp, CalmStateKeeps
  <2> QED BY <1>2, <1>4, <1>5, <2>1, <2>2, EndKeeps
<1>6. CASE /\ state.session # NoSession /\ UNCHANGED app
           /\ Calls(t, state.session, state.recording_request_id, "aborting")
  <2>1. CalmApp /\ FlowState'
    BY <1>1, <1>3, <1>4, <1>6, ClearedApp, CalmStateKeeps
  <2>2. /\ state.session \in Sessions /\ state.recording_request_id \in Ids \cup {NoId}
        /\ "aborting" \in CallStations /\ "aborting" \in Stations /\ "aborting" \in HeldCalls
    BY <1>1, <1>6 DEF StateType, CallStations, HeldCalls, Stations
  <2>3. Goes(t, Called(task[t], state.session, state.recording_request_id, "aborting"))
    BY <1>1, <1>2, <1>6, <2>2, CallGoes DEF Flows
  <2>4. PICK r : r = Called(task[t], state.session, state.recording_request_id, "aborting")
    OBVIOUS
  <2>5. r.at = "aborting" /\ r.on = state.session
    BY <1>1, <2>2, <2>4, CalledType
  <2>6. task'[t] = r
    BY <2>3, <2>4 DEF Goes, Turned
  <2>7. ~InStart(t)' /\ ~Live(t)' /\ ~Fresh(t)' /\ \A k : ~Posted(t, k)'
    BY <2>5, <2>6 DEF InStart, Live, Fresh, Posted
  <2>8. CalmTask(t)
    BY <1>3, <2>5, <2>6, <2>7 DEF CalmTask, Sending
  <2> QED BY <1>2, <1>4, <1>6, <2>1, <2>2, <2>3, <2>4, <2>5, <2>8, CalmTurn DEF LivesStay
<1> QED BY <1>5, <1>6 DEF Aborts, CancelsAndResets

(* A drained recorder leaves the flow as it is. *)
LEMMA DrainKeeps ==
    ASSUME NEW t, NEW due, Flows(t), Aside, AtGate(task[t]), UNCHANGED <<state, app>>,
           Drained(t, due)
    PROVE  FlowKept
<1>1. IInv /\ parked' = parked /\ life' = life /\ state' = state /\ app' = app /\ FlowState
      /\ task[t] \in TaskType
  BY FlowParts, FirstAnswered DEF Flows, Aside
<1>2. CalmState /\ CalmApp /\ FlowState'
  BY <1>1, SameCalm
<1>3. PICK r \in {NoTask, Moved(task[t], "finalize")} : Goes(t, r)
  BY <1>1, DrainGoes DEF Flows
<1>4. "finalize" \in Stations
  BY DEF Stations, GateStations
<1>5. r.at \in {"none", "finalize"}
  BY <1>1, <1>3, <1>4, MovedType DEF NoTask
<1>6. task'[t] = r
  BY <1>3 DEF Goes, Turned
<1>7. ~InStart(t)' /\ task'[t].at \notin Idling
  BY <1>5, <1>6 DEF InStart, Idling, Sending
<1>8. CalmTask(t)
  BY <1>1, <1>7, IdlesCalm
<1>9. r.at \notin CallStations
  BY <1>5 DEF CallStations, HeldCalls, FreeCalls
<1> QED BY <1>1, <1>2, <1>3, <1>8, <1>9, CalmTurn DEF LivesStay

(* The recorder is drained. *)
LEMMA FlowTickDrains ==
    ASSUME NEW t, Flows(t), Aside, TickDrains(t)
    PROVE  FlowKept
<1>1. /\ task[t].kind = "tick" /\ task[t].at = "drain" /\ t \in Tasks /\ task[t] \in TaskType
      /\ FlowState /\ app \in AppType /\ state \in StateType /\ AtGate(task[t])
  BY FlowTaken DEF TickDrains, AtGate, GateStations
<1>2. IInv /\ parked' = parked /\ life' = life
  BY DEF Flows, Aside
<1>3. CASE Ends(t) /\ UNCHANGED <<state, app>>
  BY <1>1, <1>2, <1>3, SameCalm, EndKeeps
<1>4. CASE Aborts(t)
  BY <1>1, <1>4, AbortsKeep
<1>5. ASSUME state.session # NoSession, NEW due \in BOOLEAN, UNCHANGED <<state, app>>,
             CallsFrom([Polled EXCEPT !.task[t].due = due], t, state.session,
                       state.recording_request_id, "sending")
      PROVE  FlowKept
  <2>1. CalmState /\ CalmApp /\ FlowState'
    BY <1>1, <1>2, <1>5, SameCalm
  <2>2. PICK x : x = [task[t] EXCEPT !.due = due]
    OBVIOUS
  <2>3. /\ x \in TaskType /\ x.at = task[t].at /\ x.on = task[t].on
        /\ x.answer = task[t].answer
    BY <1>1, <2>2 DEF TaskType
  <2>4. [Polled EXCEPT !.task[t].due = due] = WithTask(Polled, t, x)
    <3>1. Polled.task[t] = task[t]
      BY PolledFacts DEF Flows
    <3> QED BY <2>2, <3>1 DEF WithTask
  <2>5. CallsFrom(WithTask(Polled, t, x), t, state.session, state.recording_request_id, "sending")
    BY <1>5, <2>4
  <2>6. /\ state.session \in Sessions /\ state.recording_request_id \in Ids \cup {NoId}
        /\ "sending" \in CallStations /\ "sending" \in Stations /\ "sending" \in HeldCalls
    BY <1>1, <1>5 DEF StateType, CallStations, HeldCalls, Stations
  <2>7. Goes(t, Called(x, state.session, state.recording_request_id, "sending"))
    BY <1>1, <1>2, <2>3, <2>5, <2>6, NotedCallGoes DEF Flows
  <2>8. PICK r : r = Called(x, state.session, state.recording_request_id, "sending")
    OBVIOUS
  <2>9. r.at = "sending" /\ r.on = state.session
    BY <2>3, <2>6, <2>8, CalledType
  <2>10. task'[t] = r
    BY <2>7, <2>8 DEF Goes, Turned
  <2>11. ~InStart(t)' /\ task'[t].at \notin Idling
    BY <2>9, <2>10 DEF InStart, Idling, Sending
  <2>12. CalmTask(t)
    BY <1>5, <2>11, IdlesCalm
  <2> QED BY <1>2, <1>5, <2>1, <2>6, <2>7, <2>8, <2>9, <2>12, CalmTurn DEF LivesStay
<1>6. ASSUME NEW due \in BOOLEAN, UNCHANGED <<state, app>>, Drained(t, due) PROVE FlowKept
  BY <1>1, <1>6, DrainKeeps
<1> QED BY <1>3, <1>4, <1>5, <1>6 DEF TickDrains

(* A chunk was sent. *)
LEMMA FlowTickSent ==
    ASSUME NEW t, Flows(t), Aside, TickSent(t)
    PROVE  FlowKept
<1>1. AtGate(task[t])
  BY FlowTaken DEF TickSent, AtGate, HeldCalls
<1> QED BY <1>1, AbortsKeep, DrainKeeps DEF TickSent

(* The recording becomes an upload in hand, of the request that is pending. *)
LEMMA FinalizeCalls ==
    ASSUME NEW t, Flows(t), Aside, Resumes(t, Finalizers, "finalize"), state.recorder,
           state' = [state EXCEPT !.recorder = FALSE, !.recording_request_id = NoId],
           app' = [app EXCEPT !.voice_recording = FALSE, !.is_busy = TRUE],
           NEW at \in Sending, Calls(t, state.session, state.recording_request_id, at)
    PROVE  FlowKept
<1>1. /\ task[t].at = "finalize" /\ t \in Tasks /\ task[t] \in TaskType
      /\ FlowState /\ app \in AppType /\ state \in StateType /\ AtGate(task[t])
  BY FlowTaken DEF AtGate, GateStations
<1>2. IInv /\ parked' = parked /\ life' = life /\ RecordInv
  BY Parts DEF Flows, Aside
<1>3. /\ state'.recorder = FALSE /\ state'.session = state.session
      /\ state'.pending_request_id = state.pending_request_id
  BY <1>1 DEF StateType
<1>4. /\ app'.is_busy = TRUE /\ app'.dialog = app.dialog
      /\ app'.remote_connected = app.remote_connected /\ app'.input_pending = app.input_pending
  BY <1>1 DEF AppType
<1>5. /\ state.session \in Sessions /\ state.recording_request_id \in Ids \cup {NoId}
      /\ state.recording_request_id[1] = state.session
      /\ state.pending_request_id = state.recording_request_id
  BY <1>1, <1>2 DEF RecordInv, StateType, FlowState
<1>6. CalmState
  BY <1>1, <1>2, StatesCalm
<1>7. CalmApp /\ FlowState'
  <2>1. Usable' => Usable
    BY <1>2, <1>3 DEF Usable
  <2> QED BY <1>1, <1>4, <1>6, <2>1, BusyCalmApp, CalmStateKeeps
<1>8. at \in HeldCalls /\ at \in CallStations /\ at \in Stations
  BY DEF Sending, HeldCalls, CallStations, Stations
<1>9. Goes(t, Called(task[t], state.session, state.recording_request_id, at))
  BY <1>1, <1>2, <1>5, <1>8, CallGoes DEF Flows
<1>10. PICK r : r = Called(task[t], state.session, state.recording_request_id, at)
  OBVIOUS
<1>11. /\ r.at = at /\ r.on = state.session /\ r.id = state.recording_request_id
       /\ r.answer = (IF life[state.session] = "open" THEN "none" ELSE "error")
  BY <1>1, <1>5, <1>8, <1>10, CalledType
<1>12. task'[t] = r /\ \A u \in Tasks \ {t} : Undisturbed(u)
  BY <1>9, <1>10 DEF Goes, Turned
<1>13. /\ ~InStart(t)' /\ ~Live(t)' /\ ~Fresh(t)' /\ \A k : ~Posted(t, k)'
       /\ task'[t].at \notin {"confirming", "cancelling", "aborting", "responding"}
  BY <1>11, <1>12 DEF InStart, Live, Fresh, Posted, Sending
<1>14. FlowTask(t)'
  <2>1. app.dialog = Nothing
    BY <1>1 DEF FlowState
  <2> QED BY <1>3, <1>4, <1>5, <1>11, <1>12, <1>13, <2>1 DEF FlowTask, PendingIs
<1>15. /\ \A u \in Tasks : FlowTask(u)
       /\ \A u, v \in Tasks : FlowPair(u, v)
  BY FlowParts DEF Flows
<1>16. \A u \in Tasks : ~InStart(u)' /\ ~Live(u)'
  <2> SUFFICES ASSUME NEW u \in Tasks PROVE ~InStart(u)'
    BY DEF Live
  <2>1. CASE u = t
    BY <1>13, <2>1
  <2>2. CASE u # t
    <3>1. InStart(u)' => InStart(u)
      BY <1>12, <2>2 DEF InStart, Undisturbed
    <3> QED BY <1>15, <3>1 DEF FlowTask
  <2> QED BY <2>1, <2>2
<1>17. ~(task'[t].answer # "none" /\ Usable')
  BY <1>2, <1>3, <1>11, <1>12 DEF Usable
<1>18. ASSUME NEW v \in Tasks PROVE FlowPair(t, v)'
  BY <1>13, <1>16, <1>17 DEF FlowPair
<1>19. ASSUME NEW v \in Tasks PROVE FlowPair(v, t)'
  <2>1. CASE v = t
    BY <1>18, <2>1
  <2>2. CASE v # t
    <3>1. Undisturbed(v) /\ FlowTask(v)
      BY <1>12, <1>15, <2>2
    <3>2. task'[v].at = "confirming" => task'[v].id # task'[t].id
      BY <1>11, <1>12, <3>1 DEF FlowTask, Undisturbed
    <3>3. ~Posted(v, "answer")'
      BY <3>1 DEF FlowTask, Posted, Undisturbed
    <3> QED BY <1>13, <1>16, <3>2, <3>3 DEF FlowPair
  <2> QED BY <2>1, <2>2
<1> QED BY <1>2, <1>5, <1>6, <1>7, <1>9, <1>10, <1>11, <1>14, <1>16, <1>18, <1>19, MoverTurn
        DEF LivesStay

(* The recording is finalized. *)
LEMMA FlowFinalize ==
    ASSUME NEW t, Flows(t), Aside, Finalize(t)
    PROVE  FlowKept
<1>1. /\ task[t].at = "finalize" /\ t \in Tasks /\ Resumes(t, Finalizers, "finalize")
      /\ FlowState /\ app \in AppType /\ state \in StateType
  BY FlowTaken DEF Finalize
<1>2. /\ IInv /\ parked' = parked /\ life' = life /\ RecordInv
      /\ state' = [state EXCEPT !.recorder = FALSE, !.recording_request_id = NoId]
  BY Parts DEF Flows, Aside, Finalize
<1>3. CalmState
  BY <1>1, <1>2, StatesCalm
<1>4. state'.session = state.session /\ (Usable' => Usable)
  BY <1>1, <1>2 DEF StateType, Usable
<1>5. CASE state.recorder
  <2>1. /\ app' = [app EXCEPT !.voice_recording = FALSE, !.is_busy = TRUE]
        /\ \/ SendsRest(t, state.session, state.recording_request_id)
           \/ Calls(t, state.session, state.recording_request_id, "dropping")
    BY <1>2, <1>5 DEF Finalize, RecordInv
  <2>2. CASE Ends(t)
    <3>1. /\ app'.is_busy = TRUE /\ app'.dialog = app.dialog
          /\ app'.remote_connected = app.remote_connected
          /\ app'.input_pending = app.input_pending
      BY <1>1, <2>1 DEF AppType
    <3>2. CalmApp /\ FlowState'
      BY <1>1, <1>3, <1>4, <3>1, BusyCalmApp, CalmStateKeeps
    <3> QED BY <1>2, <1>3, <2>2, <3>1, <3>2, EndKeeps
  <2>3. ASSUME NEW at \in Sending, Calls(t, state.session, state.recording_request_id, at)
        PROVE  FlowKept
    BY <1>1, <1>2, <1>5, <2>1, <2>3, FinalizeCalls
  <2>4. {"last", "finishing", "dropping"} \subseteq Sending
    BY DEF Sending
  <2> QED BY <2>1, <2>2, <2>3, <2>4 DEF SendsRest
<1>6. CASE ~state.recorder
  <2>1. Ends(t) /\ app' = app
    BY <1>6 DEF Finalize
  <2>2. state'.recorder = state.recorder
    BY <1>1, <1>2, <1>6 DEF StateType
  <2>3. CalmApp /\ FlowState'
    BY <1>1, <1>3, <1>4, <2>1, <2>2, SameCalmApp, CalmStateKeeps
  <2> QED BY <1>2, <1>3, <2>1, <2>3, EndKeeps
<1> QED BY <1>5, <1>6

(* The rest of the recording was sent. *)
LEMMA FlowLastChunkSent ==
    ASSUME NEW t, Flows(t), Aside, LastChunkSent(t)
    PROVE  FlowKept
<1>1. /\ task[t].at = "last" /\ t \in Tasks /\ task[t] \in TaskType /\ Shaped(task[t])
      /\ FlowState /\ app \in AppType /\ AtGate(task[t])
  BY FlowTaken DEF LastChunkSent, AtGate, HeldCalls
<1>2. IInv /\ parked' = parked /\ life' = life /\ state' = state /\ app' = app
  BY DEF Flows, Aside, LastChunkSent
<1>3. CalmState /\ CalmApp /\ FlowState'
  BY <1>1, <1>2, SameCalm
<1>4. CASE Ends(t)
  BY <1>2, <1>3, <1>4, EndKeeps
<1>5. ASSUME NEW at \in Sending, Calls(t, task[t].on, task[t].id, at) PROVE FlowKept
  <2>1. /\ at \in HeldCalls /\ at \in CallStations /\ at \in Stations
        /\ task[t].on \in Sessions /\ task[t].id \in Ids \cup {NoId}
    BY <1>1, TaskFields DEF Sending, HeldCalls, CallStations, Stations, Shaped
  <2>2. Goes(t, Called(task[t], task[t].on, task[t].id, at))
    BY <1>1, <1>2, <1>5, <2>1, CallGoes DEF Flows
  <2>3. PICK r : r = Called(task[t], task[t].on, task[t].id, at)
    OBVIOUS
  <2>4. r.at = at /\ r.on = task[t].on /\ r.id = task[t].id
    BY <1>1, <2>1, <2>3, CalledType
  <2>5. task'[t] = r
    BY <2>2, <2>3 DEF Goes, Turned
  <2>6. /\ ~InStart(t)' /\ ~Live(t)' /\ ~Fresh(t)' /\ (\A k : ~Posted(t, k)')
        /\ task'[t].at \notin {"begin", "confirming", "cancelling", "aborting", "responding"}
    BY <2>4, <2>5 DEF InStart, Live, Fresh, Posted, Sending
  <2>7. task[t].answer # "none" /\ task[t].at \in Sending
    BY <1>1, FirstAnswered DEF CallStations, HeldCalls, Sending
  <2>8. CalmTask(t)
    BY <2>4, <2>5, <2>6, <2>7 DEF CalmTask
  <2> QED BY <1>2, <1>3, <2>1, <2>2, <2>3, <2>4, <2>8, CalmTurn DEF LivesStay
<1>6. {"last", "finishing", "dropping"} \subseteq Sending
  BY DEF Sending
<1> QED BY <1>4, <1>5, <1>6 DEF LastChunkSent, SendsRest

(* finish_audio was answered. *)
LEMMA FlowPreviewArrives ==
    ASSUME NEW t, Flows(t), Aside, PreviewArrives(t)
    PROVE  FlowKept
<1>1. /\ task[t].at = "finishing" /\ t \in Tasks /\ task[t] \in TaskType /\ task[t].id \in Ids
      /\ FlowState /\ FlowTask(t) /\ app \in AppType /\ state \in StateType
  BY FlowTaken DEF PreviewArrives, Shaped
<1>2. IInv /\ parked' = parked /\ life' = life /\ Ends(t) /\ task[t].at \in Sending
  BY <1>1 DEF Flows, Aside, PreviewArrives, Sending
<1>3. Goes(t, NoTask)
  BY <1>2, EndGoes DEF Flows
<1>4. ~state.recorder
  BY <1>1, <1>2 DEF FlowTask
<1>5. CalmState
  BY <1>1, <1>2, <1>4, StatesCalm DEF PreviewArrives
<1>6. task[t].id # NoId
  BY <1>1 DEF NoId, Ids, Sessions
<1>7. /\ Idle(app) \in AppType /\ Idle(app).dialog = app.dialog
      /\ Idle(app).input_pending = app.input_pending
      /\ Idle(app).remote_connected = app.remote_connected
      /\ ResetAndIdle(app).dialog = Nothing /\ ResetAndIdle(app).input_pending = FALSE
      /\ ResetAndIdle(app).remote_connected = app.remote_connected
  BY <1>1, AppKept, AppFields
<1>8. CASE app' = [Idle(app) EXCEPT !.dialog = [kind |-> "plan", id |-> task[t].id]]
           /\ IsPending(task[t].id) /\ UNCHANGED state
  <2>1. PICK a \in AppType : a = Idle(app)
    BY <1>7
  <2>2. /\ app'.dialog = [kind |-> "plan", id |-> task[t].id]
        /\ app'.input_pending = app.input_pending /\ app'.remote_connected = app.remote_connected
    BY <1>7, <1>8, <2>1 DEF AppType
  <2>3. InHand(t)
    BY <1>2, <1>6, <1>8 DEF InHand, IsPending
  <2>4. CalmApp
    BY <1>2, <1>3, <1>5, <2>2, <2>3, HandOver
  <2>5. FlowState'
    BY <1>1, <1>4, <1>8, <2>2 DEF FlowState, PendingIs, IsPending
  <2> QED BY <1>2, <1>5, <2>2, <2>4, <2>5, EndKeeps
<1>9. CASE app'.dialog \in {app.dialog, Nothing} /\ (app'.input_pending => app.input_pending)
           /\ app'.remote_connected = app.remote_connected
  <2>1. CalmApp
    BY <1>2, <1>3, <1>5, <1>9, HandOver
  <2>2. FlowState'
    BY <1>1, <1>5, <1>9, CalmStateKeeps
  <2> QED BY <1>2, <1>5, <1>9, <2>1, <2>2, EndKeeps
<1>10. CASE app' = [Idle(app) EXCEPT !.dialog = Nothing]
  <2>1. PICK a \in AppType : a = Idle(app)
    BY <1>7
  <2>2. app'.dialog = Nothing /\ (app'.input_pending => app.input_pending)
        /\ app'.remote_connected = app.remote_connected
    BY <1>7, <1>10, <2>1 DEF AppType
  <2> QED BY <1>9, <2>2
<1>11. CASE app' \in {app, Idle(app), ResetAndIdle(app)}
  BY <1>7, <1>9, <1>11
<1> QED BY <1>8, <1>10, <1>11 DEF PreviewArrives

(* A tap on the dialog's buttons: it answers for what the dialog showed. *)
LEMMA FlowAnswerStarts ==
    ASSUME NEW t, Flows(t), Aside, AnswerStarts(t)
    PROVE  FlowKept
<1>1. /\ task[t].kind = "answer" /\ task[t].at = "start" /\ t \in Tasks /\ task[t] \in TaskType
      /\ FlowState /\ FlowTask(t) /\ app \in AppType /\ state \in StateType /\ ~AtGate(task[t])
  BY FlowTaken DEF AnswerStarts, AtGate, GateStations, HeldCalls
<1>2. /\ IInv /\ parked' = parked /\ life' = life
      /\ state' = [state EXCEPT !.pending_decision = NoId]
  BY DEF Flows, Aside, AnswerStarts
<1>3. /\ state.pending_decision = NoId /\ state'.session = state.session
      /\ state'.pending_request_id = state.pending_request_id
      /\ state'.recorder = state.recorder
  BY <1>1, <1>2 DEF FlowState, StateType
<1>4. CalmState
  BY <1>1, <1>2, StatesCalm
<1>5. Usable' => Usable
  BY <1>2, <1>3 DEF Usable
<1>6. PICK busy : busy = [app EXCEPT !.is_busy = TRUE, !.dialog = Nothing]
  OBVIOUS
<1>7. /\ busy \in AppType /\ busy.remote_connected = app.remote_connected /\ busy.is_busy = TRUE
      /\ busy.dialog = Nothing /\ busy.input_pending = app.input_pending
  <2>1. Nothing \in Dialogs
    BY DEF Dialogs
  <2> QED BY <1>1, <1>6, <2>1 DEF AppType
<1>8. CASE ~(state.session # NoSession /\ state.pending_request_id # NoId)
           /\ Ends(t) /\ app' = Idle(busy)
  <2>1. state'.pending_request_id = NoId
    <3>1. state.pending_request_id # NoId => state.pending_request_id[1] \in Sessions
      BY <1>1 DEF StateType, Ids
    <3>2. NoSession \notin Sessions
      BY DEF NoSession, Sessions
    <3> QED BY <1>1, <1>3, <1>8, <3>1, <3>2 DEF FlowState
  <2>2. app'.dialog = Nothing /\ app'.input_pending = app.input_pending
    BY <1>7, <1>8, AppFields
  <2>3. CalmApp /\ FlowState'
    BY <1>1, <1>4, <2>1, <2>2, ClearedApp, CalmStateKeeps
  <2> QED BY <1>2, <1>4, <1>8, <2>2, <2>3, EndKeeps
<1>9. CASE /\ state.session # NoSession /\ state.pending_request_id # NoId /\ app' = busy
           /\ CallsFrom([Polled EXCEPT !.task[t].generation = state.generation], t, state.session,
                        state.pending_request_id, "confirming")
  <2>1. CalmApp /\ FlowState'
    BY <1>1, <1>4, <1>5, <1>7, <1>9, BusyCalmApp, CalmStateKeeps
  <2>2. PICK x : x = [task[t] EXCEPT !.generation = state.generation]
    OBVIOUS
  <2>3. /\ x \in TaskType /\ x.at = task[t].at /\ x.on = task[t].on
        /\ x.answer = task[t].answer /\ x.saw = task[t].saw
    <3>1. state.generation \in Nat
      BY <1>1 DEF StateType
    <3> QED BY <1>1, <2>2, <3>1 DEF TaskType
  <2>4. [Polled EXCEPT !.task[t].generation = state.generation] = WithTask(Polled, t, x)
    <3>1. Polled.task[t] = task[t]
      BY PolledFacts DEF Flows
    <3> QED BY <2>2, <3>1 DEF WithTask
  <2>5. CallsFrom(WithTask(Polled, t, x), t, state.session, state.pending_request_id, "confirming")
    BY <1>9, <2>4
  <2>6. /\ state.session \in Sessions /\ state.pending_request_id \in Ids \cup {NoId}
        /\ "confirming" \in CallStations /\ "confirming" \in Stations /\ "confirming" \notin HeldCalls
    BY <1>1, <1>9 DEF StateType, CallStations, HeldCalls, FreeCalls, Stations
  <2>7. Goes(t, Called(x, state.session, state.pending_request_id, "confirming"))
    BY <1>1, <1>2, <2>3, <2>5, <2>6, NotedCallGoes DEF Flows
  <2>8. PICK r : r = Called(x, state.session, state.pending_request_id, "confirming")
    OBVIOUS
  <2>9. /\ r.at = "confirming" /\ r.on = state.session /\ r.id = state.pending_request_id
        /\ r.saw = task[t].saw
    BY <2>3, <2>6, <2>8, CalledType
  <2>10. task'[t] = r /\ \A u \in Tasks \ {t} : Undisturbed(u)
    BY <2>7, <2>8 DEF Goes, Turned
  <2>11. /\ ~InStart(t)' /\ ~Live(t)' /\ ~Fresh(t)' /\ ~InHand(t)' /\ (\A k : ~Posted(t, k)')
         /\ task'[t].at \notin {"cancelling", "aborting", "responding"} \cup Sending
    BY <2>9, <2>10 DEF InStart, Live, Fresh, InHand, Posted, Sending
  <2>12. Posted(t, "answer")
    BY <1>1 DEF Posted
  <2>13. /\ task[t].saw.kind = "plan" /\ task[t].saw.id = state.pending_request_id
         /\ ~state.recorder
    BY <1>1, <1>9, <2>12 DEF FlowTask, PendingIs
  <2>14. task[t].saw = [kind |-> "plan", id |-> state.pending_request_id]
    <3>1. task[t].saw \in Dialogs
      BY <1>1, TaskFields
    <3> QED BY <2>13, <3>1 DEF Dialogs, Nothing
  <2>15. FlowTask(t)'
    BY <1>3, <2>9, <2>10, <2>11, <2>13, <2>14 DEF FlowTask
  <2>16. ASSUME NEW v \in Tasks PROVE FlowPair(t, v)'
    <3>1. task'[v].at \in Sending => task'[v].id # state.pending_request_id
      <4>1. CASE v = t
        BY <2>11, <4>1
      <4>2. CASE v # t
        <5>1. Undisturbed(v) /\ FlowPair(t, v)
          BY <1>1, <2>10, <4>2, FlowParts DEF Flows
        <5> QED BY <1>9, <2>12, <5>1 DEF FlowPair, InHand, Undisturbed
      <4> QED BY <4>1, <4>2
    <3> QED BY <2>9, <2>10, <2>11, <3>1 DEF FlowPair
  <2>17. ASSUME NEW v \in Tasks PROVE FlowPair(v, t)'
    BY <2>11 DEF FlowPair
  <2>18. \A u \in Tasks \ {t} : InStart(u)' /\ app'.input_pending => app.input_pending
    BY <1>7, <1>9
  <2> QED BY <1>2, <1>4, <2>1, <2>6, <2>7, <2>8, <2>9, <2>15, <2>16, <2>17, <2>18, MoverTurn
          DEF LivesStay
<1> QED BY <1>3, <1>6, <1>8, <1>9 DEF AnswerStarts

(* A confirmation was answered. *)
LEMMA FlowConfirmed ==
    ASSUME NEW t, Flows(t), Aside, Confirmed(t)
    PROVE  FlowKept
<1>1. /\ task[t].at = "confirming" /\ t \in Tasks /\ FlowState /\ FlowTask(t) /\ app \in AppType
      /\ state \in StateType
  BY FlowTaken DEF Confirmed
<1>2. IInv /\ parked' = parked /\ life' = life /\ Ends(t)
  BY DEF Flows, Aside, Confirmed
<1>3. CASE UNCHANGED <<state, app>>
  BY <1>1, <1>2, <1>3, SameCalm, EndKeeps
<1>4. CASE /\ state.pending_request_id = task[t].id /\ app' = Idle(app)
           /\ state' = [state EXCEPT !.pending_request_id = NoId]
  <2>1. ~state.recorder
    BY <1>1, <1>4 DEF FlowTask, FlowState
  <2>2. CalmState
    BY <1>1, <1>2, <1>4, <2>1, StatesCalm
  <2>3. state'.pending_request_id = NoId
    BY <1>1, <1>4 DEF StateType
  <2>4. app'.dialog = app.dialog /\ app'.input_pending = app.input_pending
    BY <1>1, <1>4, AppFields
  <2>5. CalmApp /\ FlowState'
    BY <1>1, <2>2, <2>3, <2>4, ClearedApp, CalmStateKeeps
  <2> QED BY <1>2, <2>2, <2>4, <2>5, EndKeeps, <1>4
<1> QED BY <1>3, <1>4 DEF Confirmed, StillConfirming, IsPending

(* No decision is answered in a run without decisions. *)
LEMMA FlowDecisionSent ==
    ASSUME NEW t, Flows(t), DecisionSent(t)
    PROVE  FALSE
<1>1. task[t].at = "responding" /\ FlowTask(t)
  BY FlowTaken DEF DecisionSent
<1> QED BY <1>1 DEF FlowTask

\* The fields of a request are cleared.
Cleared ==
    /\ state'.recorder = FALSE /\ state'.recording_request_id = NoId
    /\ state'.pending_request_id = NoId /\ state'.pending_decision = NoId

(* What is left of the fields when the session comes or goes. *)
LEMMA SessionFields ==
    ASSUME state \in StateType, NEW s \in Sessions \cup {NoSession},
           \/ state' = [ClearedRequest(state) EXCEPT !.generation = @ + 1, !.session = s]
           \/ state' = [ClearedRequest(state) EXCEPT !.session = s]
    PROVE  Cleared /\ state'.session = s
<1>1. PICK c \in StateType : /\ c = ClearedRequest(state) /\ c.recorder = FALSE
                             /\ c.recording_request_id = NoId /\ c.pending_request_id = NoId
                             /\ c.pending_decision = NoId
  BY ClearedFields
<1>2. PICK g \in Nat : g = c.generation + 1
  BY <1>1 DEF StateType
<1>3. \/ state' = [c EXCEPT !.generation = g, !.session = s]
      \/ state' = [c EXCEPT !.session = s]
  BY <1>1, <1>2
<1> QED BY <1>1, <1>3 DEF Cleared, StateType

(* A turn that clears the request and resets the window. *)
LEMMA ClearedTurn ==
    ASSUME NEW t, Flows(t), NEW r, Goes(t, r), parked' = parked, LivesStay, Cleared,
           r.at \notin CallStations, app'.dialog \in {app.dialog, Nothing},
           app'.input_pending => app.input_pending, CalmTask(t)
    PROVE  FlowKept
<1>1. CalmState /\ state'.pending_request_id = NoId
  BY DEF CalmState, Cleared
<1>2. FlowState /\ CalmApp
  BY <1>1, FlowParts, ClearedApp DEF Flows
<1>3. FlowState'
  BY <1>1, <1>2, CalmStateKeeps
<1> QED BY <1>1, <1>2, <1>3, CalmTurn

(* The user disconnects. *)
LEMMA FlowDisconnects ==
    ASSUME NEW t, Flows(t), Aside, Disconnects(t)
    PROVE  FlowKept
<1>1. /\ state \in StateType /\ app \in AppType /\ parked' = parked /\ life' = life
      /\ state.session \in Sessions \cup {NoSession} /\ EndsShuttingDown(t, state.session)
      /\ state' = [ClearedRequest(state) EXCEPT !.generation = @ + 1, !.session = NoSession]
  BY Parts DEF Flows, Aside, Disconnects, StateType
<1>2. Cleared
  BY <1>1, SessionFields
<1>3. Goes(t, NoTask)
  BY <1>1, ShutGoes DEF Flows
<1>4. task'[t] = NoTask
  BY <1>3 DEF Goes, Turned
<1>5. app'.dialog = Nothing /\ app'.input_pending = FALSE
  <2>1. PICK a \in AppType : a = ResetAndIdle(app) /\ a.dialog = Nothing /\ a.input_pending = FALSE
    BY <1>1, AppKept, AppFields
  <2>2. app' = [a EXCEPT !.remote_connected = FALSE, !.remote_scanning = FALSE]
    BY <2>1 DEF Disconnects
  <2> QED BY <2>1, <2>2 DEF AppType
<1>6. NoTask.at \notin CallStations
  BY DEF NoTask, CallStations, HeldCalls, FreeCalls
<1> QED BY <1>1, <1>2, <1>3, <1>4, <1>5, <1>6, OverCalm, ClearedTurn DEF LivesStay

(* A scan is asked for. *)
LEMMA FlowScanStarts ==
    ASSUME NEW t, Flows(t), Aside, ScanStarts(t)
    PROVE  FlowKept
<1>1. /\ task[t].kind = "scan" /\ task[t].at = "start" /\ t \in Tasks /\ task[t] \in TaskType
      /\ FlowState /\ ~AtGate(task[t]) /\ EnsuresPermission(Polled, t)
  BY FlowTaken DEF ScanStarts, AtGate, GateStations, HeldCalls
<1>2. IInv /\ OnTurn(t) /\ parked' = parked /\ life' = life /\ state' = state /\ app' = app
  BY DEF Flows, Aside, ScanStarts
<1>3. CalmState /\ CalmApp /\ FlowState'
  BY <1>1, <1>2, SameCalm
<1>4. PICK a \in {"none", "granted", "denied"} :
        Turned(t, WithAnswer(Moved(task[t], "permission"), a))
  BY <1>1, <1>2, AskTurn
<1>5. PICK r : r = WithAnswer(Moved(task[t], "permission"), a)
  OBVIOUS
<1>6. queue' = queue
  BY <1>1 DEF EnsuresPermission, Suspends
<1>7. Goes(t, r)
  BY <1>1, <1>4, <1>5, <1>6, AskGoes
<1>8. r.at = "permission" /\ r.kind = "scan"
  <2>1. "permission" \in Stations /\ a \in Answers
    BY DEF Stations, Waits, Answers
  <2>2. PICK x \in TaskType : /\ x = Moved(task[t], "permission") /\ x.at = "permission"
                              /\ x.kind = "scan"
    BY <1>1, <2>1, MovedType
  <2> QED BY <1>5, <2>1, <2>2, WithAnswerType
<1>9. task'[t] = r
  BY <1>7 DEF Goes, Turned
<1>10. CalmTask(t)
  BY <1>8, <1>9, <1>2, IdlesCalm DEF Idling, Sending, InStart
<1>11. r.at \notin CallStations
  BY <1>8 DEF CallStations, HeldCalls, FreeCalls
<1> QED BY <1>2, <1>3, <1>7, <1>10, <1>11, CalmTurn DEF LivesStay

(* No request is pending while a scan may go on. *)
LEMMA ScanIdle ==
    ASSUME NEW t, Flows(t), LiveScan(t)
    PROVE  state.pending_request_id = NoId /\ state.session = NoSession
<1>1. state.session = NoSession /\ FlowState /\ state \in StateType
  BY ScanUnconnected, FlowParts, Parts DEF Flows
<1>2. state.pending_request_id \in Ids => state.pending_request_id[1] \in Sessions
  BY DEF Ids
<1>3. NoSession \notin Sessions
  BY DEF NoSession, Sessions
<1> QED BY <1>1, <1>2, <1>3 DEF FlowState, StateType

(* A scan that may go on changes the window only, ... *)
LEMMA ScanCalm ==
    ASSUME NEW t, Flows(t), LiveScan(t), state' = state, app'.dialog = app.dialog
    PROVE  CalmState /\ CalmApp /\ FlowState'
<1>1. FlowState /\ state.pending_request_id = NoId /\ IInv
  BY ScanIdle, FlowParts DEF Flows
<1>2. CalmState
  BY <1>1, StatesCalm
<1> QED BY <1>1, <1>2, ClearedApp, CalmStateKeeps

(* ... when it gets its permission, ... *)
LEMMA FlowScanResumes ==
    ASSUME NEW t, Flows(t), Aside, ScanResumes(t)
    PROVE  FlowKept
<1>1. /\ task[t].kind = "scan" /\ task[t].at = "permission" /\ t \in Tasks
      /\ FlowState /\ app \in AppType /\ ~AtGate(task[t])
  BY FlowTaken DEF ScanResumes, AtGate, GateStations, HeldCalls
<1>2. IInv /\ parked' = parked /\ life' = life /\ state' = state
  BY DEF Flows, Aside, ScanResumes
<1>3. CASE Ends(t) /\ UNCHANGED app
  BY <1>1, <1>2, <1>3, SameCalm, EndKeeps
<1>4. CASE task[t].valid /\ Ends(t) /\ app' = Idle(app)
  BY <1>1, <1>2, <1>4, ScanCalm, AppFields, EndKeeps DEF LiveScan
<1>5. CASE /\ task[t].valid
           /\ app' = [app EXCEPT !.is_busy = TRUE, !.remote_connected = FALSE,
                                 !.remote_scanning = TRUE]
           /\ Suspends(At(Polled, t, "camera"))
  <2>1. app'.dialog = app.dialog /\ app'.input_pending = app.input_pending
    BY <1>1, <1>5 DEF AppType
  <2>2. "camera" \in Waits \ {"permission"}
    BY DEF Waits
  <2>3. LiveScan(t)
    BY <1>1, <1>5 DEF LiveScan
  <2> QED BY <1>1, <1>2, <1>5, <2>1, <2>2, <2>3, ScanCalm, WaitKeeps
<1> QED BY <1>3, <1>4, <1>5 DEF ScanResumes

(* ... and when the camera has returned. *)
LEMMA FlowScanPublished ==
    ASSUME NEW t, Flows(t), Aside, ScanPublished(t)
    PROVE  FlowKept
<1>1. /\ task[t].kind = "scan" /\ task[t].at = "camera" /\ t \in Tasks
      /\ FlowState /\ app \in AppType /\ ~AtGate(task[t])
  BY FlowTaken DEF ScanPublished, AtGate, GateStations, HeldCalls
<1>2. IInv /\ parked' = parked /\ life' = life /\ state' = state
  BY DEF Flows, Aside, ScanPublished
<1>3. CASE Ends(t) /\ UNCHANGED app
  BY <1>1, <1>2, <1>3, SameCalm, EndKeeps
<1>4. PICK a : a = [app EXCEPT !.remote_scanning = FALSE]
  OBVIOUS
<1>7. a \in AppType /\ a.dialog = app.dialog /\ a.input_pending = app.input_pending
  BY <1>1, <1>4 DEF AppType
<1>5. CASE task[t].valid /\ Ends(t) /\ app' = Idle(a)
  <2>1. app'.dialog = app.dialog /\ app'.input_pending = app.input_pending
    BY <1>5, <1>7, AppFields
  <2> QED BY <1>1, <1>2, <1>5, <2>1, ScanCalm, EndKeeps DEF LiveScan
<1>6. CASE task[t].valid /\ Suspends(At(Polled, t, "connecting")) /\ app' = a
  <2>1. "connecting" \in Waits \ {"permission"}
    BY DEF Waits
  <2>2. LiveScan(t)
    BY <1>1, <1>6 DEF LiveScan
  <2> QED BY <1>1, <1>2, <1>6, <1>7, <2>1, <2>2, ScanCalm, WaitKeeps
<1> QED BY <1>3, <1>4, <1>5, <1>6 DEF ScanPublished

(* The session is installed. *)
LEMMA FlowInstalls ==
    ASSUME NEW t, Flows(t), Aside, Installs(t)
    PROVE  FlowKept
<1>1. /\ task[t].kind = "scan" /\ task[t].at = "install" /\ t \in Tasks /\ task[t] \in TaskType
      /\ Shaped(task[t]) /\ FlowState /\ app \in AppType /\ state \in StateType
  BY FlowTaken DEF Installs
<1>2. /\ IInv /\ OnTurn(t) /\ parked' = parked /\ life' = life /\ task[t].on \in Sessions
      /\ AtGate(task[t])
  BY <1>1 DEF Flows, Aside, Shaped, AtGate, GateStations
<1>3. CASE EndsShuttingDown(t, task[t].on) /\ UNCHANGED <<state, app>>
  <2>1. Goes(t, NoTask)
    BY <1>2, <1>3, ShutGoes
  <2>2. CalmState /\ CalmApp /\ FlowState'
    BY <1>1, <1>2, <1>3, SameCalm
  <2> QED BY <1>2, <1>3, <2>1, <2>2, CalmEnd DEF LivesStay
<1>4. PICK w : w = [NewTask("events", "changed") EXCEPT
                       !.on = task[t].on, !.generation = state.generation + 1]
  OBVIOUS
<1>5. w \in TaskType /\ w.kind = "events" /\ w.at = "changed"
  <2>1. Nothing \in Dialogs /\ "none" \in Answers /\ "events" \in Kinds /\ "changed" \in Stations
    BY DEF Dialogs, Answers, Kinds, Stations
  <2>2. state.generation + 1 \in Nat /\ 0 \in Nat
    BY <1>1 DEF StateType
  <2>3. PICK x : x = NewTask("events", "changed")
    OBVIOUS
  <2>4. x \in TaskType /\ x.kind = "events" /\ x.at = "changed"
    BY <2>1, <2>2, <2>3 DEF NewTask, NoTask, TaskType
  <2>5. w = [x EXCEPT !.on = task[t].on, !.generation = state.generation + 1]
    BY <1>4, <2>3
  <2> QED BY <1>2, <2>2, <2>4, <2>5 DEF TaskType
<1>6. CASE /\ state' = [ClearedRequest(state) EXCEPT !.generation = @ + 1, !.session = task[t].on]
           /\ app' = [Idle(app) EXCEPT !.remote_connected = TRUE]
           /\ Suspends(IF event[task[t].on] = Nothing THEN [Unlock(Polled) EXCEPT !.task[t] = w]
                       ELSE [[Unlock(Polled) EXCEPT !.task[t] = w] EXCEPT !.ready = Append(@, t)])
  <2>1. Turned(t, w) /\ queue' = queue
    <3>1. \/ Suspends(WithTask(Unlock(Polled), t, w))
          \/ Suspends([WithTask(Unlock(Polled), t, w) EXCEPT !.ready = Append(@, t)])
      BY <1>6 DEF WithTask
    <3> QED BY <1>2, <1>5, <3>1, InstallTurn DEF Suspends
  <2>2. w.at # "start" /\ w.at \notin CallStations /\ w.at \notin Idling
    BY <1>5 DEF CallStations, HeldCalls, FreeCalls, Idling, Sending
  <2>3. Goes(t, w)
    BY <2>1, <2>2, RestGoes
  <2>4. task'[t] = w
    BY <2>1 DEF Turned
  <2>5. Cleared
    BY <1>1, <1>2, <1>6, SessionFields
  <2>6. app'.dialog = app.dialog /\ app'.input_pending = app.input_pending
    <3>1. PICK a : a = Idle(app)
      OBVIOUS
    <3>2. a \in AppType /\ a.dialog = app.dialog /\ a.input_pending = app.input_pending
      BY <1>1, <3>1, AppKept, AppFields
    <3>3. app' = [a EXCEPT !.remote_connected = TRUE]
      BY <1>6, <3>1
    <3> QED BY <3>2, <3>3 DEF AppType
  <2>7. CalmTask(t)
    BY <1>5, <2>2, <2>4, <2>6, IdlesCalm DEF InStart
  <2> QED BY <1>2, <2>2, <2>3, <2>5, <2>6, <2>7, ClearedTurn DEF LivesStay
<1> QED BY <1>3, <1>4, <1>6 DEF Installs

(* The handshake is over. *)
LEMMA FlowConnects ==
    ASSUME NEW t, Flows(t), UNCHANGED <<activity, parked, active, issued>>, Connects(t)
    PROVE  FlowKept
<1>1. /\ task[t].kind = "scan" /\ task[t].at = "connecting" /\ t \in Tasks /\ task[t] \in TaskType
      /\ FlowState /\ app \in AppType /\ ~AtGate(task[t]) /\ state \in StateType
  BY FlowTaken DEF Connects, AtGate, GateStations, HeldCalls
<1>2. IInv /\ OnTurn(t) /\ parked' = parked /\ state' = state
  BY DEF Flows, Connects
<1>3. CASE /\ Ends(t)
           /\ app' = IF FailureHeard(t) THEN [Idle(app) EXCEPT !.remote_connected = FALSE] ELSE app
           /\ UNCHANGED life
  <2>1. CASE ~FailureHeard(t)
    BY <1>1, <1>2, <1>3, <2>1, SameCalm, EndKeeps
  <2>2. CASE FailureHeard(t)
    <3>1. PICK a : a = Idle(app)
      OBVIOUS
    <3>2. a \in AppType /\ a.dialog = app.dialog /\ a.input_pending = app.input_pending
      BY <1>1, <3>1, AppKept, AppFields
    <3>3. app' = [a EXCEPT !.remote_connected = FALSE]
      BY <1>3, <2>2, <3>1
    <3>4. app'.dialog = app.dialog /\ app'.input_pending = app.input_pending
      BY <3>2, <3>3 DEF AppType
    <3>5. LiveScan(t)
      BY <1>1, <2>2 DEF LiveScan, FailureHeard
    <3> QED BY <1>2, <1>3, <3>4, <3>5, ScanCalm, EndKeeps
  <2> QED BY <2>1, <2>2
<1>4. ASSUME NEW s \in Sessions, life[s] = "unborn", life' = [life EXCEPT ![s] = "open"],
             UNCHANGED app, Suspends([Continues(Polled, t, "connected") EXCEPT !.task[t].on = s])
      PROVE  FlowKept
  <2>1. PICK x : x = Moved(task[t], "connected")
    OBVIOUS
  <2>2. x \in TaskType /\ x.at = "connected" /\ x.kind = "scan"
    <3>1. "connected" \in Stations
      BY DEF Stations
    <3> QED BY <1>1, <2>1, <3>1, MovedType
  <2>3. PICK w : w = OnSession(x, s)
    OBVIOUS
  <2>4. w \in TaskType /\ w.at = "connected" /\ w.kind = "scan"
    BY <2>2, <2>3 DEF OnSession, TaskType
  <2>5. Turned(t, w) /\ queue' = queue
    BY <1>1, <1>2, <1>4, <2>1, <2>3, ConnectTurn DEF Suspends
  <2>6. w.at # "start" /\ w.at \notin CallStations /\ w.at \notin Idling
    BY <2>4 DEF CallStations, HeldCalls, FreeCalls, Idling, Sending
  <2>7. Goes(t, w)
    BY <2>5, <2>6, RestGoes
  <2>8. task'[t] = w
    BY <2>5 DEF Turned
  <2>9. life \in [Sessions -> {"unborn", "open", "ended"}] /\ WindowInv
    BY <1>2, Parts DEF FieldsTyped
  <2>10. LivesStay
    BY <1>4, <2>9 DEF LivesStay
  <2>11. Usable' => Usable
    <3>1. state.session # NoSession => state.session \in Sessions /\ life[state.session] # "unborn"
      BY <1>1, <2>9 DEF WindowInv, StateType
    <3>2. state.session # NoSession => life'[state.session] = life[state.session]
      BY <1>4, <2>9, <3>1
    <3> QED BY <1>2, <3>2 DEF Usable
  <2>12. CalmState
    BY <1>1, <1>2, StatesCalm
  <2>13. CalmApp /\ FlowState'
    BY <1>1, <1>2, <1>4, <2>11, <2>12, SameCalmApp, CalmStateKeeps
  <2>14. CalmTask(t)
    BY <1>4, <2>4, <2>6, <2>8, IdlesCalm DEF InStart
  <2> QED BY <1>2, <1>4, <2>6, <2>7, <2>10, <2>12, <2>13, <2>14, CalmTurn
<1> QED BY <1>3, <1>4 DEF Connects

(* The session's events are subscribed to. *)
LEMMA FlowSubscribes ==
    ASSUME NEW t, Flows(t), UNCHANGED <<activity, parked, active, issued>>, Subscribes(t)
    PROVE  FlowKept
<1>1. /\ task[t].kind = "scan" /\ task[t].at = "connected" /\ t \in Tasks /\ Shaped(task[t])
      /\ FlowState /\ app \in AppType /\ ~AtGate(task[t])
  BY FlowTaken DEF Subscribes, AtGate, GateStations, HeldCalls
<1>2. /\ IInv /\ OnTurn(t) /\ parked' = parked /\ life' = life /\ state' = state /\ app' = app
      /\ task[t].on \in Sessions
  BY <1>1 DEF Flows, Subscribes, Shaped
<1>3. CalmState /\ CalmApp /\ FlowState'
  BY <1>1, <1>2, SameCalm
<1>4. CASE EndsShuttingDown(t, task[t].on)
  BY <1>2, <1>3, <1>4, ShutGoes, CalmEnd DEF LivesStay
<1>5. CASE Locks(t, "install")
  <2>1. "install" \in GateStations /\ "install" # "record"
    BY DEF GateStations
  <2> QED BY <1>1, <1>2, <1>3, <1>5, <2>1, LockKeeps
<1> QED BY <1>4, <1>5 DEF Subscribes

(* An event of the session is read. *)
LEMMA FlowEventRead ==
    ASSUME NEW t, Flows(t), Undecided, UNCHANGED <<activity, parked, active, issued>>, EventRead(t)
    PROVE  FlowKept
<1>1. /\ task[t].kind = "events" /\ task[t].at = "changed" /\ t \in Tasks /\ Shaped(task[t])
      /\ FlowState /\ app \in AppType /\ state \in StateType
  BY FlowTaken DEF EventRead
<1>2. /\ IInv /\ parked' = parked /\ life' = life /\ task[t].on \in Sessions
  BY <1>1 DEF Flows, EventRead, Shaped
<1>3. event[task[t].on].kind # "decision"
  BY <1>2 DEF Undecided
<1>4. CASE Ends(t) /\ UNCHANGED <<state, app>>
  BY <1>1, <1>2, <1>4, SameCalm, EndKeeps
<1>5. CASE /\ state' = [ClearedRequest(state) EXCEPT !.session = NoSession]
           /\ app' = [ResetAndIdle(app) EXCEPT !.remote_connected = FALSE]
           /\ Ends(t)
  <2>1. Cleared
    BY <1>1, <1>5, SessionFields
  <2>2. app'.dialog = Nothing /\ app'.input_pending = FALSE
    <3>1. PICK a \in AppType : a = ResetAndIdle(app) /\ a.dialog = Nothing /\ a.input_pending = FALSE
      BY <1>1, AppKept, AppFields
    <3>2. app' = [a EXCEPT !.remote_connected = FALSE]
      BY <1>5, <3>1
    <3> QED BY <3>1, <3>2 DEF AppType
  <2>3. Goes(t, NoTask) /\ NoTask.at \notin CallStations
    BY <1>2, <1>5, EndGoes DEF Flows, NoTask, CallStations, HeldCalls, FreeCalls
  <2>4. task'[t] = NoTask
    BY <2>3 DEF Goes, Turned
  <2> QED BY <1>2, <2>1, <2>2, <2>3, <2>4, OverCalm, ClearedTurn DEF LivesStay
<1> QED BY <1>3, <1>4, <1>5 DEF EventRead

(* A turn keeps the flow. *)
LEMMA FlowTurn ==
    ASSUME IInv, CallInv, FlowInv, Timely, Turn
    PROVE  FlowKept
<1>1. PICK t : t = Head(loop.ready)
  OBVIOUS
<1>2. Flows(t) /\ Undecided /\ InTime
  BY <1>1, Parts DEF Flows, OnTurn, Turn, Timely
<1>3. UNCHANGED <<activity, parked, active, issued>>
  BY DEF Turn
<1>4. CASE Connects(t) \/ Subscribes(t) \/ EventRead(t)
  BY <1>2, <1>3, <1>4, FlowConnects, FlowSubscribes, FlowEventRead
<1>5. CASE UNCHANGED <<life, event>>
  <2>1. Aside
    BY <1>3, <1>5 DEF Aside
  <2>2. CASE ToggleStarts(t) \/ ToggleResumes(t) \/ StartRecording(t) \/ RecordingBegins(t)
             \/ RecordingUndone(t) \/ CancelStarts(t) \/ CancelDone(t)
    BY <1>2, <2>1, <2>2, FlowToggleStarts, FlowToggleResumes, FlowStartRecording,
       FlowRecordingBegins, FlowRecordingUndone, FlowCancelStarts, FlowCancelDone
  <2>3. CASE TickStarts(t) \/ TickDrains(t) \/ TickSent(t) \/ Finalize(t) \/ LastChunkSent(t)
             \/ PreviewArrives(t)
    BY <1>2, <2>1, <2>3, FlowTickStarts, FlowTickDrains, FlowTickSent, FlowFinalize,
       FlowLastChunkSent, FlowPreviewArrives
  <2>4. CASE AnswerStarts(t) \/ DecisionSent(t) \/ Confirmed(t) \/ Disconnects(t)
             \/ ScanStarts(t) \/ ScanResumes(t) \/ ScanPublished(t) \/ Installs(t)
    BY <1>2, <2>1, <2>4, FlowAnswerStarts, FlowDecisionSent, FlowConfirmed, FlowDisconnects,
       FlowScanStarts, FlowScanResumes, FlowScanPublished, FlowInstalls
  <2>5. \/ ToggleStarts(t) \/ ToggleResumes(t) \/ StartRecording(t) \/ RecordingBegins(t)
        \/ RecordingUndone(t) \/ CancelStarts(t) \/ CancelDone(t)
        \/ TickStarts(t) \/ TickDrains(t) \/ TickSent(t) \/ Finalize(t) \/ LastChunkSent(t)
        \/ PreviewArrives(t)
        \/ AnswerStarts(t) \/ DecisionSent(t) \/ Confirmed(t) \/ Disconnects(t)
        \/ ScanStarts(t) \/ ScanResumes(t) \/ ScanPublished(t) \/ Installs(t)
        \/ Connects(t) \/ Subscribes(t) \/ EventRead(t)
    BY <1>1 DEF Turn
  <2> QED BY <1>4, <2>2, <2>3, <2>4, <2>5
<1> QED BY <1>1, <1>4, <1>5 DEF Turn

-----------------------------------------------------------------------------
(***************************************************************************)
(* The window, the activity and the outside.                               *)
(***************************************************************************)

(* A step beside the sessions in which all is calm. *)
LEMMA BesideKeeps ==
    ASSUME IInv, CallInv, FlowInv, Beside, NEW T, Moves(T), \A u \in T : CallAt(u)',
           app'.input_pending => app.input_pending, CalmApp,
           app'.dialog \in {app.dialog, Nothing}, \A u \in T : u \in Tasks => CalmTask(u)
    PROVE  FlowKept
<1>1. state' = state /\ life' = life /\ FlowState
  BY FlowParts DEF Beside, sessionVars
<1>2. CallInv'
  BY <1>1, MovesCalls DEF LivesStay
<1>3. CalmState /\ FlowState'
  BY <1>1, StatesCalm, CalmStateKeeps
<1>4. \A u \in Tasks \ T : CalmTask(u)
  BY UndisturbedCalm DEF Moves
<1> QED BY <1>2, <1>3, <1>4, CalmKeeps DEF FlowKept

(* A step of the window that posts no task. *)
LEMMA WeakFlows ==
    ASSUME IInv, CallInv, FlowInv, Beside, Weakened(loop'),
           app'.input_pending => app.input_pending, CalmApp,
           app'.dialog \in {app.dialog, Nothing}
    PROVE  FlowKept
<1>1. queue' = queue /\ parked' = parked
  BY DEF Beside, sessionVars
<1>2. AllInPlace'
  BY <1>1, AllPrimed DEF Weakened
<1>3. (\A u \in Tasks : Undisturbed(u)) /\ Orderly({})
  BY DEF Weakened, Undisturbed, Orderly, task
<1>4. Moves({})
  BY <1>1, <1>2, <1>3, SameGrows DEF Moves
<1> QED BY <1>4, BesideKeeps

(* What is posted is in the line, behind what was. *)
LEMMA PostMoves ==
    ASSUME IInv, CallInv, Beside, NEW t \in Tasks, NEW new, new.at = "start", Posts(t, new)
    PROVE  /\ Moves({t}) /\ CallAt(t)' /\ task'[t] = new
           /\ \A u \in Tasks : task[u].at = "start" => Before(loop'.ready, u, t)
<1>1. queue' = queue /\ parked' = parked
  BY DEF Beside, sessionVars
<1>2. Orderly({t})
  BY DEF Posts, GrowsTo, Orderly
<1>3. Moves({t})
  BY <1>1, <1>2, SameGrows DEF Moves, Posts
<1>4. CallAt(t)'
  BY DEF Posts, CallAt, CallStations, HeldCalls, FreeCalls
<1>5. \A u \in Tasks : task[u].at = "start" => Before(loop'.ready, u, t)
  BY DEF Posts, CallInv, CallAt
<1> QED BY <1>3, <1>4, <1>5 DEF Posts

(* What is asked for no request is calm when it is posted. *)
LEMMA PostedCalm ==
    ASSUME NEW t, task'[t].at = "start", task'[t].kind \notin Requests
    PROVE  CalmTask(t)
<1>1. ~InStart(t)' /\ ~Live(t)' /\ ~Fresh(t)' /\ \A k \in Requests : ~Posted(t, k)'
  BY DEF InStart, Live, Fresh, Posted
<1> QED BY <1>1 DEF CalmTask, Sending

(* A task is posted that asks for no request. *)
LEMMA PostFlows ==
    ASSUME IInv, CallInv, FlowInv, Room, Beside, NEW l, Weakened(l), NEW new \in TaskType,
           new.at = "start", new.kind \notin Requests, loop' = Spawn(l, new),
           app'.input_pending => app.input_pending, CalmApp,
           app'.dialog \in {app.dialog, Nothing}
    PROVE  FlowKept
<1>1. queue' = queue /\ parked' = parked
  BY DEF Beside, sessionVars
<1>2. PICK t \in Tasks : Posts(t, new)
  BY <1>1, SpawnPosts
<1>3. Moves({t}) /\ CallAt(t)' /\ task'[t] = new
  BY <1>2, PostMoves
<1>4. CalmTask(t)
  BY <1>3, PostedCalm
<1> QED BY <1>3, <1>4, BesideKeeps

(* A task is posted that asks for one. *)
LEMMA RequestPosted ==
    ASSUME IInv, CallInv, FlowInv, Beside, NEW t \in Tasks, NEW new, new.at = "start",
           Posts(t, new), app'.input_pending => app.input_pending, CalmApp,
           app'.dialog \in {app.dialog, Nothing},
           FlowTask(t)', \A v \in Tasks : FlowPair(t, v)' /\ FlowPair(v, t)'
    PROVE  FlowKept
<1>1. Moves({t}) /\ CallAt(t)' /\ task'[t] = new
  BY PostMoves
<1>2. state' = state /\ life' = life /\ FlowState
  BY FlowParts DEF Beside, sessionVars
<1>3. CallInv'
  BY <1>1, <1>2, MovesCalls DEF LivesStay
<1>4. CalmState /\ FlowState'
  BY <1>2, StatesCalm, CalmStateKeeps
<1>5. \A u \in Tasks \ {t} : CalmTask(u)
  BY <1>1, UndisturbedCalm DEF Moves
<1> QED BY <1>3, <1>4, <1>5, MoverKeeps DEF FlowKept

\* At its start a task is at none of the stations that matter.
AtStart(t) ==
    /\ ~InStart(t)' /\ ~Live(t)' /\ ~Fresh(t)' /\ ~InHand(t)'
    /\ task'[t].at \notin {"confirming", "cancelling", "aborting", "responding"} \cup Sending
(* A posted task is. *)
LEMMA StartsApart ==
    ASSUME NEW t, task'[t].at = "start"
    PROVE  AtStart(t)
BY DEF AtStart, InStart, Live, Fresh, InHand, Sending

(* The microphone is tapped. *)
LEMMA FlowMicrophone ==
    ASSUME IInv, CallInv, FlowInv, Room, Beside, TapMicrophone
    PROVE  FlowKept
<1>1. PICK new : new = NewTask("toggle", "start")
  OBVIOUS
<1>2. new \in TaskType /\ new.kind = "toggle" /\ new.at = "start"
  BY <1>1, NewTaskType DEF Kinds
<1>3. /\ loop' = Spawn(loop, new) /\ app' = app /\ ~app.is_busy /\ queue' = queue
      /\ parked' = parked /\ state' = state /\ life' = life
  BY <1>1 DEF TapMicrophone, MayToggle, Beside, sessionVars
<1>4. PICK t \in Tasks : Posts(t, new)
  BY <1>2, <1>3, WeakStays, SpawnPosts
<1>5. /\ Moves({t}) /\ task'[t] = new
      /\ \A u \in Tasks : task[u].at = "start" => Before(loop'.ready, u, t)
  BY <1>2, <1>4, PostMoves
<1>6. AtStart(t) /\ (\A k \in Requests \ {"toggle"} : ~Posted(t, k)')
  BY <1>2, <1>5, StartsApart DEF Posted
<1>7. CalmApp
  BY <1>3, FlowParts, SameCalm
<1>8. FlowTask(t)'
  BY <1>6 DEF FlowTask, AtStart, Requests
<1>9. ASSUME NEW v \in Tasks PROVE FlowPair(t, v)'
  BY <1>6 DEF FlowPair, AtStart, Requests
<1>10. ASSUME NEW v \in Tasks PROVE FlowPair(v, t)'
  <2>1. CASE v = t
    BY <1>9, <2>1
  <2>2. CASE v # t
    <3>1. Undisturbed(v) /\ FlowTask(v)
      BY <1>5, <2>2, FlowParts DEF Moves
    <3>2. Posted(v, "cancel")' => Before(loop'.ready, v, t)
      BY <1>5, <3>1 DEF Posted, Undisturbed
    <3>3. ~(InHand(v)' /\ app'.remote_connected)
      BY <1>3, <3>1 DEF InHand, Undisturbed, FlowTask
    <3> QED BY <1>6, <3>2, <3>3 DEF FlowPair, AtStart
  <2> QED BY <2>1, <2>2
<1> QED BY <1>2, <1>3, <1>4, <1>7, <1>8, <1>9, <1>10, RequestPosted

(* A button of the dialog is tapped. *)
LEMMA FlowDialog ==
    ASSUME IInv, CallInv, FlowInv, Room, Beside, TapDialog
    PROVE  FlowKept
<1>1. PICK x : x = NewTask("answer", "start")
  OBVIOUS
<1>2. x \in TaskType /\ x.kind = "answer" /\ x.at = "start"
  BY <1>1, NewTaskType DEF Kinds
<1>3. PICK new : new = [x EXCEPT !.saw = app.dialog]
  OBVIOUS
<1>4. app.dialog \in Dialogs
  BY Parts DEF AppType
<1>5. new \in TaskType /\ new.kind = "answer" /\ new.at = "start" /\ new.saw = app.dialog
  BY <1>2, <1>3, <1>4 DEF TaskType
<1>6. /\ loop' = Spawn(loop, new) /\ app' = app /\ app.dialog # Nothing /\ queue' = queue
      /\ parked' = parked /\ state' = state /\ life' = life
  BY <1>1, <1>3 DEF TapDialog, Beside, sessionVars
<1>7. PICK t \in Tasks : Posts(t, new)
  BY <1>5, <1>6, WeakStays, SpawnPosts
<1>8. Moves({t}) /\ task'[t] = new
  BY <1>5, <1>7, PostMoves
<1>9. AtStart(t) /\ (\A k \in Requests \ {"answer"} : ~Posted(t, k)')
  BY <1>5, <1>8, StartsApart DEF Posted
<1>10. CalmApp
  BY <1>6, FlowParts, SameCalm
<1>11. FlowTask(t)'
  <2>1. FlowState
    BY FlowParts
  <2> QED BY <1>5, <1>6, <1>8, <1>9, <2>1 DEF FlowTask, AtStart, FlowState, PendingIs
<1>12. ASSUME NEW v \in Tasks PROVE ~InHand(v)' /\ ~Live(v)'
  <2>1. CASE v = t
    BY <1>9, <2>1 DEF AtStart
  <2>2. CASE v # t
    <3>1. Undisturbed(v) /\ FlowTask(v)
      BY <1>8, <2>2, FlowParts DEF Moves
    <3> QED BY <1>6, <3>1 DEF FlowTask, InHand, Live, InStart, Undisturbed
  <2> QED BY <2>1, <2>2
<1>13. ASSUME NEW v \in Tasks PROVE FlowPair(t, v)'
  BY <1>9, <1>12 DEF FlowPair, AtStart, Requests
<1>14. ASSUME NEW v \in Tasks PROVE FlowPair(v, t)'
  BY <1>9, <1>12 DEF FlowPair, AtStart, Requests
<1> QED BY <1>5, <1>6, <1>7, <1>10, <1>11, <1>13, <1>14, RequestPosted

(* A cancel is posted: the window is busy, and no start is pending. *)
LEMMA FlowCancels ==
    ASSUME IInv, CallInv, FlowInv, Room, Beside, NEW l, Weakened(l), NEW a \in AppType,
           a.remote_connected = app.remote_connected, a.dialog = app.dialog, CancelsRequest(l, a)
    PROVE  FlowKept
<1>1. PICK m : m = Outdated(l, "toggle")
  OBVIOUS
<1>2. Weakened(m)
  BY <1>1, WeakLoses
<1>3. PICK new : new = NewTask("cancel", "start")
  OBVIOUS
<1>4. new \in TaskType /\ new.kind = "cancel" /\ new.at = "start"
  BY <1>3, NewTaskType DEF Kinds
<1>5. /\ loop' = Spawn(m, new)
      /\ app' = [a EXCEPT !.input_pending = FALSE, !.voice_recording = FALSE, !.is_busy = TRUE]
  BY <1>1, <1>3 DEF CancelsRequest, Advanced
<1>6. queue' = queue /\ parked' = parked /\ state' = state /\ life' = life
  BY DEF Beside, sessionVars
<1>7. /\ app'.input_pending = FALSE /\ app'.is_busy = TRUE /\ app'.dialog = app.dialog
      /\ app'.remote_connected = app.remote_connected
  BY <1>5 DEF AppType
<1>8. PICK t \in Tasks : Posts(t, new)
  BY <1>2, <1>4, <1>5, <1>6, SpawnPosts
<1>9. task'[t] = new
  BY <1>8 DEF Posts
<1>10. AtStart(t) /\ (\A k \in Requests \ {"cancel"} : ~Posted(t, k)')
  BY <1>4, <1>9, StartsApart DEF Posted
<1>11. CalmApp
  <2>1. Usable' => Usable
    BY <1>6 DEF Usable
  <2> QED BY <1>7, <2>1, BusyCalmApp
<1>12. FlowTask(t)'
  BY <1>10 DEF FlowTask, AtStart, Requests
<1>13. Blocked' /\ \A v \in Tasks : ~Live(v)'
  BY <1>7 DEF Blocked, Live
<1>14. ASSUME NEW v \in Tasks PROVE FlowPair(t, v)'
  BY <1>10, <1>13 DEF FlowPair, AtStart, Requests
<1>15. ASSUME NEW v \in Tasks PROVE FlowPair(v, t)'
  BY <1>10, <1>13 DEF FlowPair, AtStart, Requests
<1> QED BY <1>4, <1>7, <1>8, <1>11, <1>12, <1>14, <1>15, RequestPosted

(* The user's taps keep the flow. *)
LEMMA FlowTaps ==
    ASSUME IInv, CallInv, FlowInv, Taps
    PROVE  FlowKept
<1>1. Room /\ Beside /\ app \in AppType /\ Weakened(loop) /\ FlowState
  BY Parts, WeakStays, FlowParts DEF Taps, Beside
<1>2. /\ state' = state /\ life' = life /\ (Usable' => Usable)
  BY <1>1 DEF Beside, sessionVars, Usable
<1>3. CASE TapMicrophone
  BY <1>1, <1>3, FlowMicrophone
<1>4. CASE TapCancel
  BY <1>1, <1>4, FlowCancels DEF TapCancel
<1>5. CASE TapDialog
  BY <1>1, <1>5, FlowDialog
<1>6. CASE TapDisconnect
  <2>1. PICK l : l = Outdated(loop, "scan")
    OBVIOUS
  <2>2. PICK new : new = NewTask("disconnect", "start")
    OBVIOUS
  <2>3. new \in TaskType /\ new.kind = "disconnect" /\ new.at = "start"
    BY <2>2, NewTaskType DEF Kinds
  <2>4. /\ loop' = Spawn(l, new) /\ Weakened(l)
        /\ app' = [app EXCEPT !.remote_connected = FALSE, !.input_pending = FALSE, !.is_busy = TRUE]
    BY <1>1, <1>6, <2>1, <2>2, WeakLoses DEF TapDisconnect, ScanCancelled
  <2>5. /\ app'.remote_connected = FALSE /\ app'.input_pending = FALSE /\ app'.is_busy = TRUE
        /\ app'.dialog = app.dialog
    BY <1>1, <2>4 DEF AppType
  <2>6. CalmApp
    BY <1>2, <2>5 DEF CalmApp, Blocked
  <2> QED BY <1>1, <2>3, <2>4, <2>5, <2>6, PostFlows DEF Requests
<1>7. CASE TapCancelScan
  <2>1. Weakened(loop')
    BY <1>1, <1>7, WeakLoses DEF TapCancelScan, ScanCancelled
  <2>2. PICK a : a = Idle(app)
    OBVIOUS
  <2>3. /\ a \in AppType /\ a.dialog = app.dialog /\ a.input_pending = app.input_pending
        /\ a.remote_connected = app.remote_connected
    BY <1>1, <2>2, AppKept, AppFields
  <2>4. app' = [a EXCEPT !.remote_scanning = FALSE] /\ ~app.remote_connected
    BY <1>7, <2>2 DEF TapCancelScan
  <2>5. /\ app'.dialog = app.dialog /\ app'.input_pending = app.input_pending
        /\ ~app'.remote_connected
    BY <2>3, <2>4 DEF AppType
  <2>6. CalmApp
    BY <1>2, <2>5 DEF CalmApp, Blocked
  <2> QED BY <1>1, <2>1, <2>5, <2>6, WeakFlows
<1>8. CASE TapScan
  <2>1. PICK l : l = Outdated(loop, "scan")
    OBVIOUS
  <2>2. PICK new : new = NewTask("scan", "start")
    OBVIOUS
  <2>3. new \in TaskType /\ new.kind = "scan" /\ new.at = "start"
    BY <2>2, NewTaskType DEF Kinds
  <2>4. /\ loop' = Spawn(l, new) /\ Weakened(l) /\ app' = [app EXCEPT !.is_busy = TRUE]
    BY <1>1, <1>8, <2>1, <2>2, WeakLoses DEF TapScan, ScanCancelled
  <2>5. /\ app'.remote_connected = app.remote_connected /\ app'.is_busy = TRUE
        /\ app'.dialog = app.dialog /\ app'.input_pending = app.input_pending
    BY <1>1, <2>4 DEF AppType
  <2>6. CalmApp
    BY <1>2, <2>5, BusyCalmApp
  <2> QED BY <1>1, <2>3, <2>4, <2>5, <2>6, PostFlows DEF Requests
<1> QED BY <1>3, <1>4, <1>5, <1>6, <1>7, <1>8 DEF Taps

(* The recording timer keeps the flow. *)
LEMMA FlowTick ==
    ASSUME IInv, CallInv, FlowInv, TickDue
    PROVE  FlowKept
<1>1. PICK new : new = NewTask("tick", "start")
  OBVIOUS
<1>2. new \in TaskType /\ new.kind = "tick" /\ new.at = "start"
  BY <1>1, NewTaskType DEF Kinds
<1>3. /\ Room /\ Beside /\ app' = app /\ loop' = Spawn(loop, new) /\ Weakened(loop)
      /\ state' = state /\ life' = life
  BY <1>1, WeakStays DEF TickDue, Beside, uiVars, sessionVars
<1>4. CalmApp
  BY <1>3, FlowParts, SameCalm
<1> QED BY <1>2, <1>3, <1>4, PostFlows DEF Requests

(* So does going to the background, ... *)
LEMMA FlowBackground ==
    ASSUME IInv, CallInv, FlowInv, Backgrounded, Beside
    PROVE  FlowKept
<1>1. PICK l : l = IF app.remote_connected THEN loop ELSE Outdated(loop, "scan")
  OBVIOUS
<1>2. Weakened(l)
  BY <1>1, WeakStays, WeakLoses
<1>3. PICK a : a = IF app.remote_connected THEN app ELSE [Idle(app) EXCEPT !.remote_scanning = FALSE]
  OBVIOUS
<1>4. /\ a \in AppType /\ a.remote_connected = app.remote_connected /\ a.dialog = app.dialog
      /\ a.input_pending = app.input_pending /\ (app.remote_connected => a.is_busy = app.is_busy)
  <2>1. PICK b : b = Idle(app)
    OBVIOUS
  <2>2. /\ b \in AppType /\ b.dialog = app.dialog /\ b.input_pending = app.input_pending
        /\ b.remote_connected = app.remote_connected /\ app \in AppType
    BY <2>1, Parts, AppKept, AppFields
  <2>3. CASE a = [b EXCEPT !.remote_scanning = FALSE] /\ ~app.remote_connected
    BY <2>2, <2>3 DEF AppType
  <2> QED BY <1>3, <2>1, <2>2, <2>3
<1>5. CASE Room /\ CancelsRequest(l, a)
  BY <1>2, <1>4, <1>5, FlowCancels
<1>6. CASE loop' = l /\ app' = a
  <2>1. Usable' => Usable
    BY DEF Beside, sessionVars, Usable
  <2>2. state' = state
    BY DEF Beside
  <2>3. CalmApp
    BY <1>4, <1>6, <2>1, <2>2 DEF CalmApp, Blocked
  <2> QED BY <1>2, <1>4, <1>6, <2>3, WeakFlows
<1> QED BY <1>1, <1>3, <1>5, <1>6 DEF Backgrounded, ScanCancelled

(* ... and the life cycle of the activity. *)
LEMMA FlowLifeCycle ==
    ASSUME IInv, CallInv, FlowInv, Pause \/ Stop \/ Resume
    PROVE  FlowKept
<1>1. Beside
  BY DEF Pause, Stop, Resume, Beside
<1>2. CASE Backgrounded
  BY <1>1, <1>2, FlowBackground
<1>3. CASE UNCHANGED <<loop, app>>
  <2>1. app' = app /\ loop' = loop /\ state' = state /\ life' = life
    BY <1>1, <1>3 DEF Beside, sessionVars
  <2>2. Weakened(loop')
    BY <2>1, WeakStays
  <2>3. CalmApp
    BY <2>1, FlowParts, SameCalm
  <2> QED BY <1>1, <2>1, <2>2, <2>3, WeakFlows
<1> QED BY <1>2, <1>3 DEF Pause, Stop, Resume

(* The callbacks keep the flow. *)
LEMMA FlowCallbacks ==
    ASSUME IInv, CallInv, FlowInv, Callbacks
    PROVE  FlowKept
BY FlowTaps, FlowTick, FlowLifeCycle DEF Callbacks

(* What comes from outside keeps the flow. *)
LEMMA FlowOutside ==
    ASSUME IInv, CallInv, FlowInv, NEW t \in Tasks,
           PermissionPolled(t) \/ CameraReturns(t) \/ HandshakeEnds(t)
    PROVE  FlowKept
<1>1. UNCHANGED <<uiVars, queue, sessionVars>> /\ task[t].at \in Waits
  BY DEF PermissionPolled, CameraReturns, HandshakeEnds, DialogTasks, Waits
<1>2. /\ Beside /\ app' = app /\ state' = state /\ life' = life /\ queue' = queue
      /\ parked' = parked /\ task \in [Tasks -> TaskType]
  BY <1>1, Parts DEF Beside, uiVars, sessionVars
<1>3. PICK r \in TaskType :
        /\ InPlace(loop', queue', parked', {}) /\ GrowsTo(loop.ready, loop'.ready)
        /\ loop'.task = [task EXCEPT ![t] = r]
        /\ \/ r = NoTask
           \/ /\ r.kind = task[t].kind /\ r.at = task[t].at /\ r.on = task[t].on
              /\ r.id = task[t].id /\ r.valid = task[t].valid
              /\ r.generation = task[t].generation
  BY OutsideMoves
<1>4. task'[t] = r /\ \A u \in Tasks \ {t} : Undisturbed(u)
  <2>1. task' = [task EXCEPT ![t] = r]
    BY <1>3 DEF task
  <2> QED BY <1>2, <2>1 DEF Undisturbed
<1>5. Moves({t})
  <2>1. Orderly({t})
    BY <1>3 DEF GrowsTo, Orderly
  <2>2. AllInPlace'
    BY <1>3, AllPrimed
  <2> QED BY <1>2, <1>4, <2>1, <2>2, SameGrows DEF Moves
<1>6. r.at \in Waits \cup {"none"}
  BY <1>1, <1>3 DEF NoTask
<1>7. r.at \notin Idling /\ r.at \notin CallStations /\ r.at # "start"
  BY <1>6 DEF Waits, Idling, Sending, CallStations, HeldCalls, FreeCalls
<1>8. CallAt(t)'
  BY <1>4, <1>7 DEF CallAt
<1>9. InStart(t)' => InStart(t)
  <2>1. CASE r = NoTask
    BY <1>4, <2>1 DEF InStart, NoTask
  <2>2. CASE r.kind = task[t].kind /\ r.at = task[t].at /\ r.valid = task[t].valid
    BY <1>4, <2>2 DEF InStart
  <2> QED BY <1>3, <2>1, <2>2
<1>10. CalmTask(t)
  BY <1>2, <1>4, <1>7, <1>9, IdlesCalm
<1>11. CalmApp
  BY <1>2, FlowParts, SameCalm
<1> QED BY <1>2, <1>5, <1>8, <1>10, <1>11, BesideKeeps

-----------------------------------------------------------------------------
(***************************************************************************)
(* The sessions answer their callers.                                      *)
(***************************************************************************)

\* Task r2 is r1, of loop m and l, but for its answer, with which it joined the line.
Joins(l, m, u) ==
    /\ m.task[u].kind = l.task[u].kind /\ m.task[u].at = l.task[u].at
    /\ m.task[u].on = l.task[u].on /\ m.task[u].saw = l.task[u].saw
    /\ m.task[u].valid = l.task[u].valid /\ m.task[u].id = l.task[u].id
    /\ \/ m.task[u].answer = l.task[u].answer
       \/ /\ m.task[u].answer # "none" /\ Occurs(m.ready, u)
          /\ \A v : Occurs(l.ready, v) => Before(m.ready, v, u)
\* A loop whose tasks are only answered.
Onward(l, m) == m \in LoopType /\ GrowsTo(l.ready, m.ready) /\ \A u \in Tasks : Joins(l, m, u)

(* The second of two sequences comes after the first. *)
LEMMA ConcatBefore ==
    ASSUME NEW S, NEW s \in Seq(S), NEW r \in Seq(S), NEW x, NEW y, Occurs(s, x), Occurs(r, y)
    PROVE  Before(s \o r, x, y)
<1>1. PICK i \in 1 .. Len(s), j \in 1 .. Len(r) : s[i] = x /\ r[j] = y
  BY DEF Occurs
<1>2. PICK h : h = s \o r
  OBVIOUS
<1>3. /\ Len(s) \in Nat /\ Len(r) \in Nat /\ Len(h) = Len(s) + Len(r)
      /\ \A k \in 1 .. Len(s) + Len(r) : h[k] = IF k <= Len(s) THEN s[k] ELSE r[k - Len(s)]
  BY <1>2, ConcatProperties
<1>4. i \in 1 .. Len(h) /\ h[i] = x
  BY <1>1, <1>3
<1>5. j + Len(s) \in 1 .. Len(h) /\ h[j + Len(s)] = y /\ i < j + Len(s)
  <2>1. j + Len(s) \in 1 .. Len(s) + Len(r) /\ ~(j + Len(s) <= Len(s)) /\ j + Len(s) - Len(s) = j
    BY <1>1, <1>3
  <2> QED BY <1>1, <1>3, <2>1
<1> QED BY <1>2, <1>4, <1>5 DEF Before

(* One task is woken. *)
LEMMA WakeOnward ==
    ASSUME NEW l \in LoopType, NEW t \in Tasks, NEW a \in Answers, a # "none"
    PROVE  /\ Onward(l, Wake(l, t, a)) /\ Wake(l, t, a).task[t].answer = a
           /\ \A u \in Tasks \ {t} : Wake(l, t, a).task[u] = l.task[u]
           /\ \A v : Occurs(l.ready, v) => Before(Wake(l, t, a).ready, v, t)
<1>1. l.task \in [Tasks -> TaskType] /\ l.ready \in Seq(Tasks)
  BY LoopFields
<1>2. PICK r : r = WithAnswer(l.task[t], a)
  OBVIOUS
<1>3. /\ r \in TaskType /\ r.answer = a /\ r.kind = l.task[t].kind /\ r.at = l.task[t].at
      /\ r.on = l.task[t].on /\ r.id = l.task[t].id /\ r.valid = l.task[t].valid
      /\ r.saw = l.task[t].saw
  BY <1>1, <1>2, WithAnswerType
<1>4. PICK m : m = Wake(l, t, a)
  OBVIOUS
<1>5. m = [l EXCEPT !.task = [l.task EXCEPT ![t] = r], !.ready = Append(l.ready, t)]
  BY <1>1, <1>2, <1>4 DEF Wake, WithAnswer, LoopType
<1>6. /\ Append(l.ready, t) \in Seq(Tasks)
      /\ \A y : Occurs(Append(l.ready, t), y) <=> Occurs(l.ready, y) \/ y = t
      /\ \A y, z : Before(l.ready, y, z) => Before(Append(l.ready, t), y, z)
      /\ \A y : Occurs(l.ready, y) => Before(Append(l.ready, t), y, t)
  BY <1>1, AppendOccurs
<1>7. /\ m \in LoopType /\ m.task = [l.task EXCEPT ![t] = r] /\ m.ready = Append(l.ready, t)
  BY <1>1, <1>3, <1>5, <1>6 DEF LoopType
<1>8. GrowsTo(l.ready, m.ready) /\ Occurs(m.ready, t)
      /\ \A v : Occurs(l.ready, v) => Before(m.ready, v, t)
  BY <1>6, <1>7 DEF GrowsTo
<1>9. m.task[t] = r /\ \A u \in Tasks \ {t} : m.task[u] = l.task[u]
  BY <1>1, <1>7
<1>10. Joins(l, m, t)
  BY <1>3, <1>8, <1>9 DEF Joins
<1>11. \A u \in Tasks \ {t} : Joins(l, m, u)
  BY <1>9 DEF Joins
<1> QED BY <1>3, <1>4, <1>7, <1>8, <1>9, <1>10, <1>11 DEF Onward

(* Several tasks are woken. *)
LEMMA WokenOnward ==
    ASSUME NEW l \in LoopType, NEW ts \in Seq(Tasks), NEW a \in Answers, a # "none"
    PROVE  /\ Onward(l, Woken(l, ts, a))
           /\ \A u \in Tasks : Woken(l, ts, a).task[u].answer =
                IF Occurs(ts, u) THEN a ELSE l.task[u].answer
<1>1. l.task \in [Tasks -> TaskType] /\ l.ready \in Seq(Tasks)
  BY LoopFields
<1>2. PICK m : m = Woken(l, ts, a)
  OBVIOUS
<1>3. /\ m \in LoopType /\ m.ready = l.ready \o ts
      /\ \A u \in Tasks : m.task[u] = IF Occurs(ts, u) THEN WithAnswer(l.task[u], a) ELSE l.task[u]
  BY <1>2, WokenSets
<1>4. /\ \A y : Occurs(m.ready, y) <=> Occurs(l.ready, y) \/ Occurs(ts, y)
      /\ \A y, z : Before(l.ready, y, z) => Before(m.ready, y, z)
  BY <1>1, <1>3, ConcatOccurs
<1>5. \A u, v : Occurs(l.ready, v) /\ Occurs(ts, u) => Before(m.ready, v, u)
  BY <1>1, <1>3, ConcatBefore
<1>6. ASSUME NEW u \in Tasks
      PROVE  Joins(l, m, u) /\ m.task[u].answer = IF Occurs(ts, u) THEN a ELSE l.task[u].answer
  <2>1. CASE Occurs(ts, u)
    <3>1. PICK r : r = WithAnswer(l.task[u], a)
      OBVIOUS
    <3>2. /\ r.answer = a /\ r.kind = l.task[u].kind /\ r.at = l.task[u].at
          /\ r.on = l.task[u].on /\ r.id = l.task[u].id /\ r.valid = l.task[u].valid
          /\ r.saw = l.task[u].saw
      BY <1>1, <3>1, WithAnswerType
    <3> QED BY <1>3, <1>4, <1>5, <2>1, <3>1, <3>2 DEF Joins
  <2>2. CASE ~Occurs(ts, u)
    BY <1>3, <2>2 DEF Joins
  <2> QED BY <2>1, <2>2
<1> QED BY <1>2, <1>3, <1>4, <1>6 DEF Onward, GrowsTo

(* A reader of events joins the line: the tasks are as they were. *)
LEMMA WatchOnward ==
    ASSUME NEW l \in LoopType, NEW w \in Seq(Tasks), NEW m, m = [l EXCEPT !.ready = @ \o w]
    PROVE  Onward(l, m) /\ m.task = l.task
<1>1. l.ready \in Seq(Tasks) /\ l.ready \o w \in Seq(Tasks)
  BY LoopFields, ConcatOccurs
<1>2. m \in LoopType /\ m.ready = l.ready \o w /\ m.task = l.task
  BY <1>1 DEF LoopType
<1>3. GrowsTo(l.ready, m.ready)
  BY <1>1, <1>2, ConcatOccurs DEF GrowsTo
<1> QED BY <1>2, <1>3 DEF Onward, Joins

(* One such step after another. *)
LEMMA OnwardTrans ==
    ASSUME NEW l, NEW m, NEW n, Onward(l, m), Onward(m, n)
    PROVE  Onward(l, n)
<1>1. n \in LoopType /\ GrowsTo(l.ready, n.ready)
  BY DEF Onward, GrowsTo
<1>2. ASSUME NEW u \in Tasks PROVE Joins(l, n, u)
  <2>1. Joins(l, m, u) /\ Joins(m, n, u)
    BY DEF Onward
  <2>2. GrowsTo(l.ready, m.ready) /\ GrowsTo(m.ready, n.ready)
    BY DEF Onward
  <2> QED BY <2>1, <2>2 DEF Joins, GrowsTo
<1> QED BY <1>1, <1>2 DEF Onward

\* A task that is not answered keeps its place in its session.
StaysPut(u) ==
    task[u].at \in CallStations /\ task'[u].answer = "none" =>
        /\ life'[task[u].on] = life[task[u].on]
        /\ u \in parked => u \in parked'
        /\ Occurs(queue[task[u].on], u) => u \in parked' \/ Occurs(queue'[task[u].on], u)
        /\ task[u].at = "cancelling" =>
             \A s \in Sessions, v \in Tasks : Before(queue[s], u, v) => Before(queue'[s], u, v)

(* What a session does to a task, as long as it begins no upload of it, is calm. *)
LEMMA HeardCalm ==
    ASSUME IInv, CallInv, NEW u \in Tasks, Joins(loop, loop', u), GrowsTo(loop.ready, loop'.ready),
           StaysPut(u), app' = app, Fresh(u)' => Fresh(u)
    PROVE  CalmTask(u) /\ CallAt(u)'
<1>1. /\ task'[u].kind = task[u].kind /\ task'[u].at = task[u].at /\ task'[u].on = task[u].on
      /\ task'[u].saw = task[u].saw /\ task'[u].valid = task[u].valid /\ task'[u].id = task[u].id
      /\ \/ task'[u].answer = task[u].answer
         \/ /\ task'[u].answer # "none" /\ Occurs(loop'.ready, u)
            /\ \A v : Occurs(loop.ready, v) => Before(loop'.ready, v, u)
  BY DEF Joins, task
<1>2. /\ InStart(u)' => InStart(u)
      /\ Live(u)' => Live(u)
      /\ \A k : Posted(u, k)' => Posted(u, k)
  BY <1>1 DEF InStart, Live, Posted
<1>3. \A v \in Tasks : Before(loop.ready, u, v) => Before(loop'.ready, u, v)
  BY DEF GrowsTo
<1>4. CallAt(u) /\ \A v \in Tasks : CallAt(v)
  BY DEF CallInv
<1>5. task'[u].at \in Sending /\ task'[u].answer # "none" =>
        \/ task[u].answer # "none"
        \/ \A v \in Tasks : Posted(v, "toggle") => Before(loop'.ready, v, u)
  <2>1. \A v \in Tasks : Posted(v, "toggle") => Occurs(loop.ready, v)
    BY <1>4 DEF CallAt, Posted
  <2> QED BY <1>1, <2>1
<1>6. CalmTask(u)
  <2>1. task'[u].at = "cancelling" => task'[u].at \in CallStations
    BY DEF CallStations, FreeCalls
  <2>2. task'[u].at = "cancelling" /\ task'[u].answer = "none" =>
          \A s \in Sessions, v \in Tasks : Before(queue[s], u, v) => Before(queue'[s], u, v)
    BY <1>1, <2>1 DEF StaysPut
  <2> QED BY <1>1, <1>2, <1>3, <1>5, <2>2 DEF CalmTask
<1>7. CallAt(u)'
  BY <1>1, <1>4 DEF CallAt, StaysPut, GrowsTo
<1> QED BY <1>6, <1>7

(* The window and the fields, in a step that opens no session. *)
LEMMA HeardApp ==
    ASSUME IInv, FlowState, state' = state, app' = app,
           \A s \in Sessions : life'[s] = "open" => life[s] = "open"
    PROVE  CalmState /\ CalmApp /\ FlowState'
<1>1. CalmState /\ FlowState'
  BY StatesCalm, CalmStateKeeps
<1>2. state.session # NoSession => state.session \in Sessions
  BY Parts DEF FieldsTyped, StateType
<1>3. Usable' => Usable
  BY <1>2 DEF Usable
<1>4. Blocked => Blocked'
  BY <1>3 DEF Blocked
<1> QED BY <1>1, <1>3, <1>4 DEF CalmApp

(* A step in which sessions only answer keeps the flow. *)
LEMMA HeardFlows ==
    ASSUME IInv, CallInv, FlowInv, state' = state, app' = app, Onward(loop, loop'),
           \A s \in Sessions : life'[s] = "open" => life[s] = "open",
           \A u \in Tasks : StaysPut(u) /\ (Fresh(u)' => Fresh(u))
    PROVE  FlowKept
<1>1. GrowsTo(loop.ready, loop'.ready) /\ \A u \in Tasks : Joins(loop, loop', u)
  BY DEF Onward
<1>2. \A u \in Tasks : CalmTask(u) /\ CallAt(u)'
  BY <1>1, HeardCalm
<1>3. CalmState /\ CalmApp /\ FlowState'
  BY FlowParts, HeardApp
<1>4. CallInv'
  BY <1>2 DEF CallInv
<1> QED BY <1>2, <1>3, <1>4, CalmKeeps DEF FlowKept

(* A queue without its head. *)
LEMMA TailStays ==
    ASSUME NEW S, NEW q \in Seq(S), q # <<>>, NEW u, u # q[1]
    PROVE  /\ Occurs(q, u) => Occurs(Tail(q), u)
           /\ \A v : Before(q, u, v) => Before(Tail(q), u, v)
<1>1. PICK n \in Nat : n = Len(q) /\ n # 0
  BY EmptySeq
<1>2. /\ Len(Tail(q)) = n - 1 /\ \A i \in 1 .. n - 1 : Tail(q)[i] = q[i + 1]
  BY <1>1, HeadTailProperties
<1>3. \A i \in 1 .. n : i # 1 => i - 1 \in 1 .. n - 1 /\ (i - 1) + 1 = i
  OBVIOUS
<1>4. Occurs(q, u) => Occurs(Tail(q), u)
  BY <1>1, <1>2, <1>3 DEF Occurs
<1>5. ASSUME NEW v, Before(q, u, v) PROVE Before(Tail(q), u, v)
  <2>1. PICK i \in 1 .. n, j \in 1 .. n : i < j /\ q[i] = u /\ q[j] = v
    BY <1>1, <1>5 DEF Before
  <2>2. i # 1 /\ j # 1 /\ i - 1 < j - 1
    BY <2>1
  <2>3. Tail(q)[i - 1] = u /\ Tail(q)[j - 1] = v /\ i - 1 \in 1 .. n - 1 /\ j - 1 \in 1 .. n - 1
    BY <1>2, <1>3, <2>1, <2>2
  <2> QED BY <1>2, <2>2, <2>3 DEF Before
<1> QED BY <1>4, <1>5

\* A session takes its next command, that of t.
TakesCommand(s, t) ==
    /\ queue[s] # <<>> /\ Head(queue[s]) # Shutdown /\ t = Head(queue[s])
    /\ queue' = [queue EXCEPT ![s] = Tail(@)]
    /\ life[s] = "open" /\ life' = life /\ state' = state /\ app' = app

(* The tasks behind a command that is taken keep their places. *)
LEMMA CommandStays ==
    ASSUME IInv, NEW s \in Sessions, NEW t, TakesCommand(s, t), NEW u \in Tasks \ {t},
           u \in parked /\ task'[u].answer = "none" => u \in parked'
    PROVE  StaysPut(u)
<1>1. queue \in [Sessions -> Seq(Tasks \cup {Shutdown})]
  BY LoopTyped DEF IInv
<1>2. PICK q \in Seq(Tasks \cup {Shutdown}) : q = queue[s]
  BY <1>1
<1>3. q # <<>> /\ u # q[1] /\ queue'[s] = Tail(q) /\ \A z \in Sessions \ {s} : queue'[z] = queue[z]
  BY <1>1, <1>2, HeadOccurs DEF TakesCommand
<1>4. /\ Occurs(q, u) => Occurs(Tail(q), u)
      /\ \A v : Before(q, u, v) => Before(Tail(q), u, v)
  BY <1>3, TailStays
<1>5. \A z \in Sessions : /\ Occurs(queue[z], u) => Occurs(queue'[z], u)
                          /\ \A v \in Tasks : Before(queue[z], u, v) => Before(queue'[z], u, v)
  <2> TAKE z \in Sessions
  <2>1. CASE z = s
    BY <1>2, <1>3, <1>4, <2>1
  <2>2. CASE z # s
    BY <1>3, <2>2
  <2> QED BY <2>1, <2>2
<1>6. task[u].at \in CallStations => task[u].on \in Sessions
  BY Parts DEF Shaped, CallStations, HeldCalls, FreeCalls
<1> QED BY <1>5, <1>6 DEF StaysPut, TakesCommand

(* A command that is taken is answered or kept. *)
LEMMA TakenStays ==
    ASSUME IInv, NEW s \in Sessions, NEW t, TakesCommand(s, t),
           \/ task'[t].answer # "none"
           \/ t \in parked' /\ task[t].at \in {"finishing", "confirming"}
    PROVE  StaysPut(t)
BY DEF StaysPut, TakesCommand

(* A step of a session that takes a command keeps the flow, but for an upload. *)
LEMMA CommandFlows ==
    ASSUME IInv, CallInv, FlowInv, NEW s \in Sessions, NEW t, TakesCommand(s, t),
           Onward(loop, loop'), StaysPut(t),
           \A u \in Tasks \ {t} : /\ u \in parked /\ task'[u].answer = "none" => u \in parked'
                                  /\ Fresh(u)' => Fresh(u),
           Fresh(t)' => Fresh(t)
    PROVE  FlowKept
<1>1. \A u \in Tasks : StaysPut(u)
  BY CommandStays
<1> QED BY <1>1, HeardFlows DEF TakesCommand

(* A command is answered at once. *)
LEMMA FlowAnswered ==
    ASSUME IInv, CallInv, FlowInv, NEW s \in Sessions, NEW t, TakesCommand(s, t),
           NEW a \in {"ok", "error"}, loop' = Wake(loop, t, a), a = "ok" => task[t].at # "begin",
           parked' = parked
    PROVE  FlowKept
<1>1. t \in Tasks /\ loop \in LoopType /\ a \in Answers /\ a # "none"
  BY CommandTaken, Parts, LoopTyped DEF Answers, TakesCommand
<1>2. /\ Onward(loop, loop') /\ task'[t].answer = a
      /\ \A u \in Tasks \ {t} : task'[u] = task[u]
  BY <1>1, WakeOnward DEF task
<1>3. task'[t].at = task[t].at
  BY <1>1, <1>2 DEF Onward, Joins, task
<1>4. \A u \in Tasks \ {t} : Fresh(u)' => Fresh(u)
  BY <1>2 DEF Fresh
<1>5. Fresh(t)' => Fresh(t)
  BY <1>2, <1>3 DEF Fresh
<1>6. StaysPut(t)
  BY <1>1, <1>2, TakenStays
<1> QED BY <1>2, <1>4, <1>5, <1>6, CommandFlows

(* A command is kept. *)
LEMMA FlowKeeps ==
    ASSUME IInv, CallInv, FlowInv, NEW s \in Sessions, NEW t, TakesCommand(s, t),
           task[t].at \in {"finishing", "confirming"}, parked' = parked \cup {t}, loop' = loop
    PROVE  FlowKept
<1>1. t \in Tasks /\ loop \in LoopType
  BY CommandTaken, Parts, LoopTyped DEF TakesCommand
<1>2. Onward(loop, loop')
  BY <1>1 DEF Onward, Joins, GrowsTo
<1>3. StaysPut(t) /\ \A u \in Tasks : Fresh(u)' => Fresh(u)
  BY <1>1, TakenStays DEF Fresh, task
<1> QED BY <1>1, <1>2, <1>3, CommandFlows

(* The replies about some requests are given, and then the command's. *)
LEMMA CancelTold ==
    ASSUME IInv, NEW s \in Sessions, NEW t, TakesCommand(s, t), NEW ids,
           loop' = Wake(Woken(loop, Kept(s, ids), "cancelled"), t, "ok"),
           parked' = parked \ ToSet(Kept(s, ids))
    PROVE  /\ Onward(loop, loop') /\ parked' = parked \ KeptTasks(s, ids)
           /\ task'[t].answer = "ok"
           /\ \A u \in Tasks \ {t} :
                task'[u].answer = IF u \in KeptTasks(s, ids) THEN "cancelled" ELSE task[u].answer
<1>1. t \in Tasks /\ loop \in LoopType /\ parked \subseteq Tasks
  BY CommandTaken, Parts, LoopTyped DEF TakesCommand
<1>2. PICK ts : ts = Kept(s, ids)
  OBVIOUS
<1>3. /\ ts \in Seq(Tasks) /\ (\A x : Occurs(ts, x) <=> x \in KeptTasks(s, ids))
      /\ \A x : x \in ToSet(ts) <=> Occurs(ts, x)
  BY <1>1, <1>2, KeptOccurs, ToSetOccurs
<1>4. PICK a, b : a = "cancelled" /\ b = "ok" /\ a \in Answers /\ b \in Answers
  BY DEF Answers
<1>5. PICK m : m = Woken(loop, ts, a)
  OBVIOUS
<1>6. /\ Onward(loop, m)
      /\ \A u \in Tasks : m.task[u].answer = IF Occurs(ts, u) THEN a ELSE task[u].answer
  BY <1>1, <1>3, <1>4, <1>5, WokenOnward DEF task
<1>7. m \in LoopType /\ loop' = Wake(m, t, b) /\ b # "none"
  BY <1>2, <1>4, <1>5, <1>6 DEF Onward
<1>8. /\ Onward(m, loop') /\ task'[t].answer = b
      /\ \A u \in Tasks \ {t} : task'[u] = m.task[u]
  BY <1>1, <1>4, <1>7, WakeOnward DEF task
<1>9. Onward(loop, loop')
  BY <1>6, <1>8, OnwardTrans
<1>10. \A u \in Tasks \ {t} :
         task'[u].answer = IF u \in KeptTasks(s, ids) THEN "cancelled" ELSE task[u].answer
  BY <1>3, <1>4, <1>6, <1>8
<1>11. parked' = parked \ KeptTasks(s, ids)
  BY <1>2, <1>3
<1> QED BY <1>4, <1>8, <1>9, <1>10, <1>11

(* The flow goes on. *)
LEMMA FlowCancelHeard ==
    ASSUME IInv, CallInv, FlowInv, NEW s \in Sessions, NEW t, TakesCommand(s, t),
           task[t].at # "begin", NEW ids,
           loop' = Wake(Woken(loop, Kept(s, ids), "cancelled"), t, "ok"),
           parked' = parked \ ToSet(Kept(s, ids))
    PROVE  FlowKept
<1>1. t \in Tasks
  BY CommandTaken DEF TakesCommand
<1>2. /\ Onward(loop, loop') /\ parked' = parked \ KeptTasks(s, ids)
      /\ task'[t].answer = "ok"
      /\ \A u \in Tasks \ {t} :
           task'[u].answer = IF u \in KeptTasks(s, ids) THEN "cancelled" ELSE task[u].answer
  BY CancelTold
<1>3. \A u \in Tasks : task'[u].at = task[u].at
  BY <1>2 DEF Onward, Joins, task
<1>4. \A u \in Tasks \ {t} : /\ u \in parked /\ task'[u].answer = "none" => u \in parked'
                            /\ Fresh(u)' => Fresh(u)
  BY <1>2, <1>3 DEF Fresh
<1>5. (Fresh(t)' => Fresh(t)) /\ StaysPut(t)
  BY <1>1, <1>2, <1>3, TakenStays DEF Fresh
<1> QED BY <1>2, <1>4, <1>5, CommandFlows

(* No command of a queue is before its head. *)
LEMMA HeadFirst ==
    ASSUME NEW q \in Seq(Tasks \cup {Shutdown}), Once(q), q # <<>>, Head(q) # Shutdown
    PROVE  \A u : ~Before(q, u, Head(q))
<1> SUFFICES ASSUME NEW u, NEW i \in 1 .. Len(q), NEW j \in 1 .. Len(q), i < j, q[j] = Head(q)
             PROVE  FALSE
  BY DEF Before
<1>1. 1 \in 1 .. Len(q) /\ Head(q) = q[1]
  BY EmptySeq
<1>2. j = 1
  BY <1>1 DEF Once
<1>3. i \in Nat /\ i >= 1
  OBVIOUS
<1> QED BY <1>2, <1>3

(* The caller is told the id of its upload. *)
LEMMA UploadTold ==
    ASSUME IInv, NEW s \in Sessions, NEW t, TakesCommand(s, t), task[t].at = "begin",
           NEW id \in Ids, NEW m, m = [loop EXCEPT !.task[t].id = id], loop' = Wake(m, t, "ok")
    PROVE  /\ t \in Tasks /\ task[t].on = s /\ Occurs(queue[s], t)
           /\ task'[t].kind = task[t].kind /\ task'[t].at = "begin" /\ task'[t].on = s
           /\ task'[t].valid = task[t].valid /\ task'[t].id = id /\ task'[t].answer = "ok"
           /\ \A u \in Tasks \ {t} : task'[u] = task[u]
<1>1. /\ t \in Tasks /\ task[t].on = s /\ Occurs(queue[s], t)
      /\ InPlace(loop, [queue EXCEPT ![s] = Tail(@)], parked, {t}) /\ Steady(loop, t)
  <2>1. /\ t \in Tasks /\ task[t].on = s /\ (AtGate(task[t]) <=> Occurs(loop.gate, t))
        /\ InPlace(loop, [queue EXCEPT ![s] = Tail(@)], parked, {t})
    BY CommandTaken DEF TakesCommand
  <2>2. queue[s] \in Seq(Tasks \cup {Shutdown})
    BY Parts, LoopTyped
  <2>3. Occurs(queue[s], t)
    BY <2>2, HeadOccurs DEF TakesCommand
  <2> QED BY <2>1, <2>3 DEF Steady, task
<1>2. PICK q : q = [queue EXCEPT ![s] = Tail(@)]
  OBVIOUS
<1>3. task' = [task EXCEPT ![t] = WithAnswer(WithId(task[t], id), "ok")]
  BY <1>1, <1>2, BeginMoves
<1>4. task[t] \in TaskType /\ task \in [Tasks -> TaskType]
  BY <1>1, Parts
<1>5. PICK r : r = WithAnswer(WithId(task[t], id), "ok")
  OBVIOUS
<1>6. /\ r.kind = task[t].kind /\ r.at = "begin" /\ r.on = s /\ r.valid = task[t].valid
      /\ r.id = id /\ r.answer = "ok"
  <2>1. PICK x \in TaskType : x = WithId(task[t], id)
    BY <1>4 DEF WithId, TaskType
  <2>2. x.kind = task[t].kind /\ x.at = "begin" /\ x.on = s /\ x.valid = task[t].valid /\ x.id = id
    BY <1>1, <1>4, <2>1 DEF WithId, TaskType
  <2>3. PICK a \in Answers : a = "ok"
    BY DEF Answers
  <2> QED BY <1>5, <2>1, <2>2, <2>3, WithAnswerType
<1>7. task'[t] = r /\ \A u \in Tasks \ {t} : task'[u] = task[u]
  BY <1>1, <1>3, <1>4, <1>5
<1> QED BY <1>1, <1>6, <1>7

(* An upload begins. *)
LEMMA FlowUpload ==
    ASSUME IInv, CallInv, FlowInv, NEW s \in Sessions, NEW t, TakesCommand(s, t),
           task[t].at = "begin", NEW id \in Ids,
           loop' = Wake([loop EXCEPT !.task[t].id = id], t, "ok"), parked' = parked
    PROVE  FlowKept
<1>2. PICK m : m = [loop EXCEPT !.task[t].id = id]
  OBVIOUS
<1>3. loop' = Wake(m, t, "ok")
  BY <1>2
<1>7. /\ t \in Tasks /\ task[t].on = s /\ Occurs(queue[s], t)
      /\ task'[t].kind = task[t].kind /\ task'[t].at = "begin" /\ task'[t].on = s
      /\ task'[t].valid = task[t].valid /\ task'[t].id = id /\ task'[t].answer = "ok"
      /\ \A u \in Tasks \ {t} : task'[u] = task[u]
  BY <1>2, <1>3, UploadTold
<1>1. t \in Tasks /\ loop \in LoopType /\ task[t].on = s /\ Occurs(queue[s], t)
  BY <1>7, Parts, LoopTyped
<1>4. task[t] \in TaskType /\ task \in [Tasks -> TaskType]
  BY <1>1, Parts
<1>8. GrowsTo(loop.ready, loop'.ready) /\ Occurs(loop'.ready, t)
      /\ \A v : Occurs(loop.ready, v) => Before(loop'.ready, v, t)
  <2>1. m = [loop EXCEPT !.task[t].id = id]
    BY <1>2
  <2>2. m.ready = loop.ready /\ loop' = Wake(m, t, "ok") /\ loop.ready \in Seq(Tasks)
    BY <1>1, <2>1, LoopFields DEF LoopType
  <2>3. loop'.ready = Append(loop.ready, t)
    <3>1. m \in [task : [Tasks -> TaskType], ready : Seq(Tasks), turn : Tasks \cup {0},
                 gate : Seq(Tasks)]
      <4>1. [loop.task EXCEPT ![t].id = id] \in [Tasks -> TaskType]
        BY <1>1, <1>4 DEF TaskType, task
      <4>2. m = [loop EXCEPT !.task = [loop.task EXCEPT ![t].id = id]]
        BY <1>1, <2>1 DEF LoopType
      <4> QED BY <1>1, <4>1, <4>2 DEF LoopType
    <3>2. PICK f : f = [m.task EXCEPT ![t].answer = "ok"]
      OBVIOUS
    <3>3. loop' = [m EXCEPT !.task = f, !.ready = Append(m.ready, t)]
      BY <2>2, <3>1, <3>2 DEF Wake
    <3> QED BY <2>2, <3>1, <3>3
  <2>4. t \in Tasks
    BY <1>1
  <2>5. PICK a : a = Append(loop.ready, t)
    OBVIOUS
  <2>6. /\ \A y : Occurs(a, y) <=> Occurs(loop.ready, y) \/ y = t
        /\ \A y, z : Before(loop.ready, y, z) => Before(a, y, z)
        /\ \A y : Occurs(loop.ready, y) => Before(a, y, t)
    BY <2>2, <2>4, <2>5, AppendOccurs
  <2> QED BY <2>3, <2>5, <2>6 DEF GrowsTo
<1>9. ASSUME NEW u \in Tasks \ {t} PROVE CalmTask(u) /\ CallAt(u)'
  <2>1. Joins(loop, loop', u)
    BY <1>7 DEF Joins, task
  <2>2. StaysPut(u)
    BY CommandStays
  <2>3. app' = app /\ (Fresh(u)' => Fresh(u))
    BY <1>7 DEF Fresh, TakesCommand
  <2> QED BY <1>8, <2>1, <2>2, <2>3, HeardCalm
<1>10. CallInv'
  <2>1. CallAt(t)'
    BY <1>7, <1>8 DEF CallAt
  <2> QED BY <1>9, <2>1 DEF CallInv
<1>11. /\ CalmState /\ CalmApp /\ FlowState' /\ FlowTask(t) /\ \A u \in Tasks : FlowPair(u, t) /\ FlowPair(t, u)
       /\ state' = state /\ app' = app /\ life' = life
  BY <1>1, FlowParts, HeardApp DEF TakesCommand
<1>12. /\ InStart(t)' <=> InStart(t)
       /\ Live(t)' <=> Live(t)
       /\ ~InHand(t)' /\ \A k : ~Posted(t, k)'
  BY <1>1, <1>7, <1>11 DEF InStart, Live, InHand, Posted, Sending
<1>13. task'[t].at = "begin" /\ task'[t].at \notin Sending /\ task'[t].answer = "ok"
  BY <1>7 DEF Sending
<1>14. FlowTask(t)'
  BY <1>11, <1>12, <1>13 DEF FlowTask
<1>15. ASSUME NEW v \in Tasks PROVE FlowPair(t, v)'
  <2>1. InStart(t)' /\ InStart(v)' => t = v
    BY <1>7, <1>11, <1>12 DEF FlowPair, InStart
  <2> QED BY <1>12, <1>13, <2>1 DEF FlowPair
<1>16. ASSUME NEW u \in Tasks PROVE FlowPair(u, t)'
  <2>1. CASE u = t
    BY <1>15, <2>1
  <2>2. CASE u # t
    <3>1. task'[u] = task[u] /\ CallAt(u) /\ FlowPair(u, t)
      BY <1>7, <1>11, <2>2 DEF CallInv
    <3>2. Posted(u, "answer")' => Before(loop'.ready, u, t)
      BY <1>8, <3>1 DEF Posted, CallAt
    <3>3. task'[u].at = "cancelling" /\ task'[u].on = task'[t].on /\ Live(t)' => CancelFirst(u, t)'
      <4> SUFFICES ASSUME task[u].at = "cancelling", task[u].on = s, Live(t)
                   PROVE  Before(loop'.ready, u, t)
        BY <1>7, <1>12, <1>13, <3>1 DEF CancelFirst
      <4>1. CancelFirst(u, t)
        BY <1>1, <3>1 DEF FlowPair
      <4>2. task[t].answer = "none"
        BY <1>1, CallsWait DEF CallStations, HeldCalls
      <4>3. ~Before(queue[s], u, t)
        <5>1. queue[s] \in Seq(Tasks \cup {Shutdown}) /\ Once(queue[s])
          BY Parts, LoopTyped DEF AllInPlace, InPlace, Lined
        <5> QED BY <5>1, HeadFirst DEF TakesCommand
      <4>4. task[u].answer # "none"
        BY <1>1, <4>1, <4>2, <4>3 DEF CancelFirst
      <4>5. Occurs(loop.ready, u)
        BY <3>1, <4>4 DEF CallAt, CallStations, FreeCalls
      <4> QED BY <1>8, <4>5
    <3>4. InStart(u)' /\ InStart(t)' => u = t
      BY <1>12, <3>1 DEF FlowPair, InStart
    <3>5. ~(InHand(u)' /\ Live(t)')
      BY <1>11, <1>12, <3>1 DEF FlowPair, InHand
    <3>6. Posted(u, "cancel")' /\ Live(t)' => state'.pending_request_id = NoId \/ ~Usable'
      BY <1>11, <1>12, <3>1 DEF FlowPair, Posted, Usable
    <3> QED BY <1>12, <1>13, <3>2, <3>3, <3>4, <3>5, <3>6 DEF FlowPair
  <2> QED BY <2>1, <2>2
<1>17. \A v \in Tasks : FlowPair(t, v)' /\ FlowPair(v, t)'
  BY <1>15, <1>16
<1> QED BY <1>9, <1>10, <1>11, <1>14, <1>17, MoverKeeps DEF FlowKept

(* A session handles its next command. *)
LEMMA FlowCommand ==
    ASSUME IInv, CallInv, FlowInv, NEW s \in Sessions, HandleCommand(s)
    PROVE  FlowKept
<1>1. PICK t : t = Head(queue[s])
  OBVIOUS
<1>2. TakesCommand(s, t)
  BY <1>1 DEF HandleCommand, InLoop, TakesCommand, uiVars
<1>3. CASE loop' = Wake(loop, t, "error") /\ parked' = parked
  <2>1. PICK a \in {"ok", "error"} : a = "error"
    OBVIOUS
  <2>2. loop' = Wake(loop, t, a) /\ (a = "ok" => task[t].at # "begin")
    BY <1>3, <2>1
  <2> QED BY <1>2, <1>3, <2>2, FlowAnswered
<1>4. CASE task[t].at \in {"finishing", "confirming"} /\ parked' = parked \cup {t} /\ loop' = loop
  BY <1>2, <1>4, FlowKeeps
<1>5. CASE /\ task[t].at = "begin" /\ active[s] = NoId /\ issued[s] < MaxRequests
           /\ issued' = [issued EXCEPT ![s] = @ + 1]
           /\ active' = [active EXCEPT ![s] = <<s, issued'[s]>>]
           /\ loop' = Wake([loop EXCEPT !.task[t].id = active'[s]], t, "ok")
           /\ parked' = parked
  <2>1. PICK id : id = <<s, issued[s] + 1>>
    OBVIOUS
  <2>2. issued \in [Sessions -> 0 .. MaxRequests] /\ active \in [Sessions -> Ids \cup {NoId}]
    BY Parts DEF FieldsTyped
  <2>3. active'[s] = id /\ id \in Ids
    BY <1>5, <2>1, <2>2, NextIdIsNew
  <2>4. loop' = Wake([loop EXCEPT !.task[t].id = id], t, "ok")
    BY <1>5, <2>3
  <2> QED BY <1>2, <1>5, <2>3, <2>4, FlowUpload
<1>6. CASE loop' = Wake(loop, t, "ok") /\ task[t].at # "begin" /\ parked' = parked
  <2>1. PICK a \in {"ok", "error"} : a = "ok"
    OBVIOUS
  <2>2. loop' = Wake(loop, t, a) /\ (a = "ok" => task[t].at # "begin")
    BY <1>6, <2>1
  <2> QED BY <1>2, <1>6, <2>2, FlowAnswered
<1>7. CASE /\ task[t].at \in {"undo", "cancelling", "aborting", "dropping"}
           /\ loop' = Wake(Woken(loop, Kept(s, {task[t].id}), "cancelled"), t, "ok")
           /\ parked' = parked \ ToSet(Kept(s, {task[t].id}))
  <2>1. PICK ids : ids = {task[t].id}
    OBVIOUS
  <2>2. /\ loop' = Wake(Woken(loop, Kept(s, ids), "cancelled"), t, "ok")
        /\ parked' = parked \ ToSet(Kept(s, ids)) /\ task[t].at # "begin"
    BY <1>7, <2>1
  <2> QED BY <1>2, <2>2, FlowCancelHeard
<1> QED BY <1>1, <1>3, <1>4, <1>5, <1>6, <1>7 DEF HandleCommand

(* The desktop answers. *)
LEMMA FlowPeerAnswers ==
    ASSUME IInv, CallInv, FlowInv, NEW s \in Sessions, PeerAnswers(s)
    PROVE  FlowKept
<1>1. PICK t \in parked : /\ task[t].on = s
                          /\ \E b \in {"plan", "no_plan", "cancelled", "error", "ok"} : loop' = Wake(loop, t, b)
                          /\ parked' = parked \ {t}
  BY DEF PeerAnswers
<1>2. PICK b \in {"plan", "no_plan", "cancelled", "error", "ok"} : loop' = Wake(loop, t, b)
  BY <1>1
<1>3. PICK a \in Answers : a = b
  BY DEF Answers
<1>4. a # "none" /\ loop' = Wake(loop, t, a)
  BY <1>2, <1>3
<1>5. t \in Tasks /\ loop \in LoopType /\ task[t].at \in {"finishing", "confirming"}
  BY Parts, LoopTyped, WhereTasksAre
<1>6. /\ Onward(loop, loop') /\ task'[t].answer = a
      /\ \A u \in Tasks \ {t} : task'[u] = task[u]
  BY <1>4, <1>5, WakeOnward DEF task
<1>7. task'[t].at = task[t].at
  BY <1>5, <1>6 DEF Onward, Joins, task
<1>8. state' = state /\ app' = app /\ queue' = queue /\ life' = life
  BY DEF PeerAnswers, uiVars
<1>9. ASSUME NEW u \in Tasks PROVE StaysPut(u) /\ (Fresh(u)' => Fresh(u))
  <2>1. CASE u = t
    BY <1>4, <1>5, <1>6, <1>7, <2>1 DEF StaysPut, Fresh
  <2>2. CASE u # t
    BY <1>1, <1>6, <1>8, <2>2 DEF StaysPut, Fresh
  <2> QED BY <2>1, <2>2
<1> QED BY <1>6, <1>8, <1>9, HeardFlows

(* The desktop asks for a decision. *)
LEMMA FlowPeerAsks ==
    ASSUME IInv, CallInv, FlowInv, NEW s \in Sessions, PeerAsks(s)
    PROVE  FlowKept
<1>1. /\ loop' = [loop EXCEPT !.ready = @ \o Watcher(s)] /\ state' = state /\ app' = app
      /\ queue' = queue /\ life' = life /\ parked' = parked
  BY DEF PeerAsks, uiVars
<1>2. loop \in LoopType /\ Watcher(s) \in Seq(Tasks)
  BY Parts, LoopTyped, WatcherOccurs
<1>3. PICK w \in Seq(Tasks) : w = Watcher(s)
  BY <1>2
<1>4. Onward(loop, loop') /\ task' = task
  BY <1>1, <1>2, <1>3, WatchOnward DEF task
<1>5. \A u \in Tasks : StaysPut(u) /\ (Fresh(u)' => Fresh(u))
  BY <1>1, <1>4 DEF StaysPut, Fresh
<1> QED BY <1>1, <1>4, <1>5, HeardFlows

(* The end of a session: who waits for it is answered. *)
LEMMA EndAnswers ==
    ASSUME IInv, NEW s \in Sessions, SessionEnds(s)
    PROVE  /\ Onward(loop, loop')
           /\ \A u \in Tasks : task'[u].answer \in {task[u].answer, "error"}
           /\ \A u \in Tasks : Occurs(queue[s], u) \/ u \in KeptTasks(s, Ids) => task'[u].answer = "error"
           /\ \A u \in Tasks : ~Occurs(queue[s], u) /\ u \notin KeptTasks(s, Ids) =>
                task'[u].answer = task[u].answer
           /\ parked' = parked \ KeptTasks(s, Ids)
<1> DEFINE c == Awaited(queue[s])
<1>1. /\ loop' = Woken([Woken(loop, Kept(s, Ids), "error")
                            EXCEPT !.ready = @ \o Watcher(s)], c, "error")
      /\ parked' = parked \ ToSet(Kept(s, Ids))
  BY DEF SessionEnds
<1>2. /\ loop \in LoopType /\ loop.ready \in Seq(Tasks) /\ parked \subseteq Tasks
      /\ queue[s] \in Seq(Tasks \cup {Shutdown}) /\ Shutdown \notin Tasks /\ Once(queue[s])
  BY Parts, LoopTyped DEF AllInPlace, InPlace, Lined
<1>3. c \in Seq(Tasks) /\ IsInjective(c) /\ \A x : Occurs(c, x) <=> Occurs(queue[s], x) /\ x # Shutdown
  BY <1>2, AwaitedOccurs
<1> HIDE DEF c
<1>4. PICK r \in Seq(Tasks) : r = c
  BY <1>3
<1>5. \A x : Occurs(c, x) <=> Occurs(r, x)
  BY <1>4
<1>6. PICK k \in Seq(Tasks) : k = Kept(s, Ids)
  BY <1>2, KeptOccurs
<1>7. \A x : (Occurs(k, x) <=> x \in KeptTasks(s, Ids)) /\ (x \in ToSet(k) <=> Occurs(k, x))
  BY <1>2, <1>6, KeptOccurs, ToSetOccurs
<1>8. PICK w \in Seq(Tasks) : w = Watcher(s)
  BY <1>2, WatcherOccurs
<1>9. PICK a \in Answers : a = "error"
  BY DEF Answers
<1>10. PICK g \in Seq(Tasks) : g = k
  OBVIOUS
<1>11. \A x : Occurs(g, x) <=> Occurs(k, x)
  BY <1>10
<1>12. PICK m1 : m1 = Woken(loop, g, a)
  OBVIOUS
<1>13. a # "none"
  BY <1>9
<1>14. /\ Onward(loop, m1)
       /\ \A u \in Tasks : m1.task[u].answer = IF Occurs(g, u) THEN a ELSE loop.task[u].answer
  BY <1>2, <1>12, <1>13, WokenOnward
<1>15. PICK m2 : m2 = [m1 EXCEPT !.ready = @ \o w]
  OBVIOUS
<1>16. m1 \in LoopType
  BY <1>14 DEF Onward
<1>17. Onward(m1, m2) /\ m2.task = m1.task
  BY <1>15, <1>16, WatchOnward
<1>18. m2 \in LoopType /\ loop' = Woken(m2, r, a)
  BY <1>1, <1>4, <1>6, <1>8, <1>9, <1>10, <1>12, <1>15, <1>17 DEF Onward
<1>19. /\ Onward(m2, loop')
       /\ \A u \in Tasks : task'[u].answer = IF Occurs(r, u) THEN a ELSE m2.task[u].answer
  BY <1>13, <1>18, WokenOnward DEF task
<1>20. Onward(loop, loop')
  <2>1. Onward(loop, m2)
    BY <1>14, <1>17, OnwardTrans
  <2> QED BY <1>19, <2>1, OnwardTrans
<1>21. \A u \in Tasks : task'[u].answer = IF Occurs(r, u) \/ Occurs(g, u) THEN a ELSE task[u].answer
  BY <1>14, <1>17, <1>19 DEF task
<1>22. \A u \in Tasks :
         /\ Occurs(queue[s], u) => Occurs(r, u) \/ Occurs(g, u)
         /\ ~Occurs(queue[s], u) /\ u \notin KeptTasks(s, Ids) => ~Occurs(r, u) /\ ~Occurs(g, u)
  BY <1>2, <1>3, <1>5, <1>7, <1>11
<1>23. parked' = parked \ KeptTasks(s, Ids)
  BY <1>1, <1>6, <1>7
<1>24. \A u \in Tasks : ~Occurs(queue[s], u) /\ u \notin KeptTasks(s, Ids) =>
         task'[u].answer = task[u].answer
  BY <1>21, <1>22
<1>25. /\ \A u \in Tasks : task'[u].answer \in {task[u].answer, "error"}
       /\ \A u \in Tasks : Occurs(queue[s], u) \/ u \in KeptTasks(s, Ids) => task'[u].answer = "error"
  BY <1>7, <1>9, <1>11, <1>21, <1>22
<1> QED BY <1>20, <1>23, <1>24, <1>25

(* A session ends. *)
LEMMA FlowSessionEnds ==
    ASSUME IInv, CallInv, FlowInv, NEW s \in Sessions, SessionEnds(s)
    PROVE  FlowKept
<1>1. /\ state' = state /\ app' = app /\ life[s] = "open" /\ life' = [life EXCEPT ![s] = "ended"]
      /\ queue' = [queue EXCEPT ![s] = <<>>]
  BY DEF SessionEnds, uiVars
<1>2. /\ Onward(loop, loop')
      /\ \A u \in Tasks : task'[u].answer \in {task[u].answer, "error"}
      /\ \A u \in Tasks : Occurs(queue[s], u) \/ u \in KeptTasks(s, Ids) => task'[u].answer = "error"
      /\ parked' = parked \ KeptTasks(s, Ids)
  BY EndAnswers
<1>3. life \in [Sessions -> {"unborn", "open", "ended"}] /\ queue \in [Sessions -> Seq(Tasks \cup {Shutdown})]
  BY Parts, LoopTyped DEF FieldsTyped
<1>4. life'[s] = "ended" /\ \A z \in Sessions \ {s} : life'[z] = life[z] /\ queue'[z] = queue[z]
  BY <1>1, <1>3
<1>5. ASSUME NEW u \in Tasks PROVE StaysPut(u) /\ (Fresh(u)' => Fresh(u))
  <2>1. task'[u].at = task[u].at
    BY <1>2 DEF Onward, Joins, task
  <2>2. Fresh(u)' => Fresh(u)
    BY <1>2, <2>1 DEF Fresh
  <2>3. ASSUME task[u].at \in CallStations, task'[u].answer = "none"
        PROVE  task[u].on # s /\ task[u].on \in Sessions
    <3>1. task[u].on \in Sessions
      BY <2>3, Parts DEF Shaped, CallStations, HeldCalls, FreeCalls
    <3>2. task[u].answer = "none"
      BY <1>2, <2>3
    <3>3. Occurs(queue[task[u].on], u) \/ u \in parked
      BY <2>3, <3>2, CallsWait
    <3>4. u \in parked => task[u].at \in {"finishing", "confirming"} /\ task[u].id \in Ids
      <4>1. u \in parked => task[u].at \in {"finishing", "confirming"}
        BY WhereTasksAre
      <4>2. task[u].at = "finishing" => task[u].id \in Ids
        BY Parts DEF Shaped
      <4>3. task[u].at = "confirming" => task[u].id \in Ids
        <5>1. task[u].saw \in Dialogs
          BY Parts, TaskFields
        <5>2. FlowTask(u)
          BY FlowParts
        <5> SUFFICES ASSUME task[u].at = "confirming" PROVE task[u].id \in Ids
          OBVIOUS
        <5>3. task[u].saw = [kind |-> "plan", id |-> task[u].id]
          BY <5>2 DEF FlowTask
        <5> QED BY <5>1, <5>3 DEF Dialogs, Nothing
      <4> QED BY <4>1, <4>2, <4>3
    <3>5. task[u].on # s
      BY <1>2, <2>3, <3>3, <3>4 DEF KeptTasks
    <3> QED BY <3>1, <3>5
  <2>4. ASSUME NEW z \in Sessions, Occurs(queue[z], u), task'[u].answer = "none" PROVE z # s
    BY <1>2, <2>4
  <2>5. ASSUME task[u].at = "cancelling", task'[u].answer = "none",
               NEW z \in Sessions, NEW v \in Tasks, Before(queue[z], u, v)
        PROVE  Before(queue'[z], u, v)
    <3>1. Occurs(queue[z], u)
      BY <2>5 DEF Before, Occurs
    <3> QED BY <1>4, <2>4, <2>5, <3>1
  <2>6. u \in parked /\ task'[u].answer = "none" => u \in parked'
    BY <1>2
  <2>7. StaysPut(u)
    BY <1>4, <2>3, <2>5, <2>6 DEF StaysPut
  <2> QED BY <2>2, <2>7
<1>6. \A z \in Sessions : life'[z] = "open" => life[z] = "open"
  BY <1>4
<1> QED BY <1>1, <1>2, <1>5, <1>6, HeardFlows

(* A session takes the shutdown: the commands behind it keep their places. *)
LEMMA FlowShutdown ==
    ASSUME IInv, CallInv, FlowInv, NEW s \in Sessions, ShutdownHandled(s)
    PROVE  FlowKept
<1>1. /\ state' = state /\ app' = app /\ loop' = loop /\ life' = life /\ parked' = parked
      /\ queue[s] # <<>> /\ Head(queue[s]) = Shutdown
      /\ queue' = [queue EXCEPT ![s] = Tail(@)]
  BY DEF ShutdownHandled, uiVars
<1>2. queue \in [Sessions -> Seq(Tasks \cup {Shutdown})] /\ Shutdown \notin Tasks /\ loop \in LoopType
  BY Parts, LoopTyped
<1>3. PICK q \in Seq(Tasks \cup {Shutdown}) : q = queue[s]
  BY <1>2
<1>4. q # <<>> /\ q[1] = Shutdown /\ queue'[s] = Tail(q) /\ \A z \in Sessions \ {s} : queue'[z] = queue[z]
  BY <1>1, <1>2, <1>3, HeadOccurs
<1>5. Onward(loop, loop') /\ task' = task
  BY <1>1, <1>2 DEF Onward, Joins, GrowsTo, task
<1>6. ASSUME NEW u \in Tasks PROVE StaysPut(u) /\ (Fresh(u)' => Fresh(u))
  <2>1. /\ Occurs(q, u) => Occurs(Tail(q), u)
        /\ \A v : Before(q, u, v) => Before(Tail(q), u, v)
    <3>1. u # q[1]
      BY <1>2, <1>4
    <3> QED BY <1>4, <3>1, TailStays
  <2>2. ASSUME NEW z \in Sessions
        PROVE  /\ Occurs(queue[z], u) => Occurs(queue'[z], u)
               /\ \A v \in Tasks : Before(queue[z], u, v) => Before(queue'[z], u, v)
    <3>1. CASE z = s
      BY <1>3, <1>4, <2>1, <3>1
    <3>2. CASE z # s
      BY <1>4, <3>2
    <3> QED BY <3>1, <3>2
  <2>3. task[u].at \in CallStations => task[u].on \in Sessions
    BY Parts DEF Shaped, CallStations, HeldCalls, FreeCalls
  <2>4. StaysPut(u)
    BY <1>1, <2>2, <2>3 DEF StaysPut
  <2> QED BY <1>5, <2>4 DEF Fresh
<1> QED BY <1>1, <1>5, <1>6, HeardFlows

(* A loop breaks. *)
LEMMA FlowLoopBreaks ==
    ASSUME IInv, CallInv, FlowInv, NEW s \in Sessions, LoopBreaks(s)
    PROVE  FlowKept
<1>1. /\ state' = state /\ app' = app /\ life' = life /\ parked' = parked /\ life[s] = "open"
  BY DEF LoopBreaks, InLoop, uiVars
<1>2. CASE UNCHANGED <<loop, queue>>
  <2>1. loop' = loop /\ queue' = queue /\ task' = task
    BY <1>2 DEF task
  <2>2. Onward(loop, loop')
    BY <2>1, Parts, LoopTyped DEF Onward, Joins, GrowsTo
  <2>3. \A u \in Tasks : StaysPut(u) /\ (Fresh(u)' => Fresh(u))
    BY <1>1, <2>1 DEF StaysPut, Fresh
  <2> QED BY <1>1, <2>2, <2>3, HeardFlows
<1>3. CASE ~UNCHANGED <<loop, queue>>
  <2>1. PICK t : t = Head(queue[s])
    OBVIOUS
  <2>2. TakesCommand(s, t) /\ loop' = Wake(loop, t, "error")
    BY <1>1, <1>3, <2>1 DEF LoopBreaks, TakesCommand
  <2>3. PICK a \in {"ok", "error"} : a = "error"
    OBVIOUS
  <2>4. loop' = Wake(loop, t, a) /\ (a = "ok" => task[t].at # "begin")
    BY <2>2, <2>3
  <2> QED BY <1>1, <2>2, <2>4, FlowAnswered
<1> QED BY <1>2, <1>3

(* The sessions keep the flow. *)
LEMMA FlowActors ==
    ASSUME IInv, CallInv, FlowInv, Actors
    PROVE  FlowKept
<1>1. PICK s \in Sessions :
        \/ HandleCommand(s) \/ ShutdownHandled(s) \/ PeerAnswers(s) \/ PeerAsks(s)
        \/ LoopBreaks(s) \/ SessionEnds(s)
  BY DEF Actors
<1> QED BY <1>1, FlowCommand, FlowShutdown, FlowPeerAnswers, FlowPeerAsks, FlowLoopBreaks,
           FlowSessionEnds

(* A step that changes nothing. *)
LEMMA FlowStutters ==
    ASSUME IInv, CallInv, FlowInv, UNCHANGED vars
    PROVE  FlowKept
<1>1. /\ state' = state /\ app' = app /\ life' = life /\ loop' = loop /\ queue' = queue
      /\ parked' = parked /\ task' = task
  BY DEF vars, uiVars, sessionVars, task
<1>2. Onward(loop, loop')
  BY <1>1, Parts, LoopTyped DEF Onward, Joins, GrowsTo
<1>3. \A u \in Tasks : StaysPut(u) /\ (Fresh(u)' => Fresh(u))
  BY <1>1 DEF StaysPut, Fresh
<1> QED BY <1>1, <1>2, <1>3, HeardFlows

(* Every step of a timely run keeps the flow. *)
LEMMA FlowNext ==
    ASSUME IInv, CallInv, FlowInv, Timely, [Next]_vars
    PROVE  FlowKept
BY FlowTurn, FlowCallbacks, FlowOutside, FlowActors, FlowStutters DEF Next, Outside

(* The flow is in order at the start. *)
LEMMA FlowStarts ==
    ASSUME Init
    PROVE  CallInv /\ FlowInv
<1>1. \A u \in Tasks : task[u] = NoTask
  BY DEF Init, task
<1>2. /\ app.dialog = Nothing /\ ~state.recorder /\ state.pending_request_id = NoId
      /\ state.recording_request_id = NoId /\ state.pending_decision = NoId
  BY DEF Init
<1>3. ASSUME NEW u \in Tasks
      PROVE  /\ task[u].at = "none" /\ ~InStart(u) /\ ~Live(u) /\ ~InHand(u) /\ ~Fresh(u)
             /\ \A k : ~Posted(u, k)
  BY <1>1 DEF NoTask, InStart, Live, InHand, Fresh, Posted, Sending
<1>4. CallInv
  BY <1>3 DEF CallInv, CallAt, CallStations, HeldCalls, FreeCalls
<1>5. FlowState
  BY <1>2 DEF FlowState
<1>6. \A u \in Tasks : FlowTask(u)
  BY <1>3 DEF FlowTask, Sending
<1>7. \A u, v \in Tasks : FlowPair(u, v)
  BY <1>3 DEF FlowPair
<1> QED BY <1>4, <1>5, <1>6, <1>7 DEF FlowInv

-----------------------------------------------------------------------------
(***************************************************************************)
(* Recordings are shown, and stopped in the background.                    *)
(***************************************************************************)

\* Away from the foreground a recording is being stopped, and none is wanted.
StoppedAway == state.recorder /\ activity.phase \in {"paused", "stopped"} => BeingStopped
NoneWantedAway == activity.phase \in {"paused", "stopped"} => ~app.input_pending
ShownInv == RecordingShown /\ StoppedAway
\* A task that is about to stop a recording.
Stops(u) == task[u].kind \in {"cancel", "disconnect"} /\ task[u].at = "start"
\* A step starts no recording and hides none that goes on.
Shows == state'.recorder => state.recorder /\ (app.voice_recording => app'.voice_recording)

(* What is about to stop a recording stays, if it is not what moves. *)
LEMMA StopsStay ==
    ASSUME NEW T, \A u \in Tasks \ T : Undisturbed(u), \A u \in T : u \in Tasks => ~Stops(u)
    PROVE  BeingStopped => BeingStopped'
<1> SUFFICES ASSUME NEW u \in Tasks, task[u].kind \in {"cancel", "disconnect"},
                    task[u].at = "start"
             PROVE  task'[u].kind = task[u].kind /\ task'[u].at = "start"
  BY DEF BeingStopped, Pending
<1>1. u \notin T
  BY DEF Stops
<1> QED BY <1>1 DEF Undisturbed

(* A step that starts and hides no recording keeps the two. *)
LEMMA ShownKept ==
    ASSUME ShownInv, Shows, state'.recorder /\ BeingStopped => BeingStopped',
           activity' = activity
    PROVE  ShownInv'
BY DEF ShownInv, Shows, RecordingShown, StoppedAway

(* A turn that starts and hides no recording, and stops what it was about to stop. *)
LEMMA ShownTurn ==
    ASSUME ShownInv, NEW t, \A u \in Tasks \ {t} : Undisturbed(u), Shows,
           Stops(t) => ~state'.recorder, activity' = activity
    PROVE  ShownInv'
<1>1. ASSUME state'.recorder PROVE BeingStopped => BeingStopped'
  <2>1. PICK T : T = {t}
    OBVIOUS
  <2>2. \A u \in T : u \in Tasks => ~Stops(u)
    BY <1>1, <2>1
  <2>3. \A u \in Tasks \ T : Undisturbed(u)
    BY <2>1
  <2> QED BY <2>2, <2>3, StopsStay
<1> QED BY <1>1, ShownKept

(* The taps on the microphone hide no recording, ... *)
LEMMA ToggleShows ==
    ASSUME NEW t, Flows(t),
           \/ ToggleStarts(t) \/ ToggleResumes(t) \/ StartRecording(t) \/ RecordingUndone(t)
    PROVE  Shows
<1>1. app \in AppType /\ state' = state /\ task[t].valid \in BOOLEAN
  <2>1. t \in Tasks /\ task[t] \in TaskType
    BY FirstAnswered
  <2> QED BY <2>1, TaskFields, Parts
          DEF Flows, ToggleStarts, ToggleResumes, StartRecording, RecordingUndone
<1>2. \/ app' = app \/ app' = NotPending(t)
      \/ app' = [app EXCEPT !.input_pending = TRUE] \/ app' = [app EXCEPT !.input_pending = FALSE]
  BY DEF ToggleStarts, ToggleResumes, StartRecording, RecordingUndone
<1>3. NotPending(t).voice_recording = app.voice_recording
  BY <1>1, NotPendingFields
<1>4. app'.voice_recording = app.voice_recording
  BY <1>1, <1>2, <1>3 DEF AppType
<1> QED BY <1>1, <1>4 DEF Shows

(* ... nor the cancels, ... *)
LEMMA CancelShows ==
    ASSUME NEW t, Flows(t), CancelStarts(t) \/ CancelDone(t)
    PROVE  Shows
<1>1. CASE CancelStarts(t)
  <2>1. state \in StateType /\ state' = ClearedRequest(state)
    BY <1>1, Parts DEF Flows, CancelStarts
  <2> QED BY <2>1, AbortedFields DEF Shows
<1>2. CASE CancelDone(t)
  <2>1. /\ t \in Tasks /\ task[t].at \in {"cancelling", "aborting", "dropping"} /\ state' = state
    BY <1>2, FirstAnswered DEF CancelDone, Resumes
  <2>2. ~state.recorder
    BY <2>1, FlowParts DEF Flows, FlowTask, Sending
  <2> QED BY <2>1, <2>2 DEF Shows
<1> QED BY <1>1, <1>2

(* ... the ticks, ... *)
LEMMA TickShows ==
    ASSUME NEW t, Flows(t), TickStarts(t) \/ TickDrains(t) \/ TickSent(t)
    PROVE  Shows
<1>1. \/ state' = state /\ app' = app
      \/ state' = Aborted
  BY DEF TickStarts, TickDrains, TickSent, Aborts
<1>2. state \in StateType
  BY Parts DEF Flows
<1> QED BY <1>1, <1>2, AbortedFields DEF Shows

(* ... the end of a recording, ... *)
LEMMA RestShows ==
    ASSUME NEW t, Flows(t), Finalize(t) \/ LastChunkSent(t) \/ PreviewArrives(t)
    PROVE  Shows
<1>1. state \in StateType
  BY Parts DEF Flows
<1>2. CASE Finalize(t)
  BY <1>1, <1>2 DEF Finalize, StateType, Shows
<1>3. CASE LastChunkSent(t)
  BY <1>3 DEF LastChunkSent, Shows
<1>4. CASE PreviewArrives(t)
  <2>1. t \in Tasks /\ task[t].at = "finishing"
    BY <1>4, FirstAnswered DEF PreviewArrives, Resumes
  <2>2. ~state.recorder
    BY <2>1, FlowParts DEF Flows, FlowTask, Sending
  <2>3. state' = state \/ state' = [state EXCEPT !.pending_request_id = NoId]
    BY <1>4 DEF PreviewArrives
  <2> QED BY <1>1, <2>2, <2>3 DEF StateType, Shows
<1> QED BY <1>2, <1>3, <1>4

(* ... the answers to a dialog, ... *)
LEMMA AnswerShows ==
    ASSUME NEW t, Flows(t), AnswerStarts(t) \/ Confirmed(t)
    PROVE  Shows
<1>1. state \in StateType /\ app \in AppType
  BY Parts DEF Flows
<1>2. PICK b : b = [app EXCEPT !.is_busy = TRUE, !.dialog = Nothing]
  OBVIOUS
<1>3. b \in AppType /\ b.voice_recording = app.voice_recording
  BY <1>1, <1>2 DEF AppType, Dialogs
<1>4. Idle(b).voice_recording = b.voice_recording /\ Idle(app).voice_recording = app.voice_recording
  BY <1>1, <1>3, AppFields
<1>5. CASE AnswerStarts(t)
  <2>1. state' = [state EXCEPT !.pending_decision = NoId] /\ (app' = b \/ app' = Idle(b))
    BY <1>2, <1>5 DEF AnswerStarts
  <2> QED BY <1>1, <1>3, <1>4, <2>1 DEF StateType, Shows
<1>6. CASE Confirmed(t)
  <2>1. /\ state' = state \/ state' = [state EXCEPT !.pending_request_id = NoId]
        /\ app' = app \/ app' = Idle(app)
    BY <1>6 DEF Confirmed
  <2> QED BY <1>1, <1>4, <2>1 DEF StateType, Shows
<1> QED BY <1>5, <1>6

(* ... the scans, ... *)
LEMMA ScanShows ==
    ASSUME NEW t, Flows(t), ScanStarts(t) \/ ScanResumes(t) \/ ScanPublished(t) \/ Subscribes(t)
                            \/ Connects(t)
    PROVE  Shows
<1>1. app \in AppType /\ state' = state
  BY Parts DEF Flows, ScanStarts, ScanResumes, ScanPublished, Subscribes, Connects
<1>2. PICK a : a = [app EXCEPT !.remote_scanning = FALSE]
  OBVIOUS
<1>3. PICK b : b = Idle(app)
  OBVIOUS
<1>4. /\ a \in AppType /\ a.voice_recording = app.voice_recording
      /\ b \in AppType /\ b.voice_recording = app.voice_recording
  <2>1. a \in AppType /\ a.voice_recording = app.voice_recording
    BY <1>1, <1>2 DEF AppType
  <2> QED BY <1>1, <1>3, <2>1, AppKept, AppFields
<1>5. Idle(a).voice_recording = app.voice_recording
  BY <1>4, AppFields
<1>6. \/ app' \in {app, a, b} \/ app' = Idle(a)
      \/ app' = [app EXCEPT !.is_busy = TRUE, !.remote_connected = FALSE, !.remote_scanning = TRUE]
      \/ app' = [b EXCEPT !.remote_connected = FALSE]
  BY <1>2, <1>3 DEF ScanStarts, ScanResumes, ScanPublished, Subscribes, Connects
<1>7. app'.voice_recording = app.voice_recording
  BY <1>1, <1>4, <1>5, <1>6 DEF AppType
<1> QED BY <1>1, <1>7 DEF Shows

(* ... and what comes with a session or goes with it. *)
LEMMA SessionShows ==
    ASSUME NEW t, Flows(t), Undecided, Disconnects(t) \/ Installs(t) \/ EventRead(t)
    PROVE  Shows
<1>1. state \in StateType /\ t \in Tasks /\ Shaped(task[t]) /\ task[t] \in TaskType
  BY FirstAnswered, Parts DEF Flows
<1>2. EventRead(t) \/ Installs(t) => task[t].on \in Sessions
  BY <1>1 DEF EventRead, Installs, Resumes, Shaped
<1>3. EventRead(t) => event[task[t].on].kind # "decision"
  BY <1>2 DEF Undecided
<1>4. \/ state' = state /\ app' = app
      \/ \E s \in Sessions \cup {NoSession} :
           \/ state' = [ClearedRequest(state) EXCEPT !.generation = @ + 1, !.session = s]
           \/ state' = [ClearedRequest(state) EXCEPT !.session = s]
  BY <1>2, <1>3 DEF EventRead, Installs, Disconnects
<1>5. \/ state' = state /\ app' = app
      \/ Cleared
  BY <1>1, <1>4, SessionFields
<1> QED BY <1>5 DEF Cleared, Shows

(* What the turns of the application leave alone, but for those of the sessions and the
   one that begins a recording. *)
LEMMA QuietTurns ==
    ASSUME NEW t, Flows(t), Aside,
           \/ ToggleStarts(t) \/ ToggleResumes(t) \/ StartRecording(t) \/ RecordingUndone(t)
           \/ CancelStarts(t) \/ CancelDone(t) \/ TickStarts(t) \/ TickDrains(t) \/ TickSent(t)
           \/ Finalize(t) \/ LastChunkSent(t) \/ PreviewArrives(t) \/ AnswerStarts(t)
           \/ Confirmed(t) \/ ScanStarts(t) \/ ScanResumes(t) \/ ScanPublished(t)
    PROVE  QuietBy(t)
<1>1. IInv /\ OnTurn(t)
  BY DEF Flows
<1>2. CASE ToggleStarts(t) \/ ToggleResumes(t) \/ StartRecording(t) \/ RecordingUndone(t)
           \/ CancelStarts(t) \/ CancelDone(t)
  BY <1>1, <1>2, TurnToggleStarts, TurnToggleResumes, TurnStartRecording, TurnRecordingUndone,
     TurnCancelStarts, TurnCancelDone
<1>3. CASE TickStarts(t) \/ TickDrains(t) \/ TickSent(t) \/ Finalize(t) \/ LastChunkSent(t)
           \/ PreviewArrives(t)
  BY <1>1, <1>3, TurnTickStarts, TurnTickDrains, TurnTickSent, TurnFinalize, TurnLastChunkSent,
     TurnPreviewArrives
<1>4. CASE AnswerStarts(t) \/ Confirmed(t) \/ ScanStarts(t) \/ ScanResumes(t) \/ ScanPublished(t)
  BY <1>1, <1>4, TurnAnswerStarts, TurnConfirmed, TurnScanStarts, TurnScanResumes,
     TurnScanPublished
<1> QED BY <1>2, <1>3, <1>4

\* What becomes of a scan that has a session, of the reader of its events and of a
\* disconnect.
SessionTask(t, r) ==
    \/ r = NoTask
    \/ r.kind = "events" /\ r.at = "changed"
    \/ /\ r.at = "install" /\ task[t].at = "connected" /\ r.on = task[t].on
       /\ r.kind = task[t].kind /\ r.valid = task[t].valid
    \/ r.at = "connected" /\ r.on \in Sessions /\ life[r.on] = "unborn"

(* The turns of these tasks. *)
LEMMA SessionTurns ==
    ASSUME NEW t, Flows(t), parked' = parked,
           Disconnects(t) \/ Installs(t) \/ Connects(t) \/ Subscribes(t) \/ EventRead(t)
    PROVE  \E r : Turned(t, r) /\ SessionTask(t, r)
<1>1. /\ OnTurn(t) /\ t \in Tasks /\ Shaped(task[t]) /\ task[t] \in TaskType
      /\ state \in StateType /\ state.session \in Sessions \cup {NoSession}
  BY FirstAnswered, Parts DEF Flows, StateType
<1>2. SessionTask(t, NoTask)
  BY DEF SessionTask
<1>3. Ends(t) => Turned(t, NoTask)
  BY <1>1, EndTurn
<1>4. \A s \in Sessions \cup {NoSession} : EndsShuttingDown(t, s) => Turned(t, NoTask)
  BY <1>1, ShutTurn
<1>5. CASE Disconnects(t)
  BY <1>1, <1>2, <1>4, <1>5 DEF Disconnects
<1>6. CASE Installs(t)
  <2>1. task[t].at = "install" /\ AtGate(task[t]) /\ task[t].on \in Sessions
    BY <1>1, <1>6 DEF Installs, Resumes, Shaped, AtGate, GateStations
  <2>2. CASE EndsShuttingDown(t, task[t].on)
    BY <1>2, <1>4, <2>1, <2>2
  <2>3. PICK w : w = [NewTask("events", "changed") EXCEPT
                         !.on = task[t].on, !.generation = state.generation + 1]
    OBVIOUS
  <2>4. w \in TaskType /\ w.at = "changed" /\ w.kind = "events"
    <3>1. Nothing \in Dialogs /\ "none" \in Answers /\ "events" \in Kinds /\ "changed" \in Stations
      BY DEF Dialogs, Answers, Kinds, Stations
    <3>2. state.generation + 1 \in Nat /\ 0 \in Nat
      BY <1>1 DEF StateType
    <3>3. PICK x : x = NewTask("events", "changed")
      OBVIOUS
    <3>4. x \in TaskType /\ x.at = "changed" /\ x.kind = "events"
      BY <3>1, <3>2, <3>3 DEF NewTask, NoTask, TaskType
    <3>5. w = [x EXCEPT !.on = task[t].on, !.generation = state.generation + 1]
      BY <2>3, <3>3
    <3> QED BY <2>1, <3>2, <3>4, <3>5 DEF TaskType
  <2>5. CASE Suspends(IF event[task[t].on] = Nothing THEN [Unlock(Polled) EXCEPT !.task[t] = w]
                      ELSE [[Unlock(Polled) EXCEPT !.task[t] = w] EXCEPT !.ready = Append(@, t)])
    <3>1. \/ Suspends(WithTask(Unlock(Polled), t, w))
          \/ Suspends([WithTask(Unlock(Polled), t, w) EXCEPT !.ready = Append(@, t)])
      BY <2>5 DEF WithTask
    <3>2. Turned(t, w)
      BY <1>1, <2>1, <2>4, <3>1, InstallTurn
    <3> QED BY <2>4, <3>2 DEF SessionTask
  <2> QED BY <1>6, <2>2, <2>3, <2>5 DEF Installs
<1>7. CASE Connects(t)
  <2>1. ~AtGate(task[t])
    BY <1>7 DEF Connects, Resumes, AtGate, GateStations, HeldCalls
  <2>2. ASSUME NEW s \in Sessions, life[s] = "unborn",
               Suspends([Continues(Polled, t, "connected") EXCEPT !.task[t].on = s])
        PROVE  \E r : Turned(t, r) /\ SessionTask(t, r)
    <3>1. Turned(t, OnSession(Moved(task[t], "connected"), s))
      BY <1>1, <2>1, <2>2, ConnectTurn
    <3>2. PICK x \in TaskType : x = Moved(task[t], "connected") /\ x.at = "connected"
      BY <1>1, MovedType DEF Stations
    <3>3. OnSession(x, s).at = "connected" /\ OnSession(x, s).on = s
      BY <3>2 DEF OnSession, TaskType
    <3> QED BY <2>2, <3>1, <3>2, <3>3 DEF SessionTask
  <2> QED BY <1>2, <1>3, <1>7, <2>2 DEF Connects
<1>8. CASE Subscribes(t)
  <2>1. task[t].at = "connected" /\ ~AtGate(task[t]) /\ task[t].on \in Sessions
    BY <1>1, <1>8 DEF Subscribes, Resumes, Shaped, AtGate, GateStations, HeldCalls
  <2>2. ASSUME Locks(t, "install") PROVE \E r : Turned(t, r) /\ SessionTask(t, r)
    <3>1. Turned(t, Moved(task[t], "install"))
      BY <1>1, <2>1, <2>2, LockTurn DEF GateStations
    <3>2. /\ Moved(task[t], "install").at = "install" /\ Moved(task[t], "install").on = task[t].on
          /\ Moved(task[t], "install").kind = task[t].kind
          /\ Moved(task[t], "install").valid = task[t].valid
      BY <1>1, MovedType DEF Stations, GateStations
    <3> QED BY <2>1, <3>1, <3>2 DEF SessionTask
  <2> QED BY <1>2, <1>4, <1>8, <2>1, <2>2 DEF Subscribes
<1>9. CASE EventRead(t)
  <2>1. task[t].at = "changed"
    BY <1>9 DEF EventRead, Resumes
  <2>2. Suspends(Polled) => Turned(t, task[t])
    BY <1>1, <2>1, ReadTurn
  <2>3. SessionTask(t, task[t])
    BY <1>1, <2>1 DEF SessionTask, Shaped
  <2> QED BY <1>2, <1>3, <1>9, <2>2, <2>3 DEF EventRead
<1> QED BY <1>5, <1>6, <1>7, <1>8, <1>9

(* A recording that begins is shown, and begins in the foreground only. *)
LEMMA ShownBegins ==
    ASSUME NEW t, Flows(t), ShownInv, Aside, RecordingBegins(t)
    PROVE  ShownInv'
<1>1. /\ task[t].kind = "toggle" /\ task[t].at = "begin" /\ t \in Tasks /\ task[t] \in TaskType
      /\ app \in AppType /\ Shaped(task[t])
  BY FlowTaken DEF RecordingBegins
<1>2. OnTurn(t) /\ parked' = parked /\ activity' = activity
  BY DEF Flows, Aside
<1>3. /\ NotPending(t) \in AppType /\ NotPending(t).voice_recording = app.voice_recording
  BY <1>1, TaskFields, NotPendingFields
<1>4. CASE /\ StillWanted(t)
           /\ app' = [NotPending(t) EXCEPT !.voice_recording = TRUE]
  <2>1. app'.voice_recording = TRUE
    BY <1>3, <1>4 DEF AppType
  <2>2. activity'.phase = "resumed"
    BY <1>2, <1>4 DEF StillWanted, Foreground
  <2> QED BY <2>1, <2>2 DEF ShownInv, RecordingShown, StoppedAway
<1>5. CASE /\ UNCHANGED state
           /\ \/ Ends(t) /\ app' = NotPending(t)
              \/ Undo(t) /\ UNCHANGED app
  <2>1. Shows
    BY <1>3, <1>5 DEF Shows
  <2>2. Ends(t) => Turned(t, NoTask)
    BY <1>2, EndTurn
  <2>3. Undo(t) => Turned(t, Called(task[t], task[t].on, task[t].id, "undo"))
    <3>1. /\ task[t].on \in Sessions /\ task[t].id \in Ids \cup {NoId} /\ AtGate(task[t])
          /\ "undo" \in HeldCalls
      BY <1>1, TaskFields DEF Shaped, HeldCalls, AtGate
    <3> QED BY <1>2, <3>1, CallTurn DEF Undo
  <2>4. \A u \in Tasks \ {t} : Undisturbed(u)
    BY <1>5, <2>2, <2>3 DEF Turned
  <2>5. ~Stops(t)
    BY <1>1 DEF Stops
  <2> QED BY <1>2, <2>1, <2>4, <2>5, ShownTurn
<1>6. \/ UNCHANGED state /\ Ends(t) /\ app' = NotPending(t)
      \/ UNCHANGED state /\ Undo(t) /\ UNCHANGED app
      \/ StillWanted(t) /\ app' = [NotPending(t) EXCEPT !.voice_recording = TRUE]
  BY DEF RecordingBegins
<1> QED BY <1>4, <1>5, <1>6

(* A turn keeps the two. *)
LEMMA ShownTurns ==
    ASSUME IInv, CallInv, FlowInv, ShownInv, Timely, Turn
    PROVE  ShownInv'
<1>1. PICK t : t = Head(loop.ready)
  OBVIOUS
<1>2. Flows(t) /\ Undecided /\ activity' = activity /\ parked' = parked
  BY <1>1, Parts DEF Flows, OnTurn, Turn, Timely
<1>3. CASE Disconnects(t) \/ Installs(t) \/ Connects(t) \/ Subscribes(t) \/ EventRead(t)
  <2>1. \A u \in Tasks \ {t} : Undisturbed(u)
    BY <1>2, <1>3, SessionTurns DEF Turned
  <2>2. Shows
    BY <1>2, <1>3, ScanShows, SessionShows
  <2>3. Stops(t) => ~state'.recorder
    <3>1. state \in StateType
      BY Parts
    <3>2. Disconnects(t) => ~state'.recorder
      BY <3>1, SessionFields DEF Disconnects, Cleared
    <3>3. Disconnects(t) \/ ~Stops(t)
      BY <1>3 DEF Installs, Connects, Subscribes, EventRead, Resumes, Stops
    <3> QED BY <3>2, <3>3
  <2> QED BY <1>2, <2>1, <2>2, <2>3, ShownTurn
<1>4. CASE UNCHANGED <<life, event>>
  <2>1. Aside
    BY <1>4 DEF Aside, Turn
  <2>2. CASE RecordingBegins(t)
    BY <1>2, <2>1, <2>2, ShownBegins
  <2>3. CASE DecisionSent(t)
    BY <1>2, <2>3, FlowDecisionSent
  <2>4. CASE \/ ToggleStarts(t) \/ ToggleResumes(t) \/ StartRecording(t) \/ RecordingUndone(t)
             \/ CancelStarts(t) \/ CancelDone(t) \/ TickStarts(t) \/ TickDrains(t) \/ TickSent(t)
             \/ Finalize(t) \/ LastChunkSent(t) \/ PreviewArrives(t) \/ AnswerStarts(t)
             \/ Confirmed(t) \/ ScanStarts(t) \/ ScanResumes(t) \/ ScanPublished(t)
    <3>1. \A u \in Tasks \ {t} : Undisturbed(u)
      BY <1>2, <2>1, <2>4, QuietTurns DEF QuietBy
    <3>2. Shows
      BY <1>2, <2>4, ToggleShows, CancelShows, TickShows, RestShows, AnswerShows, ScanShows
    <3>3. Stops(t) => ~state'.recorder
      <4>1. CASE CancelStarts(t)
        <5>1. state \in StateType /\ state' = ClearedRequest(state)
          BY <4>1, Parts DEF CancelStarts
        <5> QED BY <5>1, AbortedFields
      <4>2. CASE ~CancelStarts(t)
        BY <2>4, <4>2 DEF Stops, Resumes, ToggleStarts, ToggleResumes, StartRecording,
           RecordingUndone, CancelDone, TickStarts, TickDrains, TickSent, Finalize, LastChunkSent,
           PreviewArrives, AnswerStarts, Confirmed, ScanStarts, ScanResumes, ScanPublished,
           Finalizers
      <4> QED BY <4>1, <4>2
    <3> QED BY <1>2, <3>1, <3>2, <3>3, ShownTurn
  <2>5. \/ ToggleStarts(t) \/ ToggleResumes(t) \/ StartRecording(t) \/ RecordingBegins(t)
        \/ RecordingUndone(t) \/ CancelStarts(t) \/ CancelDone(t)
        \/ TickStarts(t) \/ TickDrains(t) \/ TickSent(t) \/ Finalize(t) \/ LastChunkSent(t)
        \/ PreviewArrives(t)
        \/ AnswerStarts(t) \/ DecisionSent(t) \/ Confirmed(t) \/ Disconnects(t)
        \/ ScanStarts(t) \/ ScanResumes(t) \/ ScanPublished(t) \/ Installs(t)
        \/ Connects(t) \/ Subscribes(t) \/ EventRead(t)
    BY <1>1 DEF Turn
  <2> QED BY <1>3, <2>2, <2>3, <2>4, <2>5
<1> QED BY <1>1, <1>3, <1>4 DEF Turn

\* A step of the window or of the outside: it moves only tasks that wait for the
\* outside or were not there, and starts none but by posting it.
Idles(T) ==
    /\ Beside
    /\ \A u \in Tasks \ T : Undisturbed(u)
    /\ \A u \in T : /\ u \in Tasks /\ task[u].at \in Waits \cup {"none"}
                    /\ task'[u].at \in Waits \cup {"none", "start"}

(* The window posts no task, ... *)
LEMMA WeakIdles ==
    ASSUME Beside, Weakened(loop')
    PROVE  Idles({})
<1>1. \A u \in Tasks : Undisturbed(u)
  BY DEF Weakened, Undisturbed, task
<1> QED BY <1>1 DEF Idles

(* ... or one. *)
LEMMA SpawnIdles ==
    ASSUME IInv, Room, Beside, NEW l, Weakened(l), NEW new \in TaskType, new.at = "start",
           loop' = Spawn(l, new)
    PROVE  \E t \in Tasks : Idles({t}) /\ task'[t] = new
<1>1. queue' = queue /\ parked' = parked
  BY DEF Beside, sessionVars
<1>2. PICK t \in Tasks : Posts(t, new)
  BY <1>1, SpawnPosts
<1>3. task[t].at = "none" /\ task'[t] = new /\ \A u \in Tasks \ {t} : Undisturbed(u)
  BY <1>2 DEF Posts, NoTask
<1> QED BY <1>3 DEF Idles

(* A cancel that is posted will stop what records. *)
LEMMA CancelIdles ==
    ASSUME IInv, Room, Beside, NEW l, Weakened(l), NEW a, CancelsRequest(l, a)
    PROVE  BeingStopped' /\ \E T : Idles(T)
<1>1. PICK m : m = Outdated(l, "toggle")
  OBVIOUS
<1>2. PICK new : new = NewTask("cancel", "start")
  OBVIOUS
<1>3. Weakened(m) /\ new \in TaskType /\ new.kind = "cancel" /\ new.at = "start"
  BY <1>1, <1>2, WeakLoses, NewTaskType DEF Kinds
<1>4. loop' = Spawn(m, new)
  BY <1>1, <1>2 DEF CancelsRequest, Advanced
<1>5. PICK t \in Tasks : Idles({t}) /\ task'[t] = new
  BY <1>3, <1>4, SpawnIdles
<1> QED BY <1>3, <1>5 DEF BeingStopped, Pending

(* A step of the window that leaves a recording shown, or stops it. *)
LEMMA ShownIdles ==
    ASSUME ShownInv, NEW T, Idles(T),
           app.voice_recording => app'.voice_recording \/ BeingStopped',
           \/ activity' = activity \/ activity'.phase \notin {"paused", "stopped"}
           \/ BeingStopped' \/ ~app.voice_recording
    PROVE  ShownInv'
<1>1. BeingStopped => BeingStopped'
  <2>1. \A u \in T : u \in Tasks => ~Stops(u)
    BY DEF Idles, Stops, Waits
  <2>2. \A u \in Tasks \ T : Undisturbed(u)
    BY DEF Idles
  <2> QED BY <2>1, <2>2, StopsStay
<1>2. state' = state
  BY DEF Idles, Beside
<1> QED BY <1>1, <1>2 DEF ShownInv, RecordingShown, StoppedAway

\* A step beside the sessions and the fields, that moves only tasks which wait for the
\* outside or are new, and that leaves a recording shown or is about to stop it.
IdleStep ==
    /\ \E T : Idles(T)
    /\ app.voice_recording => app'.voice_recording \/ BeingStopped'
    /\ \/ activity' = activity \/ activity'.phase \notin {"paused", "stopped"}
       \/ BeingStopped' \/ ~app.voice_recording

(* The user's taps, ... *)
LEMMA TapsIdle ==
    ASSUME IInv, Taps
    PROVE  IdleStep
<1>1. Room /\ Beside /\ app \in AppType /\ Weakened(loop) /\ activity' = activity
  BY Parts, WeakStays DEF Taps, Beside
<1>2. CASE TapMicrophone
  <2>1. PICK new : new = NewTask("toggle", "start")
    OBVIOUS
  <2>2. new \in TaskType /\ new.at = "start" /\ loop' = Spawn(loop, new) /\ app' = app
    BY <1>2, <2>1, NewTaskType DEF TapMicrophone, Kinds
  <2>3. \E T : Idles(T)
    BY <1>1, <2>2, SpawnIdles
  <2> QED BY <1>1, <2>2, <2>3 DEF IdleStep
<1>3. CASE TapCancel
  <2>1. CancelsRequest(loop, app)
    BY <1>3 DEF TapCancel
  <2> QED BY <1>1, <2>1, CancelIdles DEF IdleStep
<1>4. CASE TapDialog
  <2>1. PICK x : x = NewTask("answer", "start")
    OBVIOUS
  <2>2. x \in TaskType /\ x.at = "start"
    BY <2>1, NewTaskType DEF Kinds
  <2>3. PICK new : new = [x EXCEPT !.saw = app.dialog]
    OBVIOUS
  <2>4. new \in TaskType /\ new.at = "start"
    BY <1>1, <2>2, <2>3 DEF TaskType, AppType
  <2>5. loop' = Spawn(loop, new) /\ app' = app
    BY <1>4, <2>1, <2>3 DEF TapDialog
  <2>6. \E T : Idles(T)
    BY <1>1, <2>4, <2>5, SpawnIdles
  <2> QED BY <1>1, <2>5, <2>6 DEF IdleStep
<1>5. CASE TapDisconnect
  <2>1. PICK l : l = Outdated(loop, "scan")
    OBVIOUS
  <2>2. PICK new : new = NewTask("disconnect", "start")
    OBVIOUS
  <2>3. new \in TaskType /\ new.kind = "disconnect" /\ new.at = "start"
    BY <2>2, NewTaskType DEF Kinds
  <2>4. loop' = Spawn(l, new) /\ Weakened(l)
    BY <1>1, <1>5, <2>1, <2>2, WeakLoses DEF TapDisconnect, ScanCancelled
  <2>5. PICK t \in Tasks : Idles({t}) /\ task'[t] = new
    BY <1>1, <2>3, <2>4, SpawnIdles
  <2>6. BeingStopped'
    BY <2>3, <2>5 DEF BeingStopped, Pending
  <2> QED BY <2>5, <2>6 DEF IdleStep
<1>6. CASE TapCancelScan
  <2>1. Weakened(loop')
    BY <1>1, <1>6, WeakLoses DEF TapCancelScan, ScanCancelled
  <2>2. PICK a : a = Idle(app)
    OBVIOUS
  <2>3. a \in AppType /\ a.voice_recording = app.voice_recording
    BY <1>1, <2>2, AppKept, AppFields
  <2>4. app' = [a EXCEPT !.remote_scanning = FALSE]
    BY <1>6, <2>2 DEF TapCancelScan
  <2>5. app'.voice_recording = app.voice_recording
    BY <2>3, <2>4 DEF AppType
  <2>6. \E T : Idles(T)
    BY <1>1, <2>1, WeakIdles
  <2> QED BY <1>1, <2>5, <2>6 DEF IdleStep
<1>7. CASE TapScan
  <2>1. PICK l : l = Outdated(loop, "scan")
    OBVIOUS
  <2>2. PICK new : new = NewTask("scan", "start")
    OBVIOUS
  <2>3. new \in TaskType /\ new.at = "start"
    BY <2>2, NewTaskType DEF Kinds
  <2>4. /\ loop' = Spawn(l, new) /\ Weakened(l) /\ app' = [app EXCEPT !.is_busy = TRUE]
    BY <1>1, <1>7, <2>1, <2>2, WeakLoses DEF TapScan, ScanCancelled
  <2>5. app'.voice_recording = app.voice_recording
    BY <1>1, <2>4 DEF AppType
  <2>6. \E T : Idles(T)
    BY <1>1, <2>3, <2>4, SpawnIdles
  <2> QED BY <1>1, <2>5, <2>6 DEF IdleStep
<1> QED BY <1>2, <1>3, <1>4, <1>5, <1>6, <1>7 DEF Taps

(* ... the recording timer, ... *)
LEMMA TickIdles ==
    ASSUME IInv, TickDue
    PROVE  IdleStep
<1>1. PICK new : new = NewTask("tick", "start")
  OBVIOUS
<1>2. new \in TaskType /\ new.at = "start"
  BY <1>1, NewTaskType DEF Kinds
<1>3. /\ Room /\ Beside /\ app' = app /\ activity' = activity /\ loop' = Spawn(loop, new)
      /\ Weakened(loop)
  BY <1>1, WeakStays DEF TickDue, Beside, uiVars
<1>4. \E T : Idles(T)
  BY <1>2, <1>3, SpawnIdles
<1> QED BY <1>3, <1>4 DEF IdleStep

(* ... the life cycle of the activity, ... *)
LEMMA LifeCycleIdles ==
    ASSUME IInv, Pause \/ Stop \/ Resume
    PROVE  IdleStep
<1>1. Beside /\ app \in AppType /\ Weakened(loop) /\ activity \in ActivityType
  BY Parts, WeakStays DEF Pause, Stop, Resume, Beside
<1>2. CASE Backgrounded
  <2>1. PICK l : l = IF app.remote_connected THEN loop ELSE Outdated(loop, "scan")
    OBVIOUS
  <2>2. Weakened(l)
    BY <2>1, <1>1, WeakLoses
  <2>3. PICK b : b = Idle(app)
    OBVIOUS
  <2>4. b \in AppType /\ b.voice_recording = app.voice_recording
    BY <1>1, <2>3, AppKept, AppFields
  <2>5. PICK a : a = IF app.remote_connected THEN app ELSE [Idle(app) EXCEPT !.remote_scanning = FALSE]
    OBVIOUS
  <2>6. a.voice_recording = app.voice_recording
    BY <2>3, <2>4, <2>5 DEF AppType
  <2>7. CASE Room /\ CancelsRequest(l, a)
    BY <1>1, <2>2, <2>7, CancelIdles DEF IdleStep
  <2>8. CASE ~app.voice_recording /\ loop' = l /\ app' = a
    <3>1. \E T : Idles(T)
      BY <1>1, <2>2, <2>8, WeakIdles
    <3> QED BY <2>8, <3>1 DEF IdleStep
  <2> QED BY <1>2, <2>1, <2>5, <2>7, <2>8 DEF Backgrounded, ScanCancelled
<1>3. CASE UNCHANGED <<loop, app>> /\ activity'.phase \notin {"paused", "stopped"}
  <2>1. loop' = loop /\ app' = app
    BY <1>3
  <2>2. Weakened(loop')
    BY <1>1, <2>1
  <2>3. \E T : Idles(T)
    BY <1>1, <2>2, WeakIdles
  <2> QED BY <1>3, <2>1, <2>3 DEF IdleStep
<1>4. CASE activity' = [activity EXCEPT !.phase = "paused for dialog"] /\ UNCHANGED <<loop, app>>
  <2>1. activity'.phase = "paused for dialog"
    BY <1>1, <1>4 DEF ActivityType
  <2> QED BY <1>3, <1>4, <2>1
<1>5. CASE Resume
  BY <1>3, <1>5 DEF Resume
<1> QED BY <1>2, <1>4, <1>5 DEF Pause, Stop

(* ... and what comes from outside. *)
LEMMA OutsideIdles ==
    ASSUME IInv, Outside
    PROVE  IdleStep
<1>1. PICK t \in Tasks : PermissionPolled(t) \/ CameraReturns(t) \/ HandshakeEnds(t)
  BY DEF Outside
<1>2. UNCHANGED <<uiVars, queue, sessionVars>> /\ task[t].at \in Waits
  BY <1>1 DEF PermissionPolled, CameraReturns, HandshakeEnds, DialogTasks, Waits
<1>3. /\ Beside /\ app' = app /\ activity' = activity /\ task \in [Tasks -> TaskType]
  BY <1>2, Parts DEF Beside, uiVars
<1>4. PICK r \in TaskType :
        /\ loop'.task = [task EXCEPT ![t] = r]
        /\ r = NoTask \/ r.at = task[t].at
  BY <1>1, OutsideMoves
<1>5. task'[t] = r /\ \A u \in Tasks \ {t} : Undisturbed(u)
  <2>1. task' = [task EXCEPT ![t] = r]
    BY <1>4 DEF task
  <2> QED BY <1>3, <2>1 DEF Undisturbed
<1>6. r.at \in Waits \cup {"none"}
  BY <1>2, <1>4 DEF NoTask
<1>7. Idles({t})
  BY <1>2, <1>3, <1>5, <1>6 DEF Idles
<1> QED BY <1>3, <1>7 DEF IdleStep

(* The window and the outside only post what they start. *)
LEMMA StepsIdle ==
    ASSUME IInv, Callbacks \/ Outside
    PROVE  IdleStep
BY TapsIdle, TickIdles, LifeCycleIdles, OutsideIdles DEF Callbacks

(* Such a step keeps recordings shown, and stopped in the background. *)
LEMMA ShownIdle ==
    ASSUME ShownInv, IdleStep
    PROVE  ShownInv'
BY ShownIdles DEF IdleStep

-----------------------------------------------------------------------------
(***************************************************************************)
(* No upload is abandoned.                                                 *)
(***************************************************************************)

(* Stations of a task that gives up the upload it has; a task that has the upload the
   connected session has open, and will still finish it or give it up. *)
Giving == {"undo", "cancelling", "aborting", "dropping"}
Keeper(u) ==
    /\ task[u].id = active[state.session] /\ task[u].on = state.session
    /\ \/ Fresh(u)
       \/ task[u].at = "last" /\ task[u].id = state.pending_request_id
       \/ task[u].at \in Giving /\ task[u].answer = "none"
       \/ task[u].at = "finishing" /\ task[u].answer = "none" /\ u \notin parked

(* A session that is not there has no upload, nor one that a scan is about to install;
   the upload of the connected session is being recorded or has its keeper. *)
Unborn == \A s \in Sessions : life[s] = "unborn" => active[s] = NoId
Clean(u) ==
    LiveScan(u) /\ Reaches(u) =>
        /\ active[task[u].on] = NoId
        /\ \A v \in Tasks : task[v].at = "begin" => task[v].on # task[u].on
UploadKept == Usable /\ active[state.session] # NoId => state.recorder \/ \E u \in Tasks : Keeper(u)
UploadInv == Unborn /\ (\A u \in Tasks : Clean(u)) /\ UploadKept

\* Session s answers tasks of C, which are its own, and nothing else.
Heard(s, C) ==
    /\ state' = state /\ app' = app /\ activity' = activity
    /\ life[s] = "open" /\ life'[s] \in {"open", "ended"}
    /\ \A z \in Sessions \ {s} : life'[z] = life[z] /\ active'[z] = active[z]
    /\ \A u \in Tasks : /\ task'[u].kind = task[u].kind /\ task'[u].at = task[u].at
                        /\ task'[u].on = task[u].on /\ task'[u].valid = task[u].valid
    /\ \A u \in Tasks \ C : /\ task'[u].id = task[u].id /\ task'[u].answer = task[u].answer
                            /\ u \in parked' <=> u \in parked
    /\ \A u \in C : u \in Tasks => task[u].on = s
\* What it does to its upload, and to the tasks that keep it.
HeardUpload(s, C) ==
    /\ active'[s] \in {active[s], NoId} \/ \E t \in Tasks : task[t].at = "begin" /\ task[t].on = s
    /\ s = state.session /\ life'[s] = "open" /\ active'[s] # NoId =>
         \/ \E u \in Tasks : Keeper(u)'
         \/ active'[s] = active[s] /\ \A u \in C : u \in Tasks /\ Keeper(u) => Keeper(u)'

(* It hides no recording, ... *)
LEMMA ShownHeard ==
    ASSUME ShownInv, NEW s, NEW C, Heard(s, C)
    PROVE  ShownInv'
<1>1. BeingStopped => BeingStopped'
  BY DEF BeingStopped, Pending, Heard
<1> QED BY <1>1 DEF Heard, ShownInv, RecordingShown, StoppedAway

(* ... and abandons no upload. *)
LEMMA UploadHeard ==
    ASSUME IInv, UploadInv, NEW s \in Sessions, NEW C, Heard(s, C), HeardUpload(s, C)
    PROVE  UploadInv'
<1>1. Unborn'
  BY DEF UploadInv, Unborn, Heard
<1>2. ASSUME NEW u \in Tasks PROVE Clean(u)'
  <2> SUFFICES ASSUME LiveScan(u)', Reaches(u)'
               PROVE  /\ active'[task'[u].on] = NoId
                      /\ \A v \in Tasks : task'[v].at = "begin" => task'[v].on # task'[u].on
    BY DEF Clean
  <2>1. LiveScan(u) /\ Reaches(u) /\ task'[u].on = task[u].on
    BY DEF Heard, LiveScan, Reaches
  <2>2. active[task[u].on] = NoId /\ \A v \in Tasks : task[v].at = "begin" => task[v].on # task[u].on
    BY <2>1 DEF UploadInv, Clean
  <2>3. task[u].on \in Sessions
    BY <2>1, Parts DEF Shaped, Reaches
  <2>4. active'[task[u].on] = NoId
    <3>1. CASE task[u].on = s
      BY <2>2, <3>1 DEF HeardUpload
    <3>2. CASE task[u].on # s
      BY <2>2, <2>3, <3>2 DEF Heard
    <3> QED BY <3>1, <3>2
  <2> QED BY <2>1, <2>2, <2>4 DEF Heard
<1>3. UploadKept'
  <2> SUFFICES ASSUME Usable', active'[state'.session] # NoId, ~state'.recorder
               PROVE  \E u \in Tasks : Keeper(u)'
    BY DEF UploadKept
  <2>1. state' = state /\ state.session \in Sessions /\ ~state.recorder
    BY Parts DEF Heard, StateType, Usable
  <2>2. Usable
    BY <2>1 DEF Heard, Usable
  <2>3. ASSUME active'[state.session] = active[state.session],
               \A u \in C : u \in Tasks /\ Keeper(u) => Keeper(u)'
        PROVE  \E u \in Tasks : Keeper(u)'
    <3>1. PICK u \in Tasks : Keeper(u)
      BY <2>1, <2>2, <2>3 DEF UploadInv, UploadKept
    <3>2. CASE u \in C
      BY <2>3, <3>1, <3>2
    <3>3. CASE u \notin C
      <4>1. /\ task'[u].at = task[u].at /\ task'[u].on = task[u].on /\ task'[u].id = task[u].id
            /\ task'[u].answer = task[u].answer /\ (u \in parked' <=> u \in parked)
        BY <3>3 DEF Heard
      <4>2. Keeper(u)'
        BY <2>1, <2>3, <3>1, <4>1 DEF Keeper, Fresh
      <4> QED BY <4>2
    <3> QED BY <3>2, <3>3
  <2>4. CASE state.session = s
    BY <2>1, <2>3, <2>4 DEF HeardUpload, Usable
  <2>5. CASE state.session # s
    <3>1. active'[state.session] = active[state.session]
      BY <2>1, <2>5 DEF Heard
    <3>2. \A u \in C : u \in Tasks => ~Keeper(u)
      BY <2>5 DEF Heard, Keeper
    <3> QED BY <2>3, <3>1, <3>2
  <2> QED BY <2>4, <2>5
<1> QED BY <1>1, <1>2, <1>3 DEF UploadInv

(* A session that leaves the loop and the uploads as they are, but keeps a reply. *)
LEMMA HeardPart ==
    ASSUME IInv, NEW s \in Sessions, NEW C, NEW t, TakesCommand(s, t), activity' = activity,
           \A z \in Sessions \ {s} : active'[z] = active[z],
           Onward(loop, loop'), \A u \in C : u \in Tasks => task[u].on = s,
           \A u \in Tasks \ C : task'[u].answer = task[u].answer /\ (u \in parked' <=> u \in parked)
    PROVE  Heard(s, C)
<1>1. \A u \in Tasks : /\ task'[u].kind = task[u].kind /\ task'[u].at = task[u].at
                       /\ task'[u].on = task[u].on /\ task'[u].valid = task[u].valid
                       /\ task'[u].id = task[u].id
  BY DEF Onward, Joins, task
<1> QED BY <1>1 DEF Heard, TakesCommand

\* A session that takes command t and leaves the other sessions' uploads alone.
UploadTaken(s, t) ==
    /\ TakesCommand(s, t) /\ activity' = activity
    /\ \A z \in Sessions \ {s} : active'[z] = active[z]
(* What is known of it. *)
LEMMA TakenFacts ==
    ASSUME IInv, CallInv, NEW s \in Sessions, NEW t, UploadTaken(s, t)
    PROVE  /\ t \in Tasks /\ task[t].on = s /\ task[t].answer = "none" /\ t \notin parked
           /\ task[t].at \in HeldCalls \cup FreeCalls /\ state' = state
           /\ loop \in LoopType /\ parked \subseteq Tasks
<1>1. /\ t \in Tasks /\ task[t].on = s /\ task[t].at \in HeldCalls \cup FreeCalls /\ t \notin parked
  BY CommandTaken DEF UploadTaken, TakesCommand
<1>2. Occurs(queue[s], t) /\ loop \in LoopType /\ parked \subseteq Tasks
  <2>1. queue[s] \in Seq(Tasks \cup {Shutdown}) /\ loop \in LoopType /\ parked \subseteq Tasks
    BY Parts, LoopTyped
  <2> QED BY <2>1, HeadOccurs DEF UploadTaken, TakesCommand
<1>3. task[t].answer = "none"
  BY <1>1, <1>2, CallsWait DEF CallStations
<1> QED BY <1>1, <1>2, <1>3 DEF UploadTaken, TakesCommand

(* A command is answered at once. *)
LEMMA AnsweredHeard ==
    ASSUME IInv, CallInv, NEW s \in Sessions, NEW t, UploadTaken(s, t),
           NEW a \in {"ok", "error"}, loop' = Wake(loop, t, a), parked' = parked, active' = active,
           Keeper(t) => task[t].at = "last"
    PROVE  \E C : Heard(s, C) /\ HeardUpload(s, C)
<1>1. /\ t \in Tasks /\ loop \in LoopType /\ a \in Answers /\ a # "none" /\ task[t].on = s
      /\ task[t].answer = "none" /\ state' = state
  BY TakenFacts DEF Answers
<1>2. Onward(loop, loop') /\ \A u \in Tasks \ {t} : task'[u] = task[u]
  BY <1>1, WakeOnward DEF task
<1>3. PICK C : C = {t}
  OBVIOUS
<1>4. Heard(s, C)
  BY <1>1, <1>2, <1>3, HeardPart DEF UploadTaken
<1>5. Keeper(t) => Keeper(t)'
  <2>1. task'[t].at = task[t].at /\ task'[t].on = task[t].on /\ task'[t].id = task[t].id
    BY <1>1, <1>2 DEF Onward, Joins, task
  <2>2. Keeper(t) => task[t].id = state.pending_request_id
    BY DEF Keeper, Fresh, Giving
  <2> QED BY <1>1, <2>1, <2>2 DEF Keeper
<1> QED BY <1>3, <1>4, <1>5 DEF HeardUpload

(* A command is kept, or handled with its upload gone. *)
LEMMA GoneHeard ==
    ASSUME IInv, CallInv, NEW s \in Sessions, NEW t, UploadTaken(s, t), Onward(loop, loop'),
           NEW C, \A u \in C : u \in Tasks => task[u].on = s,
           \A u \in Tasks \ C : task'[u].answer = task[u].answer /\ (u \in parked' <=> u \in parked),
           \/ active'[s] = NoId
           \/ active' = active /\ \A u \in C : u \in Tasks => ~Keeper(u)
    PROVE  \E D : Heard(s, D) /\ HeardUpload(s, D)
<1>1. Heard(s, C)
  BY HeardPart DEF UploadTaken
<1> QED BY <1>1 DEF HeardUpload

(* A command is kept. *)
LEMMA KeptHeard ==
    ASSUME IInv, CallInv, NEW s \in Sessions, NEW t, UploadTaken(s, t), loop' = loop,
           parked' = parked \cup {t}, active'[s] = NoId \/ (active' = active /\ ~Keeper(t))
    PROVE  \E C : Heard(s, C) /\ HeardUpload(s, C)
<1>1. loop \in LoopType /\ task[t].on = s
  BY TakenFacts
<1>2. Onward(loop, loop') /\ task' = task
  BY <1>1 DEF Onward, Joins, GrowsTo, task
<1>3. PICK C : C = {t}
  OBVIOUS
<1>4. \A u \in Tasks \ C : task'[u].answer = task[u].answer /\ (u \in parked' <=> u \in parked)
  BY <1>2, <1>3
<1>5. /\ \A u \in C : u \in Tasks => task[u].on = s
      /\ active'[s] = NoId \/ (active' = active /\ \A u \in C : u \in Tasks => ~Keeper(u))
  BY <1>1, <1>3
<1> QED BY <1>2, <1>4, <1>5, GoneHeard

(* An upload begins: its caller has it. *)
LEMMA BeginHeard ==
    ASSUME IInv, CallInv, NEW s \in Sessions, NEW t, UploadTaken(s, t), task[t].at = "begin",
           NEW id \in Ids, active'[s] = id,
           loop' = Wake([loop EXCEPT !.task[t].id = id], t, "ok"), parked' = parked
    PROVE  \E C : Heard(s, C) /\ HeardUpload(s, C)
<1>1. TakesCommand(s, t)
  BY DEF UploadTaken
<1>2. PICK m : m = [loop EXCEPT !.task[t].id = id]
  OBVIOUS
<1>3. loop' = Wake(m, t, "ok")
  BY <1>2
<1>4. /\ t \in Tasks /\ task[t].on = s /\ Occurs(queue[s], t)
      /\ task'[t].kind = task[t].kind /\ task'[t].at = "begin" /\ task'[t].on = s
      /\ task'[t].valid = task[t].valid /\ task'[t].id = id /\ task'[t].answer = "ok"
      /\ \A u \in Tasks \ {t} : task'[u] = task[u]
  BY <1>1, <1>2, <1>3, UploadTold
<1>5. PICK C : C = {t}
  OBVIOUS
<1>6. \A u \in Tasks : /\ task'[u].kind = task[u].kind /\ task'[u].at = task[u].at
                       /\ task'[u].on = task[u].on /\ task'[u].valid = task[u].valid
  BY <1>4
<1>7. Heard(s, C)
  BY <1>4, <1>5, <1>6 DEF Heard, UploadTaken, TakesCommand
<1>8. s = state.session => Keeper(t)'
  BY <1>4, <1>7 DEF Keeper, Fresh, Heard
<1> QED BY <1>4, <1>7, <1>8 DEF HeardUpload

(* A cancel is handled. *)
LEMMA CancelHeard ==
    ASSUME IInv, CallInv, NEW s \in Sessions, NEW t, UploadTaken(s, t), NEW ids, ids = {task[t].id},
           loop' = Wake(Woken(loop, Kept(s, ids), "cancelled"), t, "ok"),
           parked' = parked \ ToSet(Kept(s, ids)),
           active'[s] = NoId \/ (active' = active /\ active[s] # task[t].id)
    PROVE  \E C : Heard(s, C) /\ HeardUpload(s, C)
<1>1. TakesCommand(s, t) /\ task[t].on = s
  BY TakenFacts DEF UploadTaken
<1>2. /\ Onward(loop, loop') /\ parked' = parked \ KeptTasks(s, ids)
      /\ \A u \in Tasks \ {t} :
           task'[u].answer = IF u \in KeptTasks(s, ids) THEN "cancelled" ELSE task[u].answer
  BY <1>1, CancelTold
<1>3. PICK C : C = KeptTasks(s, ids) \cup {t}
  OBVIOUS
<1>4. \A u \in Tasks \ C : task'[u].answer = task[u].answer /\ (u \in parked' <=> u \in parked)
  BY <1>2, <1>3
<1>5. \A u \in C : u \in Tasks => task[u].on = s
  BY <1>1, <1>3 DEF KeptTasks
<1>6. active' = active /\ active[s] # task[t].id => \A u \in C : u \in Tasks => ~Keeper(u)
  BY <1>1, <1>3, <1>5 DEF Keeper, KeptTasks
<1> QED BY <1>2, <1>4, <1>5, <1>6, GoneHeard

(* A session handles its next command. *)
LEMMA CommandHeard ==
    ASSUME IInv, CallInv, NEW s \in Sessions, HandleCommand(s)
    PROVE  \E C : Heard(s, C) /\ HeardUpload(s, C)
<1>1. PICK t : t = Head(queue[s])
  OBVIOUS
<1>2. active \in [Sessions -> Ids \cup {NoId}]
  BY Parts DEF FieldsTyped
<1>3. UploadTaken(s, t)
  <2>1. TakesCommand(s, t) /\ activity' = activity
    BY <1>1 DEF HandleCommand, InLoop, TakesCommand, uiVars
  <2>2. \/ active' = active \/ active' = [active EXCEPT ![s] = NoId]
        \/ active' = [active EXCEPT ![s] = <<s, issued'[s]>>]
    BY <1>1 DEF HandleCommand
  <2> QED BY <1>2, <2>1, <2>2 DEF UploadTaken
<1>4. /\ t \in Tasks /\ task[t].on = s /\ task[t].answer = "none" /\ t \notin parked
      /\ task[t].at \in HeldCalls \cup FreeCalls
  BY <1>3, TakenFacts
<1>5. CASE /\ \/ task[t].at \in {"begin", "sending", "last"}
              \/ task[t].at \in {"finishing", "confirming"} /\ ParkedAt(s, task[t].at) # {}
              \/ task[t].at = "finishing" /\ active[s] # task[t].id
           /\ loop' = Wake(loop, t, "error") /\ parked' = parked /\ active' = active
  <2>1. PICK a \in {"ok", "error"} : a = "error"
    OBVIOUS
  <2>2. ASSUME Keeper(t), task[t].at # "last" PROVE FALSE
    <3>1. task[t].at = "finishing" /\ active[s] = task[t].id
      BY <1>4, <1>5, <2>2 DEF Keeper, Fresh, Giving
    <3>2. PICK v \in ParkedAt(s, "finishing") : TRUE
      BY <1>5, <3>1
    <3>3. v \in Tasks /\ v \in parked /\ task[v].at = "finishing"
      BY <3>2, LoopTyped, Parts DEF ParkedAt
    <3>4. v = t
      BY <1>4, <3>1, <3>3, OneHolds, Parts DEF HeldCalls
    <3> QED BY <1>4, <3>3, <3>4
  <2>3. loop' = Wake(loop, t, a) /\ parked' = parked /\ active' = active
    BY <1>5, <2>1
  <2> QED BY <1>3, <2>2, <2>3, AnsweredHeard
<1>6. CASE /\ task[t].at = "finishing" /\ active' = [active EXCEPT ![s] = NoId]
           /\ loop' = Wake(loop, t, "error") /\ parked' = parked
  <2>1. PICK a \in Answers : a = "error"
    BY DEF Answers
  <2>2. loop \in LoopType /\ a # "none" /\ loop' = Wake(loop, t, a)
    BY <1>3, <1>6, <2>1, TakenFacts
  <2>3. Onward(loop, loop') /\ \A u \in Tasks \ {t} : task'[u] = task[u]
    BY <1>4, <2>2, WakeOnward DEF task
  <2>4. PICK C : C = {t}
    OBVIOUS
  <2>5. \A u \in Tasks \ C : task'[u].answer = task[u].answer /\ (u \in parked' <=> u \in parked)
    BY <1>6, <2>3, <2>4
  <2>6. active'[s] = NoId /\ \A u \in C : u \in Tasks => task[u].on = s
    BY <1>2, <1>4, <1>6, <2>4
  <2> QED BY <1>3, <2>3, <2>5, <2>6, GoneHeard
<1>7. CASE /\ task[t].at = "finishing" /\ active' = [active EXCEPT ![s] = NoId]
           /\ parked' = parked \cup {t} /\ loop' = loop
  <2>1. active'[s] = NoId
    BY <1>2, <1>7
  <2> QED BY <1>3, <1>7, <2>1, KeptHeard
<1>8. CASE /\ task[t].at = "begin" /\ issued[s] < MaxRequests
           /\ issued' = [issued EXCEPT ![s] = @ + 1]
           /\ active' = [active EXCEPT ![s] = <<s, issued'[s]>>]
           /\ loop' = Wake([loop EXCEPT !.task[t].id = active'[s]], t, "ok")
           /\ parked' = parked
  <2>1. PICK id : id = <<s, issued[s] + 1>>
    OBVIOUS
  <2>2. issued \in [Sessions -> 0 .. MaxRequests]
    BY Parts DEF FieldsTyped
  <2>3. active'[s] = id /\ id \in Ids
    BY <1>2, <1>8, <2>1, <2>2, NextIdIsNew
  <2>4. loop' = Wake([loop EXCEPT !.task[t].id = id], t, "ok")
    BY <1>8, <2>3
  <2> QED BY <1>3, <1>8, <2>3, <2>4, BeginHeard
<1>9. CASE /\ task[t].at \in {"sending", "last", "responding"} /\ loop' = Wake(loop, t, "ok")
           /\ parked' = parked /\ active' = active
  <2>1. PICK a \in {"ok", "error"} : a = "ok"
    OBVIOUS
  <2>2. Keeper(t) => task[t].at = "last"
    BY <1>9 DEF Keeper, Fresh, Giving
  <2>3. loop' = Wake(loop, t, a) /\ parked' = parked /\ active' = active
    BY <1>9, <2>1
  <2> QED BY <1>3, <2>2, <2>3, AnsweredHeard
<1>10. CASE /\ task[t].at = "confirming" /\ parked' = parked \cup {t} /\ loop' = loop
            /\ active' = active
  <2>1. ~Keeper(t)
    BY <1>10 DEF Keeper, Fresh, Giving
  <2> QED BY <1>3, <1>10, <2>1, KeptHeard
<1>11. CASE /\ loop' = Wake(Woken(loop, Kept(s, {task[t].id}), "cancelled"), t, "ok")
            /\ parked' = parked \ ToSet(Kept(s, {task[t].id}))
            /\ IF active[s] = task[t].id THEN active' = [active EXCEPT ![s] = NoId]
               ELSE active' = active
  <2>1. PICK ids : ids = {task[t].id}
    OBVIOUS
  <2>2. /\ loop' = Wake(Woken(loop, Kept(s, ids), "cancelled"), t, "ok")
        /\ parked' = parked \ ToSet(Kept(s, ids))
    BY <1>11, <2>1
  <2>3. active'[s] = NoId \/ (active' = active /\ active[s] # task[t].id)
    BY <1>2, <1>11
  <2> QED BY <1>3, <2>1, <2>2, <2>3, CancelHeard
<1> QED BY <1>1, <1>5, <1>6, <1>7, <1>8, <1>9, <1>10, <1>11 DEF HandleCommand

(* The desktop answers a call, ... *)
LEMMA AnswerHeard ==
    ASSUME IInv, CallInv, NEW s \in Sessions, PeerAnswers(s)
    PROVE  \E C : Heard(s, C) /\ HeardUpload(s, C)
<1>1. PICK t \in parked : /\ task[t].on = s
                          /\ \E b \in {"plan", "no_plan", "cancelled", "error", "ok"} : loop' = Wake(loop, t, b)
                          /\ parked' = parked \ {t}
  BY DEF PeerAnswers
<1>2. PICK b \in {"plan", "no_plan", "cancelled", "error", "ok"} : loop' = Wake(loop, t, b)
  BY <1>1
<1>3. PICK a \in Answers : a = b
  BY DEF Answers
<1>4. a # "none" /\ loop' = Wake(loop, t, a)
  BY <1>2, <1>3
<1>5. t \in Tasks /\ loop \in LoopType /\ task[t].at \in {"finishing", "confirming"}
  BY Parts, LoopTyped, WhereTasksAre
<1>6. Onward(loop, loop') /\ \A u \in Tasks \ {t} : task'[u] = task[u]
  BY <1>4, <1>5, WakeOnward DEF task
<1>7. PICK C : C = {t}
  OBVIOUS
<1>8. \A u \in Tasks : /\ task'[u].kind = task[u].kind /\ task'[u].at = task[u].at
                       /\ task'[u].on = task[u].on /\ task'[u].valid = task[u].valid
  BY <1>6 DEF Onward, Joins, task
<1>9. /\ state' = state /\ app' = app /\ activity' = activity /\ life[s] = "open"
      /\ life' = life /\ active' = active
  BY DEF PeerAnswers, InLoop, uiVars
<1>10. Heard(s, C)
  BY <1>1, <1>6, <1>7, <1>8, <1>9 DEF Heard
<1>11. ~Keeper(t)
  BY <1>5 DEF Keeper, Fresh, Giving
<1> QED BY <1>7, <1>9, <1>10, <1>11 DEF HeardUpload

(* ... or asks for a decision. *)
LEMMA AskHeard ==
    ASSUME IInv, CallInv, NEW s \in Sessions, PeerAsks(s)
    PROVE  \E C : Heard(s, C) /\ HeardUpload(s, C)
<1>1. /\ loop' = [loop EXCEPT !.ready = @ \o Watcher(s)] /\ state' = state /\ app' = app
      /\ activity' = activity /\ life[s] = "open" /\ life' = life /\ active' = active
      /\ parked' = parked
  BY DEF PeerAsks, InLoop, uiVars
<1>2. task' = task
  <2>1. loop \in LoopType
    BY Parts, LoopTyped
  <2> QED BY <1>1, <2>1 DEF LoopType, task
<1>3. PICK C : C = {}
  OBVIOUS
<1>4. Heard(s, C)
  BY <1>1, <1>2, <1>3 DEF Heard
<1> QED BY <1>1, <1>3, <1>4 DEF HeardUpload

(* A session ends. *)
LEMMA EndHeard ==
    ASSUME IInv, CallInv, NEW s \in Sessions, SessionEnds(s)
    PROVE  \E C : Heard(s, C) /\ HeardUpload(s, C)
<1>1. /\ state' = state /\ app' = app /\ activity' = activity
      /\ life[s] = "open" /\ life' = [life EXCEPT ![s] = "ended"]
      /\ active' = [active EXCEPT ![s] = NoId]
  BY DEF SessionEnds, uiVars
<1>2. /\ Onward(loop, loop')
      /\ \A u \in Tasks : ~Occurs(queue[s], u) /\ u \notin KeptTasks(s, Ids) =>
           task'[u].answer = task[u].answer
      /\ parked' = parked \ KeptTasks(s, Ids)
  BY EndAnswers
<1>3. life \in [Sessions -> {"unborn", "open", "ended"}] /\ active \in [Sessions -> Ids \cup {NoId}]
  BY Parts DEF FieldsTyped
<1>4. /\ life'[s] = "ended" /\ active'[s] = NoId
      /\ \A z \in Sessions \ {s} : life'[z] = life[z] /\ active'[z] = active[z]
  BY <1>1, <1>3
<1>5. PICK C : C = {u \in Tasks : task[u].on = s}
  OBVIOUS
<1>6. \A u \in Tasks \ C : ~Occurs(queue[s], u) /\ u \notin KeptTasks(s, Ids)
  BY <1>5, WhereTasksAre DEF KeptTasks
<1>7. \A u \in Tasks : /\ task'[u].kind = task[u].kind /\ task'[u].at = task[u].at
                       /\ task'[u].on = task[u].on /\ task'[u].valid = task[u].valid
                       /\ task'[u].id = task[u].id
  BY <1>2 DEF Onward, Joins, task
<1>8. Heard(s, C)
  BY <1>1, <1>2, <1>4, <1>5, <1>6, <1>7 DEF Heard
<1> QED BY <1>4, <1>8 DEF HeardUpload

(* A session leaves its loop: it answers nobody, or the command it was writing. *)
LEMMA LeaveHeard ==
    ASSUME IInv, CallInv, NEW s \in Sessions, ShutdownHandled(s) \/ LoopBreaks(s)
    PROVE  \E C : Heard(s, C) /\ HeardUpload(s, C)
<1>1. /\ state' = state /\ app' = app /\ activity' = activity /\ life[s] = "open"
      /\ life' = life /\ active' = active /\ parked' = parked
  BY DEF ShutdownHandled, LoopBreaks, InLoop, uiVars
<1>2. CASE loop' = loop
  <2>1. PICK C : C = {}
    OBVIOUS
  <2>2. Heard(s, C)
    BY <1>1, <1>2, <2>1 DEF Heard, task
  <2> QED BY <1>1, <2>1, <2>2 DEF HeardUpload
<1>3. CASE loop' # loop
  <2>1. PICK t : t = Head(queue[s])
    OBVIOUS
  <2>2. /\ queue[s] # <<>> /\ Head(queue[s]) # Shutdown /\ task[t].at = "confirming"
        /\ loop' = Wake(loop, t, "error") /\ queue' = [queue EXCEPT ![s] = Tail(@)]
    BY <1>3, <2>1 DEF ShutdownHandled, LoopBreaks
  <2>3. UploadTaken(s, t)
    BY <1>1, <2>1, <2>2 DEF UploadTaken, TakesCommand
  <2>4. PICK a \in {"ok", "error"} : a = "error"
    OBVIOUS
  <2>5. loop' = Wake(loop, t, a)
    BY <2>2, <2>4
  <2>6. ~Keeper(t)
    BY <2>2 DEF Keeper, Fresh, Giving
  <2> QED BY <1>1, <2>3, <2>5, <2>6, AnsweredHeard
<1> QED BY <1>2, <1>3

(* Whatever a session does is an answer to its own callers. *)
LEMMA ActorsHeard ==
    ASSUME IInv, CallInv, Actors
    PROVE  \E s \in Sessions : \E C : Heard(s, C) /\ HeardUpload(s, C)
<1>1. PICK s \in Sessions :
        \/ HandleCommand(s) \/ ShutdownHandled(s) \/ PeerAnswers(s) \/ PeerAsks(s)
        \/ LoopBreaks(s) \/ SessionEnds(s)
  BY DEF Actors
<1>2. \E C : Heard(s, C) /\ HeardUpload(s, C)
  BY <1>1, CommandHeard, LeaveHeard, EndHeard, AnswerHeard, AskHeard
<1> QED BY <1>2

(* Every step of a timely run keeps recordings shown, and stopped in the background. *)
LEMMA ShownNext ==
    ASSUME IInv, CallInv, FlowInv, ShownInv, Timely, [Next]_vars
    PROVE  ShownInv'
<1>1. CASE Turn
  BY <1>1, ShownTurns
<1>2. CASE Callbacks \/ Outside
  BY <1>2, StepsIdle, ShownIdle
<1>3. CASE Actors
  <2>1. PICK s, C : Heard(s, C)
    BY <1>3, ActorsHeard
  <2> QED BY <2>1, ShownHeard
<1>4. CASE UNCHANGED vars
  <2>1. state' = state /\ app' = app /\ activity' = activity /\ task' = task
    BY <1>4 DEF vars, uiVars, task
  <2> QED BY <2>1 DEF ShownInv, RecordingShown, StoppedAway, BeingStopped, Pending
<1> QED BY <1>1, <1>2, <1>3, <1>4 DEF Next

(* The task whose turn it is keeps an upload only just begun, or with a chunk sent. *)
LEMMA TurnKeeper ==
    ASSUME NEW t, Flows(t)
    PROVE  /\ Keeper(t) => task[t].at \in {"begin", "last"}
           /\ t \in Tasks /\ t \notin parked
<1>1. /\ t \in Tasks
      /\ task[t].at \in CallStations => task[t].answer # "none"
  BY FirstAnswered
<1>2. Giving \cup {"finishing"} \subseteq CallStations
  BY DEF Giving, CallStations, HeldCalls, FreeCalls
<1>3. t \notin parked
  <2>1. Occurs(loop.ready, t)
    BY HeadOccurs, LoopTyped DEF Flows, OnTurn
  <2>2. Placed(loop, queue, parked, {}, t)
    BY <1>1 DEF Flows, OnTurn, AllInPlace, InPlace
  <2> QED BY <2>1, <2>2 DEF Placed
<1>4. Keeper(t) => task[t].at \in {"begin", "last"}
  BY <1>1, <1>2 DEF Keeper, Fresh
<1> QED BY <1>1, <1>3, <1>4

(* A task that is not disturbed keeps the upload it has. *)
LEMMA OthersKeep ==
    ASSUME NEW u, Undisturbed(u), Keeper(u), active' = active, parked' = parked,
           state'.session = state.session,
           task[u].at = "last" => state'.pending_request_id = state.pending_request_id
    PROVE  Keeper(u)'
<1>1. /\ task'[u].at = task[u].at /\ task'[u].on = task[u].on /\ task'[u].id = task[u].id
      /\ task'[u].answer = task[u].answer
  BY DEF Undisturbed
<1> QED BY <1>1 DEF Keeper, Fresh

(* A turn that begins no upload elsewhere leaves a session that is about to be
   installed without one. *)
LEMMA TurnClean ==
    ASSUME IInv, \A u \in Tasks : Clean(u), NEW t \in Tasks,
           \A u \in Tasks \ {t} : Undisturbed(u), active' = active,
           LiveScan(t)' /\ Reaches(t)' =>
             LiveScan(t) /\ Reaches(t) /\ task'[t].on = task[t].on,
           task'[t].at = "begin" =>
             task'[t].on = state.session \/ (task[t].at = "begin" /\ task'[t].on = task[t].on)
    PROVE  \A u \in Tasks : Clean(u)'
<1> SUFFICES ASSUME NEW u \in Tasks, LiveScan(u)', Reaches(u)'
             PROVE  /\ active'[task'[u].on] = NoId
                    /\ \A v \in Tasks : task'[v].at = "begin" => task'[v].on # task'[u].on
  BY DEF Clean
<1>1. LiveScan(u) /\ Reaches(u) /\ task'[u].on = task[u].on
  BY DEF LiveScan, Reaches, Undisturbed
<1>2. active[task[u].on] = NoId /\ \A v \in Tasks : task[v].at = "begin" => task[v].on # task[u].on
  BY <1>1 DEF Clean
<1>3. task[u].on \in Sessions
  BY <1>1, Parts DEF Shaped, Reaches
<1>4. state.session = NoSession
  <2>1. NoneLeaving
    BY <1>1, Parts DEF NoneLeaving, WindowInv, Reaches
  <2> QED BY <1>1, <2>1, Parts DEF WindowInv
<1>5. ASSUME NEW v \in Tasks, task'[v].at = "begin" PROVE task'[v].on # task[u].on
  <2>1. CASE v = t
    BY <1>2, <1>3, <1>4, <1>5, <2>1 DEF NoSession, Sessions
  <2>2. CASE v # t
    BY <1>2, <1>5, <2>2 DEF Undisturbed
  <2> QED BY <2>1, <2>2
<1> QED BY <1>1, <1>2, <1>5

(* A quiet turn after which the upload that is open has its keeper. *)
LEMMA UploadTurn ==
    ASSUME NEW t, Flows(t), UploadInv, Aside, QuietBy(t),
           Usable /\ active[state.session] # NoId /\ ~state'.recorder =>
             \E u \in Tasks : Keeper(u)'
    PROVE  UploadInv'
<1>1. /\ IInv /\ t \in Tasks /\ active' = active /\ life' = life /\ parked' = parked
      /\ state'.session = state.session
  BY FirstAnswered DEF Flows, Aside, QuietBy, QuietState
<1>2. Unborn'
  BY <1>1 DEF UploadInv, Unborn
<1>3. \A u \in Tasks : Clean(u)'
  <2>1. /\ LiveScan(t)' /\ Reaches(t)' =>
             LiveScan(t) /\ Reaches(t) /\ task'[t].on = task[t].on
        /\ task'[t].at = "begin" =>
             task'[t].on = state.session \/ (task[t].at = "begin" /\ task'[t].on = task[t].on)
    BY DEF QuietBy, QuietScan, QuietRecord, LiveScan, Reaches
  <2>2. \A u \in Tasks \ {t} : Undisturbed(u)
    BY DEF QuietBy
  <2> QED BY <1>1, <2>1, <2>2, TurnClean DEF UploadInv
<1>4. UploadKept'
  BY <1>1 DEF UploadKept, Usable
<1> QED BY <1>2, <1>3, <1>4 DEF UploadInv

(* One that keeps the recorder, and gives up no upload. *)
LEMMA UploadStays ==
    ASSUME NEW t, Flows(t), UploadInv, Aside, QuietBy(t),
           state.recorder => state'.recorder, Keeper(t) => Keeper(t)',
           \/ state'.pending_request_id = state.pending_request_id
           \/ \A u \in Tasks \ {t} : Keeper(u) => task[u].at # "last"
    PROVE  UploadInv'
<1>1. /\ active' = active /\ parked' = parked /\ state'.session = state.session
      /\ \A u \in Tasks \ {t} : Undisturbed(u)
  BY DEF Aside, QuietBy, QuietState
<1>2. ASSUME Usable, active[state.session] # NoId, ~state'.recorder
      PROVE  \E u \in Tasks : Keeper(u)'
  <2>1. PICK u \in Tasks : Keeper(u)
    BY <1>2 DEF UploadInv, UploadKept
  <2>2. CASE u = t
    BY <2>1, <2>2
  <2>3. CASE u # t
    BY <1>1, <2>1, <2>3, OthersKeep
  <2> QED BY <2>2, <2>3
<1> QED BY <1>2, UploadTurn

(* A task that calls the session about its upload, to end or to finish it, keeps it. *)
LEMMA CallKeeps ==
    ASSUME NEW t, Flows(t), Aside, state'.session = state.session, Usable,
           NEW at \in Giving \cup {"last", "finishing"}, at \in HeldCalls <=> AtGate(task[t]),
           NEW id \in Ids \cup {NoId}, id = active[state.session],
           at = "last" => id = state'.pending_request_id,
           Calls(t, state.session, id, at)
    PROVE  Keeper(t)'
<1>1. t \in Tasks /\ task[t] \in TaskType /\ t \notin parked
  BY FirstAnswered, TurnKeeper
<1>2. /\ OnTurn(t) /\ parked' = parked /\ active' = active /\ state.session \in Sessions
      /\ life[state.session] = "open"
  BY Parts DEF Flows, Aside, Usable, StateType
<1>3. at \in HeldCalls \cup FreeCalls /\ at \in Stations
  BY DEF Giving, HeldCalls, FreeCalls, Stations
<1>4. PICK r : r = Called(task[t], state.session, id, at)
  OBVIOUS
<1>5. task'[t] = r
  BY <1>2, <1>3, <1>4, CallTurn DEF Turned
<1>6. r.at = at /\ r.on = state.session /\ r.id = id /\ r.answer = "none"
  BY <1>1, <1>2, <1>3, <1>4, CalledType
<1> QED BY <1>1, <1>2, <1>5, <1>6 DEF Keeper

(* The taps, the scans, and what only ends or goes on, give up no upload, ... *)
LEMMA UploadIdles ==
    ASSUME NEW t, Flows(t), UploadInv, Aside,
           \/ ToggleStarts(t) \/ ToggleResumes(t) \/ StartRecording(t) \/ RecordingUndone(t)
           \/ CancelDone(t) \/ TickStarts(t)
           \/ ScanStarts(t) \/ ScanResumes(t) \/ ScanPublished(t)
    PROVE  UploadInv'
<1>1. QuietBy(t)
  BY QuietTurns
<1>2. state' = state /\ task[t].at \notin {"begin", "last"}
  BY DEF ToggleStarts, ToggleResumes, StartRecording, RecordingUndone, CancelDone, TickStarts,
     ScanStarts, ScanResumes, ScanPublished, Resumes
<1>3. ~Keeper(t)
  BY <1>2, TurnKeeper
<1> QED BY <1>1, <1>2, <1>3, UploadStays

(* ... nor what is answered to a dialog, nor the end of an upload. *)
LEMMA UploadAnswers ==
    ASSUME NEW t, Flows(t), UploadInv, Aside, AnswerStarts(t) \/ Confirmed(t) \/ PreviewArrives(t)
    PROVE  UploadInv'
<1>1. QuietBy(t) /\ state \in StateType /\ t \in Tasks /\ AllInPlace
  BY QuietTurns, Parts, TurnKeeper DEF Flows
<1>2. /\ task[t].at \notin {"begin", "last"}
      /\ \/ state' = state
         \/ state' = [state EXCEPT !.pending_decision = NoId]
         \/ state' = [state EXCEPT !.pending_request_id = NoId]
  BY DEF AnswerStarts, Confirmed, PreviewArrives, Resumes
<1>3. ~Keeper(t) /\ (state.recorder => state'.recorder)
  BY <1>1, <1>2, TurnKeeper DEF StateType
<1>4. CASE AnswerStarts(t)
  <2>1. state'.pending_request_id = state.pending_request_id
    BY <1>1, <1>4 DEF AnswerStarts, StateType
  <2> QED BY <1>1, <1>3, <2>1, UploadStays
<1>5. CASE PreviewArrives(t)
  <2>1. task[t].at = "finishing"
    BY <1>5 DEF PreviewArrives, Resumes
  <2>2. \A u \in Tasks \ {t} : task[u].at # "last"
    BY <1>1, <2>1, OneHolds DEF HeldCalls
  <2> QED BY <1>1, <1>3, <2>2, UploadStays
<1>6. CASE Confirmed(t)
  <2>1. /\ task[t].at = "confirming"
        /\ state' = state \/ (state' = [state EXCEPT !.pending_request_id = NoId]
                                /\ state.pending_request_id = task[t].id)
    BY <1>6 DEF Confirmed, Resumes, StillConfirming, IsPending
  <2>2. \A u \in Tasks : task[u].at = "last" => task[u].id # task[t].id
    BY <1>1, <2>1, FlowParts DEF Flows, FlowPair, Sending
  <2>3. state.pending_request_id = task[t].id =>
          \A u \in Tasks \ {t} : Keeper(u) => task[u].at # "last"
    BY <2>2 DEF Keeper, Fresh, Giving
  <2> QED BY <1>1, <1>3, <2>1, <2>3, UploadStays
<1> QED BY <1>4, <1>5, <1>6

(* The upload of a recording is the one that is open. *)
LEMMA RecordedIsActive ==
    ASSUME IInv, Usable, state.recorder
    PROVE  /\ state.recording_request_id # NoId
           /\ active[state.session] = state.recording_request_id
BY Parts DEF RecordInv, Usable

(* A cancel gives up what it finds, ... *)
LEMMA UploadCancelStarts ==
    ASSUME NEW t, Flows(t), UploadInv, Aside, CancelStarts(t)
    PROVE  UploadInv'
<1>1. /\ QuietBy(t) /\ state \in StateType /\ t \in Tasks /\ IInv /\ FlowState
      /\ state' = ClearedRequest(state)
  BY QuietTurns, Parts, TurnKeeper, FlowParts DEF Flows, CancelStarts
<1>2. task[t].at = "start" /\ ~AtGate(task[t]) /\ ~Keeper(t) /\ "cancelling" \notin HeldCalls
  BY TurnKeeper DEF CancelStarts, Resumes, AtGate, GateStations, HeldCalls
<1>3. state'.session = state.session
  BY <1>1, AbortedFields
<1>4. ASSUME Usable, active[state.session] # NoId
      PROVE  \E u \in Tasks : Keeper(u)'
  <2>1. PICK id \in Ids \cup {NoId} :
          id = IF state.recording_request_id # NoId THEN state.recording_request_id
               ELSE state.pending_request_id
    BY <1>1 DEF StateType
  <2>2. CancelsAndResets(t, id, "cancelling")
    BY <2>1 DEF CancelStarts
  <2>3. ASSUME id = active[state.session] PROVE Keeper(t)'
    <3>1. Calls(t, state.session, id, "cancelling")
      BY <1>4, <2>2, <2>3 DEF CancelsAndResets, Usable
    <3> QED BY <1>2, <1>3, <1>4, <2>3, <3>1, CallKeeps DEF Giving
  <2>4. CASE state.recorder
    BY <1>1, <1>4, <2>1, <2>3, <2>4, RecordedIsActive
  <2>5. CASE ~state.recorder
    <3>1. PICK u \in Tasks : Keeper(u)
      BY <1>4, <2>5 DEF UploadInv, UploadKept
    <3>2. CASE task[u].at = "last"
      <4>1. task[u].id = state.pending_request_id /\ task[u].id = active[state.session]
        BY <3>1, <3>2 DEF Keeper, Fresh, Giving
      <4> QED BY <1>1, <2>1, <2>3, <2>5, <4>1 DEF FlowState
    <3>3. CASE task[u].at # "last"
      <4>1. Undisturbed(u)
        BY <1>1, <1>2, <3>1 DEF QuietBy
      <4> QED BY <1>3, <3>1, <3>3, <4>1, OthersKeep DEF Aside
    <3> QED BY <3>2, <3>3
  <2> QED BY <2>4, <2>5
<1> QED BY <1>1, <1>4, UploadTurn

(* ... as does an abort, ... *)
LEMMA UploadAborts ==
    ASSUME NEW t, Flows(t), UploadInv, Aside, QuietBy(t), Aborts(t),
           task[t].at \in {"drain", "sending"}, task[t].at = "drain" => state.recorder
    PROVE  UploadInv'
<1>1. /\ state \in StateType /\ t \in Tasks /\ IInv /\ FlowState
      /\ state' = Aborted /\ AllInPlace /\ "aborting" \in HeldCalls
  BY Parts, TurnKeeper, FlowParts DEF Flows, Aborts, HeldCalls
<1>2. AtGate(task[t]) /\ ~Keeper(t)
  BY TurnKeeper DEF AtGate, GateStations, HeldCalls
<1>3. state'.session = state.session
  BY <1>1, AbortedFields
<1>4. ASSUME Usable, active[state.session] # NoId
      PROVE  \E u \in Tasks : Keeper(u)'
  <2>1. CASE state.recorder
    <3>1. PICK id \in Ids \cup {NoId} : id = state.recording_request_id
      BY <1>1 DEF StateType
    <3>2. id # NoId /\ id = active[state.session]
      BY <1>1, <1>4, <2>1, <3>1, RecordedIsActive
    <3>3. Calls(t, state.session, id, "aborting")
      BY <1>4, <3>1, <3>2 DEF Aborts, CancelsAndResets, Usable
    <3>4. Keeper(t)'
      BY <1>1, <1>2, <1>3, <1>4, <3>2, <3>3, CallKeeps DEF Giving
    <3> QED BY <1>1, <3>4
  <2>2. CASE ~state.recorder
    <3>1. PICK u \in Tasks : Keeper(u)
      BY <1>4, <2>2 DEF UploadInv, UploadKept
    <3>2. task[t].at \in HeldCalls /\ "last" \in HeldCalls
      BY <2>2 DEF HeldCalls
    <3>3. task[u].at # "last"
      BY <1>1, <1>2, <3>1, <3>2, OneHolds
    <3>4. Undisturbed(u)
      BY <1>1, <1>2, <3>1 DEF QuietBy
    <3> QED BY <1>3, <3>1, <3>3, <3>4, OthersKeep DEF Aside
  <2> QED BY <2>1, <2>2
<1> QED BY <1>4, UploadTurn

(* ... a tick, ... *)
LEMMA UploadTicks ==
    ASSUME NEW t, Flows(t), UploadInv, Aside, TickDrains(t) \/ TickSent(t)
    PROVE  UploadInv'
<1>1. QuietBy(t)
  BY QuietTurns
<1>2. /\ task[t].at \in {"drain", "sending"}
      /\ \/ state' = state
         \/ Aborts(t) /\ (task[t].at = "drain" => state.recorder)
  BY DEF TickDrains, TickSent, Resumes
<1>3. CASE state' = state
  <2>1. ~Keeper(t)
    BY <1>2, TurnKeeper
  <2> QED BY <1>1, <1>3, <2>1, UploadStays
<1> QED BY <1>1, <1>2, <1>3, UploadAborts

(* ... and the end of a recording hands its upload on, ... *)
LEMMA UploadFinalize ==
    ASSUME NEW t, Flows(t), UploadInv, Aside, Finalize(t)
    PROVE  UploadInv'
<1>1. /\ QuietBy(t) /\ state \in StateType /\ t \in Tasks /\ IInv /\ FlowState
      /\ state' = [state EXCEPT !.recorder = FALSE, !.recording_request_id = NoId]
  BY QuietTurns, Parts, TurnKeeper, FlowParts DEF Flows, Finalize
<1>2. task[t].at = "finalize" /\ AtGate(task[t]) /\ ~Keeper(t)
  BY TurnKeeper DEF Finalize, Resumes, AtGate, GateStations
<1>3. /\ state'.session = state.session
      /\ state'.pending_request_id = state.pending_request_id
  BY <1>1 DEF StateType
<1>4. CASE ~state.recorder
  BY <1>1, <1>2, <1>3, <1>4, UploadStays
<1>5. CASE state.recorder
  <2>1. ASSUME Usable PROVE Keeper(t)'
    <3>1. PICK id \in Ids \cup {NoId} : id = state.recording_request_id
      BY <1>1 DEF StateType
    <3>2. id # NoId /\ id = active[state.session] /\ id = state.pending_request_id
      BY <1>1, <1>5, <2>1, <3>1, RecordedIsActive DEF FlowState
    <3>3. PICK at \in {"last", "finishing", "dropping"} : Calls(t, state.session, id, at)
      BY <1>5, <2>1, <3>1, <3>2 DEF Finalize, SendsRest, IsPending, Usable
    <3>4. at \in HeldCalls
      BY DEF HeldCalls
    <3> QED BY <1>2, <1>3, <2>1, <3>2, <3>3, <3>4, CallKeeps DEF Giving
  <2> QED BY <1>1, <2>1, UploadTurn
<1> QED BY <1>4, <1>5

(* ... chunk by chunk. *)
LEMMA UploadLastChunkSent ==
    ASSUME NEW t, Flows(t), UploadInv, Aside, LastChunkSent(t)
    PROVE  UploadInv'
<1>1. /\ QuietBy(t) /\ t \in Tasks /\ IInv /\ state' = state /\ task[t] \in TaskType
  BY QuietTurns, TurnKeeper, FirstAnswered DEF Flows, LastChunkSent
<1>2. task[t].at = "last" /\ AtGate(task[t])
  BY DEF LastChunkSent, Resumes, AtGate, HeldCalls
<1>3. ASSUME Usable, Keeper(t) PROVE Keeper(t)'
  <2>1. PICK id \in Ids \cup {NoId} : id = task[t].id
    BY <1>1 DEF TaskType
  <2>2. id = state.pending_request_id /\ id = active[state.session] /\ task[t].on = state.session
    BY <1>2, <1>3, <2>1 DEF Keeper, Fresh, Giving
  <2>3. PICK at \in {"last", "finishing", "dropping"} : Calls(t, state.session, id, at)
    BY <2>1, <2>2 DEF LastChunkSent, SendsRest, IsPending
  <2>4. at \in HeldCalls
    BY DEF HeldCalls
  <2> QED BY <1>1, <1>2, <1>3, <2>2, <2>3, <2>4, CallKeeps DEF Giving
<1>4. ASSUME Usable, active[state.session] # NoId, ~state'.recorder
      PROVE  \E u \in Tasks : Keeper(u)'
  <2>1. PICK u \in Tasks : Keeper(u)
    BY <1>1, <1>4 DEF UploadInv, UploadKept
  <2>2. CASE u = t
    BY <1>1, <1>3, <1>4, <2>1, <2>2
  <2>3. CASE u # t
    <3>1. Undisturbed(u)
      BY <1>1, <2>3 DEF QuietBy
    <3> QED BY <1>1, <2>1, <3>1, OthersKeep DEF Aside
  <2> QED BY <2>2, <2>3
<1> QED BY <1>1, <1>4, UploadTurn

(* A recording that begins takes its upload, or gives it up. *)
LEMMA UploadBegins ==
    ASSUME NEW t, Flows(t), UploadInv, Aside, RecordingBegins(t)
    PROVE  UploadInv'
<1>1. /\ task[t].kind = "toggle" /\ task[t].at = "begin" /\ t \in Tasks /\ task[t] \in TaskType
      /\ Shaped(task[t]) /\ state \in StateType /\ AtGate(task[t])
  BY FlowTaken DEF RecordingBegins, AtGate, HeldCalls
<1>2. /\ OnTurn(t) /\ IInv /\ parked' = parked /\ active' = active /\ life' = life
  BY DEF Flows, Aside
<1>3. PICK s \in Sessions : s = task[t].on
  BY <1>1 DEF Shaped, HeldCalls
<1>4. PICK id \in Ids \cup {NoId} : id = task[t].id
  BY <1>1 DEF TaskType
<1>5. PICK r : Turned(t, r) /\ r.at \in {"none", "undo"} /\ r.kind \in {"none", "toggle"}
  <2>1. Ends(t) => Turned(t, NoTask)
    BY <1>2, EndTurn
  <2>2. NoTask.at = "none" /\ NoTask.kind = "none"
    BY DEF NoTask
  <2>3. "undo" \in HeldCalls /\ "undo" \in Stations
    BY DEF HeldCalls, Stations
  <2>4. Undo(t) => Turned(t, Called(task[t], s, id, "undo"))
    BY <1>1, <1>2, <1>3, <1>4, <2>3, CallTurn DEF Undo
  <2>5. Called(task[t], s, id, "undo").at = "undo" /\ Called(task[t], s, id, "undo").kind = "toggle"
    BY <1>1, <2>3, CalledType
  <2>6. Ends(t) \/ Undo(t)
    BY DEF RecordingBegins
  <2> QED BY <2>1, <2>2, <2>4, <2>5, <2>6
<1>6. (\A u \in Tasks \ {t} : Undisturbed(u)) /\ task'[t] = r
  BY <1>5 DEF Turned
<1>7. Unborn'
  BY <1>2 DEF UploadInv, Unborn
<1>8. \A u \in Tasks : Clean(u)'
  <2>1. ~LiveScan(t)' /\ task'[t].at # "begin"
    BY <1>5, <1>6 DEF LiveScan
  <2> QED BY <1>1, <1>2, <1>6, <2>1, TurnClean DEF UploadInv
<1>9. CASE state'.recorder
  BY <1>7, <1>8, <1>9 DEF UploadInv, UploadKept
<1>10. CASE ~state'.recorder
  <2>1. state' = state
    BY <1>1, <1>10 DEF RecordingBegins, StateType
  <2>2. ASSUME Usable, active[state.session] # NoId
        PROVE  \E u \in Tasks : Keeper(u)'
    <3>1. PICK u \in Tasks : Keeper(u)
      BY <1>10, <2>1, <2>2 DEF UploadInv, UploadKept
    <3>2. CASE u = t
      <4>1. Fresh(t) /\ s = state.session /\ id = active[state.session]
        BY <1>1, <1>3, <1>4, <3>1, <3>2 DEF Keeper, Giving
      <4>2. Calls(t, state.session, id, "undo")
        <5>1. state' # [state EXCEPT !.recorder = TRUE, !.recording_request_id = task[t].id,
                                     !.pending_request_id = task[t].id]
          BY <1>1, <1>10 DEF StateType
        <5> QED BY <1>3, <1>4, <4>1, <5>1 DEF RecordingBegins, Undo, Fresh
      <4>3. Keeper(t)'
        <5>1. "undo" \in HeldCalls
          BY DEF HeldCalls
        <5> QED BY <1>1, <2>1, <2>2, <4>1, <4>2, <5>1, CallKeeps DEF Giving
      <4> QED BY <1>1, <4>3
    <3>3. CASE u # t
      BY <1>2, <1>6, <2>1, <3>1, <3>3, OthersKeep
    <3> QED BY <3>2, <3>3
  <2>3. UploadKept'
    BY <1>2, <2>1, <2>2 DEF UploadKept, Usable
  <2> QED BY <1>7, <1>8, <2>3 DEF UploadInv
<1> QED BY <1>9, <1>10

(* A turn of a task that keeps no upload, with the fields as they are. *)
LEMMA StillKept ==
    ASSUME NEW t, Flows(t), UploadKept, task[t].at \notin {"begin", "last"},
           \A u \in Tasks \ {t} : Undisturbed(u), state' = state, active' = active,
           parked' = parked, Usable' => Usable
    PROVE  UploadKept'
<1> SUFFICES ASSUME Usable, active[state.session] # NoId, ~state.recorder
             PROVE  \E u \in Tasks : Keeper(u)'
  BY DEF UploadKept
<1>1. PICK u \in Tasks : Keeper(u)
  BY DEF UploadKept
<1>2. u # t
  BY <1>1, TurnKeeper
<1> QED BY <1>1, <1>2, OthersKeep

(* A session that has just been born has no upload, and nobody begins one there. *)
LEMMA UploadBorn ==
    ASSUME NEW t, Flows(t), UploadInv, task[t].at = "connecting", NEW r, Turned(t, r),
           NEW s \in Sessions, life[s] = "unborn", life' = [life EXCEPT ![s] = "open"],
           r.at = "connected", r.on = s,
           state' = state, parked' = parked, active' = active
    PROVE  UploadInv'
<1>1. /\ IInv /\ t \in Tasks /\ task'[t] = r /\ life \in [Sessions -> {"unborn", "open", "ended"}]
      /\ \A u \in Tasks \ {t} : Undisturbed(u)
  BY TurnKeeper, Parts DEF Flows, Turned, FieldsTyped
<1>2. Unborn'
  BY <1>1 DEF UploadInv, Unborn
<1>3. \A u \in Tasks : task'[u].at = "begin" => u # t /\ task[u].at = "begin" /\ task'[u].on = task[u].on
  BY <1>1 DEF Undisturbed
<1>4. \A u \in Tasks : task[u].on # s
  <2>1. s # NoSession
    BY DEF Sessions, NoSession
  <2> QED BY <1>1, <2>1, Parts DEF WindowInv
<1>5. ASSUME NEW u \in Tasks PROVE Clean(u)'
  <2>1. CASE u = t
    <3>1. active[s] = NoId
      BY DEF UploadInv, Unborn
    <3> QED BY <1>1, <1>3, <1>4, <2>1, <3>1 DEF Clean
  <2>2. CASE u # t
    <3>1. Clean(u) /\ Undisturbed(u)
      BY <1>1, <2>2 DEF UploadInv
    <3> QED BY <1>3, <3>1 DEF Clean, LiveScan, Reaches, Undisturbed
  <2> QED BY <2>1, <2>2
<1>6. UploadKept'
  <2>1. state.session # s /\ state.session \in Sessions \cup {NoSession}
    BY <1>1, Parts DEF WindowInv, StateType, Sessions, NoSession
  <2>2. Usable' => Usable
    BY <1>1, <2>1 DEF Usable
  <2> QED BY <1>1, <2>2, StillKept DEF UploadInv
<1> QED BY <1>2, <1>5, <1>6 DEF UploadInv

(* The turns that lose, leave and install sessions. *)
LEMMA UploadSessions ==
    ASSUME NEW t, Flows(t), UploadInv, IInv', Undecided, parked' = parked, active' = active,
           life' = life, Disconnects(t) \/ Installs(t) \/ Connects(t) \/ Subscribes(t) \/ EventRead(t)
    PROVE  UploadInv'
<1>1. PICK r : Turned(t, r) /\ SessionTask(t, r)
  BY SessionTurns
<1>2. /\ IInv /\ t \in Tasks /\ task'[t] = r /\ \A u \in Tasks \ {t} : Undisturbed(u)
      /\ state \in StateType /\ Shaped(task[t])
  BY <1>1, TurnKeeper, Parts DEF Flows, Turned
<1>3. task[t].at \notin {"begin", "last"}
  BY DEF Disconnects, Installs, Connects, Subscribes, EventRead, Resumes
<1>4. Unborn'
  BY DEF UploadInv, Unborn
<1>5. \A u \in Tasks : Clean(u)'
  <2>1. \/ r.at = "none"
        \/ r.kind = "events" /\ r.at = "changed"
        \/ /\ r.at = "install" /\ task[t].at = "connected" /\ r.on = task[t].on
           /\ r.kind = task[t].kind /\ r.valid = task[t].valid
    <3>1. ~(r.on \in Sessions /\ life[r.on] = "unborn")
      BY <1>2 DEF IInv, WindowInv, Sessions, NoSession
    <3> QED BY <1>1, <3>1 DEF SessionTask, NoTask
  <2>2. /\ LiveScan(t)' /\ Reaches(t)' => LiveScan(t) /\ Reaches(t) /\ task'[t].on = task[t].on
        /\ task'[t].at # "begin"
    BY <1>2, <2>1 DEF LiveScan, Reaches
  <2> QED BY <1>2, <2>2, TurnClean DEF UploadInv
<1>6. CASE state' = state
  <2>1. Usable' => Usable
    BY <1>6 DEF Usable
  <2> QED BY <1>2, <1>3, <1>4, <1>5, <1>6, <2>1, StillKept DEF UploadInv
<1>7. CASE Disconnects(t)
  <2>1. NoSession \in Sessions \cup {NoSession}
    OBVIOUS
  <2>2. state'.session = NoSession
    BY <1>2, <1>7, <2>1, SessionFields DEF Disconnects
  <2> QED BY <1>4, <1>5, <2>2 DEF UploadInv, UploadKept, Usable
<1>8. CASE EventRead(t) /\ state' # state
  <2>1. task[t].on \in Sessions
    BY <1>2, <1>8 DEF EventRead, Resumes, Shaped
  <2>2. event[task[t].on].kind # "decision"
    BY <2>1 DEF Undecided
  <2>3. state' = [ClearedRequest(state) EXCEPT !.session = NoSession]
    BY <1>8, <2>2 DEF EventRead
  <2>4. NoSession \in Sessions \cup {NoSession}
    OBVIOUS
  <2>5. state'.session = NoSession
    BY <1>2, <2>3, <2>4, SessionFields
  <2> QED BY <1>4, <1>5, <2>5 DEF UploadInv, UploadKept, Usable
<1>9. CASE Installs(t) /\ state' # state
  <2>1. LiveScan(t) /\ Reaches(t) /\ task[t].on \in Sessions
    BY <1>2, <1>9 DEF Installs, Resumes, LiveScan, Reaches, Shaped
  <2>2. active[task[t].on] = NoId
    BY <1>2, <2>1 DEF UploadInv, Clean
  <2>3. state' = [ClearedRequest(state) EXCEPT !.generation = @ + 1, !.session = task[t].on]
    BY <1>9 DEF Installs
  <2>4. PICK s \in Sessions \cup {NoSession} : s = task[t].on
    BY <2>1
  <2>5. state'.session = task[t].on
    BY <1>2, <2>3, <2>4, SessionFields
  <2> QED BY <1>4, <1>5, <2>2, <2>5 DEF UploadInv, UploadKept
<1> QED BY <1>6, <1>7, <1>8, <1>9 DEF Connects, Subscribes

(* A connection that is made, or fails. *)
LEMMA UploadConnects ==
    ASSUME NEW t, Flows(t), UploadInv, IInv', Undecided, parked' = parked, active' = active,
           Connects(t)
    PROVE  UploadInv'
<1>1. /\ OnTurn(t) /\ task[t].at = "connecting" /\ ~AtGate(task[t]) /\ task[t] \in TaskType
      /\ state' = state
  BY FirstAnswered DEF Flows, Connects, Resumes, AtGate, GateStations, HeldCalls
<1>2. ASSUME NEW s \in Sessions, life[s] = "unborn", life' = [life EXCEPT ![s] = "open"],
             Suspends([Continues(Polled, t, "connected") EXCEPT !.task[t].on = s])
      PROVE  UploadInv'
  <2>1. PICK r : r = OnSession(Moved(task[t], "connected"), s)
    OBVIOUS
  <2>2. Turned(t, r)
    BY <1>1, <1>2, <2>1, ConnectTurn
  <2>3. PICK x \in TaskType : x = Moved(task[t], "connected") /\ x.at = "connected"
    BY <1>1, MovedType DEF Stations
  <2>4. r.at = "connected" /\ r.on = s
    BY <2>1, <2>3 DEF OnSession, TaskType
  <2> QED BY <1>1, <1>2, <2>2, <2>4, UploadBorn
<1>3. CASE life' = life
  BY <1>3, UploadSessions
<1> QED BY <1>2, <1>3 DEF Connects

(* A turn abandons no upload. *)
LEMMA UploadTurns ==
    ASSUME IInv, CallInv, FlowInv, UploadInv, IInv', Timely, Turn
    PROVE  UploadInv'
<1>1. PICK t : t = Head(loop.ready)
  OBVIOUS
<1>2. Flows(t) /\ Undecided /\ active' = active /\ parked' = parked
  BY <1>1, Parts DEF Flows, OnTurn, Turn, Timely
<1>3. CASE Connects(t)
  BY <1>2, <1>3, UploadConnects
<1>4. CASE Subscribes(t) \/ EventRead(t)
  BY <1>2, <1>4, UploadSessions DEF Subscribes, EventRead
<1>5. CASE UNCHANGED <<life, event>>
  <2>1. Aside
    BY <1>5 DEF Aside, Turn
  <2>2. CASE Disconnects(t) \/ Installs(t)
    BY <1>2, <1>5, <2>2, UploadSessions
  <2>3. CASE RecordingBegins(t)
    BY <1>2, <2>1, <2>3, UploadBegins
  <2>4. CASE DecisionSent(t)
    BY <1>2, <2>4, FlowDecisionSent
  <2>5. CASE \/ ToggleStarts(t) \/ ToggleResumes(t) \/ StartRecording(t) \/ RecordingUndone(t)
             \/ CancelDone(t) \/ TickStarts(t)
             \/ ScanStarts(t) \/ ScanResumes(t) \/ ScanPublished(t)
    BY <1>2, <2>1, <2>5, UploadIdles
  <2>6. CASE \/ CancelStarts(t) \/ TickDrains(t) \/ TickSent(t) \/ Finalize(t) \/ LastChunkSent(t)
             \/ AnswerStarts(t) \/ Confirmed(t) \/ PreviewArrives(t)
    BY <1>2, <2>1, <2>6, UploadCancelStarts, UploadTicks, UploadFinalize, UploadLastChunkSent,
       UploadAnswers
  <2>7. \/ ToggleStarts(t) \/ ToggleResumes(t) \/ StartRecording(t) \/ RecordingBegins(t)
        \/ RecordingUndone(t) \/ CancelStarts(t) \/ CancelDone(t)
        \/ TickStarts(t) \/ TickDrains(t) \/ TickSent(t) \/ Finalize(t) \/ LastChunkSent(t)
        \/ PreviewArrives(t)
        \/ AnswerStarts(t) \/ DecisionSent(t) \/ Confirmed(t) \/ Disconnects(t)
        \/ ScanStarts(t) \/ ScanResumes(t) \/ ScanPublished(t) \/ Installs(t)
        \/ Connects(t) \/ Subscribes(t) \/ EventRead(t)
    BY <1>1 DEF Turn
  <2> QED BY <1>3, <1>4, <2>2, <2>3, <2>4, <2>5, <2>6, <2>7
<1> QED BY <1>1, <1>3, <1>4, <1>5 DEF Turn

(* The window and the outside move no task that keeps an upload. *)
LEMMA UploadIdle ==
    ASSUME UploadInv, IdleStep
    PROVE  UploadInv'
<1>1. PICK T : Idles(T)
  BY DEF IdleStep
<1>2. /\ state' = state /\ life' = life /\ active' = active /\ parked' = parked
      /\ \A u \in Tasks \ T : Undisturbed(u)
  BY <1>1 DEF Idles, Beside, sessionVars
<1>3. \A u \in T : /\ u \in Tasks /\ task[u].at \in Waits \cup {"none"}
                   /\ task'[u].at \in Waits \cup {"none", "start"}
  BY <1>1 DEF Idles
<1>4. Unborn'
  BY <1>2 DEF UploadInv, Unborn
<1>5. ASSUME NEW u \in Tasks PROVE Clean(u)'
  <2>1. CASE u \in T
    BY <1>3, <2>1 DEF Clean, Reaches, Waits
  <2>2. CASE u \notin T
    <3>1. /\ task'[u].kind = task[u].kind /\ task'[u].at = task[u].at /\ task'[u].on = task[u].on
          /\ task'[u].valid => task[u].valid
      BY <1>2, <2>2 DEF Undisturbed
    <3>2. \A v \in Tasks : task'[v].at = "begin" => task[v].at = "begin" /\ task'[v].on = task[v].on
      <4> SUFFICES ASSUME NEW v \in Tasks, task'[v].at = "begin"
                   PROVE  task[v].at = "begin" /\ task'[v].on = task[v].on
        OBVIOUS
      <4>1. v \notin T
        BY <1>3 DEF Waits
      <4> QED BY <1>2, <4>1 DEF Undisturbed
    <3> QED BY <1>2, <3>1, <3>2 DEF UploadInv, Clean, LiveScan, Reaches
  <2> QED BY <2>1, <2>2
<1>6. UploadKept'
  <2> SUFFICES ASSUME Usable, active[state.session] # NoId, ~state.recorder
               PROVE  \E u \in Tasks : Keeper(u)'
    BY <1>2 DEF UploadKept, Usable
  <2>1. PICK u \in Tasks : Keeper(u)
    BY DEF UploadInv, UploadKept
  <2>2. u \notin T
    BY <1>3, <2>1 DEF Keeper, Fresh, Giving, Waits
  <2> QED BY <1>2, <2>1, <2>2, OthersKeep
<1> QED BY <1>4, <1>5, <1>6 DEF UploadInv

(* Every step of a timely run leaves the upload that is open with its keeper. *)
LEMMA UploadNext ==
    ASSUME IInv, CallInv, FlowInv, UploadInv, IInv', Timely, [Next]_vars
    PROVE  UploadInv'
<1>1. CASE Turn
  BY <1>1, UploadTurns
<1>2. CASE Callbacks \/ Outside
  BY <1>2, StepsIdle, UploadIdle
<1>3. CASE Actors
  BY <1>3, ActorsHeard, UploadHeard
<1>4. CASE UNCHANGED vars
  <2>1. /\ state' = state /\ life' = life /\ active' = active /\ parked' = parked /\ task' = task
    BY <1>4 DEF vars, uiVars, sessionVars, task
  <2> QED BY <2>1 DEF UploadInv, Unborn, Clean, UploadKept, Usable, Keeper, Fresh, LiveScan, Reaches
<1> QED BY <1>1, <1>2, <1>3, <1>4 DEF Next

(* At the start nothing is recorded and no upload is open. *)
LEMMA UploadStarts ==
    ASSUME Init
    PROVE  ShownInv /\ UploadInv
<1>1. /\ ~state.recorder /\ state.session = NoSession /\ \A u \in Tasks : task[u] = NoTask
      /\ \A s \in Sessions : active[s] = NoId
  BY DEF Init, task
<1>2. ShownInv
  BY <1>1 DEF ShownInv, RecordingShown, StoppedAway
<1>3. Unborn /\ UploadKept
  BY <1>1 DEF Unborn, UploadKept, Usable
<1>4. \A u \in Tasks : Clean(u)
  BY <1>1 DEF Clean, LiveScan, NoTask
<1> QED BY <1>2, <1>3, <1>4 DEF UploadInv

-----------------------------------------------------------------------------
(***************************************************************************)
(* What holds of timely runs.                                              *)
(***************************************************************************)

\* The runs of the application that are timely throughout.
TimelySpec == Spec /\ []Timely
\* What holds of them besides the invariant of all runs.
TimelyInv == CallInv /\ FlowInv /\ ShownInv /\ UploadInv

(* In a timely run every call is where it is answered, the flow of a request is in order,
   a recording is shown and stopped in the background, and every upload has its keeper. *)
THEOREM TimelyRuns == TimelySpec => [](IInv /\ TimelyInv)
<1>1. Init => TimelyInv
  BY FlowStarts, UploadStarts DEF TimelyInv
<1>2. IInv /\ IInv' /\ Timely /\ TimelyInv /\ [Next]_vars => TimelyInv'
  <2> SUFFICES ASSUME IInv, IInv', Timely, TimelyInv, [Next]_vars
               PROVE  TimelyInv'
    OBVIOUS
  <2>1. CallInv' /\ FlowInv'
    BY FlowNext DEF TimelyInv, FlowKept
  <2>2. ShownInv' /\ UploadInv'
    BY ShownNext, UploadNext DEF TimelyInv
  <2> QED BY <2>1, <2>2 DEF TimelyInv
<1> QED BY <1>1, <1>2, TasksInPlace, PTL DEF Spec, TimelySpec

(* A recording is the request that is pending (start_recording sets both, and publish_preview,
   abort_recording and a late confirmation leave a newer recording's request alone). *)
THEOREM RecordingAlwaysPending == TimelySpec => []RecordingIsPending
<1>1. TimelyInv => RecordingIsPending
  BY FlowParts DEF TimelyInv, FlowState, RecordingIsPending
<1> QED BY <1>1, TimelyRuns, PTL

(* What a tap approves is what the dialog showed (wire_confirmation reads the pending request
   when its task starts, after the tap). *)
THEOREM AlwaysAnswersWhatWasShown == TimelySpec => []AnswersWhatWasShown
<1>1. TimelyInv => AnswersWhatWasShown
  BY FlowParts DEF TimelyInv, FlowTask, AnswersWhatWasShown
<1> QED BY <1>1, TimelyRuns, PTL

(* The application never records unseen: voice_recording shows the recorder it has taken, or
   the task that stops it is posted.  Nothing is said of the microphone of a start, which
   start_recording keeps to itself until begin_audio is answered. *)
THEOREM RecordingAlwaysShown == TimelySpec => []RecordingShown
<1>1. TimelyInv => RecordingShown
  BY DEF TimelyInv, ShownInv
<1> QED BY <1>1, TimelyRuns, PTL

(* Of the turns only that of a tap's task asks for a recording. *)
LEMMA AskedByToggle ==
    ASSUME IInv, Turn, ~app.input_pending, app'.input_pending
    PROVE  ToggleStarts(Head(loop.ready))
<1>1. PICK t : t = Head(loop.ready)
  OBVIOUS
<1>2. t \in Tasks /\ app \in AppType /\ task[t].valid \in BOOLEAN
  <2>1. t \in Tasks
    BY <1>1, Parts, LoopTyped, HeadOccurs DEF Turn
  <2>2. task[t] \in TaskType
    BY <2>1, Parts
  <2> QED BY <2>1, <2>2, TaskFields, Parts
<1>3. /\ Idle(app) \in AppType /\ ~Idle(app).input_pending
      /\ ResetAndIdle(app) \in AppType /\ ~ResetAndIdle(app).input_pending
      /\ NotPending(t) \in AppType /\ ~NotPending(t).input_pending
  <2>1. Idle(app) \in AppType /\ ResetAndIdle(app) \in AppType
    BY <1>2, AppKept
  <2>2. ~Idle(app).input_pending /\ ~ResetAndIdle(app).input_pending
    BY <1>2, AppFields
  <2>3. NotPending(t) \in AppType /\ (NotPending(t).input_pending => app.input_pending)
    BY <1>2, NotPendingFields
  <2> QED BY <2>1, <2>2, <2>3
<1>4. app' # [app EXCEPT !.input_pending = FALSE]
  BY <1>2 DEF AppType
<1>5. ~(ToggleResumes(t) \/ StartRecording(t) \/ RecordingUndone(t))
  BY <1>3, <1>4 DEF ToggleResumes, StartRecording, RecordingUndone
<1>6. ~RecordingBegins(t)
  <2>1. app' # [NotPending(t) EXCEPT !.voice_recording = TRUE]
    <3>1. PICK a : a = NotPending(t)
      OBVIOUS
    <3>2. a \in AppType
      BY <1>3, <3>1
    <3>3. [a EXCEPT !.voice_recording = TRUE].input_pending = a.input_pending
      BY <3>2 DEF AppType
    <3> QED BY <1>3, <3>1, <3>3
  <2> QED BY <1>3, <2>1 DEF RecordingBegins
<1>7. ~(\/ CancelStarts(t) \/ CancelDone(t) \/ TickStarts(t) \/ TickDrains(t) \/ TickSent(t)
        \/ LastChunkSent(t) \/ DecisionSent(t) \/ Confirmed(t))
  BY <1>3 DEF CancelStarts, CancelsAndResets, CancelDone, TickStarts, TickDrains,
     TickSent, Aborts, LastChunkSent, DecisionSent, Confirmed
<1>8. ~(Finalize(t) \/ PreviewArrives(t))
  BY <1>2, <1>3 DEF Finalize, PreviewArrives, CancelsAndResets, AppType
<1>9. ~AnswerStarts(t)
  <2>1. PICK b : b = [app EXCEPT !.is_busy = TRUE, !.dialog = Nothing]
    OBVIOUS
  <2>2. b \in AppType /\ ~b.input_pending
    BY <1>2, <2>1 DEF AppType, Dialogs
  <2>3. ~Idle(b).input_pending
    BY <2>2, AppFields
  <2>4. ASSUME AnswerStarts(t) PROVE app' \in {app, b, Idle(b)}
    BY <2>1, <2>4 DEF AnswerStarts
  <2> QED BY <2>2, <2>3, <2>4
<1>10. ~(Disconnects(t) \/ ScanStarts(t) \/ Installs(t) \/ Connects(t) \/ Subscribes(t) \/ EventRead(t))
  BY <1>2, <1>3 DEF Disconnects, ScanStarts, Installs, Connects, Subscribes, EventRead, AppType
<1>11. ~(ScanResumes(t) \/ ScanPublished(t))
  <2>1. PICK a : a = [app EXCEPT !.remote_scanning = FALSE]
    OBVIOUS
  <2>2. a \in AppType /\ ~a.input_pending
    BY <1>2, <2>1 DEF AppType
  <2>3. ~Idle(a).input_pending
    BY <2>2, AppFields
  <2> QED BY <1>2, <1>3, <2>1, <2>2, <2>3 DEF ScanResumes, ScanPublished, AppType
<1> QED BY <1>1, <1>5, <1>6, <1>7, <1>8, <1>9, <1>10, <1>11 DEF Turn

(* A turn asks for a recording in the foreground only. *)
LEMMA WantedTurns ==
    ASSUME IInv, Turn
    PROVE  app'.input_pending => app.input_pending \/ Foreground
<1>1. ASSUME ToggleStarts(Head(loop.ready)), app'.input_pending
      PROVE  app.input_pending \/ Foreground
  BY <1>1 DEF ToggleStarts
<1> QED BY <1>1, AskedByToggle

(* No step asks for a recording away from the foreground, and the one that leaves it takes
   back what was asked for. *)
LEMMA WantedNext ==
    ASSUME IInv, NoneWantedAway, [Next]_vars
    PROVE  NoneWantedAway'
<1>1. app \in AppType /\ activity \in ActivityType
  BY Parts
<1>2. CASE Turn
  <2>1. activity' = activity
    BY <1>2 DEF Turn
  <2> QED BY <1>2, <2>1, WantedTurns DEF NoneWantedAway, Foreground
<1>3. CASE Taps
  <2>1. Foreground /\ activity' = activity
    BY <1>3 DEF Taps
  <2> QED BY <2>1 DEF NoneWantedAway, Foreground
<1>4. CASE Resume
  BY <1>1, <1>4 DEF Resume, NoneWantedAway
<1>5. CASE activity' = [activity EXCEPT !.phase = "paused for dialog"]
  <2>1. activity'.phase = "paused for dialog"
    BY <1>1, <1>5 DEF ActivityType
  <2> QED BY <2>1 DEF NoneWantedAway
<1>6. CASE Backgrounded
  <2>1. PICK a : a = IF app.remote_connected THEN app
                     ELSE [Idle(app) EXCEPT !.remote_scanning = FALSE]
    OBVIOUS
  <2>2. a \in AppType /\ a.input_pending = app.input_pending
    BY <1>1, <2>1, AppKept, AppFields DEF AppType
  <2>3. \/ ~app.input_pending /\ app' = a
        \/ app' = [a EXCEPT !.input_pending = FALSE, !.voice_recording = FALSE, !.is_busy = TRUE]
    BY <1>6, <2>1 DEF Backgrounded, CancelsRequest
  <2>4. ~app'.input_pending
    BY <2>2, <2>3 DEF AppType
  <2> QED BY <2>4 DEF NoneWantedAway
<1>7. CASE UNCHANGED <<app, activity>>
  BY <1>7 DEF NoneWantedAway
<1>8. \/ Turn \/ Taps \/ Resume \/ Backgrounded
      \/ activity' = [activity EXCEPT !.phase = "paused for dialog"]
      \/ UNCHANGED <<app, activity>>
  BY DEF Next, Callbacks, TickDue, Pause, Stop, Outside, PermissionPolled, CameraReturns,
     HandshakeEnds, Actors, HandleCommand, ShutdownHandled, PeerAnswers, PeerAsks, LoopBreaks,
     SessionEnds, uiVars, vars
<1> QED BY <1>2, <1>3, <1>4, <1>5, <1>6, <1>7, <1>8

(* A start is wanted in the foreground only: toggle_recording starts none elsewhere, and
   on_backgrounded takes away the flag that start_recording looks at again. *)
LEMMA NoneEverWantedAway == Spec => []NoneWantedAway
<1>1. Init => NoneWantedAway
  BY DEF Init, NoneWantedAway
<1>2. IInv /\ NoneWantedAway /\ [Next]_vars => NoneWantedAway'
  BY WantedNext
<1> QED BY <1>1, <1>2, TasksInPlace, PTL DEF Spec

(* In the background what stops the recorder is posted and no start is wanted any more
   (on_backgrounded, and what start_recording looks at again after begin_audio). *)
THEOREM BackgroundAlwaysCancels == TimelySpec => []BackgroundCancels
<1>1. TimelyInv /\ NoneWantedAway => BackgroundCancels
  BY DEF TimelyInv, ShownInv, StoppedAway, NoneWantedAway, BackgroundCancels
<1> QED BY <1>1, TimelyRuns, NoneEverWantedAway, PTL DEF TimelySpec

(* No tap and no pause asks for a recording by itself. *)
LEMMA AskedInTurns ==
    ASSUME IInv, [Next]_vars, ~app.input_pending, app'.input_pending
    PROVE  Turn
<1>1. app \in AppType
  BY Parts
<1>2. Idle(app) \in AppType /\ ~Idle(app).input_pending
  BY <1>1, AppKept, AppFields
<1>3. ASSUME NEW l, NEW a, CancelsRequest(l, a), a \in AppType PROVE FALSE
  BY <1>3 DEF CancelsRequest, AppType
<1>4. CASE Taps
  BY <1>1, <1>2, <1>3, <1>4 DEF Taps, TapMicrophone, TapCancel, TapDialog, TapDisconnect,
     TapCancelScan, TapScan, AppType
<1>5. CASE Backgrounded
  <2>1. PICK a : a = IF app.remote_connected THEN app
                     ELSE [Idle(app) EXCEPT !.remote_scanning = FALSE]
    OBVIOUS
  <2>2. a \in AppType /\ ~a.input_pending
    BY <1>1, <1>2, <2>1 DEF AppType
  <2>3. app' = a \/ \E l : CancelsRequest(l, a)
    BY <1>5, <2>1 DEF Backgrounded
  <2> QED BY <1>3, <2>2, <2>3
<1>6. Turn \/ Taps \/ Backgrounded \/ app' = app
  BY DEF Next, Callbacks, TickDue, Pause, Stop, Resume, Outside, PermissionPolled,
     CameraReturns, HandshakeEnds, Actors, HandleCommand, ShutdownHandled, PeerAnswers,
     PeerAsks, LoopBreaks, SessionEnds, uiVars, vars
<1> QED BY <1>4, <1>5, <1>6

(* The tap that asks outdates the tasks of earlier ones, those that start a recording too. *)
LEMMA AskingOutdates ==
    ASSUME IInv, [Next]_vars, ~app.input_pending, app'.input_pending
    PROVE  StartsOutdated'
<1>1. PICK t : t = Head(loop.ready)
  OBVIOUS
<1>2. Turn /\ ToggleStarts(t)
  BY <1>1, AskedInTurns, AskedByToggle
<1>3. OnTurn(t) /\ parked' = parked /\ task[t].at = "start"
  BY <1>1, <1>2, Parts DEF OnTurn, Turn, ToggleStarts, Resumes
<1>4. ~AtGate(task[t])
  BY <1>3 DEF AtGate, GateStations, HeldCalls
<1>5. EnsuresPermission([Advanced(Polled) EXCEPT !.task[t].valid = TRUE], t)
  BY <1>2 DEF ToggleStarts
<1>6. /\ \E a \in {"none", "granted", "denied"} :
            Turned(t, WithAnswer(Moved(Ticketed(task[t]), "permission"), a))
      /\ \A u \in Tasks \ {t} : task'[u].kind = "toggle" => ~task'[u].valid
  BY <1>3, <1>4, <1>5, TicketTurn
<1>7. task'[t].at = "permission"
  <2>1. PICK a \in {"none", "granted", "denied"} :
            Turned(t, WithAnswer(Moved(Ticketed(task[t]), "permission"), a))
    BY <1>6
  <2>2. PICK x : x = Moved(Ticketed(task[t]), "permission")
    OBVIOUS
  <2>3. x \in TaskType /\ x.at = "permission" /\ a \in Answers
    <3>1. task[t] \in TaskType /\ "permission" \in Stations /\ a \in Answers
      BY <1>3, PolledFacts DEF Stations, Waits, Answers
    <3>2. Ticketed(task[t]) \in TaskType
      BY <3>1, TicketedType
    <3> QED BY <2>2, <3>1, <3>2, MovedType
  <2>4. WithAnswer(x, a).at = "permission"
    BY <2>3, WithAnswerType
  <2> QED BY <2>1, <2>2, <2>4 DEF Turned
<1>8. SUFFICES ASSUME NEW u \in Starting' PROVE ~task'[u].valid
  BY DEF StartsOutdated
<1>9. u \in Tasks /\ task'[u].kind = "toggle" /\ task'[u].at = "begin"
  BY DEF Starting
<1> QED BY <1>6, <1>7, <1>9

(* A start that was taken off the window during begin_audio never records: the flag comes
   back only with the epoch of a later tap (toggle_recording), which the start's is not. *)
THEOREM CancelledNeverStarts == Spec => CancelledStartsStaySo
<1>1. IInv /\ [Next]_vars =>
        [~app.input_pending /\ app'.input_pending => StartsOutdated']_vars
  BY AskingOutdates
<1> QED BY <1>1, TasksInPlace, PTL DEF Spec, CancelledStartsStaySo

(* A keeper of an upload will finish it or give it up. *)
LEMMA KeptIsHandled ==
    ASSUME IInv, UploadInv
    PROVE  NoUploadAbandoned
<1> SUFFICES ASSUME Usable, active[state.session] # NoId
             PROVE  \/ state.recorder /\ state.recording_request_id = active[state.session]
                    \/ \E t \in Tasks : Handling(t, active[state.session])
  BY DEF NoUploadAbandoned, Usable, Sessions, NoSession
<1>1. CASE state.recorder
  BY <1>1, RecordedIsActive
<1>2. CASE ~state.recorder
  <2>1. PICK u \in Tasks : Keeper(u)
    BY <1>2 DEF UploadInv, UploadKept
  <2>2. Handling(u, active[state.session])
    BY <2>1 DEF Keeper, Fresh, Giving, Handling
  <2> QED BY <2>2
<1> QED BY <1>1, <1>2

(* No upload is abandoned: the one the connected session has open is recorded or in the hands
   of a task (start_recording, finalize_recording, abort_recording, a cancel). *)
THEOREM NoUploadEverAbandoned == TimelySpec => []NoUploadAbandoned
<1>1. IInv /\ TimelyInv => NoUploadAbandoned
  BY KeptIsHandled DEF TimelyInv
<1> QED BY <1>1, TimelyRuns, PTL

(* A desktop that asks for no decision publishes none. *)
LEMMA NoneDecided ==
    ASSUME ~PeerDecides, IInv, Undecided, [Next]_vars
    PROVE  Undecided'
<1>1. event \in [Sessions -> Events] /\ Nothing.kind # "decision" /\ Disconnected.kind # "decision"
  BY Parts DEF FieldsTyped, Nothing, Disconnected
<1>2. \/ event' = event
      \/ \E x : event' = [event EXCEPT ![x] = Nothing]
      \/ \E x : event' = [event EXCEPT ![x] = Disconnected]
  <2>1. CASE Turn
    BY <2>1 DEF Turn, Connects, Subscribes, EventRead
  <2>2. CASE Callbacks
    BY <2>2 DEF Callbacks, Taps, TickDue, Pause, Stop, Resume, sessionVars
  <2>3. CASE Outside
    BY <2>3 DEF Outside, PermissionPolled, CameraReturns, HandshakeEnds, sessionVars
  <2>4. CASE Actors
    BY <2>4 DEF Actors, HandleCommand, ShutdownHandled, PeerAnswers, PeerAsks, LoopBreaks,
       SessionEnds
  <2>5. CASE UNCHANGED vars
    BY <2>5 DEF vars, sessionVars
  <2> QED BY <2>1, <2>2, <2>3, <2>4, <2>5 DEF Next
<1> QED BY <1>1, <1>2 DEF Undecided

(* With one session and a desktop that asks for no decision every run is timely. *)
THEOREM OneSessionIsTimely ==
    ASSUME MaxSessions = 1, ~PeerDecides
    PROVE  Spec => TimelySpec
<1>1. Init => Undecided
  BY DEF Init, Undecided, Nothing
<1>2. IInv /\ Undecided /\ [Next]_vars => Undecided'
  BY NoneDecided
<1>3. IInv => InTime
  <2> SUFFICES ASSUME IInv, NEW u \in Tasks, task[u].at = "cancelling", state.session # NoSession
               PROVE  task[u].on = state.session
    BY DEF InTime
  <2>1. task[u].on \in Sessions /\ state.session \in Sessions
    BY Parts DEF Shaped, FreeCalls, StateType
  <2> QED BY <2>1 DEF Sessions
<1>4. Undecided /\ InTime => Timely
  BY DEF Timely
<1> QED BY <1>1, <1>2, <1>3, <1>4, TasksInPlace, PTL DEF Spec, TimelySpec

(* So the five hold, without any condition on the run, of an application that connects once,
   to a desktop that asks for no decision. *)
THEOREM OneSessionKeepsAll ==
    ASSUME MaxSessions = 1, ~PeerDecides
    PROVE  Spec => [](/\ RecordingIsPending /\ AnswersWhatWasShown /\ RecordingShown
                      /\ BackgroundCancels /\ NoUploadAbandoned)
<1>1. Spec => TimelySpec
  BY OneSessionIsTimely
<1> QED BY <1>1, RecordingAlwaysPending, AlwaysAnswersWhatWasShown, RecordingAlwaysShown,
           BackgroundAlwaysCancels, NoUploadEverAbandoned, PTL
=============================================================================
