--------------------------- MODULE SessionPromise ---------------------------
(***************************************************************************)
(* What RemoteSession promises to the tasks that call its methods,         *)
(* whatever the desktop does: a call is answered once; a preview or a      *)
(* status that answers it is about the request it named; a begun upload    *)
(* gets an id nobody has; once the session has ended calls only fail, and  *)
(* when it is gone none is left waiting.                                   *)
(*                                                                         *)
(* There is no queue, no slot, no deadline and no desktop here: these are  *)
(* how remote_session.rs keeps the promise.                                *)
(***************************************************************************)
CONSTANTS Callers, Ids, NoId

VARIABLES
    asked,   \* per caller: the request it waits for, or NoRequest
    answer,  \* per caller: the answer of its last call
    issued,  \* ids given to uploads
    state    \* "live", "ended" (only failures from here on), "gone"

promiseVars == <<asked, answer, issued, state>>

NoRequest == [op |-> "none", id |-> NoId]
Requests ==
    [op : {"begin_audio", "shutdown"}, id : {NoId}]
    \cup [op : {"send_audio_chunk", "finish_audio", "confirm", "respond_to_decision", "cancel"},
          id : Ids]

Ok(about) == [code |-> "ok", about |-> about]
Failures ==
    [code : {"CONNECTION_INTERRUPTED", "SEND_TIMEOUT", "ENCRYPT_FAILED", "SESSION_CLOSED",
             "DECRYPT_FAILED", "HEARTBEAT_TIMEOUT", "PROTOCOL_VIOLATION", "USER_CLOSED",
             "REMOTE", "AUDIO_BUSY", "UNSUPPORTED_AUDIO_FORMAT", "UNKNOWN_AUDIO_REQUEST",
             "INVALID_AUDIO_CHUNK", "AUDIO_TOO_LARGE", "EMPTY_AUDIO", "REQUEST_BUSY",
             "CANCELLED", "REQUEST_TIMEOUT", "CONFIRM_TIMEOUT"},
     about : {NoId}]
NoAnswer == [code |-> "none", about |-> NoId]

\* The answers that mean success, per request.
Successes(request) ==
    CASE request.op = "begin_audio" -> {Ok(id) : id \in Ids \ issued}
      [] request.op = "finish_audio" -> {Ok(request.id)}
      [] request.op = "confirm" -> {Ok(request.id), [code |-> "interim", about |-> request.id]}
      [] request.op = "shutdown" -> {NoAnswer}
      [] OTHER -> {Ok(NoId)}

Waiting == {c \in Callers : asked[c] # NoRequest}

PromiseInit ==
    /\ asked = [c \in Callers |-> NoRequest]
    /\ answer = [c \in Callers |-> NoAnswer]
    /\ issued = {}
    /\ state = "live"

Ask(c) ==
    /\ asked[c] = NoRequest
    /\ IF state = "gone"
       THEN /\ \E failure \in Failures : answer' = [answer EXCEPT ![c] = failure]
            /\ UNCHANGED asked
       ELSE /\ \E request \in Requests : asked' = [asked EXCEPT ![c] = request]
            /\ answer' = [answer EXCEPT ![c] = NoAnswer]
    /\ UNCHANGED <<issued, state>>

\* Some of the waiting calls are answered, none of the others is touched.
Replies ==
    /\ \A c \in Callers :
        \/ UNCHANGED <<asked[c], answer[c]>>
        \/ /\ asked[c] # NoRequest
           /\ asked'[c] = NoRequest
           /\ answer'[c] \in Failures \cup (IF state = "live" THEN Successes(asked[c]) ELSE {})
    /\ DOMAIN asked' = Callers
    /\ DOMAIN answer' = Callers
    /\ issued' = issued \cup
        {id \in Ids : \E c \in Waiting :
            asked[c].op = "begin_audio" /\ asked'[c] = NoRequest /\ answer'[c] = Ok(id)}

\* A session ends once; it may answer calls in the same step.
Lives == state' \in IF state = "live" THEN {"live", "ended"} ELSE {state}

\* It goes only with every call answered.
Goes ==
    /\ state = "ended"
    /\ state' = "gone"
    /\ \A c \in Callers : asked'[c] = NoRequest

PromiseNext ==
    \/ \E c \in Callers : Ask(c)
    \/ Replies /\ (Lives \/ Goes)

Promise == PromiseInit /\ [][PromiseNext]_promiseVars
=============================================================================
