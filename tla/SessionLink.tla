---------------------------- MODULE SessionLink ----------------------------
(***************************************************************************)
(* The session actor and the reference peer (handle_connection of          *)
(* ale-core/src/mock_server.rs) at the two ends of a socket.  Each         *)
(* direction keeps its order; what is on its way when one end acts makes   *)
(* the two disagree for a while: a cancel crosses a preview, a refusal     *)
(* crosses the chunks that follow, a decision crosses its deadline.        *)
(*                                                                         *)
(* The handshake is over (module Handshake).  A reply longer than a frame  *)
(* (LongPreview) is module SecureChannel's business and Normal here; an    *)
(* answer that comes late (LateConfirmation) is one that stays on the way. *)
(* The link lasts until one end leaves its loop: the tail of the actor is   *)
(* module RemoteSession's.                                                 *)
(***************************************************************************)
EXTENDS RemoteSession

CONSTANTS
    WrongId,    \* the request id of WrongPreviewIds, which no client issued
    Behaviors,  \* the MockBehavior of the peer
    LinkCap     \* bound: messages on their way, in each direction; a peer that
                \* answers a message three times may exceed it

ASSUME WrongIdAssumption == WrongId \notin Ids \cup {NoId}
ASSUME LinkAssumption ==
    /\ Behaviors \subseteq {"Normal", "WrongPreviewIds", "SilentPreview",
                            "SilentConfirmation", "DecisionFlow"}
    /\ LinkCap \in Nat \ {0}

VARIABLES
    up,                 \* messages on their way to the peer
    down,               \* messages on their way to the actor
    behavior,
    serving,            \* handle_connection has not returned
    server,             \* the audio state of the peer (AudioAssembler)
    pending_decision,   \* the request whose decision the peer waits for
    cancelled           \* ids of the CancelRequests written, kept for the properties

peerVars == <<behavior, serving, server, pending_decision>>
linkVars == <<vars, up, down, peerVars, cancelled>>

Response(type, id) == [type |-> type, id |-> id]

LinkInit ==
    /\ Init
    /\ up = <<>>
    /\ down = <<>>
    /\ behavior \in Behaviors
    /\ serving = TRUE
    /\ server = ServerInit
    /\ pending_decision = NoId
    /\ cancelled = {}

-----------------------------------------------------------------------------
(* The actor's end.                                                        *)

\* What the last step wrote is on its way.
SendsUp ==
    /\ up' = IF out' # NoMessage THEN Append(up, out') ELSE up
    /\ Len(up') <= LinkCap
    /\ cancelled' = IF out'.type = "CancelRequest" THEN cancelled \cup {out'.id} ELSE cancelled

\* The application confirms, and decides about, what it sent whole: finish_audio
\* has been answered or a DecisionRequest shown.
Asks(c) ==
    /\ Call(c)
    /\ call'[c].op \in {"confirm", "respond_to_decision"} => call'[c].id \in server.complete

\* The peer answers every heartbeat, so the actor never sees it fall silent.  That
\* the socket or a heartbeat may fail at any moment is left out as well: nothing
\* is claimed of a link that is over.
ActorActs ==
    /\ phase = "open" /\ serving
    /\ \/ \E c \in Callers : Asks(c)
       \/ EnqueueTimesOut
       \/ DropHandles
       \/ ReadEvent
       \/ HandleCommand
       \/ CommandsClosed
       \/ PreviewFallsDue
       \/ ExecutionFallsDue
       \/ Maintenance
    /\ SendsUp
    /\ UNCHANGED <<down, peerVars>>

HandleResponse(m) ==
    \/ m.type = "CommandPreview" /\ CommandPreview(m.id)
    \/ m.type = "ExecutionStatus" /\ ExecutionStatus(m.id, TRUE)
    \/ m.type = "DecisionRequest" /\ PreviewUpdate(m.type, m.id)
    \/ m.type = "Error" /\ RemoteError(m.id)

ActorReceives ==
    /\ down # <<>>
    /\ HandleResponse(Head(down))
    /\ down' = Tail(down)
    /\ UNCHANGED <<up, peerVars, cancelled>>

-----------------------------------------------------------------------------
(* The peer's end: one message to the end.                                 *)

\* The message it takes, and the answers it gives, in order.
PeerTakes(types) ==
    /\ phase = "open" /\ serving
    /\ up # <<>>
    /\ Len(down) < LinkCap
    /\ Head(up).type \in types
    /\ up' = Tail(up)
    /\ UNCHANGED <<vars, behavior, cancelled>>
PeerSays(responses) ==
    /\ down' = down \o responses
    /\ UNCHANGED serving

AnswersToUpload(id) ==
    CASE behavior = "SilentPreview" -> <<>>
      [] behavior = "WrongPreviewIds" -> [n \in 1 .. 3 |-> Response("CommandPreview", WrongId)]
      [] behavior = "DecisionFlow" -> <<Response("DecisionRequest", id)>>
      [] OTHER -> <<Response("CommandPreview", id)>>

Completes(m) == m.type = "AudioEnd" /\ Refusal(server, m) = "none"

PeerTakesUpload ==
    /\ PeerTakes({"AudioStart", "AudioChunk", "AudioEnd", "CancelRequest"})
    /\ LET m == Head(up) IN
        /\ server' = ServerTakes(server, m)
        /\ PeerSays(IF Refusal(server, m) # "none" THEN <<Response("Error", m.id)>>
                    ELSE IF Completes(m) THEN AnswersToUpload(m.id)
                    ELSE <<>>)
        /\ pending_decision' = IF Completes(m) /\ behavior = "DecisionFlow" THEN m.id
                               ELSE pending_decision

PeerTakesConfirmation ==
    /\ PeerTakes({"ConfirmExecution"})
    /\ PeerSays(IF behavior = "SilentConfirmation" THEN <<>>
                ELSE <<Response("ExecutionStatus", Head(up).id)>>)
    /\ UNCHANGED <<server, pending_decision>>

\* A decision nobody asked for ends the connection.  Its cancel does not withdraw
\* a decision that was asked for.
PeerTakesDecision ==
    /\ PeerTakes({"DecisionResponse"})
    /\ LET id == Head(up).id IN
        \/ /\ pending_decision # id
           /\ serving' = FALSE
           /\ UNCHANGED <<down, pending_decision>>
        \/ /\ pending_decision = id
           /\ pending_decision' = NoId
           /\ \E answer \in {"CommandPreview", "Error"} : PeerSays(<<Response(answer, id)>>)
    /\ UNCHANGED server

PeerActs == PeerTakesUpload \/ PeerTakesConfirmation \/ PeerTakesDecision

LinkNext == ActorActs \/ ActorReceives \/ PeerActs

LinkSpec == LinkInit /\ [][LinkNext]_linkVars

-----------------------------------------------------------------------------

\* What the peer's assembler s is when it has taken the messages, in their order.
ServerAfter(s, messages) ==
    LET upto[n \in 0 .. Len(messages)] ==
            IF n = 0 THEN s ELSE ServerTakes(upto[n - 1], messages[n])
    IN upto[Len(messages)]
\* What it will be when it has taken what is on its way.
ServerSoon == ServerAfter(server, up)

\* As long as nothing was refused, both ends of a live session agree about the
\* upload in progress, with what is on its way: same request, same number of
\* chunks, same number of PCM frames, and a request whose CancelRequest was
\* written is neither sent nor awaited again.  The one exception is an upload the
\* client dropped because it was empty (EMPTY_AUDIO), which the peer still has.
EndsAgree ==
    /\ phase = "open" /\ serving /\ ServerSoon.errors = {} =>
        \/ ServerSoon.audio = active_audio
        \/ active_audio = NoUpload /\ ServerSoon.audio = NewUpload(ServerSoon.audio.id)
    /\ serving =>
        cancelled \cap {active_audio.id, pending_preview.id, ServerSoon.audio.id} = {}

\* The peer refuses nothing the client let through but for one reason, an upload
\* started over one that the client had dropped without a word: its limits are
\* those of send_audio and finish_audio, and no order of chunks, ends, cancels,
\* failed writes and decisions makes it refuse a chunk or an end before that.
RefusalsTraced ==
    /\ ServerSoon.errors \subseteq
        {"AUDIO_BUSY", "INVALID_AUDIO_SEQUENCE", "UNKNOWN_AUDIO_REQUEST"}
    /\ ServerSoon.errors # {} => "AUDIO_BUSY" \in ServerSoon.errors

\* A caller is given a preview only of an upload that the peer holds complete
\* under the same id, however many previews of other requests are on their way.
PreviewEarned ==
    [][\A c \in Callers :
        call[c].stage = "parked" /\ call[c].op = "finish_audio" /\ call'[c].code = "ok"
            => call[c].id \in server.complete]_linkVars

\* With a peer that keeps the protocol a strike has one of three causes: its
\* response crossed a cancel, it refused an upload started over a dropped one, or
\* it asked for a decision on a request whose deadline had passed.  Previews and
\* statuses that are merely late are never held against it.
StrikesExplained ==
    [][unexpected_responses' > unexpected_responses /\ behavior # "WrongPreviewIds" =>
        \/ Head(down).id \in cancelled
        \/ "AUDIO_BUSY" \in server.errors
        \/ Head(down).type = "DecisionRequest" /\ Retired(Head(down).id)]_linkVars
=============================================================================
