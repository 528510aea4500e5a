----------------------------- MODULE Handshake -----------------------------
(***************************************************************************)
(* How a session begins: RemoteSession::connect (remote_session.rs) at one *)
(* end, the first part of handle_connection (mock_server.rs) or another    *)
(* program at the other.  Each attempt has a socket of its own.            *)
(*                                                                         *)
(* Noise is external, modelled by what it promises: a handshake message or *)
(* a reply made under another pairing code than the reader's is refused,   *)
(* and once both are read the two ends can read each other.  Frames that   *)
(* are not binary are skipped and left out; which code an attempt fails    *)
(* with is wording.                                                        *)
(***************************************************************************)
EXTENDS PairingUri

CONSTANTS
    Scans,      \* the scans of the application: each may dial once
    Peers       \* who may listen at the address of the QR code when it is dialled:
                \* [code, sid, version, reference]

ProtocolVersion == 3

ASSUME PeersAssumption ==
    Peers \subseteq [code : PairingCodes, sid : SessionIds, version : Nat, reference : BOOLEAN]

VARIABLES
    conn,       \* per scan: connect's progress and the pairing info it was given
    desk,       \* per scan: the other end's progress, and who it is
    toDesk,     \* messages on their way
    toPhone

linkVars == <<conn, desk, toDesk, toPhone>>

\* The messages before the session: the two of Noise, then the two hellos.
NoiseMessage(code) == [type |-> "noise", code |-> code]
ServerHello(peer) == [type |-> "ServerHello", version |-> peer.version, sid |-> peer.sid]
ClientHello == [type |-> "ClientHello", version |-> ProtocolVersion]
\* What another program may say instead: bytes that are neither of Noise nor of this
\* protocol, or a RemoteMessage out of place.
Junk == [type |-> "junk"]
OtherMessage == [type |-> "other"]

Unused == [stage |-> "none", pairing |-> {}]
Nobody == [stage |-> "none", peer |-> {}]

HandshakeInit ==
    /\ conn = [a \in Scans |-> Unused]
    /\ desk = [a \in Scans |-> Nobody]
    /\ toDesk = [a \in Scans |-> <<>>]
    /\ toPhone = [a \in Scans |-> <<>>]

\* The socket is dropped, with what was on its way; what the other end does with a
\* closed socket is left out.
Drops(a, end) ==
    /\ conn' = [conn EXCEPT ![a] = [Unused EXCEPT !.stage = end]]
    /\ desk' = [desk EXCEPT ![a] = Nobody]
    /\ toDesk' = [toDesk EXCEPT ![a] = <<>>]
    /\ toPhone' = [toPhone EXCEPT ![a] = <<>>]

\* connect is called: the field conn[a] as it is then.
Dials(pairing) == [stage |-> "connecting", pairing |-> {pairing}]
Pairing(a) == CHOOSE info \in conn[a].pairing : TRUE
Peer(a) == CHOOSE peer \in desk[a].peer : TRUE

-----------------------------------------------------------------------------
(* RemoteSession::connect.                                                 *)

Advances(a, stage) == conn' = [conn EXCEPT ![a].stage = stage]
Writes(a, m) == toDesk' = [toDesk EXCEPT ![a] = Append(@, m)]
\* A frame arrives where connect waits for one: it is taken, or the connection dropped.
Arrives(a, stage) == conn[a].stage = stage /\ toPhone[a] # <<>>
Reads(a) == toPhone' = [toPhone EXCEPT ![a] = Tail(@)]

\* The socket opens; the first message of Noise is written under the code of the QR.
Connected(a) ==
    /\ conn[a].stage = "connecting"
    /\ \E peer \in Peers : desk' = [desk EXCEPT ![a] = [stage |-> "accepting", peer |-> {peer}]]
    /\ Writes(a, NoiseMessage(Pairing(a).code))
    /\ Advances(a, "noise")
    /\ UNCHANGED toPhone

\* client_finish_handshake.
ReplyAccepted(a, m) == m = NoiseMessage(Pairing(a).code)
ReadsReply(a) ==
    /\ Arrives(a, "noise")
    /\ \/ /\ ReplyAccepted(a, Head(toPhone[a]))
          /\ Reads(a)
          /\ Advances(a, "hello")
          /\ UNCHANGED <<desk, toDesk>>
       \/ /\ ~ReplyAccepted(a, Head(toPhone[a]))
          /\ Drops(a, "failed")

HelloAcceptedUnpaired(a, m) == m.type = "ServerHello" /\ m.version = ProtocolVersion
HelloAccepted(a, m) ==
    /\ m.type = "ServerHello"
    /\ m.version = ProtocolVersion
    /\ m.sid = Pairing(a).sid

\* ClientHello is written and run_session spawned.  A write that fails is one of
\* ConnectFails.
ReadsHello(a) ==
    /\ Arrives(a, "hello")
    /\ \/ /\ HelloAccepted(a, Head(toPhone[a]))
          /\ Reads(a)
          /\ Writes(a, ClientHello)
          /\ Advances(a, "up")
          /\ UNCHANGED desk
       \/ /\ ~HelloAccepted(a, Head(toPhone[a]))
          /\ Drops(a, "failed")

Connecting(a) == conn[a].stage \in {"connecting", "noise", "hello"}

\* CONNECT_TIMEOUT and CONNECT_FAILED, a write that fails or times out, the socket
\* closed or broken, HANDSHAKE_TIMEOUT: at any stage, whatever the peer does.
ConnectFails(a) == Connecting(a) /\ Drops(a, "failed")

-----------------------------------------------------------------------------
(* The other end.                                                          *)

DeskTakes(a, stage) ==
    /\ desk[a].stage = stage
    /\ toDesk[a] # <<>>
    /\ toDesk' = [toDesk EXCEPT ![a] = Tail(@)]
    /\ UNCHANGED conn
Delivers(a, ms) == toPhone' = [toPhone EXCEPT ![a] = @ \o ms]
DeskAdvances(a, stage) == desk' = [desk EXCEPT ![a].stage = stage]

SameCode(m, peer) == m = NoiseMessage(peer.code)

\* server_handshake_reply, and ServerHello after it: nobody waits in between.
DeskReplies(a) ==
    /\ Peer(a).reference
    /\ DeskTakes(a, "accepting")
    /\ IF SameCode(Head(toDesk[a]), Peer(a))
       THEN /\ Delivers(a, <<NoiseMessage(Peer(a).code), ServerHello(Peer(a))>>)
            /\ DeskAdvances(a, IF Peer(a).version = ProtocolVersion THEN "greeted" ELSE "gone")
       ELSE DeskAdvances(a, "gone") /\ UNCHANGED toPhone

\* Another program answers what it likes, but cannot reply under a code it has not.
StrangerReplies(a) ==
    /\ ~Peer(a).reference
    /\ DeskTakes(a, "accepting")
    /\ DeskAdvances(a, "greeted")
    /\ \E hello \in {Junk, OtherMessage, ServerHello(Peer(a))} :
        Delivers(a, IF SameCode(Head(toDesk[a]), Peer(a))
                    THEN <<NoiseMessage(Peer(a).code), hello>> ELSE <<Junk>>)

\* The first message of the session must be a ClientHello of this version.
DeskTakesHello(a) ==
    /\ DeskTakes(a, "greeted")
    /\ DeskAdvances(a, IF Head(toDesk[a]) = ClientHello THEN "ready" ELSE "gone")
    /\ UNCHANGED toPhone

DeskActs(a) ==
    desk[a].peer # {} /\ (DeskReplies(a) \/ StrangerReplies(a) \/ DeskTakesHello(a))

HandshakeSteps(a) ==
    Connected(a) \/ ReadsReply(a) \/ ReadsHello(a) \/ ConnectFails(a) \/ DeskActs(a)

-----------------------------------------------------------------------------

\* A session is up only with the desktop whose code, session and protocol version
\* the QR code stood for: not with one restarted since, a new session of the same
\* desktop, another program at its address, or one of another version; and a peer
\* that holds a ClientHello speaks to the phone that read that very code.
SessionIsPaired ==
    \A a \in Scans :
        /\ conn[a].stage = "up" =>
            /\ Peer(a).code = Pairing(a).code
            /\ Peer(a).sid = Pairing(a).sid
            /\ Peer(a).version = ProtocolVersion
        /\ desk[a].stage = "ready" => Peer(a).code = Pairing(a).code
=============================================================================
