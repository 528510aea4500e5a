---------------------------- MODULE SecureChannel ----------------------------
(***************************************************************************)
(* The secure channel of ale-core/src/remote_crypto.rs between two ends of *)
(* a WebSocket, one direction: encrypt_message cuts a message that does    *)
(* not fit a Noise message into AME2 fragments, decrypt_frame puts them    *)
(* together.  send_secure writes the frames of a message one after the     *)
(* other and may be cut off between two of them.                           *)
(*                                                                         *)
(* A message is its length: byte k of message m is <<m, k>>, so bytes of   *)
(* two messages, or of two places, are never mistaken for each other.      *)
(* Noise is external: it keeps what it carries and adds 16 bytes, which    *)
(* the limit of a frame allows for.                                        *)
(***************************************************************************)
EXTENDS Naturals, Sequences, SequencesExt

CONSTANTS
    MaxPlaintext,   \* MAX_NOISE_PLAINTEXT        (48 * 1024)
    HeaderLen,      \* CHUNK_HEADER_LEN           (20)
    MaxMessage,     \* MAX_SECURE_MESSAGE_BYTES   (1024 * 1024)
    ChunkIds,       \* random message ids
    \* Bounds on the environment of an instance.
    MaxSent,        \* messages sent
    MaxTaken,       \* frames taken, when any peer writes them
    MaxTotal,       \* total a peer's fragment announces
    ForgedFrom      \* messages a peer's frames are slices of

ASSUME LimitsAssumption ==
    /\ HeaderLen \in Nat \ {0}
    /\ MaxPlaintext \in Nat
    /\ MaxPlaintext > HeaderLen
    /\ MaxMessage \in Nat
    /\ MaxMessage >= MaxPlaintext
ASSUME ForgedAssumption == ForgedFrom \subseteq 1 .. MaxMessage + 1

VARIABLES
    peer,       \* who sends: this code's encrypt_message, or "any" peer at all
    sent,       \* messages encrypt_message accepted
    writing,    \* the sender's session is up
    outbox,     \* frames of the current message not written yet
    wire,       \* frames on their way
    incoming,   \* the message being put together, or Nothing
    received,   \* messages decoded
    error,      \* why the receiver's session ended; LEFT for a reason of its own
    taken       \* frames it took without an error, kept when any peer writes them

channelVars == <<peer, sent, writing, outbox, wire, incoming, received, error, taken>>

-----------------------------------------------------------------------------

\* One more than the limit: the shortest message that is refused.
Messages == 1 .. MaxMessage + 1
Payload(m) == [k \in 1 .. m |-> <<m, k>>]

Whole(payload) == [kind |-> "whole", id |-> 0, index |-> 0, total |-> 0, part |-> payload]
Fragment(id, index, total, part) ==
    [kind |-> "fragment", id |-> id, index |-> index, total |-> total, part |-> part]
\* It starts like a fragment and ends before the header does.
Short == [kind |-> "short", id |-> 0, index |-> 0, total |-> 0, part |-> <<>>]

Plaintext(frame) == Len(frame.part) + (IF frame.kind = "fragment" THEN HeaderLen ELSE 0)

Nothing == [id |-> 0, total_chunks |-> 0, next_chunk |-> 0, payload |-> <<>>]

(* encrypt_message *)

PartSizeWithoutHeader == MaxPlaintext
PartSize == MaxPlaintext - HeaderLen
Slice(m, index) ==
    SubSeq(Payload(m), index * PartSize + 1,
           IF (index + 1) * PartSize < m THEN (index + 1) * PartSize ELSE m)
TotalRoundedUpTwice(m) == m \div PartSize + 1
TotalChunks(m) == (m + PartSize - 1) \div PartSize

Frames(m, id) ==
    IF m <= MaxPlaintext THEN <<Whole(Payload(m))>>
    ELSE [k \in 1 .. (m - 1) \div PartSize + 1 |->
            Fragment(id, k - 1, TotalChunks(m), Slice(m, k - 1))]

-----------------------------------------------------------------------------

ChannelInit ==
    /\ peer \in {"code", "any"}
    /\ sent = <<>>
    /\ writing = TRUE
    /\ outbox = <<>>
    /\ wire = <<>>
    /\ incoming = Nothing
    /\ received = <<>>
    /\ error = "none"
    /\ taken = <<>>

receiverVars == <<incoming, received, error, taken>>

\* A message too large is refused whole; ENCRYPT_FAILED then ends the session.
Encrypt ==
    /\ peer = "code"
    /\ writing
    /\ outbox = <<>>
    /\ Len(sent) < MaxSent
    /\ \E m \in Messages, id \in ChunkIds :
        \/ /\ m <= MaxMessage
           /\ outbox' = Frames(m, id)
           /\ sent' = Append(sent, m)
           /\ UNCHANGED writing
        \/ /\ m > MaxMessage
           /\ writing' = FALSE
           /\ UNCHANGED <<outbox, sent>>
    /\ UNCHANGED <<peer, wire, receiverVars>>

WriteFrame ==
    /\ outbox # <<>>
    /\ wire' = Append(wire, Head(outbox))
    /\ outbox' = Tail(outbox)
    /\ UNCHANGED <<peer, sent, writing, receiverVars>>

\* The frame may be on its way although its write timed out.
FrameLeaves == wire' \in {wire, Append(wire, Head(outbox))}

WriteFailsUnseen ==
    /\ outbox # <<>>
    /\ FrameLeaves
    /\ outbox' = Tail(outbox)
    /\ UNCHANGED <<peer, sent, writing, receiverVars>>

\* A write that fails ends the session: what is left of the message is dropped.
WriteFails ==
    /\ outbox # <<>>
    /\ FrameLeaves
    /\ outbox' = <<>>
    /\ writing' = FALSE
    /\ UNCHANGED <<peer, sent, receiverVars>>

-----------------------------------------------------------------------------
(* decrypt_frame.  Whoever calls it (run_session, receive_secure, the      *)
(* reference peer's loop) ends the session on any error.                   *)

Refuses(code) ==
    /\ error' = code
    /\ incoming' = Nothing
    /\ UNCHANGED received

\* The JSON is that of a message exactly when it is all of the message.
Decodes(payload) ==
    \/ /\ \E m \in Messages : payload = Payload(m) /\ received' = Append(received, m)
       /\ UNCHANGED error
       /\ incoming' = Nothing
    \/ /\ \A m \in Messages : payload # Payload(m)
       /\ Refuses("INVALID_JSON")

\* The message the fragment continues: for the first one a new one.
Continued(frame) ==
    IF frame.index = 0
    THEN [id |-> frame.id, total_chunks |-> frame.total, next_chunk |-> 0, payload |-> <<>>]
    ELSE incoming

FitsSameMessage(frame, message) ==
    message.id = frame.id /\ message.total_chunks = frame.total
Fits(frame, message) ==
    /\ message.id = frame.id
    /\ message.total_chunks = frame.total
    /\ message.next_chunk = frame.index

TooMuchAtLimit(payload) == Len(payload) >= MaxMessage
TooMuchNever(payload) == Len(payload) < 0
TooMuch(payload) == Len(payload) > MaxMessage

TakeWhole(frame) ==
    \/ incoming # Nothing /\ Refuses("INVALID_CHUNK_SEQUENCE")
    \/ incoming = Nothing /\ Decodes(frame.part)

TakeFragment(frame) ==
    LET message == Continued(frame)
        payload == message.payload \o frame.part
    IN  \/ /\ \/ frame.total = 0
              \/ frame.index >= frame.total
              \/ frame.index = 0 /\ incoming # Nothing
           /\ Refuses("INVALID_CHUNK_SEQUENCE")
        \/ /\ frame.index \in 1 .. frame.total - 1
           /\ incoming = Nothing
           /\ Refuses("MISSING_CHUNK_START")
        \/ /\ frame.index < frame.total
           /\ frame.index = 0 <=> incoming = Nothing
           /\ \/ ~Fits(frame, message) /\ Refuses("INVALID_CHUNK_SEQUENCE")
              \/ /\ Fits(frame, message)
                 /\ TooMuch(payload)
                 /\ Refuses("MESSAGE_TOO_LARGE")
              \/ /\ Fits(frame, message)
                 /\ ~TooMuch(payload)
                 /\ \/ /\ message.next_chunk + 1 # message.total_chunks
                       /\ incoming' = [message EXCEPT !.next_chunk = @ + 1,
                                                      !.payload = payload]
                       /\ UNCHANGED <<received, error>>
                    \/ /\ message.next_chunk + 1 = message.total_chunks
                       /\ Decodes(payload)

\* A frame too long is refused before it is decrypted; what was put together so
\* far stays, but the session ends.
DecryptFrame(frame) ==
    \/ /\ Plaintext(frame) > MaxPlaintext
       /\ error' = "MESSAGE_TOO_LARGE"
       /\ UNCHANGED <<incoming, received>>
    \/ /\ Plaintext(frame) <= MaxPlaintext
       /\ \/ frame.kind = "whole" /\ TakeWhole(frame)
          \/ frame.kind = "short" /\ Refuses("INVALID_CHUNK_HEADER")
          \/ frame.kind = "fragment" /\ TakeFragment(frame)

TakeFrame ==
    /\ error = "none"
    /\ wire # <<>>
    /\ wire' = Tail(wire)
    /\ DecryptFrame(Head(wire))
    /\ UNCHANGED <<peer, sent, writing, outbox, taken>>

ReceiverLeaves ==
    /\ error = "none"
    /\ error' = "LEFT"
    /\ UNCHANGED <<peer, sent, writing, outbox, wire, incoming, received, taken>>

-----------------------------------------------------------------------------
(* The same receiver when the other end is not encrypt_message: a peer     *)
(* that sends any frames at all.                                           *)

\* Slices of messages, aligned to parts or not, and the empty one.
Parts == {<<>>} \cup UNION {{SubSeq(Payload(m), first, last) : first, last \in 1 .. m} : m \in ForgedFrom}
Indexes == 0 .. MaxTotal
AnyFrames ==
    {Short}
    \cup {Whole(part) : part \in Parts}
    \cup {Fragment(id, index, total, part) :
            id \in ChunkIds, index \in Indexes, total \in Indexes, part \in Parts}

AnyFrameTaken ==
    /\ peer = "any"
    /\ error = "none"
    /\ Len(taken) < MaxTaken
    /\ \E frame \in AnyFrames :
        /\ DecryptFrame(frame)
        /\ taken' = IF error' = "none" THEN Append(taken, frame) ELSE taken
    /\ UNCHANGED <<peer, sent, writing, outbox, wire>>

-----------------------------------------------------------------------------

ChannelNext ==
    \/ Encrypt \/ WriteFrame \/ WriteFails
    \/ TakeFrame \/ AnyFrameTaken \/ ReceiverLeaves
ChannelSpec == ChannelInit /\ [][ChannelNext]_channelVars

\* send_raw ends by itself or by its timeout; the receiver's loop reads on.
FairChannelSpec ==
    /\ ChannelSpec
    /\ WF_channelVars(WriteFrame \/ WriteFails)
    /\ WF_channelVars(TakeFrame)

-----------------------------------------------------------------------------

\* The two ends are a stream of messages: cutting, reassembly, a refused message
\* and a session cut off between two frames lose none, repeat none and change no
\* order (encrypt_message, send_secure, decrypt_frame).
Channel == INSTANCE MessageStream WITH
    broken <- ~writing,
    received <- IF peer = "code" THEN received ELSE <<>>
KeepsStream == Channel!Stream

\* What encrypt_message accepts fits the frames it is cut into, and decrypt_frame
\* never refuses it: both ends draw the limits of a frame, of a message and of its
\* number of parts at the same place, at the exact multiples too.
LimitsMeet ==
    /\ \A n \in DOMAIN outbox : Plaintext(outbox[n]) \in 1 .. MaxPlaintext
    /\ peer = "code" => error \in {"none", "LEFT"}

\* What was accepted arrives, unless the session of one end is over before.
Delivered ==
    \A n \in 1 .. MaxSent :
        Len(sent) >= n ~> (Len(received) >= n \/ ~writing \/ error = "LEFT")

LastFrames(frames, n) == SubSeq(frames, Len(frames) - n + 1, Len(frames))
\* The fragments 0, 1, ... of one message.
IsRun(run, id, total) ==
    \A k \in DOMAIN run :
        run[k] = Fragment(id, k - 1, total, run[k].part)
Assembled(run) ==
    LET upto[k \in 0 .. Len(run)] == IF k = 0 THEN <<>> ELSE upto[k - 1] \o run[k].part
    IN  upto[Len(run)]

\* What is being put together is exactly the frames taken since its first
\* fragment, in their order, and never exceeds the limit of a message.
BufferIsOneRun ==
    peer = "any" /\ incoming # Nothing =>
        /\ Len(incoming.payload) <= MaxMessage
        /\ incoming.next_chunk < incoming.total_chunks
        /\ incoming.next_chunk <= Len(taken)
        /\ LET run == LastFrames(taken, incoming.next_chunk) IN
            /\ IsRun(run, incoming.id, incoming.total_chunks)
            /\ incoming.payload = Assembled(run)

\* Whatever frames a peer sends, a message is decoded only from all its bytes in
\* order, from one whole frame or from a complete run of fragments of one id with
\* nothing in between.
DecodedFromOneRun ==
    [][peer = "any" /\ received' # received =>
        \E n \in 1 .. Len(taken') :
            LET run == LastFrames(taken', n) IN
            /\ Assembled(run) = Payload(received'[Len(received')])
            /\ \/ n = 1 /\ run[1].kind = "whole"
               \/ IsRun(run, run[1].id, n)]_channelVars
=============================================================================
