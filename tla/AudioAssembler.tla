--------------------------- MODULE AudioAssembler ---------------------------
(***************************************************************************)
(* The receiving half of an audio upload, as the reference peer of the v3  *)
(* protocol keeps it (ale-core/src/mock_server.rs): at most one assembler, *)
(* opened by AudioStart, fed by AudioChunk, consumed by AudioEnd, dropped  *)
(* by CancelRequest and by every refusal of a chunk or of an end.          *)
(*                                                                         *)
(* The server is a pure function of the frames it is given: ServerTakes is *)
(* what one frame does to it.  PCM is abstracted to its number of frames,  *)
(* and the SHA-256 of the upload to what it hashes, the number of chunks   *)
(* and of frames, so a hash mismatch is a mismatch of one of the two.      *)
(***************************************************************************)
EXTENDS Naturals

CONSTANTS
    Ids,        \* request ids (UUID v4)
    NoId,       \* "no request id"
    MaxChunk,   \* PCM frames in the largest chunk   (MAX_AUDIO_CHUNK_BYTES)
    MaxFrames   \* PCM frames in the longest upload  (MAX_RECORDING_SECONDS)

ASSUME NoIdAssumption == NoId \notin Ids
ASSUME AudioAssumption == MaxChunk \in Nat \ {0} /\ MaxFrames \in Nat \ {0}

\* An upload in progress, on either side of the link.
NoUpload == [id |-> NoId, chunks |-> 0, frames |-> 0]
NewUpload(id) == [id |-> id, chunks |-> 0, frames |-> 0]
Extended(upload, n) ==
    [upload EXCEPT !.chunks = @ + 1, !.frames = @ + n]
Uploads ==
    {NoUpload} \cup
    {upload \in [id : Ids, chunks : 0 .. MaxFrames, frames : 0 .. MaxFrames] :
        upload.chunks <= upload.frames}

\* The messages a client writes.  A chunk carries its sequence number and its
\* PCM frames, an end the number of chunks and of frames of the whole upload.
Request(type, id) == [type |-> type, id |-> id, seq |-> 0, frames |-> 0]
AudioStart(id) == Request("AudioStart", id)
AudioChunk(id, seq, n) ==
    [type |-> "AudioChunk", id |-> id, seq |-> seq, frames |-> n]
AudioEndCountsFromOne(upload) ==
    [type |-> "AudioEnd", id |-> upload.id, seq |-> upload.chunks + 1, frames |-> upload.frames]
AudioEnd(upload) ==
    [type |-> "AudioEnd", id |-> upload.id, seq |-> upload.chunks, frames |-> upload.frames]
CancelRequest(id) == Request("CancelRequest", id)

\* AudioAssembler::push refuses a chunk of another request or out of order,
\* a chunk whose size is not a chunk's, and one that would pass the limit.
PushError(audio, m) ==
    IF m.id # audio.id \/ m.seq # audio.chunks THEN "INVALID_AUDIO_SEQUENCE"
    ELSE IF m.frames \notin 1 .. MaxChunk THEN "INVALID_AUDIO_CHUNK"
    ELSE IF audio.frames + m.frames > MaxFrames THEN "AUDIO_TOO_LARGE"
    ELSE "none"

\* AudioAssembler::finish compares the metadata of AudioEnd with what arrived.
FinishError(audio, m) ==
    IF m.id # audio.id \/ m.seq # audio.chunks THEN "INVALID_AUDIO_SEQUENCE"
    ELSE IF m.frames # audio.frames THEN "INVALID_AUDIO_LENGTH"
    ELSE "none"

(***************************************************************************)
(* The state of the server's half: the assembler, the uploads it completed *)
(* and the codes of the errors it answered upload frames with.             *)
(***************************************************************************)
ServerInit == [audio |-> NoUpload, complete |-> {}, errors |-> {}]

\* A client that validates the format itself never sends one the assembler
\* does not support, so UNSUPPORTED_AUDIO_FORMAT has no disjunct here.
Refusal(s, m) ==
    CASE m.type = "AudioStart" /\ s.audio # NoUpload -> "AUDIO_BUSY"
      [] m.type \in {"AudioChunk", "AudioEnd"} /\ s.audio = NoUpload -> "UNKNOWN_AUDIO_REQUEST"
      [] m.type = "AudioChunk" /\ s.audio # NoUpload -> PushError(s.audio, m)
      [] m.type = "AudioEnd" /\ s.audio # NoUpload -> FinishError(s.audio, m)
      [] OTHER -> "none"

\* An upload in progress survives the refusal of another one's start only.
Refuse(s, m) ==
    [s EXCEPT !.audio = IF m.type = "AudioStart" THEN @ ELSE NoUpload,
              !.errors = @ \cup {Refusal(s, m)}]

TakeStart(s, m) == [s EXCEPT !.audio = NewUpload(m.id)]
TakeChunk(s, m) == [s EXCEPT !.audio = Extended(@, m.frames)]
TakeEnd(s, m) == [s EXCEPT !.audio = NoUpload, !.complete = @ \cup {m.id}]
TakeCancel(s, m) ==
    IF s.audio.id = m.id THEN [s EXCEPT !.audio = NoUpload] ELSE s

ServerTakes(s, m) ==
    IF Refusal(s, m) # "none" THEN Refuse(s, m)
    ELSE CASE m.type = "AudioStart" -> TakeStart(s, m)
           [] m.type = "AudioChunk" -> TakeChunk(s, m)
           [] m.type = "AudioEnd" -> TakeEnd(s, m)
           [] m.type = "CancelRequest" -> TakeCancel(s, m)
           [] OTHER -> s
=============================================================================
