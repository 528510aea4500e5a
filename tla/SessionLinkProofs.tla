------------------------- MODULE SessionLinkProofs -------------------------
(***************************************************************************)
(* Theorems about the two ends of a socket, for every value of the         *)
(* constants: they agree about the upload in progress, the peer refuses    *)
(* nothing without its one reason, a preview is of an upload the peer      *)
(* holds, and a strike has one of three causes.                            *)
(***************************************************************************)
EXTENDS SessionLink, RemoteSessionProofs, NaturalRecursion, FiniteSetTheorems
-----------------------------------------------------------------------------
(* What the peer makes of a sequence of messages.                          *)

\* The errors a refusal may carry, and what the peer may hold.
RefusalCodes ==
    {"none", "AUDIO_BUSY", "UNKNOWN_AUDIO_REQUEST", "INVALID_AUDIO_SEQUENCE",
     "INVALID_AUDIO_CHUNK", "AUDIO_TOO_LARGE", "INVALID_AUDIO_LENGTH"}
ServerType ==
    [audio : [id : Ids \cup {NoId}, chunks : Nat, frames : Nat],
     complete : SUBSET (Ids \cup {NoId}), errors : SUBSET RefusalCodes]

(* A refusal carries one of these errors. *)
LEMMA RefusalType ==
    ASSUME NEW s, NEW m
    PROVE  Refusal(s, m) \in RefusalCodes
BY DEF Refusal, PushError, FinishError, RefusalCodes

(* What the peer makes of a message has its type. *)
LEMMA ServerTakesType ==
    ASSUME NEW s \in ServerType, NEW m \in Messages
    PROVE  ServerTakes(s, m) \in ServerType
<1>1. /\ m.id \in Ids \cup {NoId} /\ m.frames \in Nat
      /\ NoUpload \in [id : Ids \cup {NoId}, chunks : Nat, frames : Nat]
      /\ NewUpload(m.id) \in [id : Ids \cup {NoId}, chunks : Nat, frames : Nat]
  BY AudioAssumption DEF Messages, NoUpload, NewUpload
<1>2. Refusal(s, m) \in RefusalCodes
  BY RefusalType
<1>3. Refuse(s, m) \in ServerType
  BY <1>1, <1>2 DEF Refuse, ServerType
<1>4. TakeStart(s, m) \in ServerType /\ TakeEnd(s, m) \in ServerType /\ TakeCancel(s, m) \in ServerType
  BY <1>1 DEF TakeStart, TakeEnd, TakeCancel, ServerType
<1>5. TakeChunk(s, m) \in ServerType
  <2>1. Extended(s.audio, m.frames) \in [id : Ids \cup {NoId}, chunks : Nat, frames : Nat]
    <3>1. s.audio \in [id : Ids \cup {NoId}, chunks : Nat, frames : Nat] /\ m.frames \in Nat
      BY <1>1 DEF ServerType
    <3>2. s.audio.chunks + 1 \in Nat /\ s.audio.frames + m.frames \in Nat
      BY <3>1
    <3> QED BY <3>1, <3>2 DEF Extended
  <2> QED BY <2>1 DEF TakeChunk, ServerType
<1> QED BY <1>3, <1>4, <1>5 DEF ServerTakes

\* g holds what the peer is after each of the n messages.
Follows(g, n, s, messages) ==
    /\ g[0] = s
    /\ \A k \in 0 .. n - 1 : g[k + 1] = ServerTakes(g[k], messages[k + 1])

(* There is a function that follows the peer through its messages. *)
LEMMA FollowerExists ==
    ASSUME NEW s \in ServerType, NEW messages \in Seq(Messages), NEW n \in Nat, n = Len(messages)
    PROVE  \E g \in [0 .. n -> ServerType] : Follows(g, n, s, messages)
<1> DEFINE step == [x \in Nat \X ServerType |->
                      IF x[1] < n THEN ServerTakes(x[2], messages[x[1] + 1]) ELSE x[2]]
<1>1. ASSUME NEW k \in Nat, NEW v \in ServerType
      PROVE  /\ step[<<k, v>>] \in ServerType
             /\ k < n => step[<<k, v>>] = ServerTakes(v, messages[k + 1])
  <2>1. <<k, v>> \in Nat \X ServerType
    OBVIOUS
  <2>2. step[<<k, v>>] = IF k < n THEN ServerTakes(v, messages[k + 1]) ELSE v
    BY <2>1
  <2> HIDE DEF step
  <2>3. k < n => ServerTakes(v, messages[k + 1]) \in ServerType
    <3>1. k < n => messages[k + 1] \in Messages
      BY ElementOfSeq
    <3> QED BY <3>1, ServerTakesType
  <2> QED BY <2>2, <2>3
<1> HIDE DEF step
<1>2. PICK g \in [0 .. n -> ServerType] : Runs(g, n, s, step)
  <2>1. PICK V, t, base : V = ServerType /\ t = step /\ base = s
    OBVIOUS
  <2>2. base \in V /\ \A k \in Nat, v \in V : t[<<k, v>>] \in V
    BY <1>1, <2>1
  <2>3. \A k \in Nat : \E g \in [0 .. k -> V] : Runs(g, k, base, t)
    BY <2>2, RunExists
  <2> QED BY <2>1, <2>3
<1>3. ASSUME NEW k \in 0 .. n - 1 PROVE g[k + 1] = ServerTakes(g[k], messages[k + 1])
  <2>1. k \in Nat /\ k < n /\ g[k] \in ServerType
    OBVIOUS
  <2> QED BY <1>1, <1>2, <2>1 DEF Runs
<1> QED BY <1>2, <1>3 DEF Runs, Follows

\* Whatever follows the messages ends with what the peer is after them.
LEMMA AfterIs ==
    ASSUME NEW s, NEW messages, NEW n \in Nat, n = Len(messages), NEW g,
           Follows(g, n, s, messages)
    PROVE  ServerAfter(s, messages) = g[n]
<1> DEFINE upto[k \in 0 .. n] == IF k = 0 THEN s ELSE ServerTakes(upto[k - 1], messages[k])
<1>1. upto = [k \in 0 .. n |-> IF k = 0 THEN s ELSE ServerTakes(upto[k - 1], messages[k])]
  <2> SUFFICES \E u : u = [k \in 0 .. n |->
                             IF k = 0 THEN s ELSE ServerTakes(u[k - 1], messages[k])]
    OBVIOUS
  <2> DEFINE h == [k \in 0 .. n |-> g[k]]
  <2>1. ASSUME NEW k \in 0 .. n
        PROVE  h[k] = IF k = 0 THEN s ELSE ServerTakes(h[k - 1], messages[k])
    <3>1. CASE k = 0
      BY <3>1 DEF Follows
    <3>2. CASE k # 0
      <4>1. k - 1 \in 0 .. n - 1 /\ (k - 1) + 1 = k /\ k - 1 \in 0 .. n
        BY <3>2
      <4>2. g[(k - 1) + 1] = ServerTakes(g[k - 1], messages[(k - 1) + 1])
        BY <4>1 DEF Follows
      <4> QED BY <3>2, <4>1, <4>2
    <3> QED BY <3>1, <3>2
  <2>2. h = [k \in 0 .. n |-> h[k]]
    OBVIOUS
  <2> HIDE DEF h
  <2>3. h = [k \in 0 .. n |-> IF k = 0 THEN s ELSE ServerTakes(h[k - 1], messages[k])]
    BY <2>1, <2>2
  <2> QED BY <2>3, Zenon
<1>2. ServerAfter(s, messages) = upto[n]
  BY DEF ServerAfter
<1> HIDE DEF upto
<1>3. \A k \in 0 .. n : upto[k] = IF k = 0 THEN s ELSE ServerTakes(upto[k - 1], messages[k])
  BY <1>1
<1> DEFINE S == {k \in Nat : k <= n => upto[k] = g[k]}
<1>4. 0 \in S
  BY <1>3 DEF Follows
<1>5. ASSUME NEW k \in Nat, k \in S PROVE k + 1 \in S
  <2> SUFFICES ASSUME k + 1 <= n PROVE upto[k + 1] = g[k + 1]
    OBVIOUS
  <2>1. k \in 0 .. n - 1 /\ k + 1 \in 0 .. n /\ k + 1 # 0 /\ (k + 1) - 1 = k
    OBVIOUS
  <2>2. upto[k] = g[k]
    BY <1>5, <2>1
  <2>3. upto[k + 1] = ServerTakes(upto[(k + 1) - 1], messages[k + 1])
    BY <1>3, <2>1
  <2>4. g[k + 1] = ServerTakes(g[k], messages[k + 1])
    BY <2>1 DEF Follows
  <2> QED BY <2>1, <2>2, <2>3, <2>4
<1> HIDE DEF S
<1>6. \A k \in Nat : k \in S
  BY <1>4, <1>5, Induction
<1> QED BY <1>2, <1>6 DEF S

\* What follows the messages and goes on with one more follows them all.
LEMMA FollowsMore ==
    ASSUME NEW s, NEW messages \in Seq(Messages), NEW m \in Messages, NEW n \in Nat,
           n = Len(messages), NEW g, Follows(g, n, s, messages),
           NEW h, \A k \in 0 .. n : h[k] = g[k], h[n + 1] = ServerTakes(g[n], m)
    PROVE  Follows(h, n + 1, s, Append(messages, m))
<1>1. PICK more : more = Append(messages, m)
  OBVIOUS
<1>2. Len(more) = n + 1 /\ more[n + 1] = m /\ \A k \in 1 .. n : more[k] = messages[k]
  BY <1>1, AppendProperties
<1>3. h[0] = s
  BY DEF Follows
<1>4. ASSUME NEW k \in 0 .. n PROVE h[k + 1] = ServerTakes(h[k], more[k + 1])
  <2>1. CASE k = n
    BY <1>2, <2>1
  <2>2. CASE k \in 0 .. n - 1
    <3>1. /\ g[k + 1] = ServerTakes(g[k], messages[k + 1])
          /\ k + 1 \in 1 .. n /\ k + 1 \in 0 .. n /\ k \in 0 .. n
      BY <2>2 DEF Follows
    <3>2. more[k + 1] = messages[k + 1] /\ h[k] = g[k] /\ h[k + 1] = g[k + 1]
      BY <1>2, <3>1
    <3> QED BY <3>1, <3>2
  <2> QED BY <2>1, <2>2
<1>5. \A k \in 0 .. (n + 1) - 1 : k \in 0 .. n
  OBVIOUS
<1> QED BY <1>1, <1>3, <1>4, <1>5 DEF Follows

\* From its second value on it follows the messages that are left.
LEMMA FollowsRest ==
    ASSUME NEW s, NEW messages \in Seq(Messages), NEW n \in Nat, n + 1 = Len(messages),
           NEW g, Follows(g, n + 1, s, messages), NEW h, \A k \in 0 .. n : h[k] = g[k + 1]
    PROVE  Follows(h, n, ServerTakes(s, Head(messages)), Tail(messages))
<1>1. PICK rest : rest = Tail(messages)
  OBVIOUS
<1>2. Len(rest) = n /\ Head(messages) = messages[1] /\ \A k \in 1 .. n : rest[k] = messages[k + 1]
  <2>1. messages # <<>>
    OBVIOUS
  <2> QED BY <1>1, <2>1, HeadTailProperties
<1>3. ASSUME NEW k \in 0 .. n PROVE g[k + 1] = ServerTakes(g[k], messages[k + 1])
  <2>1. k \in 0 .. (n + 1) - 1
    OBVIOUS
  <2> QED BY <2>1 DEF Follows
<1>4. h[0] = ServerTakes(s, Head(messages))
  <2>1. 0 \in 0 .. n /\ 0 + 1 = 1
    OBVIOUS
  <2>2. h[0] = g[1] /\ g[1] = ServerTakes(g[0], messages[1])
    BY <1>3, <2>1
  <2> QED BY <1>2, <2>2 DEF Follows
<1>5. ASSUME NEW k \in 0 .. n - 1 PROVE h[k + 1] = ServerTakes(h[k], rest[k + 1])
  <2>1. k \in 0 .. n /\ k + 1 \in 0 .. n /\ k + 1 \in 1 .. n
    OBVIOUS
  <2> QED BY <1>2, <1>3, <2>1
<1> QED BY <1>1, <1>4, <1>5 DEF Follows

\* Nothing on its way leaves the peer as it is; one message more is taken last.
LEMMA AfterAppend ==
    ASSUME NEW s \in ServerType, NEW messages \in Seq(Messages), NEW m \in Messages
    PROVE  /\ ServerAfter(s, messages) \in ServerType
           /\ ServerAfter(s, Append(messages, m)) = ServerTakes(ServerAfter(s, messages), m)
           /\ ServerAfter(s, <<>>) = s
<1>1. PICK n : n \in Nat /\ n = Len(messages)
  OBVIOUS
<1>2. PICK g : g \in [0 .. n -> ServerType] /\ Follows(g, n, s, messages)
  BY <1>1, FollowerExists
<1>3. ServerAfter(s, messages) = g[n] /\ g[n] \in ServerType
  BY <1>1, <1>2, AfterIs
<1> DEFINE h == [k \in 0 .. n + 1 |-> IF k <= n THEN g[k] ELSE ServerTakes(g[n], m)]
<1>4. (\A k \in 0 .. n : h[k] = g[k]) /\ h[n + 1] = ServerTakes(g[n], m)
  BY <1>1
<1> HIDE DEF h
<1>5. n + 1 \in Nat /\ n + 1 = Len(Append(messages, m))
  BY <1>1, AppendProperties
<1>6. ServerAfter(s, Append(messages, m)) = h[n + 1]
  <2>1. Follows(h, n + 1, s, Append(messages, m))
    BY <1>1, <1>2, <1>4, FollowsMore
  <2> QED BY <1>5, <2>1, AfterIs
<1>7. ServerAfter(s, <<>>) = s
  <2> DEFINE one == [k \in 0 .. 0 |-> s]
  <2>1. one[0] = s /\ Follows(one, 0, s, <<>>)
    BY DEF Follows
  <2>2. 0 \in Nat /\ 0 = Len(<<>>)
    OBVIOUS
  <2> HIDE DEF one
  <2> QED BY <2>1, <2>2, AfterIs
<1> QED BY <1>3, <1>4, <1>6, <1>7

\* The first message may be taken now or with the rest.
LEMMA AfterTail ==
    ASSUME NEW s \in ServerType, NEW messages \in Seq(Messages), messages # <<>>
    PROVE  ServerAfter(ServerTakes(s, Head(messages)), Tail(messages)) = ServerAfter(s, messages)
<1>1. PICK n : n \in Nat /\ n + 1 = Len(messages)
  <2>1. Len(messages) \in Nat /\ Len(messages) # 0
    BY LenProperties, EmptySeq
  <2>2. Len(messages) - 1 \in Nat /\ (Len(messages) - 1) + 1 = Len(messages)
    BY <2>1
  <2> QED BY <2>2
<1>2. n + 1 \in Nat /\ n = Len(Tail(messages))
  BY <1>1, HeadTailProperties
<1>3. PICK g : Follows(g, n + 1, s, messages)
  BY <1>1, <1>2, FollowerExists
<1> DEFINE h == [k \in 0 .. n |-> g[k + 1]]
<1>4. \A k \in 0 .. n : h[k] = g[k + 1]
  OBVIOUS
<1> HIDE DEF h
<1>5. ServerAfter(s, messages) = g[n + 1]
  BY <1>1, <1>2, <1>3, AfterIs
<1>6. ServerAfter(ServerTakes(s, Head(messages)), Tail(messages)) = h[n]
  <2>1. Follows(h, n, ServerTakes(s, Head(messages)), Tail(messages))
    BY <1>1, <1>3, <1>4, FollowsRest
  <2> QED BY <1>1, <1>2, <2>1, AfterIs
<1> QED BY <1>1, <1>4, <1>5, <1>6
-----------------------------------------------------------------------------
(* One message more: what the two ends make of it.                         *)

Requested == {"ConfirmExecution", "DecisionResponse"}

\* The message m is one the actor writes with this upload in progress and these
\* ids issued.
Says(m, upload, ids) ==
    \/ \E id \in Ids \ ids : m = AudioStart(id) /\ upload = NoUpload
    \/ /\ upload # NoUpload
       /\ \E n \in 1 .. MaxChunk :
            m = AudioChunk(upload.id, upload.chunks, n) /\ upload.frames + n <= MaxFrames
    \/ m = AudioEnd(upload) /\ upload # NoUpload
    \/ \E id \in ids : m = CancelRequest(id)
    \/ \E type \in Requested, id \in Ids : m = Request(type, id)
\* The upload is the next one once m, or no message, has been written.
Becomes(m, upload, ids, next) ==
    \/ \E id \in Ids \ ids : m = AudioStart(id) /\ upload = NoUpload /\ next = NewUpload(id)
    \/ /\ upload # NoUpload
       /\ \E n \in 1 .. MaxChunk :
            /\ m = AudioChunk(upload.id, upload.chunks, n) /\ upload.frames + n <= MaxFrames
            /\ next = Extended(upload, n)
    \/ m = AudioEnd(upload) /\ upload # NoUpload /\ next = NoUpload
    \/ \E id \in ids : /\ m = CancelRequest(id)
                       /\ next = IF upload.id = id THEN NoUpload ELSE upload
    \/ (\E type \in Requested, id \in Ids : m = Request(type, id)) /\ next = upload

\* The upload s has in progress is the client's; or s refused a start and has
\* none since; or it has the empty upload that the client dropped, and refused
\* a start if the client has another.
Aligned(s, upload, ids) ==
    \/ s.audio = upload
    \/ s.audio = NoUpload /\ "AUDIO_BUSY" \in s.errors
    \/ /\ s.audio.id \in ids /\ s.audio = NewUpload(s.audio.id)
       /\ s.audio.id # upload.id
       /\ upload = NoUpload \/ "AUDIO_BUSY" \in s.errors
Traced(s) ==
    /\ s.errors \subseteq {"AUDIO_BUSY", "INVALID_AUDIO_SEQUENCE", "UNKNOWN_AUDIO_REQUEST"}
    /\ s.errors # {} => "AUDIO_BUSY" \in s.errors
Standing(s, upload, ids) ==
    /\ s \in ServerType /\ upload \in Uploads /\ ids \subseteq Ids
    /\ upload.id \in ids \cup {NoId}
    /\ Aligned(s, upload, ids) /\ Traced(s)

\* A start finds no upload, or the one the client dropped.
LEMMA StartTaken ==
    ASSUME NEW s, NEW upload, NEW ids, Standing(s, upload, ids),
           NEW id \in Ids \ ids, upload = NoUpload, NEW t, t = ServerTakes(s, AudioStart(id))
    PROVE  /\ Traced(t) /\ Aligned(t, NewUpload(id), ids \cup {id})
           /\ t.audio.id \in {s.audio.id, id}
<1>1. /\ AudioStart(id).type = "AudioStart" /\ AudioStart(id).id = id
      /\ NoId \notin Ids
  BY NoIdAssumption DEF AudioStart, Request
<1>2. CASE s.audio = NoUpload
  <2>1. t = [s EXCEPT !.audio = NewUpload(id)]
    BY <1>1, <1>2 DEF ServerTakes, Refusal, TakeStart
  <2>2. t.audio = NewUpload(id) /\ t.errors = s.errors
    BY <2>1 DEF Standing, ServerType
  <2> QED BY <2>2 DEF Standing, Traced, Aligned, NewUpload
<1>3. CASE s.audio # NoUpload
  <2>1. t = [s EXCEPT !.audio = s.audio, !.errors = s.errors \cup {"AUDIO_BUSY"}]
    BY <1>1, <1>3 DEF ServerTakes, Refusal, Refuse
  <2>2. t.audio = s.audio /\ t.errors = s.errors \cup {"AUDIO_BUSY"}
    BY <2>1 DEF Standing, ServerType
  <2>3. s.audio.id \in ids /\ s.audio = NewUpload(s.audio.id)
    BY <1>3 DEF Standing, Aligned
  <2>4. s.audio.id # id /\ NewUpload(id).id = id
    BY <2>3 DEF NewUpload
  <2>5. Traced(t)
    BY <2>2 DEF Standing, Traced
  <2>6. Aligned(t, NewUpload(id), ids \cup {id})
    BY <2>2, <2>3, <2>4 DEF Aligned
  <2> QED BY <2>2, <2>5, <2>6
<1> QED BY <1>2, <1>3

\* What a peer without the client's upload makes of its chunk or its end.
LEMMA StrayTaken ==
    ASSUME NEW s, NEW upload, NEW ids, Standing(s, upload, ids), upload # NoUpload,
           s.audio # upload, NEW m, m.type \in {"AudioChunk", "AudioEnd"}, m.id = upload.id,
           NEW t, t = ServerTakes(s, m)
    PROVE  Traced(t) /\ t.audio = NoUpload /\ "AUDIO_BUSY" \in t.errors
<1>1. "AUDIO_BUSY" \in s.errors
  BY DEF Standing, Aligned
<1>2. Refusal(s, m) \in {"UNKNOWN_AUDIO_REQUEST", "INVALID_AUDIO_SEQUENCE"}
  <2>1. CASE s.audio = NoUpload
    BY <2>1 DEF Refusal
  <2>2. CASE s.audio # NoUpload
    <3>1. m.id # s.audio.id
      BY <2>2 DEF Standing, Aligned
    <3> QED BY <2>2, <3>1 DEF Refusal, PushError, FinishError
  <2> QED BY <2>1, <2>2
<1>3. t = [s EXCEPT !.audio = NoUpload, !.errors = s.errors \cup {Refusal(s, m)}]
  BY <1>2 DEF ServerTakes, Refuse
<1>4. t.audio = NoUpload /\ t.errors = s.errors \cup {Refusal(s, m)}
  BY <1>3 DEF Standing, ServerType
<1> QED BY <1>1, <1>2, <1>4 DEF Standing, Traced

\* A chunk within the client's limits is within the peer's.
LEMMA ChunkTaken ==
    ASSUME NEW s, NEW upload, NEW ids, Standing(s, upload, ids), upload # NoUpload,
           NEW n \in 1 .. MaxChunk, upload.frames + n <= MaxFrames,
           NEW t, t = ServerTakes(s, AudioChunk(upload.id, upload.chunks, n))
    PROVE  /\ Traced(t) /\ Aligned(t, Extended(upload, n), ids)
           /\ t.audio.id \in {s.audio.id, NoId}
<1> DEFINE m == AudioChunk(upload.id, upload.chunks, n)
<1>1. /\ m.type = "AudioChunk" /\ m.id = upload.id /\ m.seq = upload.chunks /\ m.frames = n
      /\ NoUpload.id = NoId
  BY DEF AudioChunk, NoUpload
<1> HIDE DEF m
<1>2. CASE s.audio # upload
  BY <1>1, <1>2, StrayTaken DEF m, Aligned
<1>3. CASE s.audio = upload
  <2>1. PushError(s.audio, m) = "none"
    <3>1. upload.frames \in Nat /\ MaxFrames \in Nat /\ n \in Nat
      BY <1>3, AudioAssumption DEF Standing, ServerType
    <3>2. ~ (upload.frames + n > MaxFrames)
      BY <3>1
    <3> QED BY <1>1, <1>3, <3>2 DEF PushError
  <2>2. Refusal(s, m) = "none"
    BY <1>1, <1>3, <2>1 DEF Refusal
  <2>3. t = [s EXCEPT !.audio = Extended(s.audio, n)]
    BY <1>1, <2>2 DEF ServerTakes, TakeChunk, m
  <2>4. t.audio = Extended(upload, n) /\ t.errors = s.errors
    BY <1>3, <2>3 DEF Standing, ServerType
  <2>5. Extended(upload, n).id = upload.id
    BY <1>3 DEF Extended, Standing, ServerType
  <2> QED BY <1>3, <2>4, <2>5 DEF Standing, Traced, Aligned
<1> QED BY <1>2, <1>3

\* An end tells of the upload what the peer has counted.
LEMMA EndTaken ==
    ASSUME NEW s, NEW upload, NEW ids, Standing(s, upload, ids), upload # NoUpload,
           NEW t, t = ServerTakes(s, AudioEnd(upload))
    PROVE  Traced(t) /\ Aligned(t, NoUpload, ids) /\ t.audio = NoUpload
<1> DEFINE m == AudioEnd(upload)
<1>1. /\ m.type = "AudioEnd" /\ m.id = upload.id /\ m.seq = upload.chunks
      /\ m.frames = upload.frames
  BY DEF AudioEnd
<1> HIDE DEF m
<1>2. CASE s.audio # upload
  BY <1>1, <1>2, StrayTaken DEF m, Aligned
<1>3. CASE s.audio = upload
  <2>1. FinishError(s.audio, m) = "none"
    BY <1>1, <1>3 DEF FinishError
  <2>2. Refusal(s, m) = "none"
    BY <1>1, <1>3, <2>1 DEF Refusal
  <2>3. t = [s EXCEPT !.audio = NoUpload, !.complete = s.complete \cup {m.id}]
    BY <1>1, <2>2 DEF ServerTakes, TakeEnd, m
  <2>4. t.audio = NoUpload /\ t.errors = s.errors
    BY <2>3 DEF Standing, ServerType
  <2> QED BY <2>4 DEF Standing, Traced, Aligned
<1> QED BY <1>2, <1>3

\* A cancel is never refused and leaves neither end with the request.
LEMMA CancelTaken ==
    ASSUME NEW s, NEW upload, NEW ids, Standing(s, upload, ids), NEW id \in ids,
           NEW t, t = ServerTakes(s, CancelRequest(id))
    PROVE  /\ Traced(t)
           /\ Aligned(t, IF upload.id = id THEN NoUpload ELSE upload, ids)
           /\ t.audio.id \in {s.audio.id, NoId} \ {id}
<1>1. /\ CancelRequest(id).type = "CancelRequest" /\ CancelRequest(id).id = id
      /\ NoUpload.id = NoId /\ id # NoId
  BY NoIdAssumption DEF CancelRequest, Request, NoUpload, Standing
<1>2. t = IF s.audio.id = id THEN [s EXCEPT !.audio = NoUpload] ELSE s
  BY <1>1 DEF ServerTakes, Refusal, TakeCancel
<1>3. t.audio = (IF s.audio.id = id THEN NoUpload ELSE s.audio) /\ t.errors = s.errors
  BY <1>2 DEF Standing, ServerType
<1>4. Traced(t)
  BY <1>3 DEF Standing, Traced
<1>5. CASE s.audio = upload
  BY <1>1, <1>3, <1>4, <1>5 DEF Aligned
<1>6. CASE s.audio = NoUpload /\ "AUDIO_BUSY" \in s.errors
  BY <1>1, <1>3, <1>4, <1>6 DEF Aligned
<1>7. CASE /\ s.audio.id \in ids /\ s.audio = NewUpload(s.audio.id)
           /\ s.audio.id # upload.id
           /\ upload = NoUpload \/ "AUDIO_BUSY" \in s.errors
  <2>1. CASE s.audio.id = id
    <3>1. t.audio = NoUpload /\ upload.id # id
      BY <1>3, <1>7, <2>1
    <3> QED BY <1>1, <1>3, <1>4, <1>7, <3>1 DEF Aligned
  <2>2. CASE s.audio.id # id
    <3>1. t.audio = s.audio
      BY <1>3, <2>2
    <3>2. NoUpload.id # s.audio.id
      BY <1>1, <1>7, NoIdAssumption DEF Standing
    <3> QED BY <1>3, <1>4, <1>7, <2>2, <3>1, <3>2 DEF Aligned
  <2> QED BY <2>1, <2>2
<1> QED BY <1>5, <1>6, <1>7 DEF Standing, Aligned

\* Whatever the actor writes is taken as it is meant, or for the one reason not.
LEMMA MessageTaken ==
    ASSUME NEW s, NEW upload, NEW ids, Standing(s, upload, ids), NEW m, Says(m, upload, ids),
           NEW t, t = ServerTakes(s, m)
    PROVE  /\ Traced(t)
           /\ t.audio.id \in {s.audio.id, NoId} \cup (Ids \ ids)
           /\ \A id \in ids : m = CancelRequest(id) => t.audio.id # id
           /\ \A next : Becomes(m, upload, ids, next) =>
                Aligned(t, next, IF m.type = "AudioStart" THEN ids \cup {m.id} ELSE ids)
<1>1. \A id : /\ AudioStart(id).type = "AudioStart" /\ AudioStart(id).id = id
              /\ CancelRequest(id).type = "CancelRequest" /\ CancelRequest(id).id = id
              /\ \A type : Request(type, id).type = type
  BY DEF AudioStart, CancelRequest, Request
<1>2. /\ AudioEnd(upload).type = "AudioEnd" /\ NoUpload.id = NoId
      /\ \A n : AudioChunk(upload.id, upload.chunks, n).type = "AudioChunk"
      /\ \A n : AudioChunk(upload.id, upload.chunks, n).frames = n
  BY DEF AudioEnd, AudioChunk, NoUpload
<1>3. CASE \E id \in Ids \ ids : m = AudioStart(id) /\ upload = NoUpload
  <2>1. PICK id \in Ids \ ids : m = AudioStart(id) /\ upload = NoUpload
    BY <1>3
  <2>2. /\ Traced(t) /\ Aligned(t, NewUpload(id), ids \cup {id})
        /\ t.audio.id \in {s.audio.id, id}
    BY <2>1, StartTaken
  <2>3. ASSUME NEW next, Becomes(m, upload, ids, next) PROVE next = NewUpload(id)
    BY <1>1, <1>2, <2>1, <2>3 DEF Becomes, Requested
  <2> QED BY <1>1, <2>1, <2>2, <2>3
<1>4. CASE /\ upload # NoUpload
           /\ \E n \in 1 .. MaxChunk :
                m = AudioChunk(upload.id, upload.chunks, n) /\ upload.frames + n <= MaxFrames
  <2>1. PICK n \in 1 .. MaxChunk :
          m = AudioChunk(upload.id, upload.chunks, n) /\ upload.frames + n <= MaxFrames
    BY <1>4
  <2>2. /\ Traced(t) /\ Aligned(t, Extended(upload, n), ids)
        /\ t.audio.id \in {s.audio.id, NoId}
    BY <1>4, <2>1, ChunkTaken
  <2>3. ASSUME NEW next, Becomes(m, upload, ids, next) PROVE next = Extended(upload, n)
    <3>1. m.type = "AudioChunk" /\ m.frames = n
      BY <1>2, <2>1
    <3> QED BY <1>1, <1>2, <2>3, <3>1 DEF Becomes, Requested
  <2> QED BY <1>1, <1>2, <2>1, <2>2, <2>3
<1>5. CASE m = AudioEnd(upload) /\ upload # NoUpload
  <2>1. Traced(t) /\ Aligned(t, NoUpload, ids) /\ t.audio = NoUpload
    BY <1>5, EndTaken
  <2>2. ASSUME NEW next, Becomes(m, upload, ids, next) PROVE next = NoUpload
    BY <1>1, <1>2, <1>5, <2>2 DEF Becomes, Requested
  <2> QED BY <1>1, <1>2, <1>5, <2>1, <2>2
<1>6. CASE \E id \in ids : m = CancelRequest(id)
  <2>1. PICK id \in ids : m = CancelRequest(id)
    BY <1>6
  <2>2. /\ Traced(t)
        /\ Aligned(t, IF upload.id = id THEN NoUpload ELSE upload, ids)
        /\ t.audio.id \in {s.audio.id, NoId} \ {id}
    BY <2>1, CancelTaken
  <2>3. ASSUME NEW next, Becomes(m, upload, ids, next)
        PROVE  next = IF upload.id = id THEN NoUpload ELSE upload
    BY <1>1, <1>2, <2>1, <2>3 DEF Becomes, Requested
  <2> QED BY <1>1, <2>1, <2>2, <2>3
<1>7. CASE \E type \in Requested, id \in Ids : m = Request(type, id)
  <2>1. PICK type \in Requested : m.type = type
    BY <1>1, <1>7
  <2>2. t = s
    BY <2>1 DEF ServerTakes, Refusal, Requested
  <2>3. ASSUME NEW next, Becomes(m, upload, ids, next) PROVE next = upload
    BY <1>1, <1>2, <2>1, <2>3 DEF Becomes, Requested
  <2>4. \A id : m # CancelRequest(id)
    BY <1>1, <2>1 DEF Requested
  <2> QED BY <2>1, <2>2, <2>3, <2>4 DEF Standing, Requested
<1> QED BY <1>3, <1>4, <1>5, <1>6, <1>7 DEF Says
-----------------------------------------------------------------------------
(* What a turn of the actor does to its upload and writes about it.        *)

Quiet ==
    /\ out' = NoMessage /\ UNCHANGED <<active_audio, issued>>
    /\ pending_preview'.id \in {pending_preview.id, NoId}
\* An empty upload is dropped without a word.
DropsEmpty ==
    /\ out' = NoMessage /\ UNCHANGED <<issued, pending_preview>>
    /\ active_audio' = NoUpload /\ active_audio = NewUpload(active_audio.id)
    /\ active_audio.id \in issued
Tells ==
    /\ out' # NoMessage
    /\ Says(out', active_audio, issued)
    /\ Becomes(out', active_audio, issued, active_audio')
    /\ issued' = IF out'.type = "AudioStart" THEN issued \cup {out'.id} ELSE issued
    /\ pending_preview'.id \in {pending_preview.id, NoId, active_audio.id}
\* A write that fails may have been made.
FailsToTell ==
    /\ phase' # "open"
    /\ out' = NoMessage \/ Says(out', active_audio, issued)
    /\ active_audio'.id \in {active_audio.id, NoId}
    /\ pending_preview'.id \in {pending_preview.id, NoId}
    /\ UNCHANGED issued
AudioCourse ==
    /\ Quiet \/ DropsEmpty \/ Tells \/ FailsToTell
    /\ \A id : out' = CancelRequest(id) => id \notin {active_audio'.id, pending_preview'.id}

(* What the actor writes tells its type and its request. *)
LEMMA TypesOfMessages ==
    /\ NoMessage.type = "none" /\ NoUpload.id = NoId /\ NoPending.id = NoId
    /\ \A id : /\ AudioStart(id).type = "AudioStart" /\ AudioStart(id).id = id
               /\ CancelRequest(id).type = "CancelRequest" /\ CancelRequest(id).id = id
               /\ \A type : Request(type, id).type = type
    /\ \A upload : AudioEnd(upload).type = "AudioEnd"
    /\ \A id, seq, n : AudioChunk(id, seq, n).type = "AudioChunk"
BY DEF NoMessage, Request, NoUpload, NoPending, AudioStart, CancelRequest, AudioEnd, AudioChunk

\* A step that writes nothing and leaves the upload alone.
LEMMA QuietCourse ==
    ASSUME Quiet
    PROVE  AudioCourse
BY TypesOfMessages DEF Quiet, AudioCourse

\* A message that is written or may have been.
LEMMA WriteCourse ==
    ASSUME NEW m, m # NoMessage, Says(m, active_audio, issued),
           \A id : m = CancelRequest(id) => id \notin {active_audio'.id, pending_preview'.id},
           \/ /\ Writes(m)
              /\ Becomes(m, active_audio, issued, active_audio')
              /\ issued' = IF m.type = "AudioStart" THEN issued \cup {m.id} ELSE issued
              /\ pending_preview'.id \in {pending_preview.id, NoId, active_audio.id}
           \/ /\ \E code \in TransportErrors : WriteFails(m, code)
              /\ active_audio'.id \in {active_audio.id, NoId}
              /\ pending_preview'.id \in {pending_preview.id, NoId}
              /\ UNCHANGED issued
    PROVE  AudioCourse
<1>1. CASE /\ Writes(m)
           /\ Becomes(m, active_audio, issued, active_audio')
           /\ issued' = IF m.type = "AudioStart" THEN issued \cup {m.id} ELSE issued
           /\ pending_preview'.id \in {pending_preview.id, NoId, active_audio.id}
  <2>1. out' = m
    BY <1>1 DEF Writes
  <2> QED BY <1>1, <2>1 DEF AudioCourse, Tells
<1>2. CASE /\ \E code \in TransportErrors : WriteFails(m, code)
           /\ active_audio'.id \in {active_audio.id, NoId}
           /\ pending_preview'.id \in {pending_preview.id, NoId}
           /\ UNCHANGED issued
  <2>1. out' \in {m, NoMessage} /\ phase' = "closing"
    BY <1>2 DEF WriteFails, Breaks
  <2> QED BY <1>2, <2>1, TypesOfMessages DEF AudioCourse, FailsToTell
<1> QED BY <1>1, <1>2

\* The command that begins, feeds and ends an upload, and cancel.
LEMMA CommandCourse ==
    ASSUME ReplyInv, active_audio.id \in issued \cup {NoId}, HandleCommand
    PROVE  AudioCourse
<1>1. /\ active_audio \in Uploads /\ issued \subseteq Ids
      /\ pending_preview \in Pendings
  BY DEF ReplyInv, TypeInv, TypeOK
<1>2. ASSUME NEW code, Rejects(code), UNCHANGED <<active_audio, issued, pending_preview>>
      PROVE  AudioCourse
  <2>1. Quiet
    BY <1>2 DEF Rejects, WritesNothing, Quiet
  <2> QED BY <2>1, QuietCourse
<1>3. CASE BeginAudio
  <2>1. UNCHANGED pending_preview
    BY <1>3 DEF BeginAudio
  <2>2. CASE \E id \in Ids \ issued :
               /\ active_audio = NoUpload
               /\ \/ /\ Writes(AudioStart(id))
                     /\ active_audio' = NewUpload(id)
                     /\ issued' = issued \cup {id}
                  \/ \E code \in TransportErrors :
                     /\ WriteFails(AudioStart(id), code)
                     /\ UNCHANGED <<active_audio, issued>>
    <3>1. PICK id \in Ids \ issued :
               /\ active_audio = NoUpload
               /\ \/ /\ Writes(AudioStart(id))
                     /\ active_audio' = NewUpload(id)
                     /\ issued' = issued \cup {id}
                  \/ /\ \E code \in TransportErrors : WriteFails(AudioStart(id), code)
                     /\ UNCHANGED <<active_audio, issued>>
      BY <2>2
    <3>2. PICK m : m = AudioStart(id)
      OBVIOUS
    <3>3. /\ m # NoMessage /\ m.type = "AudioStart" /\ m.id = id
          /\ \A i : m # CancelRequest(i)
      BY <3>2, TypesOfMessages
    <3>4. Says(m, active_audio, issued)
      BY <3>1, <3>2 DEF Says
    <3>5. active_audio' = NewUpload(id) => Becomes(m, active_audio, issued, active_audio')
      BY <3>1, <3>2 DEF Becomes
    <3> QED BY <2>1, <3>1, <3>2, <3>3, <3>4, <3>5, WriteCourse
  <2> QED BY <1>2, <1>3, <2>1, <2>2 DEF BeginAudio
<1>4. CASE SendAudioChunk
  <2>1. UNCHANGED <<issued, pending_preview>>
    BY <1>4 DEF SendAudioChunk
  <2>2. CASE /\ Command.arg > 0 /\ ChunkError = "none"
             /\ LET m == AudioChunk(Command.id, active_audio.chunks, Command.arg) IN
                 \/ /\ Writes(m)
                    /\ active_audio' = Extended(active_audio, Command.arg)
                 \/ \E code \in TransportErrors : WriteFails(m, code) /\ UNCHANGED active_audio
    <3>1. Command.id \in Ids /\ Command.arg \in Nat
      BY <1>4, CallerTypes DEF SendAudioChunk, ReplyInv, Takes, CallStates, Args
    <3>2. /\ active_audio.id = Command.id /\ Command.arg <= MaxChunk
          /\ active_audio.frames + Command.arg <= MaxFrames
      <4>1. /\ active_audio.id = Command.id /\ ~ (Command.arg > MaxChunk)
            /\ ~ (active_audio.frames + Command.arg > MaxFrames)
        BY <2>2 DEF ChunkError, OverLimit
      <4>2. active_audio.frames \in Nat /\ MaxFrames \in Nat /\ MaxChunk \in Nat
        BY <1>1, AudioAssumption DEF Uploads, NoUpload
      <4> QED BY <3>1, <4>1, <4>2
    <3>3. active_audio # NoUpload /\ Command.arg \in 1 .. MaxChunk
      BY <2>2, <3>1, <3>2, NoIdAssumption, AudioAssumption DEF NoUpload
    <3>4. PICK m : m = AudioChunk(active_audio.id, active_audio.chunks, Command.arg)
      OBVIOUS
    <3>5. m # NoMessage /\ m.type = "AudioChunk" /\ \A i : m # CancelRequest(i)
      BY <3>4, TypesOfMessages
    <3>6. Says(m, active_audio, issued)
      BY <3>2, <3>3, <3>4 DEF Says
    <3>7. active_audio' = Extended(active_audio, Command.arg)
            => Becomes(m, active_audio, issued, active_audio')
      BY <3>2, <3>3, <3>4 DEF Becomes
    <3>8. \/ Writes(m) /\ active_audio' = Extended(active_audio, Command.arg)
          \/ (\E code \in TransportErrors : WriteFails(m, code)) /\ UNCHANGED active_audio
      BY <2>2, <3>2, <3>4
    <3> QED BY <2>1, <3>5, <3>6, <3>7, <3>8, WriteCourse
  <2> QED BY <1>2, <1>4, <2>1, <2>2 DEF SendAudioChunk
<1>5. CASE FinishAudio
  <2>1. UNCHANGED issued
    BY <1>5 DEF FinishAudio
  <2>2. Command.id \in Ids
    BY <1>5, CallerTypes DEF FinishAudio, ReplyInv, Takes, CallStates
  <2>3. CASE /\ active_audio.id = Command.id /\ active_audio.frames = 0
             /\ Rejects("EMPTY_AUDIO")
             /\ active_audio' = NoUpload /\ UNCHANGED pending_preview
    <3>1. active_audio = NewUpload(active_audio.id)
      BY <1>1, <2>2, <2>3, NoIdAssumption DEF Uploads, NoUpload, NewUpload
    <3>2. active_audio.id \in issued /\ out' = NoMessage
      BY <2>2, <2>3, NoIdAssumption DEF Rejects, WritesNothing
    <3> QED BY <2>1, <2>3, <3>1, <3>2, TypesOfMessages DEF DropsEmpty, AudioCourse
  <2>4. CASE /\ active_audio.id = Command.id /\ active_audio' = UploadAfterEnd
             /\ \/ Writes(AudioEnd(active_audio)) /\ pending_preview' = Pending(Caller, Command.id)
                \/ \E code \in TransportErrors :
                    WriteFails(AudioEnd(active_audio), code) /\ UNCHANGED pending_preview
    <3>1. PICK m : m = AudioEnd(active_audio)
      OBVIOUS
    <3>2. m # NoMessage /\ m.type = "AudioEnd" /\ \A i : m # CancelRequest(i)
      BY <3>1, TypesOfMessages
    <3>3. active_audio # NoUpload /\ active_audio' = NoUpload /\ NoUpload.id = NoId
      BY <2>2, <2>4, NoIdAssumption DEF NoUpload, UploadAfterEnd
    <3>4. Says(m, active_audio, issued) /\ Becomes(m, active_audio, issued, active_audio')
      BY <3>1, <3>3 DEF Says, Becomes
    <3>5. Pending(Caller, Command.id).id = active_audio.id
      BY <2>4 DEF Pending
    <3>6. \/ Writes(m) /\ pending_preview'.id = active_audio.id
          \/ (\E code \in TransportErrors : WriteFails(m, code)) /\ UNCHANGED pending_preview
      BY <2>4, <3>1, <3>5
    <3> QED BY <2>1, <3>2, <3>3, <3>4, <3>6, WriteCourse
  <2> QED BY <1>2, <1>5, <2>1, <2>3, <2>4 DEF FinishAudio
<1>6. CASE Confirm \/ RespondToDecision
  <2>1. UNCHANGED <<issued, active_audio, pending_preview>>
    BY <1>6 DEF Confirm, RespondToDecision, loopVars
  <2>2. Command.id \in Ids
    BY <1>6, CallerTypes DEF Confirm, RespondToDecision, ReplyInv, Takes, CallStates
  <2>3. ASSUME NEW type \in Requested,
               \/ Writes(Request(type, Command.id))
               \/ \E code \in TransportErrors : WriteFails(Request(type, Command.id), code)
        PROVE  AudioCourse
    <3>1. PICK m : m = Request(type, Command.id)
      OBVIOUS
    <3>2. m # NoMessage /\ m.type \in Requested /\ \A i : m # CancelRequest(i)
      BY <3>1, TypesOfMessages DEF Requested
    <3>3. m.type # "AudioStart"
      BY <3>2 DEF Requested
    <3>4. Says(m, active_audio, issued) /\ Becomes(m, active_audio, issued, active_audio')
      BY <2>1, <2>2, <3>1 DEF Says, Becomes
    <3> QED BY <2>1, <2>3, <3>1, <3>2, <3>3, <3>4, WriteCourse
  <2> QED BY <1>2, <1>6, <2>1, <2>3 DEF Confirm, RespondToDecision, Requested
<1>7. CASE Cancel
  <2>1. UNCHANGED issued
    BY <1>7 DEF Cancel
  <2>2. Command.id \in issued /\ Command.id \in Ids
    <3>1. Takes("cancel")
      BY <1>7 DEF Cancel
    <3>2. Command.id \in Ids
      BY <3>1, CallerTypes DEF ReplyInv, Takes, CallStates
    <3> QED BY <3>1, <3>2, CallerFacts, NoIdAssumption
  <2>3. PICK m : m = CancelRequest(Command.id)
    OBVIOUS
  <2>4. /\ m # NoMessage /\ m.type = "CancelRequest"
        /\ \A i : m = CancelRequest(i) => i = Command.id
    BY <2>3, TypesOfMessages
  <2>5. /\ active_audio' = IF active_audio.id = Command.id THEN NoUpload ELSE active_audio
        /\ pending_preview' = IF pending_preview.id = Command.id THEN NoPending ELSE pending_preview
    BY <1>7 DEF Cancel, UploadAfterCancel, PreviewAfterCancel
  <2>6. Says(m, active_audio, issued) /\ Becomes(m, active_audio, issued, active_audio')
    BY <2>2, <2>3, <2>5 DEF Says, Becomes
  <2>7. /\ active_audio'.id \in {active_audio.id, NoId} \ {Command.id}
        /\ pending_preview'.id \in {pending_preview.id, NoId} \ {Command.id}
    BY <2>2, <2>5, NoIdAssumption, TypesOfMessages
  <2>8. Writes(m) \/ \E code \in TransportErrors : WriteFails(m, code)
    BY <1>7, <2>3 DEF Cancel
  <2>9. \A id : m = CancelRequest(id) => id \notin {active_audio'.id, pending_preview'.id}
    BY <2>4, <2>7
  <2> QED BY <2>1, <2>4, <2>6, <2>7, <2>8, <2>9, WriteCourse
<1>8. CASE Shutdown
  <2>1. Quiet
    BY <1>8 DEF Shutdown, loopVars, Quiet
  <2> QED BY <2>1, QuietCourse
<1> QED BY <1>3, <1>4, <1>5, <1>6, <1>7, <1>8 DEF HandleCommand

\* Every step of the actor's end, and every message it receives.
LEMMA ActorCourse ==
    ASSUME ReplyInv, active_audio.id \in issued \cup {NoId}, ActorActs \/ ActorReceives
    PROVE  AudioCourse /\ phase = "open"
<1>1. CASE HandleCommand
  <2>1. phase = "open"
    BY <1>1 DEF HandleCommand, BeginAudio, SendAudioChunk, FinishAudio, Confirm,
                RespondToDecision, Cancel, Shutdown, Takes
  <2> QED BY <1>1, <2>1, CommandCourse
<1>2. CASE /\ phase = "open"
           /\ \/ \E c \in Callers : Asks(c)
              \/ EnqueueTimesOut \/ DropHandles \/ ReadEvent \/ CommandsClosed
              \/ PreviewFallsDue \/ ExecutionFallsDue \/ Maintenance
  <2>1. \/ \E c \in Callers : Call(c)
        \/ EnqueueTimesOut \/ DropHandles \/ ReadEvent \/ CommandsClosed
        \/ PreviewFallsDue \/ ExecutionFallsDue \/ Maintenance
    BY <1>2 DEF Asks
  <2>2. CASE \/ \E c \in Callers : Call(c)
             \/ EnqueueTimesOut \/ DropHandles \/ ReadEvent \/ CommandsClosed
             \/ ExecutionFallsDue
    BY <1>2, <2>2, QuietCourse DEF Call, EnqueueTimesOut, DropHandles, ReadEvent, CommandsClosed,
       ExecutionFallsDue, callerVars, loopVars, Quiet
  <2>3. CASE PreviewFallsDue
    <3>1. pending_preview'.id = pending_preview.id
      BY <2>3 DEF PreviewFallsDue, ReplyInv, TypeInv, TypeOK, Pendings, NoPending
    <3> QED BY <1>2, <2>3, <3>1, QuietCourse DEF PreviewFallsDue, Quiet
  <2>4. CASE Maintenance
    BY <1>2, <2>4, QuietCourse, TypesOfMessages DEF Maintenance, Quiet
  <2> QED BY <2>1, <2>2, <2>3, <2>4
<1>3. CASE ActorReceives
  <2>1. PICK m : HandleResponse(m)
    BY <1>3 DEF ActorReceives
  <2>2. phase = "open" /\ UNCHANGED <<active_audio, issued>>
    BY <2>1 DEF HandleResponse, CommandPreview, ExecutionStatus, PreviewUpdate, RemoteError, Receives
  <2>3. /\ out' = NoMessage
        /\ pending_preview' = pending_preview \/ pending_preview' = NoPending
    BY <2>1 DEF HandleResponse, CommandPreview, ExecutionStatus, PreviewUpdate, RemoteError,
                Ignores, Strikes, AnswersPreview, AnswersExecution, Publishes, WritesNothing
  <2>4. Quiet
    BY <2>2, <2>3, TypesOfMessages DEF Quiet
  <2> QED BY <2>2, <2>4, QuietCourse
<1> QED BY <1>1, <1>2, <1>3 DEF ActorActs
-----------------------------------------------------------------------------
(* The invariant of the link.                                              *)

SentType == {m \in Messages : m.id \in Ids}
\* What may be on its way down when the peer has completed these uploads.
Responses(complete) ==
    [type : {"ExecutionStatus", "DecisionRequest", "Error"}, id : Ids]
    \cup [type : {"CommandPreview"}, id : (complete \cap Ids) \cup {WrongId}]

LinkTypes ==
    /\ ReplyInv
    /\ up \in Seq(Messages) /\ up \in Seq(SentType)
    /\ server \in ServerType
    /\ down \in Seq(Responses(server.complete))
    /\ pending_decision \in server.complete \cup {NoId}
    /\ active_audio.id \in issued \cup {NoId}
    /\ cancelled \subseteq issued
LinkInv ==
    /\ LinkTypes
    /\ Traced(ServerSoon)
    /\ cancelled \cap {active_audio.id, pending_preview.id, ServerSoon.audio.id} = {}
    /\ phase = "open" => Aligned(ServerSoon, active_audio, issued)

(* The invariant of the link holds at the start. *)
LEMMA InitLink == LinkInit => LinkInv
<1> SUFFICES ASSUME LinkInit PROVE LinkInv
  OBVIOUS
<1>1. ReplyInv
  BY InitReplies DEF LinkInit
<1>2. server \in ServerType /\ server.errors = {} /\ server.audio = NoUpload
  BY DEF LinkInit, ServerInit, ServerType, NoUpload
<1>3. up = <<>> /\ down = <<>> /\ up \in Seq(Messages) /\ up \in Seq(SentType)
      /\ down \in Seq(Responses(server.complete))
  BY EmptySeq DEF LinkInit
<1>4. ServerSoon = server
  <2>1. \E m \in Messages : TRUE
    BY MessageTypes
  <2> QED BY <1>2, <1>3, <2>1, AfterAppend DEF ServerSoon
<1>5. active_audio = NoUpload /\ cancelled = {} /\ pending_decision = NoId
  BY DEF LinkInit, Init
<1> QED BY <1>1, <1>2, <1>3, <1>4, <1>5, TypesOfMessages DEF LinkInv, LinkTypes, Traced, Aligned

\* A link step of the actor is a step of the session on its own, but for the
\* preview of an id nobody issued, which counts as a strike.
LEMMA LinkReplies ==
    ASSUME LinkTypes, ActorActs \/ ActorReceives
    PROVE  ReplyInv'
<1>1. ReplyInv
  BY DEF LinkTypes
<1>2. CASE ActorActs
  <2>1. Next
    BY <1>2 DEF ActorActs, Asks, Next, Time
  <2> QED BY <1>1, <2>1, StepReplies
<1>3. CASE ActorReceives
  <2>1. PICK m : m = Head(down) /\ HandleResponse(m)
    BY <1>3 DEF ActorReceives
  <2>2. m \in Responses(server.complete)
    <3>1. down # <<>> /\ down \in Seq(Responses(server.complete))
      BY <1>3 DEF ActorReceives, LinkTypes
    <3> QED BY <2>1, <3>1, HeadTailProperties
  <2>3. CASE m.id \in Ids
    <3>1. Inbound
      BY <2>1, <2>3 DEF HandleResponse, Inbound
    <3> QED BY <1>1, <3>1, StepReplies DEF Next
  <2>4. CASE m.id \notin Ids
    <3>1. m.id = WrongId /\ m.type = "CommandPreview" /\ CommandPreview(WrongId)
      BY <2>1, <2>2, <2>4 DEF Responses, HandleResponse
    <3>2. ~PreviewFor(WrongId)
      BY <1>1, WrongIdAssumption DEF PreviewFor, ReplyInv, TypeInv, TypeOK, Pendings, NoPending
    <3>3. Receives("CommandPreview") /\ (Ignores \/ Strikes)
      BY <3>1, <3>2 DEF CommandPreview
    <3>4. TypeInv'
      BY <1>1, <3>3, TypeIgnores, TypeStrikes DEF ReplyInv
    <3> QED BY <1>1, <3>3, <3>4, RepliesUntouched
  <2> QED BY <2>3, <2>4
<1> QED BY <1>2, <1>3

\* What the actor writes is about a request.
LEMMA SaysAboutRequests ==
    ASSUME NEW m \in Messages, NEW upload \in Uploads, NEW ids \in SUBSET Ids,
           Says(m, upload, ids)
    PROVE  m \in SentType
<1>1. upload # NoUpload => upload.id \in Ids
  BY DEF Uploads
<1>2. m.id \in Ids
  BY <1>1 DEF Says, AudioStart, AudioChunk, AudioEnd, CancelRequest, Request
<1> QED BY <1>2 DEF SentType

\* A step of the actor keeps the invariant: its message is one more to take.
LEMMA ActorKeeps ==
    ASSUME LinkInv, ActorActs \/ ActorReceives
    PROVE  LinkInv'
<1>1. /\ ReplyInv /\ active_audio \in Uploads /\ issued \in SUBSET Ids
      /\ active_audio.id \in issued \cup {NoId}
      /\ server \in ServerType /\ up \in Seq(Messages) /\ up \in Seq(SentType)
      /\ cancelled \subseteq issued
      /\ cancelled \cap {active_audio.id, pending_preview.id, ServerSoon.audio.id} = {}
      /\ Traced(ServerSoon)
  BY DEF LinkInv, LinkTypes, ReplyInv, TypeInv, TypeOK
<1>2. ReplyInv' /\ out' \in Messages
  BY LinkReplies DEF LinkInv, ReplyInv, TypeInv, TypeOK
<1>3. AudioCourse /\ phase = "open"
  BY <1>1, ActorCourse
<1>4. /\ UNCHANGED peerVars
      /\ up' = IF out' # NoMessage THEN Append(up, out') ELSE up
      /\ cancelled' = IF out'.type = "CancelRequest" THEN cancelled \cup {out'.id} ELSE cancelled
  <2>1. CASE ActorActs
    BY <2>1 DEF ActorActs, SendsUp
  <2>2. CASE ActorReceives
    <3>1. Quiet
      <4>1. PICK m : HandleResponse(m)
        BY <2>2 DEF ActorReceives
      <4>2. UNCHANGED <<active_audio, issued>>
        BY <4>1 DEF HandleResponse, CommandPreview, ExecutionStatus, PreviewUpdate, RemoteError,
                    Receives
      <4>3. /\ out' = NoMessage
            /\ pending_preview' = pending_preview \/ pending_preview' = NoPending
        BY <4>1 DEF HandleResponse, CommandPreview, ExecutionStatus, PreviewUpdate, RemoteError,
                    Ignores, Strikes, AnswersPreview, AnswersExecution, Publishes, WritesNothing
      <4> QED BY <4>2, <4>3, TypesOfMessages DEF Quiet
    <3> QED BY <2>2, <3>1, TypesOfMessages DEF ActorReceives, Quiet
  <2> QED BY <2>1, <2>2
<1>5. down' \in Seq(Responses(server'.complete)) /\ pending_decision' \in server'.complete \cup {NoId}
      /\ server' = server
  <2>1. down' = down \/ (down # <<>> /\ down' = Tail(down))
    BY DEF ActorActs, ActorReceives
  <2>2. down \in Seq(Responses(server.complete))
    BY DEF LinkInv, LinkTypes
  <2>3. down' \in Seq(Responses(server.complete))
    BY <2>1, <2>2, HeadTailProperties
  <2> QED BY <1>4, <2>3 DEF peerVars, LinkInv, LinkTypes
<1>6. PICK s : s = ServerSoon /\ s \in ServerType
  BY <1>1, <1>2, AfterAppend DEF ServerSoon
<1>7. Standing(s, active_audio, issued)
  BY <1>1, <1>3, <1>6 DEF Standing, LinkInv
<1>8. CASE out' = NoMessage
  <2>1. up' = up /\ cancelled' = cancelled /\ ServerSoon' = s
    BY <1>4, <1>5, <1>6, <1>8, TypesOfMessages DEF ServerSoon
  <2>2. ~Tells
    BY <1>8 DEF Tells
  <2>3. CASE Quiet
    <3>1. phase' = "open" => Aligned(s, active_audio', issued')
      BY <1>7, <2>3 DEF Quiet, Standing
    <3>2. cancelled' \cap {active_audio'.id, pending_preview'.id, s.audio.id} = {}
      BY <1>1, <1>6, <2>1, <2>3, NoIdAssumption DEF Quiet
    <3> QED BY <1>1, <1>2, <1>5, <1>6, <2>1, <2>3, <3>1, <3>2 DEF LinkInv, LinkTypes, Quiet
  <2>4. CASE DropsEmpty
    <3>1. active_audio' = NoUpload /\ issued' = issued /\ pending_preview' = pending_preview
      BY <2>4 DEF DropsEmpty
    <3>2. NoUpload.id = NoId /\ active_audio.id # NoId
      BY <1>1, <2>4, NoIdAssumption DEF DropsEmpty, NoUpload
    <3>3. Aligned(s, NoUpload, issued)
      BY <1>1, <1>7, <2>4, <3>2, NoIdAssumption DEF Standing, Aligned, DropsEmpty
    <3>4. cancelled' \cap {active_audio'.id, pending_preview'.id, s.audio.id} = {}
      BY <1>1, <1>6, <2>1, <3>1, <3>2, NoIdAssumption
    <3> QED BY <1>1, <1>2, <1>5, <1>6, <2>1, <3>1, <3>2, <3>3, <3>4 DEF LinkInv, LinkTypes
  <2>5. CASE FailsToTell
    <3>1. cancelled' \cap {active_audio'.id, pending_preview'.id, s.audio.id} = {}
      BY <1>1, <1>6, <2>1, <2>5, NoIdAssumption DEF FailsToTell
    <3> QED BY <1>1, <1>2, <1>5, <1>6, <2>1, <2>5, <3>1 DEF LinkInv, LinkTypes, FailsToTell
  <2> QED BY <1>3, <2>2, <2>3, <2>4, <2>5 DEF AudioCourse
<1>9. CASE out' # NoMessage
  <2>1. /\ Says(out', active_audio, issued)
        /\ \A id : out' = CancelRequest(id) => id \notin {active_audio'.id, pending_preview'.id}
    BY <1>3, <1>9 DEF AudioCourse, Quiet, DropsEmpty, Tells, FailsToTell
  <2>2. out' \in SentType
    BY <1>1, <1>2, <2>1, SaysAboutRequests
  <2>3. up' \in Seq(Messages) /\ up' \in Seq(SentType)
    BY <1>1, <1>2, <1>4, <1>9, <2>2, AppendProperties
  <2>4. PICK t : t = ServerTakes(s, out')
    OBVIOUS
  <2>5. ServerSoon' = t
    BY <1>1, <1>2, <1>4, <1>5, <1>6, <1>9, <2>4, AfterAppend DEF ServerSoon
  <2>6. /\ Traced(t)
        /\ t.audio.id \in {s.audio.id, NoId} \cup (Ids \ issued)
        /\ \A id \in issued : out' = CancelRequest(id) => t.audio.id # id
        /\ \A next : Becomes(out', active_audio, issued, next) =>
             Aligned(t, next, IF out'.type = "AudioStart" THEN issued \cup {out'.id} ELSE issued)
    <3>1. PICK m, upload, ids : m = out' /\ upload = active_audio /\ ids = issued
      OBVIOUS
    <3>2. Standing(s, upload, ids) /\ Says(m, upload, ids) /\ t = ServerTakes(s, m)
      BY <1>7, <2>1, <2>4, <3>1
    <3>3. /\ Traced(t)
          /\ t.audio.id \in {s.audio.id, NoId} \cup (Ids \ ids)
          /\ \A id \in ids : m = CancelRequest(id) => t.audio.id # id
          /\ \A next : Becomes(m, upload, ids, next) =>
               Aligned(t, next, IF m.type = "AudioStart" THEN ids \cup {m.id} ELSE ids)
      BY <3>2, MessageTaken
    <3> QED BY <3>1, <3>3
  <2>7. /\ active_audio'.id \in {active_audio.id, NoId} \cup (Ids \ issued)
        /\ active_audio'.id \in issued' \cup {NoId}
        /\ pending_preview'.id \in {pending_preview.id, NoId, active_audio.id}
        /\ issued \subseteq issued'
        /\ phase' = "open" => Aligned(t, active_audio', issued')
    <3>1. CASE Tells
      <4>1. /\ Becomes(out', active_audio, issued, active_audio')
            /\ issued' = IF out'.type = "AudioStart" THEN issued \cup {out'.id} ELSE issued
        BY <3>1 DEF Tells
      <4>2. \/ /\ active_audio'.id \in Ids \ issued /\ out'.type = "AudioStart"
               /\ out'.id = active_audio'.id
            \/ active_audio'.id \in {active_audio.id, NoId}
        <5>1. \A n : active_audio # NoUpload => Extended(active_audio, n).id = active_audio.id
          BY <1>1 DEF Extended, Uploads
        <5>2. \A id : NewUpload(id).id = id
          BY DEF NewUpload
        <5> QED BY <4>1, <5>1, <5>2, TypesOfMessages DEF Becomes
      <4>3. Aligned(t, active_audio', issued')
        BY <2>6, <4>1
      <4> QED BY <1>1, <3>1, <4>1, <4>2, <4>3 DEF Tells
    <3>2. CASE FailsToTell
      BY <1>1, <3>2 DEF FailsToTell
    <3> QED BY <1>3, <1>9, <3>1, <3>2 DEF AudioCourse, Quiet, DropsEmpty
  <2>8. /\ cancelled' \subseteq issued'
        /\ cancelled' \cap {active_audio'.id, pending_preview'.id, t.audio.id} = {}
    <3>1. cancelled \cap {active_audio'.id, pending_preview'.id, t.audio.id} = {}
      BY <1>1, <1>6, <2>6, <2>7, NoIdAssumption
    <3>2. CASE out'.type # "CancelRequest"
      BY <1>1, <1>4, <2>7, <3>1, <3>2
    <3>3. CASE out'.type = "CancelRequest"
      <4>1. PICK id \in issued : out' = CancelRequest(id)
        BY <2>1, <3>3, TypesOfMessages DEF Says, Requested
      <4>2. cancelled' = cancelled \cup {id}
        BY <1>4, <3>3, <4>1, TypesOfMessages
      <4>3. id \notin {active_audio'.id, pending_preview'.id, t.audio.id}
        BY <2>1, <2>6, <4>1
      <4> QED BY <1>1, <2>7, <3>1, <4>1, <4>2, <4>3
    <3> QED BY <3>2, <3>3
  <2> QED BY <1>2, <1>5, <2>3, <2>5, <2>6, <2>7, <2>8 DEF LinkInv, LinkTypes
<1> QED BY <1>8, <1>9

\* What the peer has completed stays completed, and an end it accepts completes.
LEMMA CompleteGrows ==
    ASSUME NEW s \in ServerType, NEW m
    PROVE  /\ s.complete \subseteq ServerTakes(s, m).complete
           /\ m.type = "AudioEnd" /\ Refusal(s, m) = "none" => m.id \in ServerTakes(s, m).complete
BY DEF ServerType, ServerTakes, Refuse, TakeStart, TakeChunk, TakeEnd, TakeCancel

\* More uploads completed allow more responses.
LEMMA ResponsesGrow ==
    ASSUME NEW complete, NEW more, complete \subseteq more, NEW responses \in Seq(Responses(complete))
    PROVE  responses \in Seq(Responses(more))
<1>1. Responses(complete) \subseteq Responses(more)
  BY DEF Responses
<1>2. \A i \in 1 .. Len(responses) : responses[i] \in Responses(more)
  BY <1>1, ElementOfSeq
<1>3. responses \in [1 .. Len(responses) -> Responses(more)] /\ Len(responses) \in Nat
  BY <1>2, LenProperties
<1> QED BY <1>3, SeqDef

\* The peer answers an upload with responses about it, or about WrongId.
LEMMA UploadAnswers ==
    ASSUME NEW id \in Ids, NEW complete, id \in complete
    PROVE  AnswersToUpload(id) \in Seq(Responses(complete))
<1>1. \A type \in {"ExecutionStatus", "DecisionRequest", "Error", "CommandPreview"} :
        Response(type, id) \in Responses(complete)
  BY DEF Response, Responses
<1>2. Response("CommandPreview", WrongId) \in Responses(complete)
  BY DEF Response, Responses
<1>3. <<>> \in Seq(Responses(complete))
  BY EmptySeq
<1>4. [n \in 1 .. 3 |-> Response("CommandPreview", WrongId)] \in Seq(Responses(complete))
  <2>1. [n \in 1 .. 3 |-> Response("CommandPreview", WrongId)] \in [1 .. 3 -> Responses(complete)]
    BY <1>2
  <2> QED BY <2>1, SeqDef
<1>5. /\ <<Response("DecisionRequest", id)>> \in Seq(Responses(complete))
      /\ <<Response("CommandPreview", id)>> \in Seq(Responses(complete))
  BY <1>1
<1> QED BY <1>3, <1>4, <1>5 DEF AnswersToUpload

\* A turn of the peer: its first message is taken, and the session stays as it is.
LEMMA PeerTurn ==
    ASSUME PeerActs
    PROVE  /\ up # <<>> /\ up' = Tail(up)
           /\ server' = ServerTakes(server, Head(up))
           /\ UNCHANGED <<vars, behavior, cancelled>>
<1>1. up # <<>> /\ up' = Tail(up) /\ UNCHANGED <<vars, behavior, cancelled>>
  BY DEF PeerActs, PeerTakesUpload, PeerTakesConfirmation, PeerTakesDecision, PeerTakes
<1>2. CASE PeerTakesUpload
  BY <1>1, <1>2 DEF PeerTakesUpload
<1>3. CASE PeerTakesConfirmation \/ PeerTakesDecision
  <2>1. Head(up).type \in Requested /\ server' = server
    BY <1>3 DEF PeerTakesConfirmation, PeerTakesDecision, PeerTakes, Requested
  <2> QED BY <1>1, <2>1 DEF Requested, ServerTakes, Refusal
<1> QED BY <1>1, <1>2, <1>3 DEF PeerActs

\* A step of the peer keeps the invariant: it takes what it would have taken.
LEMMA PeerKeeps ==
    ASSUME LinkInv, PeerActs
    PROVE  LinkInv'
<1>1. /\ up # <<>> /\ up' = Tail(up)
      /\ UNCHANGED <<vars, behavior, cancelled>>
  BY PeerTurn
<1>2. /\ up \in Seq(Messages) /\ up \in Seq(SentType) /\ server \in ServerType
      /\ down \in Seq(Responses(server.complete))
      /\ pending_decision \in server.complete \cup {NoId}
  BY DEF LinkInv, LinkTypes
<1>3. PICK m : m = Head(up)
  OBVIOUS
<1>4. m \in Messages /\ m.id \in Ids /\ up' \in Seq(Messages) /\ up' \in Seq(SentType)
  BY <1>1, <1>2, <1>3, HeadTailProperties DEF SentType
<1>5. server' = ServerTakes(server, m)
  BY <1>3, PeerTurn
<1>6. server' \in ServerType /\ server.complete \subseteq server'.complete
  BY <1>2, <1>4, <1>5, ServerTakesType, CompleteGrows
<1>7. ServerSoon' = ServerSoon
  BY <1>1, <1>2, <1>3, <1>5, AfterTail DEF ServerSoon
<1>8. down \in Seq(Responses(server'.complete))
  BY <1>2, <1>6, ResponsesGrow
<1>9. /\ down' \in Seq(Responses(server'.complete))
      /\ pending_decision' \in server'.complete \cup {NoId}
  <2>1. ASSUME NEW responses \in Seq(Responses(server'.complete)), down' = down \o responses
        PROVE  down' \in Seq(Responses(server'.complete))
    BY <1>8, <2>1, ConcatProperties
  <2>2. \A type \in {"ExecutionStatus", "Error"} :
          <<Response(type, m.id)>> \in Seq(Responses(server'.complete))
    BY <1>4 DEF Response, Responses
  <2>3. <<>> \in Seq(Responses(server'.complete))
    BY EmptySeq
  <2>4. CASE PeerTakesUpload
    <3>1. /\ down' = down \o (IF Refusal(server, m) # "none" THEN <<Response("Error", m.id)>>
                              ELSE IF Completes(m) THEN AnswersToUpload(m.id) ELSE <<>>)
          /\ pending_decision' = IF Completes(m) /\ behavior = "DecisionFlow" THEN m.id
                                 ELSE pending_decision
      BY <1>3, <2>4 DEF PeerTakesUpload, PeerSays
    <3>2. Completes(m) => m.id \in server'.complete
      BY <1>2, <1>5, CompleteGrows DEF Completes
    <3>3. Completes(m) => AnswersToUpload(m.id) \in Seq(Responses(server'.complete))
      BY <1>4, <3>2, UploadAnswers
    <3>4. pending_decision' \in server'.complete \cup {NoId}
      BY <1>2, <1>6, <3>1, <3>2
    <3>5. (IF Refusal(server, m) # "none" THEN <<Response("Error", m.id)>>
           ELSE IF Completes(m) THEN AnswersToUpload(m.id) ELSE <<>>)
             \in Seq(Responses(server'.complete))
      BY <2>2, <2>3, <3>3
    <3> QED BY <2>1, <3>1, <3>4, <3>5
  <2>5. CASE PeerTakesConfirmation
    <3>1. /\ down' = down \o (IF behavior = "SilentConfirmation" THEN <<>>
                              ELSE <<Response("ExecutionStatus", m.id)>>)
          /\ pending_decision' = pending_decision
      BY <1>3, <2>5 DEF PeerTakesConfirmation, PeerSays
    <3>2. (IF behavior = "SilentConfirmation" THEN <<>>
           ELSE <<Response("ExecutionStatus", m.id)>>) \in Seq(Responses(server'.complete))
      BY <2>2, <2>3
    <3> QED BY <1>2, <1>6, <2>1, <3>1, <3>2
  <2>6. CASE PeerTakesDecision
    <3>1. CASE down' = down /\ pending_decision' = pending_decision
      BY <1>2, <1>6, <1>8, <3>1
    <3>2. CASE /\ pending_decision = m.id /\ pending_decision' = NoId
               /\ \E answer \in {"CommandPreview", "Error"} : down' = down \o <<Response(answer, m.id)>>
      <4>1. m.id \in server'.complete
        BY <1>2, <1>4, <1>6, <3>2, NoIdAssumption
      <4>2. <<Response("CommandPreview", m.id)>> \in Seq(Responses(server'.complete))
        BY <1>4, <4>1 DEF Response, Responses
      <4> QED BY <2>1, <2>2, <3>2, <4>2
    <3> QED BY <1>3, <2>6, <3>1, <3>2 DEF PeerTakesDecision, PeerSays
  <2> QED BY <2>4, <2>5, <2>6 DEF PeerActs
<1>10. /\ UNCHANGED <<active_audio, pending_preview, issued, phase, cancelled>>
       /\ ReplyInv'
  <2>1. UNCHANGED <<active_audio, pending_preview, issued, phase, cancelled>>
    BY <1>1 DEF vars, loopVars
  <2>2. ReplyInv'
    BY <1>1, StepReplies DEF LinkInv, LinkTypes
  <2> QED BY <2>1, <2>2
<1> QED BY <1>4, <1>6, <1>7, <1>9, <1>10 DEF LinkInv, LinkTypes

\* Every step of the link keeps the invariant.
LEMMA LinkStep == ASSUME LinkInv, [LinkNext]_linkVars PROVE LinkInv'
<1>1. CASE ActorActs \/ ActorReceives
  BY <1>1, ActorKeeps
<1>2. CASE PeerActs
  BY <1>2, PeerKeeps
<1>3. CASE UNCHANGED linkVars
  <2>1. UNCHANGED vars /\ UNCHANGED <<up, down, server, pending_decision, cancelled>>
    BY <1>3 DEF linkVars, peerVars
  <2>2. UNCHANGED <<active_audio, pending_preview, issued, phase>>
    BY <2>1 DEF vars, loopVars
  <2>3. ReplyInv'
    BY <2>1, StepReplies DEF LinkInv, LinkTypes
  <2>4. ServerSoon' = ServerSoon
    BY <2>1 DEF ServerSoon
  <2> QED BY <2>1, <2>2, <2>3, <2>4 DEF LinkInv, LinkTypes
<1> QED BY <1>1, <1>2, <1>3 DEF LinkNext

(* And it always does. *)
LEMMA LinkInvariant == LinkSpec => []LinkInv
BY InitLink, LinkStep, PTL DEF LinkSpec

\* As long as nothing was refused, the actor's active_audio and the peer's
\* assembler, once it has taken what is on its way, are the same upload, and a
\* cancelled request is nowhere: whatever messages cross on the socket.
THEOREM EndsAlwaysAgree == LinkSpec => []EndsAgree
<1>1. LinkInv => EndsAgree
  BY DEF LinkInv, Aligned, EndsAgree
<1> QED BY <1>1, LinkInvariant, PTL

\* AudioAssembler refuses nothing that send_audio and finish_audio let through,
\* but for an upload started over one that was dropped empty.
THEOREM NothingElseRefused == LinkSpec => []RefusalsTraced
<1>1. LinkInv => RefusalsTraced
  BY DEF LinkInv, Traced, RefusalsTraced
<1> QED BY <1>1, LinkInvariant, PTL
-----------------------------------------------------------------------------
(* Previews.                                                               *)

\* No command answers another caller's finish_audio with success, and no message
\* but a preview of its request does.
LEMMA ParkedAnswer ==
    ASSUME LinkInv, LinkNext, NEW c \in Callers,
           call[c].stage = "parked", call[c].op = "finish_audio", call'[c].code = "ok"
    PROVE  call[c].id \in server.complete
<1>1. /\ ReplyInv /\ call \in [Callers -> CallStates] /\ call[c].code # "ok"
      /\ call[c].id \in Ids
  BY DEF LinkInv, LinkTypes, ReplyInv, TypeInv, TypeOK, CallStates
<1>2. ASSUME NEW d, NEW code, NEW about, Answer(d, code, about), d # c \/ code # "ok"
      PROVE  FALSE
  BY <1>1, <1>2 DEF Answer, Idle
<1>3. CASE PeerActs
  <2>1. UNCHANGED call
    BY <1>3 DEF PeerActs, PeerTakesUpload, PeerTakesConfirmation, PeerTakesDecision, PeerTakes,
                vars, callerVars
  <2> QED BY <1>1, <2>1
<1>4. CASE ActorActs
  <2>1. CASE HandleCommand
    <3>1. PICK op : Takes(op)
      BY <2>1 DEF HandleCommand, BeginAudio, SendAudioChunk, FinishAudio, Confirm,
                  RespondToDecision, Cancel, Shutdown
    <3>2. Caller # c
      BY <1>1, <3>1, CallerFacts
    <3>3. /\ call[c].stage # "queued"
          /\ \A d, code, about : d = Caller => ~Answer(d, code, about)
      BY <1>2, <3>2
    <3>4. call' # [call EXCEPT ![Caller].stage = "parked"]
      BY <1>1, <3>2
    <3>5. \A code : ~AnswerCancel(code)
      BY <1>1, <3>2 DEF AnswerCancel, Idle
    <3> QED BY <2>1, <3>3, <3>4, <3>5 DEF HandleCommand, BeginAudio, SendAudioChunk, FinishAudio,
            Confirm, RespondToDecision, Cancel, Shutdown, Rejects
  <2>2. CASE EnqueueTimesOut
    BY <1>2, <2>2 DEF EnqueueTimesOut
  <2>3. CASE \E d \in Callers : Asks(d)
    BY <1>1, <1>2, <2>3 DEF Asks, Call, Calling
  <2>4. CASE Maintenance
    BY <1>1, <2>4 DEF Maintenance, AnswerOverdue, Idle
  <2>5. CASE DropHandles \/ ReadEvent \/ CommandsClosed \/ PreviewFallsDue \/ ExecutionFallsDue
    <3>1. UNCHANGED call
      BY <2>5 DEF DropHandles, ReadEvent, CommandsClosed, PreviewFallsDue, ExecutionFallsDue,
                  callerVars
    <3> QED BY <1>1, <3>1
  <2> QED BY <1>4, <2>1, <2>2, <2>3, <2>4, <2>5 DEF ActorActs
<1>5. CASE ActorReceives
  <2>1. PICK m : m = Head(down) /\ HandleResponse(m)
    BY <1>5 DEF ActorReceives
  <2>2. m \in Responses(server.complete)
    <3>1. down # <<>> /\ down \in Seq(Responses(server.complete))
      BY <1>5 DEF ActorReceives, LinkInv, LinkTypes
    <3> QED BY <2>1, <3>1, HeadTailProperties
  <2>3. ~UNCHANGED call
    BY <1>1
  <2>4. \A about : ~AnswersPreview("REMOTE", about) /\ ~AnswersExecution("REMOTE", about)
    BY <1>2 DEF AnswersPreview, AnswersExecution
  <2>5. \A code, about : ~AnswersExecution(code, about)
    <3>1. pending_execution.caller # c
      BY <1>1, NoCallerAssumption DEF ReplyInv, RepliesAccounted, SlotOwned, NoPending
    <3> QED BY <1>2, <3>1 DEF AnswersExecution
  <2>6. m.type = "CommandPreview" /\ PreviewFor(m.id) /\ AnswersPreview("ok", m.id)
    BY <2>1, <2>3, <2>4, <2>5 DEF HandleResponse, CommandPreview, ExecutionStatus, PreviewUpdate,
       RemoteError, Ignores, Strikes, Publishes
  <2>7. pending_preview.caller = c
    BY <1>2, <2>6 DEF AnswersPreview
  <2>8. call[c].id = m.id
    BY <1>1, <2>6, <2>7, NoCallerAssumption
    DEF ReplyInv, RepliesAccounted, SlotOwned, NoPending, PreviewFor
  <2>9. m.id # WrongId
    BY <1>1, <2>8, WrongIdAssumption
  <2> QED BY <2>2, <2>6, <2>8, <2>9 DEF Responses
<1> QED BY <1>3, <1>4, <1>5 DEF LinkNext

\* finish_audio returns a preview only of an upload the peer holds complete,
\* whichever previews of other requests are on their way.
THEOREM PreviewsEarned == LinkSpec => PreviewEarned
<1>1. ASSUME LinkInv, [LinkNext]_linkVars
      PROVE  [\A c \in Callers :
                call[c].stage = "parked" /\ call[c].op = "finish_audio" /\ call'[c].code = "ok"
                    => call[c].id \in server.complete]_linkVars
  BY <1>1, ParkedAnswer
<1> QED BY <1>1, LinkInvariant, PTL DEF LinkSpec, PreviewEarned
-----------------------------------------------------------------------------
(* Strikes: what the peer owes the session, and who waits for it.          *)

\* A message of M is among those of the sequence.
Among(M, messages) == \E i \in 1 .. Len(messages) : messages[i] \in M
\* There is one at most.
AtMostOnce(M, messages) ==
    \A i, j \in 1 .. Len(messages) : messages[i] \in M /\ messages[j] \in M => i = j
\* No message of M comes after one of N.
InOrder(M, N, messages) ==
    \A i, j \in 1 .. Len(messages) : messages[i] \in M /\ messages[j] \in N => i < j

\* What the two ends say about a request, by what is owed for it.
Ends(id) == {m \in Messages : m.type = "AudioEnd" /\ m.id = id}
Confirmations(id) == {m \in Messages : m.type = "ConfirmExecution" /\ m.id = id}
Verdicts(id) == {Response("CommandPreview", id), Response("Error", id)}
Questions(id) == {Response("DecisionRequest", id)}
Statuses(id) == {Response("ExecutionStatus", id)}

\* The session still keeps the request in mind as one that was not given up.
InMind(id) == id \notin cancelled /\ ~Retired(id)

\* An upload ends once, and its request is not begun again.
EndsOnce(id) ==
    /\ Among(Ends(id), up) \/ id \in server.complete =>
        id \in issued /\ active_audio.id # id
    /\ Among(Ends(id), up) => id \notin server.complete
    /\ AtMostOnce(Ends(id), up)
\* The peer has its answer to an upload still to give, or on its way.
Answers(id) ==
    \/ pending_decision = id
    \/ Among(Questions(id), down) \/ Among(Verdicts(id), down)
\* The one verdict about the upload is owed, asked about or on its way, in this
\* order, and the preview is pending until it comes.
PreviewOwed(id) ==
    /\ Answers(id) => id \in server.complete
    /\ Among(Ends(id), up) \/ Answers(id) => pending_preview.id = id
    /\ AtMostOnce(Verdicts(id), down)
    /\ pending_decision = id => ~Among(Verdicts(id), down)
    /\ InOrder(Questions(id), Verdicts(id), down)
\* So is the one status of a confirmation.
StatusOwed(id) ==
    /\ Among(Confirmations(id), up) \/ Among(Statuses(id), down) => pending_execution.id = id
    /\ ~ (Among(Confirmations(id), up) /\ Among(Statuses(id), down))
    /\ AtMostOnce(Confirmations(id), up) /\ AtMostOnce(Statuses(id), down)

\* The peer keeps the protocol and has refused nothing so far.
Blameless == behavior # "WrongPreviewIds" /\ "AUDIO_BUSY" \notin server.errors
\* What holds of every request meanwhile, in a session that is in its loop.
Ledger ==
    /\ ~Among(Verdicts(WrongId), down)
    /\ \A id \in Ids : EndsOnce(id) /\ (InMind(id) => PreviewOwed(id) /\ StatusOwed(id))
\* It is claimed of an open session with a peer that is blameless.
LedgerKept == phase = "open" /\ Blameless => Ledger

\* One message more, at the end.
LEMMA MoreAmong ==
    ASSUME NEW S, NEW seq \in Seq(S), NEW m \in S, NEW M
    PROVE  /\ Among(M, Append(seq, m)) <=> Among(M, seq) \/ m \in M
           /\ AtMostOnce(M, seq) /\ ~ (m \in M /\ Among(M, seq)) => AtMostOnce(M, Append(seq, m))
           /\ \A N : /\ InOrder(M, N, seq)
                     /\ m \in M => m \notin N /\ ~Among(N, seq)
                     => InOrder(M, N, Append(seq, m))
<1>1. PICK n, more : n = Len(seq) /\ more = Append(seq, m)
  OBVIOUS
<1>2. /\ n \in Nat /\ Len(more) = n + 1 /\ more[n + 1] = m
      /\ \A i \in 1 .. n : more[i] = seq[i]
  BY <1>1, AppendProperties, LenProperties
<1>3. \A i \in 1 .. n + 1 : i = n + 1 \/ i \in 1 .. n
  BY <1>2
<1>4. 1 .. n \subseteq 1 .. n + 1 /\ n + 1 \in 1 .. n + 1 /\ \A i \in 1 .. n : i < n + 1 /\ i # n + 1
  BY <1>2
<1>5. Among(M, more) <=> Among(M, seq) \/ m \in M
  BY <1>1, <1>2, <1>3, <1>4 DEF Among
<1>6. AtMostOnce(M, seq) /\ ~ (m \in M /\ Among(M, seq)) => AtMostOnce(M, more)
  <2> SUFFICES ASSUME AtMostOnce(M, seq), ~ (m \in M /\ Among(M, seq)),
                      NEW i \in 1 .. n + 1, NEW j \in 1 .. n + 1, more[i] \in M, more[j] \in M
               PROVE  i = j
    BY <1>2 DEF AtMostOnce
  <2>1. CASE i \in 1 .. n /\ j \in 1 .. n
    BY <1>1, <1>2, <2>1 DEF AtMostOnce
  <2>2. CASE m \in M
    <3>1. \A k \in 1 .. n : seq[k] \notin M
      BY <1>1, <2>2 DEF Among
    <3> QED BY <1>2, <1>3, <3>1
  <2> QED BY <1>2, <1>3, <2>1, <2>2
<1>7. ASSUME NEW N, InOrder(M, N, seq), m \in M => m \notin N /\ ~Among(N, seq)
      PROVE  InOrder(M, N, more)
  <2> SUFFICES ASSUME NEW i \in 1 .. n + 1, NEW j \in 1 .. n + 1, more[i] \in M, more[j] \in N
               PROVE  i < j
    BY <1>2 DEF InOrder
  <2>1. CASE i \in 1 .. n /\ j \in 1 .. n
    BY <1>1, <1>2, <1>7, <2>1 DEF InOrder
  <2>2. CASE i \in 1 .. n /\ j = n + 1
    BY <1>4, <2>2
  <2>3. CASE i = n + 1
    <3>1. m \in M
      BY <1>2, <2>3
    <3>2. \A k \in 1 .. n : seq[k] \notin N
      BY <1>1, <1>7, <3>1 DEF Among
    <3> QED BY <1>2, <1>3, <1>7, <3>1, <3>2
  <2> QED BY <1>3, <2>1, <2>2, <2>3
<1> QED BY <1>1, <1>5, <1>6, <1>7

\* One message less, at the front.
LEMMA FewerAmong ==
    ASSUME NEW S, NEW seq \in Seq(S), seq # <<>>, NEW M
    PROVE  /\ Among(M, Tail(seq)) => Among(M, seq)
           /\ Head(seq) \in M => Among(M, seq)
           /\ AtMostOnce(M, seq) => AtMostOnce(M, Tail(seq))
           /\ AtMostOnce(M, seq) /\ Head(seq) \in M => ~Among(M, Tail(seq))
           /\ \A N : /\ InOrder(M, N, seq) => InOrder(M, N, Tail(seq))
                     /\ InOrder(M, N, seq) /\ Head(seq) \in N => ~Among(M, Tail(seq))
<1>1. PICK n, rest : n + 1 = Len(seq) /\ n \in Nat /\ rest = Tail(seq)
  <2>1. Len(seq) - 1 \in Nat /\ (Len(seq) - 1) + 1 = Len(seq)
    BY EmptySeq
  <2> QED BY <2>1
<1>2. /\ Len(rest) = n /\ \A i \in 1 .. n : rest[i] = seq[i + 1]
      /\ Head(seq) = seq[1]
  BY <1>1, HeadTailProperties
<1>3. /\ \A i \in 1 .. n : i + 1 \in 1 .. n + 1 /\ i + 1 # 1 /\ ~ (i + 1 < 1)
      /\ 1 \in 1 .. n + 1
      /\ \A i, j \in 1 .. n : (i + 1 = j + 1 => i = j) /\ (i + 1 < j + 1 => i < j)
  BY <1>1
<1>4. /\ Among(M, rest) => Among(M, seq)
      /\ Head(seq) \in M => Among(M, seq)
  BY <1>1, <1>2, <1>3 DEF Among
<1>5. ASSUME AtMostOnce(M, seq)
      PROVE  AtMostOnce(M, rest) /\ (Head(seq) \in M => ~Among(M, rest))
  <2>1. AtMostOnce(M, rest)
    BY <1>1, <1>2, <1>3, <1>5 DEF AtMostOnce
  <2>2. Head(seq) \in M => ~Among(M, rest)
    BY <1>1, <1>2, <1>3, <1>5 DEF AtMostOnce, Among
  <2> QED BY <2>1, <2>2
<1>6. ASSUME NEW N, InOrder(M, N, seq)
      PROVE  InOrder(M, N, rest) /\ (Head(seq) \in N => ~Among(M, rest))
  <2>1. InOrder(M, N, rest)
    BY <1>1, <1>2, <1>3, <1>6 DEF InOrder
  <2>2. Head(seq) \in N => ~Among(M, rest)
    BY <1>1, <1>2, <1>3, <1>6 DEF InOrder, Among
  <2> QED BY <2>1, <2>2
<1> QED BY <1>1, <1>4, <1>5, <1>6

\* There is nothing among none.
LEMMA NothingAmong ==
    ASSUME NEW M
    PROVE  ~Among(M, <<>>) /\ AtMostOnce(M, <<>>) /\ \A N : InOrder(M, N, <<>>)
BY DEF Among, AtMostOnce, InOrder

\* On its way through the messages the peer never has an error but for the one reason.
TracedAlong(s, messages) ==
    \E g : /\ Follows(g, Len(messages), s, messages)
           /\ \A k \in 0 .. Len(messages) : Traced(g[k])

\* That goes for what it is now.
LEMMA AlongNow ==
    ASSUME NEW s, NEW messages \in Seq(Messages), TracedAlong(s, messages)
    PROVE  Traced(s)
<1>1. 0 \in 0 .. Len(messages)
  OBVIOUS
<1> QED BY <1>1 DEF TracedAlong, Follows

\* One message more adds only what the peer is after it.
LEMMA AlongAppend ==
    ASSUME NEW s, NEW messages \in Seq(Messages), NEW m \in Messages,
           TracedAlong(s, messages), Traced(ServerAfter(s, Append(messages, m)))
    PROVE  TracedAlong(s, Append(messages, m))
<1>1. PICK n : n \in Nat /\ n = Len(messages)
  OBVIOUS
<1>2. PICK g : Follows(g, n, s, messages) /\ \A k \in 0 .. n : Traced(g[k])
  BY <1>1 DEF TracedAlong
<1> DEFINE h == [k \in 0 .. n + 1 |-> IF k <= n THEN g[k] ELSE ServerTakes(g[n], m)]
<1>3. /\ \A k \in 0 .. n : h[k] = g[k]
      /\ Follows(h, n + 1, s, Append(messages, m))
  <2>1. (\A k \in 0 .. n : h[k] = g[k]) /\ h[n + 1] = ServerTakes(g[n], m)
    BY <1>1
  <2> HIDE DEF h
  <2> QED BY <1>1, <1>2, <2>1, FollowsMore
<1> HIDE DEF h
<1>4. n + 1 \in Nat /\ n + 1 = Len(Append(messages, m))
  BY <1>1, AppendProperties
<1>5. ServerAfter(s, Append(messages, m)) = h[n + 1]
  BY <1>3, <1>4, AfterIs
<1>6. ASSUME NEW k \in 0 .. n + 1 PROVE Traced(h[k])
  <2>1. k \in 0 .. n \/ k = n + 1
    BY <1>1
  <2> QED BY <1>2, <1>3, <1>5, <2>1
<1> QED BY <1>3, <1>4, <1>6 DEF TracedAlong

\* The rest of the way is part of it.
LEMMA AlongTail ==
    ASSUME NEW s, NEW messages \in Seq(Messages), messages # <<>>, TracedAlong(s, messages)
    PROVE  TracedAlong(ServerTakes(s, Head(messages)), Tail(messages))
<1>1. PICK n : n \in Nat /\ n + 1 = Len(messages)
  <2>1. Len(messages) - 1 \in Nat /\ (Len(messages) - 1) + 1 = Len(messages)
    BY EmptySeq
  <2> QED BY <2>1
<1>2. PICK g : Follows(g, n + 1, s, messages) /\ \A k \in 0 .. n + 1 : Traced(g[k])
  BY <1>1 DEF TracedAlong
<1> DEFINE h == [k \in 0 .. n |-> g[k + 1]]
<1>3. /\ \A k \in 0 .. n : h[k] = g[k + 1]
      /\ Follows(h, n, ServerTakes(s, Head(messages)), Tail(messages))
  <2>1. \A k \in 0 .. n : h[k] = g[k + 1]
    OBVIOUS
  <2> HIDE DEF h
  <2> QED BY <1>1, <1>2, <2>1, FollowsRest
<1> HIDE DEF h
<1>4. n = Len(Tail(messages))
  BY <1>1, HeadTailProperties
<1>5. ASSUME NEW k \in 0 .. n PROVE Traced(h[k])
  <2>1. k + 1 \in 0 .. n + 1
    BY <1>1
  <2> QED BY <1>2, <1>3, <2>1
<1> QED BY <1>3, <1>4, <1>5 DEF TracedAlong

\* The next maintenance tick forgets no request that was retired, nor one it retires.
RemembersAll ==
    \A id \in Ids :
        (\/ Retired(id)
         \/ pending_preview.due /\ pending_preview.id = id
         \/ pending_execution.due /\ pending_execution.id = id)
        => LET remembered == RetireExecution(RetirePreview(retired_request_ids))
           IN \E i \in DOMAIN remembered : remembered[i] = id

\* What a turn of the actor does to the requests it has in mind, and what it says
\* that the peer answers.
SameInMind ==
    \A id \in Ids : InMind(id)' =>
        /\ InMind(id)
        /\ pending_preview.id = id => pending_preview'.id = id
        /\ pending_execution.id = id => pending_execution'.id = id
\* An end is said of the actor's own upload, whose preview is awaited from then on.
SaysEnd ==
    /\ out'.id = active_audio.id /\ active_audio.id \in issued
    /\ pending_preview = NoPending /\ pending_preview'.id = out'.id
    /\ active_audio' = NoUpload
\* A confirmation is said when none is awaited, and its status is from then on.
SaysConfirmation == pending_execution = NoPending /\ pending_execution'.id = out'.id
\* All a turn of the actor does to the ledger.
LedgerCourse ==
    /\ SameInMind
    /\ out'.type = "AudioEnd" => SaysEnd
    /\ out'.type = "ConfirmExecution" => SaysConfirmation
    /\ active_audio'.id \in {active_audio.id, NoId} \cup (Ids \ issued)
    /\ issued \subseteq issued'

\* A step that leaves what is pending alone and says nothing that is answered.
LEMMA AloneCourse ==
    ASSUME UNCHANGED <<pending_preview, pending_execution, retired_request_ids>>,
           cancelled \subseteq cancelled', issued \subseteq issued',
           out'.type \notin {"AudioEnd", "ConfirmExecution"},
           active_audio'.id \in {active_audio.id, NoId} \cup (Ids \ issued)
    PROVE  LedgerCourse
BY DEF LedgerCourse, SameInMind, InMind, Retired

\* A command that ends its turn in the loop.
LEMMA CommandLedger ==
    ASSUME ReplyInv, active_audio.id \in issued \cup {NoId}, HandleCommand, SendsUp,
           phase' = "open"
    PROVE  LedgerCourse
<1>1. /\ active_audio \in Uploads /\ issued \subseteq Ids /\ pending_preview \in Pendings
      /\ pending_execution \in Pendings
  BY DEF ReplyInv, TypeInv, TypeOK
<1>2. \A m, code : ~WriteFails(m, code)
  BY DEF WriteFails, Breaks
<1>3. cancelled \subseteq cancelled'
  BY DEF SendsUp
<1>4. \A code : Rejects(code) => out'.type = "none"
  BY TypesOfMessages DEF Rejects, WritesNothing
<1>5. \A m : Writes(m) => out' = m
  BY DEF Writes
<1>6. CASE BeginAudio
  <2>1. \A id : NewUpload(id).id = id
    BY DEF NewUpload
  <2> QED BY <1>2, <1>3, <1>4, <1>5, <1>6, <2>1, TypesOfMessages, AloneCourse DEF BeginAudio
<1>7. CASE SendAudioChunk
  <2>1. \A n : active_audio # NoUpload => Extended(active_audio, n).id = active_audio.id
    BY <1>1 DEF Extended, Uploads
  <2>2. ChunkError = "none" => active_audio # NoUpload
    <3>1. Command.id \in Ids
      BY <1>7, CallerTypes DEF SendAudioChunk, ReplyInv, Takes, CallStates
    <3> QED BY <3>1, NoIdAssumption, TypesOfMessages DEF ChunkError
  <2>3. out'.type \in {"none", "AudioChunk"} /\ active_audio'.id = active_audio.id
    BY <1>2, <1>4, <1>5, <1>7, <2>1, <2>2, TypesOfMessages DEF SendAudioChunk
  <2> QED BY <1>3, <1>7, <2>3, AloneCourse DEF SendAudioChunk
<1>8. CASE FinishAudio
  <2>1. Command.id \in Ids
    BY <1>8, CallerTypes DEF FinishAudio, ReplyInv, Takes, CallStates
  <2>2. UNCHANGED <<issued, pending_execution, retired_request_ids>>
    BY <1>8 DEF FinishAudio
  <2>3. CASE \E code : /\ Rejects(code) /\ UNCHANGED pending_preview
                       /\ active_audio' = active_audio \/ active_audio' = NoUpload
    BY <1>3, <1>4, <2>2, <2>3, TypesOfMessages, AloneCourse
  <2>4. CASE /\ pending_preview = NoPending /\ active_audio.id = Command.id
             /\ active_audio' = UploadAfterEnd
             /\ Writes(AudioEnd(active_audio)) /\ pending_preview' = Pending(Caller, Command.id)
    <3>1. /\ out'.type = "AudioEnd" /\ out'.id = active_audio.id
          /\ pending_preview'.id = active_audio.id
      BY <1>5, <2>4 DEF AudioEnd, Pending
    <3>2. SaysEnd
      BY <2>1, <2>4, <3>1, NoIdAssumption DEF SaysEnd, UploadAfterEnd
    <3>3. SameInMind
      <4>1. \A id \in Ids : pending_preview.id # id
        BY <2>4, NoIdAssumption, TypesOfMessages
      <4> QED BY <1>3, <2>2, <4>1 DEF SameInMind, InMind, Retired
    <3>4. active_audio'.id = NoId
      BY <2>4, TypesOfMessages DEF UploadAfterEnd
    <3> QED BY <2>2, <3>1, <3>2, <3>3, <3>4 DEF LedgerCourse
  <2> QED BY <1>2, <1>8, <2>3, <2>4 DEF FinishAudio
<1>9. CASE Confirm
  <2>1. UNCHANGED <<issued, active_audio, pending_preview, retired_request_ids>>
    BY <1>9 DEF Confirm
  <2>2. CASE \E code : Rejects(code) /\ UNCHANGED pending_execution
    BY <1>3, <1>4, <2>1, <2>2, AloneCourse
  <2>3. CASE /\ ~ConfirmBusy /\ Writes(Request("ConfirmExecution", Command.id))
             /\ pending_execution' = Pending(Caller, Command.id)
    <3>1. /\ out'.type = "ConfirmExecution" /\ out'.id = Command.id
          /\ pending_execution'.id = Command.id /\ pending_execution = NoPending
      BY <1>5, <2>3 DEF Request, Pending, ConfirmBusy
    <3>2. \A id \in Ids : pending_execution.id # id
      BY <3>1, NoIdAssumption, TypesOfMessages
    <3>3. SameInMind
      BY <1>3, <2>1, <3>2 DEF SameInMind, InMind, Retired
    <3> QED BY <2>1, <3>1, <3>3 DEF LedgerCourse, SaysConfirmation
  <2> QED BY <1>2, <1>9, <2>2, <2>3 DEF Confirm
<1>10. CASE RespondToDecision
  <2>1. out'.type = "DecisionResponse"
    BY <1>2, <1>5, <1>10, TypesOfMessages DEF RespondToDecision
  <2> QED BY <1>3, <1>10, <2>1, AloneCourse DEF RespondToDecision, loopVars
<1>11. CASE Cancel
  <2>1. out'.type = "CancelRequest" /\ out'.id = Command.id
    BY <1>2, <1>5, <1>11, TypesOfMessages DEF Cancel
  <2>2. Command.id \in cancelled'
    BY <2>1 DEF SendsUp
  <2>3. /\ active_audio'.id \in {active_audio.id, NoId}
        /\ UNCHANGED <<issued, retired_request_ids>>
        /\ pending_preview.id # Command.id => pending_preview' = pending_preview
        /\ pending_execution.id # Command.id => pending_execution' = pending_execution
    BY <1>11, TypesOfMessages DEF Cancel, UploadAfterCancel, PreviewAfterCancel
  <2>4. SameInMind
    BY <1>3, <2>2, <2>3 DEF SameInMind, InMind, Retired
  <2> QED BY <2>1, <2>3, <2>4 DEF LedgerCourse
<1>12. CASE Shutdown
  BY <1>12 DEF Shutdown, Breaks
<1> QED BY <1>6, <1>7, <1>8, <1>9, <1>10, <1>11, <1>12 DEF HandleCommand

\* Every turn of the actor that keeps the loop, what it receives aside.
LEMMA ActorLedger ==
    ASSUME ReplyInv, active_audio.id \in issued \cup {NoId}, RemembersAll, ActorActs,
           phase' = "open"
    PROVE  LedgerCourse
<1>1. SendsUp /\ cancelled \subseteq cancelled'
  BY DEF ActorActs, SendsUp
<1>2. CASE HandleCommand
  BY <1>1, <1>2, CommandLedger
<1>3. CASE \/ \E c \in Callers : Call(c)
           \/ EnqueueTimesOut \/ DropHandles \/ ReadEvent \/ CommandsClosed
  <2>1. /\ out'.type = "none"
        /\ UNCHANGED <<pending_preview, pending_execution, retired_request_ids, issued,
                       active_audio>>
    BY <1>3, TypesOfMessages DEF Call, EnqueueTimesOut, DropHandles, ReadEvent, CommandsClosed, loopVars
  <2> QED BY <1>1, <2>1, AloneCourse
<1>4. CASE PreviewFallsDue \/ ExecutionFallsDue
  <2>1. /\ out'.type = "none"
        /\ UNCHANGED <<retired_request_ids, issued, active_audio>>
    BY <1>4, TypesOfMessages DEF PreviewFallsDue, ExecutionFallsDue
  <2>2. pending_preview'.id = pending_preview.id /\ pending_execution'.id = pending_execution.id
    BY <1>4 DEF PreviewFallsDue, ExecutionFallsDue, ReplyInv, TypeInv, TypeOK, Pendings, NoPending
  <2>3. SameInMind
    BY <1>1, <2>1, <2>2 DEF SameInMind, InMind, Retired
  <2> QED BY <2>1, <2>3 DEF LedgerCourse
<1>5. CASE Maintenance
  <2>1. /\ out'.type = "none" /\ UNCHANGED <<issued, active_audio>>
        /\ retired_request_ids' = RetireExecution(RetirePreview(retired_request_ids))
        /\ pending_preview' = IF pending_preview.due THEN NoPending ELSE pending_preview
        /\ pending_execution' = IF pending_execution.due THEN NoPending ELSE pending_execution
    BY <1>5, TypesOfMessages DEF Maintenance
  <2>2. \A id \in Ids :
            \/ Retired(id)
            \/ pending_preview.due /\ pending_preview.id = id
            \/ pending_execution.due /\ pending_execution.id = id
            => Retired(id)'
    BY <2>1 DEF RemembersAll, Retired
  <2>3. SameInMind
    BY <1>1, <2>1, <2>2 DEF SameInMind, InMind
  <2> QED BY <2>1, <2>3 DEF LedgerCourse
<1> QED BY <1>2, <1>3, <1>4, <1>5 DEF ActorActs, Asks

\* The invariant of the link, with what is owed.
LedgerInv == LinkInv /\ TracedAlong(server, up) /\ LedgerKept

\* What is owed, by type and request.
LEMMA SaidTypes ==
    ASSUME NEW id, NEW m
    PROVE  /\ m \in Ends(id) <=> m \in Messages /\ m.type = "AudioEnd" /\ m.id = id
           /\ m \in Confirmations(id) <=>
                m \in Messages /\ m.type = "ConfirmExecution" /\ m.id = id
           /\ NoMessage \notin Ends(id) /\ NoMessage \notin Confirmations(id)
BY TypesOfMessages DEF Ends, Confirmations

\* What the peer answers, by type and request.
LEMMA ResponseTypes ==
    ASSUME NEW id, NEW type, NEW other
    PROVE  /\ Response(type, id).type = type /\ Response(type, id).id = id
           /\ Response(type, id) \in Verdicts(other) <=>
                type \in {"CommandPreview", "Error"} /\ id = other
           /\ Response(type, id) \in Questions(other) <=> type = "DecisionRequest" /\ id = other
           /\ Response(type, id) \in Statuses(other) <=> type = "ExecutionStatus" /\ id = other
<1>1. \A i, t : Response(t, i).type = t /\ Response(t, i).id = i
  BY DEF Response
<1>2. \A t : Response(type, id) = Response(t, other) <=> type = t /\ id = other
  BY <1>1
<1> QED BY <1>1, <1>2 DEF Verdicts, Questions, Statuses

\* A turn of the actor leaves what the peer owes in order.
LEMMA ActorOwes ==
    ASSUME LedgerInv, LedgerCourse, phase = "open", Blameless, out' \in Messages,
           UNCHANGED <<down, server, pending_decision>>,
           up' = IF out' # NoMessage THEN Append(up, out') ELSE up,
           NEW id \in Ids
    PROVE  EndsOnce(id)' /\ (InMind(id)' => PreviewOwed(id)' /\ StatusOwed(id)')
<1>1. /\ up \in Seq(Messages) /\ active_audio.id \in issued \cup {NoId} /\ issued \subseteq Ids
      /\ EndsOnce(id) /\ (InMind(id) => PreviewOwed(id) /\ StatusOwed(id))
  BY DEF LedgerInv, LinkInv, LinkTypes, LedgerKept, Ledger, ReplyInv, TypeInv, TypeOK
<1>2. \A M : NoMessage \notin M =>
        /\ Among(M, up') <=> Among(M, up) \/ out' \in M
        /\ AtMostOnce(M, up) /\ ~ (out' \in M /\ Among(M, up)) => AtMostOnce(M, up')
  <2> SUFFICES ASSUME NEW M, NoMessage \notin M
               PROVE  /\ Among(M, up') <=> Among(M, up) \/ out' \in M
                      /\ AtMostOnce(M, up) /\ ~ (out' \in M /\ Among(M, up)) => AtMostOnce(M, up')
    OBVIOUS
  <2>1. CASE out' = NoMessage
    BY <2>1
  <2>2. CASE out' # NoMessage
    <3>1. up' = Append(up, out')
      BY <2>2
    <3> QED BY <1>1, <3>1, MoreAmong
  <2> QED BY <2>1, <2>2
<1>3. /\ NoMessage \notin Ends(id) /\ NoMessage \notin Confirmations(id)
      /\ out' \in Ends(id) <=> out'.type = "AudioEnd" /\ out'.id = id
      /\ out' \in Confirmations(id) <=> out'.type = "ConfirmExecution" /\ out'.id = id
  BY SaidTypes
<1>4. out' \in Ends(id) => /\ active_audio.id = id /\ active_audio'.id = NoId
                           /\ pending_preview = NoPending /\ pending_preview'.id = id
                           /\ id \in issued
                           /\ ~Among(Ends(id), up) /\ id \notin server.complete
  BY <1>1, <1>3, TypesOfMessages DEF LedgerCourse, SaysEnd, EndsOnce
<1>5. EndsOnce(id)'
  <2>1. /\ Among(Ends(id), up)' <=> Among(Ends(id), up) \/ out' \in Ends(id)
        /\ AtMostOnce(Ends(id), up)'
    BY <1>1, <1>2, <1>3, <1>4 DEF EndsOnce
  <2>2. id \in issued /\ active_audio.id # id => id \in issued' /\ active_audio'.id # id
    BY NoIdAssumption DEF LedgerCourse
  <2>3. issued \subseteq issued'
    BY DEF LedgerCourse
  <2> QED BY <1>1, <1>4, <2>1, <2>2, <2>3, NoIdAssumption DEF EndsOnce
<1>6. ASSUME InMind(id)' PROVE PreviewOwed(id)'
  <2>1. PreviewOwed(id) /\ (pending_preview.id = id => pending_preview'.id = id)
    BY <1>1, <1>6 DEF LedgerCourse, SameInMind
  <2>2. Among(Ends(id), up)' <=> Among(Ends(id), up) \/ out' \in Ends(id)
    BY <1>2, <1>3
  <2> QED BY <1>4, <2>1, <2>2 DEF PreviewOwed, Answers
<1>7. ASSUME InMind(id)' PROVE StatusOwed(id)'
  <2>1. StatusOwed(id) /\ (pending_execution.id = id => pending_execution'.id = id)
    BY <1>1, <1>7 DEF LedgerCourse, SameInMind
  <2>2. out' \in Confirmations(id) =>
          /\ pending_execution'.id = id
          /\ ~Among(Confirmations(id), up) /\ ~Among(Statuses(id), down)
    BY <1>3, <2>1, NoIdAssumption, TypesOfMessages DEF LedgerCourse, SaysConfirmation, StatusOwed
  <2>3. /\ Among(Confirmations(id), up)' <=> Among(Confirmations(id), up) \/ out' \in Confirmations(id)
        /\ AtMostOnce(Confirmations(id), up)'
    BY <1>2, <1>3, <2>1, <2>2 DEF StatusOwed
  <2> QED BY <2>1, <2>2, <2>3 DEF StatusOwed
<1> QED BY <1>5, <1>6, <1>7

\* A step of the actor on its own keeps the ledger.
LEMMA ActorLedgerKept ==
    ASSUME LedgerInv, RemembersAll, ActorActs, LinkInv'
    PROVE  LedgerInv'
<1>1. /\ ReplyInv /\ up \in Seq(Messages) /\ active_audio.id \in issued \cup {NoId}
      /\ TracedAlong(server, up)
  BY DEF LedgerInv, LinkInv, LinkTypes
<1>2. out' \in Messages
  BY DEF LinkInv, LinkTypes, ReplyInv, TypeInv, TypeOK
<1>3. /\ phase = "open" /\ UNCHANGED <<down, behavior, server, pending_decision>>
      /\ up' = IF out' # NoMessage THEN Append(up, out') ELSE up
  BY DEF ActorActs, SendsUp, peerVars
<1>4. TracedAlong(server', up')
  <2>1. Traced(ServerAfter(server', up'))
    BY DEF LinkInv, ServerSoon
  <2> QED BY <1>1, <1>2, <1>3, <2>1, AlongAppend
<1>5. ASSUME phase' = "open", Blameless' PROVE Ledger'
  <2>1. Blameless /\ LedgerCourse
    BY <1>1, <1>3, <1>5, ActorLedger DEF Blameless
  <2>2. \A id \in Ids : EndsOnce(id)' /\ (InMind(id)' => PreviewOwed(id)' /\ StatusOwed(id)')
    BY <1>2, <1>3, <2>1, ActorOwes
  <2>3. ~Among(Verdicts(WrongId), down')
    BY <1>3, <2>1 DEF LedgerInv, LedgerKept, Ledger
  <2> QED BY <2>2, <2>3 DEF Ledger
<1> QED BY <1>4, <1>5 DEF LedgerInv, LedgerKept

\* A message that is received answers what it is owed for, and nothing else moves.
LEMMA ReceiveCourse ==
    ASSUME LinkInv, ActorReceives, phase' = "open", NEW m, m = Head(down)
    PROVE  /\ phase = "open" /\ down # <<>>
           /\ UNCHANGED <<up, behavior, server, pending_decision, cancelled, active_audio, issued,
                          retired_request_ids>>
           /\ down' = Tail(down)
           /\ \/ UNCHANGED pending_preview
              \/ m.type \in {"CommandPreview", "Error"} /\ pending_preview.id = m.id
           /\ \/ UNCHANGED pending_execution
              \/ m.type = "ExecutionStatus" /\ pending_execution.id = m.id
              \/ /\ m.type = "Error" /\ pending_execution.id = m.id
                 /\ pending_preview.id # m.id /\ ~Retired(m.id)
<1>1. /\ HandleResponse(m) /\ down # <<>> /\ down' = Tail(down)
      /\ UNCHANGED <<up, behavior, server, pending_decision, cancelled>>
  BY DEF ActorReceives, peerVars
<1>2. phase = "open" /\ UNCHANGED <<active_audio, issued, retired_request_ids>>
  BY <1>1 DEF HandleResponse, CommandPreview, ExecutionStatus, PreviewUpdate, RemoteError, Receives
<1>3. \/ UNCHANGED pending_preview
      \/ m.type \in {"CommandPreview", "Error"} /\ pending_preview.id = m.id
  BY <1>1 DEF HandleResponse, CommandPreview, ExecutionStatus, PreviewUpdate, RemoteError,
              Ignores, Strikes, AnswersPreview, AnswersExecution, Publishes, PreviewFor
<1>4. \/ UNCHANGED pending_execution
      \/ m.type = "ExecutionStatus" /\ pending_execution.id = m.id
      \/ /\ m.type = "Error" /\ pending_execution.id = m.id
         /\ pending_preview.id # m.id /\ ~Retired(m.id)
  BY <1>1 DEF HandleResponse, CommandPreview, ExecutionStatus, PreviewUpdate, RemoteError,
              Ignores, Strikes, AnswersPreview, AnswersExecution, Publishes
<1> QED BY <1>1, <1>2, <1>3, <1>4

\* The first message on its way down is one the peer may send.
LEMMA HeadOfDown ==
    ASSUME LinkInv, down # <<>>
    PROVE  /\ down \in Seq(Responses(server.complete))
           /\ Head(down) \in Responses(server.complete)
           /\ Head(down) = Response(Head(down).type, Head(down).id)
<1>1. down \in Seq(Responses(server.complete))
  BY DEF LinkInv, LinkTypes
<1>2. Head(down) \in Responses(server.complete)
  BY <1>1, HeadTailProperties
<1> QED BY <1>1, <1>2 DEF Responses, Response

\* What a message that is received leaves of a request.
LEMMA ReceiveOwes ==
    ASSUME LedgerInv, ActorReceives, phase' = "open", Blameless, NEW id \in Ids
    PROVE  EndsOnce(id)' /\ (InMind(id)' => PreviewOwed(id)' /\ StatusOwed(id)')
<1>1. PICK m, S : m = Head(down) /\ S = Responses(server.complete)
  OBVIOUS
<1>2. LinkInv
  BY DEF LedgerInv
<1>3. /\ phase = "open" /\ down # <<>>
      /\ UNCHANGED <<up, behavior, server, pending_decision, cancelled, active_audio, issued,
                     retired_request_ids>>
      /\ down' = Tail(down)
      /\ \/ UNCHANGED pending_preview
         \/ m.type \in {"CommandPreview", "Error"} /\ pending_preview.id = m.id
      /\ \/ UNCHANGED pending_execution
         \/ m.type = "ExecutionStatus" /\ pending_execution.id = m.id
         \/ /\ m.type = "Error" /\ pending_execution.id = m.id
            /\ pending_preview.id # m.id /\ ~Retired(m.id)
  BY <1>1, <1>2, ReceiveCourse
<1>4. down \in Seq(S) /\ m = Response(m.type, m.id)
  BY <1>1, <1>2, <1>3, HeadOfDown
<1>5. EndsOnce(id) /\ (InMind(id) => PreviewOwed(id) /\ StatusOwed(id))
  BY <1>3 DEF LedgerInv, LedgerKept, Ledger
<1>6. EndsOnce(id)' /\ (InMind(id)' => InMind(id))
  BY <1>3, <1>5 DEF EndsOnce, InMind, Retired
<1>7. \A M : /\ Among(M, down') => Among(M, down)
             /\ m \in M => Among(M, down)
             /\ AtMostOnce(M, down) => AtMostOnce(M, down')
             /\ AtMostOnce(M, down) /\ m \in M => ~Among(M, down')
             /\ \A N : /\ InOrder(M, N, down) => InOrder(M, N, down')
                       /\ InOrder(M, N, down) /\ m \in N => ~Among(M, down')
  BY <1>1, <1>3, <1>4, FewerAmong
<1>8. /\ m \in Verdicts(id) <=> m.type \in {"CommandPreview", "Error"} /\ m.id = id
      /\ m \in Statuses(id) <=> m.type = "ExecutionStatus" /\ m.id = id
  BY <1>4, ResponseTypes
<1>9. ASSUME InMind(id) PROVE PreviewOwed(id)'
  <2>1. PreviewOwed(id)
    BY <1>5, <1>9
  <2>2. CASE m \notin Verdicts(id)
    <3>1. pending_preview.id = id => pending_preview'.id = id
      BY <1>3, <1>8, <2>2
    <3> QED BY <1>3, <1>7, <2>1, <3>1 DEF PreviewOwed, Answers
  <2>3. CASE m \in Verdicts(id)
    <3>1. /\ ~Among(Verdicts(id), down') /\ ~Among(Questions(id), down')
          /\ pending_decision # id /\ ~Among(Ends(id), up)
      BY <1>5, <1>7, <2>1, <2>3 DEF PreviewOwed, Answers, EndsOnce
    <3> QED BY <1>3, <1>7, <2>1, <3>1 DEF PreviewOwed, Answers
  <2> QED BY <2>2, <2>3
<1>10. ASSUME InMind(id) PROVE StatusOwed(id)'
  <2>1. PreviewOwed(id) /\ StatusOwed(id)
    BY <1>5, <1>10
  <2>2. CASE m \notin Statuses(id)
    <3>1. m \in Verdicts(id) => pending_preview.id = id
      BY <1>7, <2>1 DEF PreviewOwed, Answers
    <3>2. pending_execution.id = id => pending_execution'.id = id
      BY <1>3, <1>8, <2>2, <3>1
    <3> QED BY <1>3, <1>7, <2>1, <3>2 DEF StatusOwed
  <2>3. CASE m \in Statuses(id)
    <3>1. ~Among(Statuses(id), down') /\ ~Among(Confirmations(id), up)
      BY <1>7, <2>1, <2>3 DEF StatusOwed
    <3> QED BY <1>3, <1>7, <2>1, <3>1 DEF StatusOwed
  <2> QED BY <2>2, <2>3
<1> QED BY <1>6, <1>9, <1>10

\* What the actor receives keeps the ledger.
LEMMA ReceiveLedgerKept ==
    ASSUME LedgerInv, ActorReceives, LinkInv'
    PROVE  LedgerInv'
<1>1. UNCHANGED <<up, server, behavior>> /\ down # <<>> /\ down' = Tail(down)
  BY DEF ActorReceives, peerVars
<1>2. TracedAlong(server', up')
  BY <1>1 DEF LedgerInv
<1>3. ASSUME phase' = "open", Blameless' PROVE Ledger'
  <2>1. Blameless
    BY <1>1, <1>3 DEF Blameless
  <2>2. \A id \in Ids : EndsOnce(id)' /\ (InMind(id)' => PreviewOwed(id)' /\ StatusOwed(id)')
    BY <1>3, <2>1, ReceiveOwes
  <2>3. phase = "open" /\ LinkInv
    <3>1. LinkInv
      BY DEF LedgerInv
    <3> QED BY <1>3, <3>1, ReceiveCourse
  <2>4. ~Among(Verdicts(WrongId), down) /\ down \in Seq(Responses(server.complete))
    BY <2>1, <2>3, <1>1, HeadOfDown DEF LedgerInv, LedgerKept, Ledger
  <2>5. ~Among(Verdicts(WrongId), down')
    BY <1>1, <2>4, FewerAmong
  <2> QED BY <2>2, <2>5 DEF Ledger
<1> QED BY <1>2, <1>3 DEF LedgerInv, LedgerKept

\* What a message changes at the peer as long as nothing is refused.
LEMMA TakenWell ==
    ASSUME NEW s \in ServerType, NEW m
    PROVE  /\ s.errors \subseteq ServerTakes(s, m).errors
           /\ Refusal(s, m) # "none" => ServerTakes(s, m).errors # {}
           /\ Refusal(s, m) = "none" =>
                ServerTakes(s, m).complete =
                    IF m.type = "AudioEnd" THEN s.complete \cup {m.id} ELSE s.complete
BY DEF ServerType, ServerTakes, Refuse, TakeStart, TakeChunk, TakeEnd, TakeCancel

\* What the peer does with a message about which it has nothing to say.
SaysNothing(m) ==
    /\ m.type \notin {"AudioEnd", "ConfirmExecution"}
    /\ UNCHANGED <<down, pending_decision>> /\ server'.complete = server.complete
TakesEnd(m) ==
    /\ m.type = "AudioEnd" /\ server'.complete = server.complete \cup {m.id}
    /\ \/ UNCHANGED <<down, pending_decision>>
       \/ down' = Append(down, Response("CommandPreview", m.id)) /\ UNCHANGED pending_decision
       \/ down' = Append(down, Response("DecisionRequest", m.id)) /\ pending_decision' = m.id
TakesConfirmation(m) ==
    /\ m.type = "ConfirmExecution" /\ server'.complete = server.complete
    /\ UNCHANGED pending_decision
    /\ \/ UNCHANGED down
       \/ down' = Append(down, Response("ExecutionStatus", m.id))
TakesAnswer(m) ==
    /\ m.type \notin {"AudioEnd", "ConfirmExecution"} /\ server'.complete = server.complete
    /\ pending_decision = m.id /\ pending_decision' = NoId
    /\ \E type \in {"CommandPreview", "Error"} : down' = Append(down, Response(type, m.id))

\* A peer that keeps the protocol and refuses nothing does one of these.
LEMMA PeerCourse ==
    ASSUME LinkInv, PeerActs, NEW m, m = Head(up), server' = ServerTakes(server, m),
           Traced(server'), Blameless'
    PROVE  /\ Blameless
           /\ SaysNothing(m) \/ TakesEnd(m) \/ TakesConfirmation(m) \/ TakesAnswer(m)
<1>1. /\ server \in ServerType /\ down \in Seq(Responses(server.complete))
      /\ UNCHANGED behavior
  BY DEF LinkInv, LinkTypes, PeerActs, PeerTakesUpload, PeerTakesConfirmation, PeerTakesDecision,
         PeerTakes
<1>2. Blameless /\ Refusal(server, m) = "none"
  BY <1>1, TakenWell DEF Blameless, Traced
<1>3. server'.complete = IF m.type = "AudioEnd" THEN server.complete \cup {m.id} ELSE server.complete
  BY <1>1, <1>2, TakenWell
<1>4. down \o <<>> = down /\ \A r \in Responses(server'.complete) : down \o <<r>> = Append(down, r)
  <2>1. down \in Seq(Responses(server'.complete))
    <3>1. server.complete \subseteq server'.complete
      BY <1>3
    <3> QED BY <1>1, <3>1, ResponsesGrow
  <2> QED BY <1>1, <2>1, ConcatEmptySeq, AppendIsConcat
<1>5. m.id \in Ids
  <2>1. up # <<>> /\ up \in Seq(SentType)
    BY DEF LinkInv, LinkTypes, PeerActs, PeerTakesUpload, PeerTakesConfirmation,
           PeerTakesDecision, PeerTakes
  <2> QED BY <2>1, HeadTailProperties DEF SentType
<1>6. /\ \A type \in {"ExecutionStatus", "DecisionRequest", "Error"} :
           Response(type, m.id) \in Responses(server'.complete)
      /\ m.id \in server'.complete =>
           Response("CommandPreview", m.id) \in Responses(server'.complete)
  BY <1>5 DEF Response, Responses
<1>7. CASE PeerTakesUpload
  <2>1. /\ m.type \in {"AudioStart", "AudioChunk", "AudioEnd", "CancelRequest"}
        /\ down' = down \o (IF m.type = "AudioEnd" THEN AnswersToUpload(m.id) ELSE <<>>)
        /\ pending_decision' = IF m.type = "AudioEnd" /\ behavior = "DecisionFlow" THEN m.id
                               ELSE pending_decision
    BY <1>2, <1>7 DEF PeerTakesUpload, PeerTakes, PeerSays, Completes
  <2>2. CASE m.type # "AudioEnd"
    BY <1>3, <1>4, <2>1, <2>2, <1>2 DEF SaysNothing
  <2>3. CASE m.type = "AudioEnd"
    <3>1. behavior # "WrongPreviewIds"
      BY <1>2 DEF Blameless
    <3>2. \/ AnswersToUpload(m.id) = <<>> /\ behavior # "DecisionFlow"
          \/ AnswersToUpload(m.id) = <<Response("DecisionRequest", m.id)>> /\ behavior = "DecisionFlow"
          \/ AnswersToUpload(m.id) = <<Response("CommandPreview", m.id)>> /\ behavior # "DecisionFlow"
      BY <3>1 DEF AnswersToUpload
    <3>3. m.id \in server'.complete
      BY <1>3, <2>3
    <3> QED BY <1>2, <1>3, <1>4, <1>6, <2>1, <2>3, <3>2, <3>3 DEF TakesEnd
  <2> QED BY <2>2, <2>3
<1>8. CASE PeerTakesConfirmation
  <2>1. /\ m.type = "ConfirmExecution" /\ UNCHANGED <<server, pending_decision>>
        /\ down' = down \o (IF behavior = "SilentConfirmation" THEN <<>>
                            ELSE <<Response("ExecutionStatus", m.id)>>)
    BY <1>8 DEF PeerTakesConfirmation, PeerTakes, PeerSays
  <2> QED BY <1>2, <1>4, <1>6, <2>1 DEF TakesConfirmation
<1>9. CASE PeerTakesDecision
  <2>1. /\ m.type = "DecisionResponse" /\ UNCHANGED server
        /\ \/ UNCHANGED <<down, pending_decision>>
           \/ /\ pending_decision = m.id /\ pending_decision' = NoId
              /\ \E type \in {"CommandPreview", "Error"} : down' = down \o <<Response(type, m.id)>>
    BY <1>9 DEF PeerTakesDecision, PeerTakes, PeerSays
  <2>2. pending_decision = m.id => m.id \in server'.complete
    BY <1>5, <2>1, NoIdAssumption DEF LinkInv, LinkTypes
  <2> QED BY <1>2, <1>4, <1>6, <2>1, <2>2 DEF SaysNothing, TakesAnswer
<1> QED BY <1>2, <1>7, <1>8, <1>9 DEF PeerActs

\* What a turn of the peer leaves of a request.
LEMMA PeerOwes ==
    ASSUME LinkInv, NEW id \in Ids, EndsOnce(id), InMind(id) => PreviewOwed(id) /\ StatusOwed(id),
           up # <<>>, up' = Tail(up), NEW m, m = Head(up),
           UNCHANGED <<active_audio, pending_preview, pending_execution, issued>>,
           InMind(id)' => InMind(id),
           SaysNothing(m) \/ TakesEnd(m) \/ TakesConfirmation(m) \/ TakesAnswer(m)
    PROVE  EndsOnce(id)' /\ (InMind(id)' => PreviewOwed(id)' /\ StatusOwed(id)')
<1>1. /\ up \in Seq(Messages) /\ up \in Seq(SentType) /\ m \in Messages /\ m.id \in Ids
      /\ down \in Seq(Responses(server.complete))
  <2>1. up \in Seq(Messages) /\ up \in Seq(SentType) /\ down \in Seq(Responses(server.complete))
    BY DEF LinkInv, LinkTypes
  <2> QED BY <2>1, HeadTailProperties DEF SentType
<1>2. \A M : /\ Among(M, up') => Among(M, up)
             /\ m \in M => Among(M, up)
             /\ AtMostOnce(M, up) => AtMostOnce(M, up')
             /\ AtMostOnce(M, up) /\ m \in M => ~Among(M, up')
  BY <1>1, FewerAmong
<1>3. /\ m \in Ends(id) <=> m.type = "AudioEnd" /\ m.id = id
      /\ m \in Confirmations(id) <=> m.type = "ConfirmExecution" /\ m.id = id
  BY <1>1, SaidTypes
<1>4. EndsOnce(id)'
  <2>1. m.type = "AudioEnd" /\ m.id = id => Among(Ends(id), up) /\ ~Among(Ends(id), up')
    BY <1>2, <1>3 DEF EndsOnce
  <2>2. \/ server'.complete = server.complete
        \/ m.type = "AudioEnd" /\ server'.complete = server.complete \cup {m.id}
    BY DEF SaysNothing, TakesEnd, TakesConfirmation, TakesAnswer
  <2> QED BY <1>2, <2>1, <2>2 DEF EndsOnce
<1>5. ASSUME NEW r, down' = Append(down, r), NEW type, r = Response(type, m.id), NEW M
      PROVE  /\ Among(M, down') <=> Among(M, down) \/ r \in M
             /\ AtMostOnce(M, down) /\ ~ (r \in M /\ Among(M, down)) => AtMostOnce(M, down')
             /\ \A N : /\ InOrder(M, N, down)
                       /\ r \in M => r \notin N /\ ~Among(N, down)
                       => InOrder(M, N, down')
  <2>1. PICK S : S = Responses(server.complete) \cup {r}
    OBVIOUS
  <2>2. down \in Seq(S) /\ r \in S
    <3>1. \A i \in 1 .. Len(down) : down[i] \in S
      BY <1>1, <2>1, ElementOfSeq
    <3>2. down \in [1 .. Len(down) -> S] /\ Len(down) \in Nat
      BY <1>1, <3>1, LenProperties
    <3> QED BY <2>1, <3>2, SeqDef
  <2> QED BY <1>5, <2>2, MoreAmong
<1>6. ASSUME InMind(id)' PROVE PreviewOwed(id)' /\ StatusOwed(id)'
  <2>1. PreviewOwed(id) /\ StatusOwed(id)
    BY <1>6
  <2>2. CASE SaysNothing(m)
    BY <1>2, <2>1, <2>2 DEF SaysNothing, PreviewOwed, StatusOwed, Answers
  <2>3. CASE TakesEnd(m) /\ m.id # id
    <3>1. \A type \in {"CommandPreview", "DecisionRequest"} :
            Response(type, m.id) \notin Verdicts(id) \cup Questions(id) \cup Statuses(id)
      BY <2>3, ResponseTypes
    <3>2. UNCHANGED down \/ \E type \in {"CommandPreview", "DecisionRequest"} :
                                down' = Append(down, Response(type, m.id))
      BY <2>3 DEF TakesEnd
    <3>3. /\ Among(Verdicts(id), down') <=> Among(Verdicts(id), down)
          /\ Among(Questions(id), down') <=> Among(Questions(id), down)
          /\ Among(Statuses(id), down') <=> Among(Statuses(id), down)
          /\ AtMostOnce(Verdicts(id), down) => AtMostOnce(Verdicts(id), down')
          /\ AtMostOnce(Statuses(id), down) => AtMostOnce(Statuses(id), down')
          /\ InOrder(Questions(id), Verdicts(id), down) => InOrder(Questions(id), Verdicts(id), down')
      BY <1>5, <3>1, <3>2
    <3>4. /\ pending_decision' = id => pending_decision = id
          /\ id \in server.complete => id \in server'.complete
      BY <2>3 DEF TakesEnd
    <3> QED BY <1>2, <2>1, <3>3, <3>4 DEF PreviewOwed, StatusOwed, Answers
  <2>4. CASE TakesEnd(m) /\ m.id = id
    <3>1. /\ Among(Ends(id), up) /\ ~Among(Ends(id), up') /\ id \notin server.complete
          /\ id \in server'.complete /\ pending_preview.id = id
          /\ ~Answers(id)
      BY <1>2, <1>3, <2>1, <2>4 DEF EndsOnce, PreviewOwed, TakesEnd
    <3>2. /\ Response("CommandPreview", id) \in Verdicts(id)
          /\ Response("CommandPreview", id) \notin Questions(id) \cup Statuses(id)
          /\ Response("DecisionRequest", id) \in Questions(id)
          /\ Response("DecisionRequest", id) \notin Verdicts(id) \cup Statuses(id)
      BY ResponseTypes
    <3>3. /\ AtMostOnce(Verdicts(id), down')
          /\ InOrder(Questions(id), Verdicts(id), down')
          /\ Among(Statuses(id), down') <=> Among(Statuses(id), down)
          /\ AtMostOnce(Statuses(id), down) => AtMostOnce(Statuses(id), down')
          /\ pending_decision' = id => ~Among(Verdicts(id), down')
      BY <1>5, <2>1, <2>4, <3>1, <3>2 DEF TakesEnd, PreviewOwed, Answers
    <3> QED BY <1>2, <2>1, <3>1, <3>3 DEF PreviewOwed, StatusOwed, Answers
  <2>5. CASE TakesConfirmation(m)
    <3>1. /\ Response("ExecutionStatus", m.id) \notin Verdicts(id) \cup Questions(id)
          /\ Response("ExecutionStatus", m.id) \in Statuses(id) <=> m.id = id
      BY ResponseTypes
    <3>2. /\ Among(Verdicts(id), down') <=> Among(Verdicts(id), down)
          /\ Among(Questions(id), down') <=> Among(Questions(id), down)
          /\ AtMostOnce(Verdicts(id), down) => AtMostOnce(Verdicts(id), down')
          /\ InOrder(Questions(id), Verdicts(id), down) => InOrder(Questions(id), Verdicts(id), down')
      BY <1>5, <2>5, <3>1 DEF TakesConfirmation
    <3>3. PreviewOwed(id)'
      BY <1>2, <2>1, <2>5, <3>2 DEF PreviewOwed, Answers, TakesConfirmation
    <3>4. m.id = id => /\ pending_execution.id = id /\ ~Among(Confirmations(id), up')
                       /\ ~Among(Statuses(id), down)
      BY <1>2, <1>3, <2>1, <2>5 DEF StatusOwed, TakesConfirmation
    <3>5. /\ AtMostOnce(Statuses(id), down')
          /\ Among(Statuses(id), down') => Among(Statuses(id), down) \/ m.id = id
      BY <1>5, <2>1, <2>5, <3>1, <3>4 DEF TakesConfirmation, StatusOwed
    <3> QED BY <1>2, <2>1, <3>3, <3>4, <3>5 DEF StatusOwed
  <2>6. CASE TakesAnswer(m)
    <3>1. PICK type \in {"CommandPreview", "Error"} : down' = Append(down, Response(type, m.id))
      BY <2>6 DEF TakesAnswer
    <3>2. PICK r : r = Response(type, m.id)
      OBVIOUS
    <3>3. /\ r \in Verdicts(id) <=> m.id = id
          /\ r \notin Questions(id) /\ r \notin Statuses(id)
      BY <3>1, <3>2, ResponseTypes
    <3>4. m.id = id => /\ pending_decision = id /\ pending_preview.id = id
                       /\ ~Among(Verdicts(id), down) /\ id \in server.complete
      BY <2>1, <2>6 DEF TakesAnswer, PreviewOwed, Answers
    <3>5. /\ Among(Verdicts(id), down') => Among(Verdicts(id), down) \/ m.id = id
          /\ AtMostOnce(Verdicts(id), down')
          /\ Among(Questions(id), down') <=> Among(Questions(id), down)
          /\ InOrder(Questions(id), Verdicts(id), down')
          /\ Among(Statuses(id), down') <=> Among(Statuses(id), down)
          /\ AtMostOnce(Statuses(id), down) => AtMostOnce(Statuses(id), down')
      BY <1>5, <2>1, <3>1, <3>2, <3>3, <3>4 DEF PreviewOwed
    <3>6. pending_decision' # id /\ server'.complete = server.complete
      BY <2>6, NoIdAssumption DEF TakesAnswer
    <3> QED BY <1>2, <2>1, <3>4, <3>5, <3>6 DEF PreviewOwed, StatusOwed, Answers
  <2> QED BY <2>2, <2>3, <2>4, <2>5, <2>6
<1> QED BY <1>4, <1>6

\* A turn of the peer keeps the ledger.
LEMMA PeerLedgerKept ==
    ASSUME LedgerInv, PeerActs, LinkInv'
    PROVE  LedgerInv'
<1>1. /\ up # <<>> /\ up' = Tail(up) /\ server' = ServerTakes(server, Head(up))
      /\ UNCHANGED <<vars, behavior, cancelled>>
  BY PeerTurn
<1>2. LinkInv /\ up \in Seq(Messages) /\ up' \in Seq(Messages)
  BY DEF LedgerInv, LinkInv, LinkTypes
<1>3. TracedAlong(server', up') /\ Traced(server')
  BY <1>1, <1>2, AlongTail, AlongNow DEF LedgerInv
<1>4. ASSUME phase' = "open", Blameless' PROVE Ledger'
  <2>1. PICK m : m = Head(up)
    OBVIOUS
  <2>2. Blameless /\ (SaysNothing(m) \/ TakesEnd(m) \/ TakesConfirmation(m) \/ TakesAnswer(m))
    BY <1>1, <1>2, <1>3, <1>4, <2>1, PeerCourse
  <2>3. /\ UNCHANGED <<phase, active_audio, pending_preview, pending_execution, issued,
                       retired_request_ids>>
    BY <1>1 DEF vars, loopVars
  <2>4. Ledger
    BY <1>4, <2>2, <2>3 DEF LedgerInv, LedgerKept
  <2>5. ASSUME NEW id \in Ids
        PROVE  EndsOnce(id)' /\ (InMind(id)' => PreviewOwed(id)' /\ StatusOwed(id)')
    <3>1. EndsOnce(id) /\ (InMind(id) => PreviewOwed(id) /\ StatusOwed(id))
      BY <2>4 DEF Ledger
    <3>2. InMind(id)' => InMind(id)
      BY <1>1, <2>3 DEF InMind, Retired
    <3> QED BY <1>1, <1>2, <2>1, <2>2, <2>3, <3>1, <3>2, PeerOwes
  <2>6. ~Among(Verdicts(WrongId), down')
    <3>1. m.id # WrongId /\ down \in Seq(Responses(server.complete))
      <4>1. up \in Seq(SentType) /\ down \in Seq(Responses(server.complete))
        BY <1>2 DEF LinkInv, LinkTypes
      <4> QED BY <1>1, <2>1, <4>1, HeadTailProperties, WrongIdAssumption DEF SentType
    <3>2. ASSUME NEW type, down' = Append(down, Response(type, m.id))
          PROVE  ~Among(Verdicts(WrongId), down')
      <4>1. PICK r, S : r = Response(type, m.id) /\ S = Responses(server.complete) \cup {r}
        OBVIOUS
      <4>2. down \in Seq(S) /\ r \in S
        <5>1. \A i \in 1 .. Len(down) : down[i] \in S
          BY <3>1, <4>1, ElementOfSeq
        <5>2. down \in [1 .. Len(down) -> S] /\ Len(down) \in Nat
          BY <3>1, <5>1, LenProperties
        <5> QED BY <4>1, <5>2, SeqDef
      <4>3. r \notin Verdicts(WrongId)
        BY <3>1, <4>1, ResponseTypes
      <4> QED BY <2>4, <3>2, <4>1, <4>2, <4>3, MoreAmong DEF Ledger
    <3> QED BY <2>2, <2>4, <3>2 DEF Ledger, SaysNothing, TakesEnd, TakesConfirmation, TakesAnswer
  <2> QED BY <2>5, <2>6 DEF Ledger
<1> QED BY <1>3, <1>4 DEF LedgerInv, LedgerKept

\* At the start nothing is owed.
LEMMA InitLedger == LinkInit => LedgerInv
<1> SUFFICES ASSUME LinkInit PROVE LedgerInv
  OBVIOUS
<1>1. LinkInv /\ up = <<>> /\ down = <<>> /\ server = ServerInit /\ pending_decision = NoId
  BY InitLink DEF LinkInit
<1>2. TracedAlong(server, up)
  <2> DEFINE one == [k \in 0 .. 0 |-> server]
  <2>1. one[0] = server /\ Follows(one, 0, server, <<>>) /\ Len(<<>>) = 0
    BY DEF Follows
  <2>2. Traced(server)
    BY <1>1 DEF Traced, ServerInit
  <2> HIDE DEF one
  <2>3. \A k \in 0 .. 0 : Traced(one[k])
    BY <2>1, <2>2
  <2> QED BY <1>1, <2>1, <2>3 DEF TracedAlong
<1>3. Ledger
  <2>1. \A M : ~Among(M, up) /\ ~Among(M, down) /\ AtMostOnce(M, up) /\ AtMostOnce(M, down)
               /\ \A N : InOrder(M, N, down)
    BY <1>1, NothingAmong
  <2>2. server.complete = {} /\ \A id \in Ids : pending_decision # id
    BY <1>1, NoIdAssumption DEF ServerInit
  <2> QED BY <2>1, <2>2 DEF Ledger, EndsOnce, PreviewOwed, StatusOwed, Answers
<1> QED BY <1>1, <1>2, <1>3 DEF LedgerInv, LedgerKept

\* Every step of the link keeps the ledger, as long as the memory has room.
LEMMA LedgerStep ==
    ASSUME LedgerInv, RemembersAll, [LinkNext]_linkVars
    PROVE  LedgerInv'
<1>1. LinkInv'
  BY LinkStep DEF LedgerInv
<1>2. CASE UNCHANGED linkVars
  <2>1. /\ UNCHANGED vars
        /\ UNCHANGED <<up, down, behavior, server, pending_decision, cancelled>>
    BY <1>2 DEF linkVars, peerVars
  <2>2. UNCHANGED <<phase, active_audio, pending_preview, pending_execution, issued,
                    retired_request_ids>>
    BY <2>1 DEF vars, loopVars
  <2>3. \A id : (EndsOnce(id)' <=> EndsOnce(id)) /\ (InMind(id)' <=> InMind(id))
    BY <2>1, <2>2 DEF EndsOnce, InMind, Retired
  <2>4. \A id : (PreviewOwed(id)' <=> PreviewOwed(id)) /\ (StatusOwed(id)' <=> StatusOwed(id))
    BY <2>1, <2>2 DEF PreviewOwed, StatusOwed, Answers
  <2>5. Ledger' <=> Ledger
    BY <2>1, <2>3, <2>4 DEF Ledger
  <2> QED BY <1>1, <2>1, <2>2, <2>5 DEF LedgerInv, LedgerKept, Blameless
<1> QED BY <1>1, <1>2, ActorLedgerKept, ReceiveLedgerKept, PeerLedgerKept DEF LinkNext

\* Only what the actor receives is a strike.
LEMMA OnlyReceivedStrikes ==
    ASSUME LinkInv, [LinkNext]_linkVars, unexpected_responses' > unexpected_responses
    PROVE  ActorReceives
<1>1. unexpected_responses \in Nat
  BY BoundsAssumption DEF LinkInv, LinkTypes, ReplyInv, TypeInv, TypeOK
<1>2. ~UNCHANGED unexpected_responses
  BY <1>1
<1>3. CASE HandleCommand
  BY <1>2, <1>3 DEF HandleCommand, BeginAudio, SendAudioChunk, FinishAudio, Confirm,
                    RespondToDecision, Cancel, Shutdown, loopVars
<1>4. CASE \/ \E c \in Callers : Call(c)
           \/ EnqueueTimesOut \/ DropHandles \/ ReadEvent \/ CommandsClosed
           \/ PreviewFallsDue \/ ExecutionFallsDue \/ Maintenance
  BY <1>2, <1>4 DEF Call, EnqueueTimesOut, DropHandles, ReadEvent, CommandsClosed,
                    PreviewFallsDue, ExecutionFallsDue, Maintenance, loopVars
<1>5. CASE PeerActs \/ UNCHANGED linkVars
  <2>1. UNCHANGED vars
    BY <1>5, PeerTurn DEF linkVars
  <2> QED BY <1>2, <2>1 DEF vars, loopVars
<1> QED BY <1>3, <1>4, <1>5 DEF LinkNext, ActorActs, Asks

\* And a strike has one of its three causes.
LEMMA StrikeHasCause ==
    ASSUME LedgerInv, [LinkNext]_linkVars, unexpected_responses' > unexpected_responses,
           behavior # "WrongPreviewIds"
    PROVE  \/ Head(down).id \in cancelled
           \/ "AUDIO_BUSY" \in server.errors
           \/ Head(down).type = "DecisionRequest" /\ Retired(Head(down).id)
<1>1. LinkInv
  BY DEF LedgerInv
<1>2. ActorReceives /\ down # <<>>
  <2>1. ActorReceives
    BY <1>1, OnlyReceivedStrikes
  <2> QED BY <2>1 DEF ActorReceives
<1>3. PICK m, id : m = Head(down) /\ id = Head(down).id
  OBVIOUS
<1>4. /\ down \in Seq(Responses(server.complete)) /\ m \in Responses(server.complete)
      /\ m = Response(m.type, id)
  BY <1>1, <1>2, <1>3, HeadOfDown
<1>5. unexpected_responses \in Nat
  BY <1>1, BoundsAssumption DEF LinkInv, LinkTypes, ReplyInv, TypeInv, TypeOK
<1>6. ~UNCHANGED unexpected_responses
  BY <1>5
<1>7. /\ phase = "open"
      /\ \/ m.type = "CommandPreview" /\ ~Retired(id) /\ pending_preview.id # id
         \/ m.type = "ExecutionStatus" /\ ~Retired(id) /\ pending_execution.id # id
         \/ m.type = "DecisionRequest" /\ pending_preview.id # id
         \/ m.type = "Error" /\ ~Retired(id)
            /\ (id = NoId \/ id \notin {pending_preview.id, pending_execution.id})
  <2>1. HandleResponse(m)
    BY <1>2, <1>3 DEF ActorReceives
  <2>2. phase = "open"
    BY <2>1 DEF HandleResponse, CommandPreview, ExecutionStatus, PreviewUpdate, RemoteError, Receives
  <2> QED BY <1>3, <1>6, <2>1, <2>2 DEF HandleResponse, CommandPreview, ExecutionStatus, PreviewUpdate,
          RemoteError, Ignores, AnswersPreview, AnswersExecution, Publishes, PreviewFor
<1>8. SUFFICES ASSUME id \notin cancelled, "AUDIO_BUSY" \notin server.errors,
                      ~ (m.type = "DecisionRequest" /\ Retired(id))
               PROVE  FALSE
  BY <1>3
<1>9. Ledger
  BY <1>7, <1>8 DEF LedgerInv, LedgerKept, Blameless
<1>10. \A M : m \in M => Among(M, down)
  BY <1>2, <1>3, <1>4, FewerAmong
<1>11. /\ m \in Verdicts(id) <=> m.type \in {"CommandPreview", "Error"}
       /\ m \in Questions(id) <=> m.type = "DecisionRequest"
       /\ m \in Statuses(id) <=> m.type = "ExecutionStatus"
  BY <1>4, ResponseTypes
<1>12. id \in Ids
  <2>1. id \in Ids \/ (id = WrongId /\ m.type = "CommandPreview")
    BY <1>3, <1>4 DEF Responses
  <2> QED BY <1>9, <1>10, <1>11, <2>1 DEF Ledger
<1>13. PreviewOwed(id) /\ StatusOwed(id)
  BY <1>7, <1>8, <1>9, <1>12 DEF Ledger, InMind
<1>14. /\ m.type \in {"CommandPreview", "Error", "DecisionRequest"} => pending_preview.id = id
       /\ m.type = "ExecutionStatus" => pending_execution.id = id
  BY <1>10, <1>11, <1>13 DEF PreviewOwed, StatusOwed, Answers
<1> QED BY <1>7, <1>12, <1>14, NoIdAssumption

\* A strike against a peer that keeps the protocol is a response that crossed a
\* cancel, a refusal that follows one of a start, or a question about a request whose
\* deadline has passed: as long as retire_request_id never drops the oldest id.
THEOREM StrikesAlwaysExplained == LinkSpec /\ []RemembersAll => StrikesExplained
<1>1. ASSUME LedgerInv, [LinkNext]_linkVars
      PROVE  [unexpected_responses' > unexpected_responses /\ behavior # "WrongPreviewIds" =>
                \/ Head(down).id \in cancelled
                \/ "AUDIO_BUSY" \in server.errors
                \/ Head(down).type = "DecisionRequest" /\ Retired(Head(down).id)]_linkVars
  BY <1>1, StrikeHasCause
<1> QED BY <1>1, InitLedger, LedgerStep, PTL DEF LinkSpec, StrikesExplained
-----------------------------------------------------------------------------
(* The memory has room for a session of few requests.                      *)

\* The session has handed out no more ids than the memory can hold.
FewRequests == Cardinality(issued) <= MaxRetired

\* The memory holds the id.
Known(retired, id) == \E i \in DOMAIN retired : retired[i] = id

\* Retiring an id into a memory that has room, or that has it, forgets none.
LEMMA RetireKeeps ==
    ASSUME NEW retired \in Seq(Ids), NEW id \in Ids,
           Len(retired) # MaxRetired \/ Known(retired, id),
           NEW x, x = id \/ Known(retired, x)
    PROVE  Known(Retire(retired, id), x)
<1>1. CASE Known(retired, id)
  BY <1>1 DEF Retire, Known
<1>2. CASE ~Known(retired, id)
  <2>1. PICK n, more : n = Len(retired) /\ more = Append(retired, id)
    OBVIOUS
  <2>2. /\ n \in Nat /\ Len(more) = n + 1 /\ more[n + 1] = id /\ more \in Seq(Ids)
        /\ \A i \in 1 .. n : more[i] = retired[i]
    BY <2>1, AppendProperties, LenProperties
  <2>3. DOMAIN retired = 1 .. n /\ DOMAIN more = 1 .. n + 1
    BY <2>1, <2>2
  <2>4. Retire(retired, id) = more
    BY <1>2, <2>1 DEF Retire, Known
  <2> QED BY <2>2, <2>3, <2>4 DEF Known
<1> QED BY <1>1, <1>2

\* A memory without duplicates that lacks one of few ids is not full.
LEMMA RoomForOne ==
    ASSUME NEW ids, IsFiniteSet(ids), Cardinality(ids) <= MaxRetired,
           NEW retired \in Seq(Ids), Bounded(retired, ids), NEW id \in ids
    PROVE  Len(retired) # MaxRetired \/ Known(retired, id)
<1> SUFFICES ASSUME Len(retired) = MaxRetired, ~ \E i \in DOMAIN retired : retired[i] = id
             PROVE  FALSE
  BY DEF Known
<1>1. MaxRetired \in Nat /\ DOMAIN retired = 1 .. MaxRetired
  BY BoundsAssumption
<1>2. PICK others : others = ids \ {id}
  OBVIOUS
<1>3. IsFiniteSet(others) /\ Cardinality(others) = Cardinality(ids) - 1 /\ Cardinality(ids) \in Nat
  BY <1>2, FS_RemoveElement, FS_CardinalityType
<1>4. retired \in Injection(1 .. MaxRetired, others)
  <2>1. retired \in [1 .. MaxRetired -> others]
    <3>1. \A i \in 1 .. MaxRetired : retired[i] \in others
      BY <1>1, <1>2 DEF Bounded
    <3>2. retired = [i \in 1 .. MaxRetired |-> retired[i]]
      BY <1>1
    <3> QED BY <3>1, <3>2
  <2>2. \A i, j \in 1 .. MaxRetired : retired[i] = retired[j] => i = j
    BY <1>1 DEF Bounded
  <2> QED BY <2>1, <2>2 DEF Injection, IsInjective
<1>5. Cardinality(1 .. MaxRetired) <= Cardinality(others)
  BY <1>3, <1>4, FS_Injection
<1>6. Cardinality(1 .. MaxRetired) = MaxRetired
  <2>1. 1 \in Int /\ MaxRetired \in Int
    BY <1>1
  <2>2. Cardinality(1 .. MaxRetired) = IF 1 > MaxRetired THEN 0 ELSE MaxRetired - 1 + 1
    BY <2>1, FS_Interval, Zenon
  <2> QED BY <1>1, <2>2
<1> QED BY <1>1, <1>3, <1>5, <1>6

\* So the next tick forgets nothing.
LEMMA FewRemembered ==
    ASSUME LinkInv, RetiredBounded, IsFiniteSet(issued), FewRequests
    PROVE  RemembersAll
<1>1. /\ ReplyInv /\ retired_request_ids \in Seq(Ids)
      /\ Bounded(retired_request_ids, issued)
  BY DEF LinkInv, LinkTypes, ReplyInv, TypeInv, TypeOK, RetiredBounded, Bounded
<1>2. /\ pending_preview.due => pending_preview.id \in Ids \cap issued
      /\ pending_execution.due => pending_execution.id \in Ids \cap issued
  BY <1>1, SlotFacts DEF NoPending, ReplyInv, TypeInv, TypeOK
<1>3. PICK once : once = RetirePreview(retired_request_ids)
  OBVIOUS
<1>4. PICK twice : twice = RetireExecution(once)
  OBVIOUS
<1>5. once \in Seq(Ids) /\ Bounded(once, issued)
  BY <1>1, <1>2, <1>3, RetireType, RetireBounded DEF RetirePreview
<1>6. ASSUME NEW x \in Ids,
             Known(retired_request_ids, x) \/ (pending_preview.due /\ pending_preview.id = x)
      PROVE  Known(once, x)
  <2>1. CASE pending_preview.due
    <3>1. PICK id : id = pending_preview.id /\ id \in Ids \cap issued
      BY <1>2, <2>1
    <3>2. once = Retire(retired_request_ids, id)
      BY <1>3, <2>1, <3>1 DEF RetirePreview
    <3>3. Len(retired_request_ids) # MaxRetired \/ Known(retired_request_ids, id)
      BY <1>1, <3>1, RoomForOne DEF FewRequests
    <3> QED BY <1>1, <1>6, <3>1, <3>2, <3>3, RetireKeeps
  <2>2. CASE ~pending_preview.due
    BY <1>3, <1>6, <2>2 DEF RetirePreview
  <2> QED BY <2>1, <2>2
<1>7. ASSUME NEW x \in Ids,
             Known(once, x) \/ (pending_execution.due /\ pending_execution.id = x)
      PROVE  Known(twice, x)
  <2>1. CASE pending_execution.due
    <3>1. PICK id : id = pending_execution.id /\ id \in Ids \cap issued
      BY <1>2, <2>1
    <3>2. twice = Retire(once, id)
      BY <1>4, <2>1, <3>1 DEF RetireExecution
    <3>3. Len(once) # MaxRetired \/ Known(once, id)
      BY <1>5, <3>1, RoomForOne DEF FewRequests
    <3> QED BY <1>5, <1>7, <3>1, <3>2, <3>3, RetireKeeps
  <2>2. CASE ~pending_execution.due
    BY <1>4, <1>7, <2>2 DEF RetireExecution
  <2> QED BY <2>1, <2>2
<1> QED BY <1>3, <1>4, <1>6, <1>7 DEF RemembersAll, Retired, Known

\* The memory is bounded, and the ids are finitely many.
MemoryInv == RetiredBounded /\ IsFiniteSet(issued)

\* Every step of the link leaves them so.
LEMMA LinkMemory ==
    ASSUME LinkInv, MemoryInv, [LinkNext]_linkVars
    PROVE  MemoryInv'
<1>1. ReplyInv /\ RetiredBounded /\ IsFiniteSet(issued)
  BY DEF LinkInv, LinkTypes, MemoryInv
<1>2. RetiredBounded'
  <2>1. CASE ActorActs
    <3>1. Next
      BY <2>1 DEF ActorActs, Asks, Next, Time
    <3> QED BY <1>1, <3>1, StepRetired
  <2>2. CASE ActorReceives
    <3>1. PICK m : HandleResponse(m)
      BY <2>2 DEF ActorReceives
    <3>2. UNCHANGED <<retired_request_ids, issued>>
      BY <3>1 DEF HandleResponse, CommandPreview, ExecutionStatus, PreviewUpdate, RemoteError, Receives
    <3> QED BY <1>1, <3>2 DEF RetiredBounded
  <2>3. CASE PeerActs \/ UNCHANGED linkVars
    <3>1. UNCHANGED vars
      BY <2>3, PeerTurn DEF linkVars
    <3> QED BY <1>1, <3>1, StepRetired
  <2> QED BY <2>1, <2>2, <2>3 DEF LinkNext
<1>3. IsFiniteSet(issued')
  <2>1. CASE ActorActs \/ ActorReceives
    <3>1. AudioCourse
      BY <2>1, ActorCourse DEF LinkInv, LinkTypes
    <3>2. issued' = issued \/ \E id : issued' = issued \cup {id}
      BY <3>1 DEF AudioCourse, Quiet, DropsEmpty, Tells, FailsToTell
    <3> QED BY <1>1, <3>2, FS_AddElement
  <2>2. CASE PeerActs \/ UNCHANGED linkVars
    <3>1. UNCHANGED vars
      BY <2>2, PeerTurn DEF linkVars
    <3> QED BY <1>1, <3>1 DEF vars
  <2> QED BY <2>1, <2>2 DEF LinkNext
<1> QED BY <1>2, <1>3 DEF MemoryInv

\* In a session of no more requests than MAX_RETIRED_REQUEST_IDS a strike has one of
\* its three causes, whatever crosses on the socket.
THEOREM FewRequestsExplained == LinkSpec /\ []FewRequests => StrikesExplained
<1>1. LinkInit => MemoryInv
  BY BoundsAssumption, FS_EmptySet DEF LinkInit, Init, RetiredBounded, MemoryInv
<1>2. LinkInv /\ MemoryInv /\ FewRequests => RemembersAll
  BY FewRemembered DEF MemoryInv
<1> QED BY <1>1, <1>2, LinkInvariant, LinkMemory, StrikesAlwaysExplained, PTL DEF LinkSpec
=============================================================================
