------------------------ MODULE SecureChannelProofs ------------------------
(***************************************************************************)
(* Proofs about the secure channel, for every size of a frame, of a        *)
(* header and of a message: what encrypt_message cuts, decrypt_frame puts  *)
(* together again and never refuses; and whatever frames a peer sends,     *)
(* a message is put together from one run of its fragments only.           *)
(***************************************************************************)
EXTENDS SecureChannel, SequenceTheorems, NaturalRecursion

-----------------------------------------------------------------------------
(* The parts of a message. *)

\* The byte at which part k of message m begins; the end of m after its last.
CutAt(m, k) == IF k * PartSize < m THEN k * PartSize ELSE m
\* What is put together after k parts.
Upto(m, k) == SubSeq(Payload(m), 1, CutAt(m, k))
Bytes == Nat \X Nat

(* Lengths and limits are numbers. *)
LEMMA SizesAreNumbers ==
    /\ PartSize \in Nat \ {0}
    /\ PartSize + HeaderLen = MaxPlaintext
    /\ MaxPlaintext \in Nat /\ HeaderLen \in Nat \ {0}
    /\ MaxMessage \in Nat /\ MaxMessage >= MaxPlaintext
BY LimitsAssumption DEF PartSize

(* Rounding up, the two ways Frames and the header of a fragment do it. *)
LEMMA CountOfParts ==
    ASSUME NEW m \in Nat \ {0}
    PROVE  /\ TotalChunks(m) = (m - 1) \div PartSize + 1
           /\ TotalChunks(m) \in Nat \ {0}
           /\ \A k \in 0 .. TotalChunks(m) - 1 : k * PartSize < m
           /\ \A k \in 0 .. TotalChunks(m) - 2 : (k + 1) * PartSize < m
           /\ TotalChunks(m) * PartSize >= m
<1> DEFINE d == PartSize
           q == (m - 1) \div d
<1>1. d \in Nat \ {0}
  BY SizesAreNumbers
<1> HIDE DEF d
<1>2. q \in Nat /\ q * d <= m - 1 /\ m - 1 < (q + 1) * d
  BY <1>1
<1>3. (m + d - 1) \div d = q + 1
  BY <1>1
<1> HIDE DEF q
<1>4. TotalChunks(m) = q + 1
  BY <1>3 DEF TotalChunks, d
<1>5. \A k \in 0 .. q : k * d <= q * d
  BY <1>1, <1>2
<1>6. \A k \in 0 .. q : k * d \in Nat
  BY <1>1, <1>2
<1>7. \A k \in 0 .. q : k * d < m
  BY <1>2, <1>5, <1>6, <1>1
<1>8. (q + 1) * d >= m
  BY <1>1, <1>2
<1> QED BY <1>2, <1>4, <1>7, <1>8 DEF d, q

(* A message is a sequence of bytes. *)
LEMMA PayloadIsBytes ==
    ASSUME NEW m \in Nat
    PROVE  Payload(m) \in Seq(Bytes) /\ Len(Payload(m)) = m
BY DEF Payload, Bytes

(* A message is known by its bytes. *)
LEMMA PayloadsDiffer ==
    ASSUME NEW m \in Nat, NEW n \in Nat, Payload(m) = Payload(n)
    PROVE  m = n
BY PayloadIsBytes

(* The cuts ascend by at most the size of a part, from 0 to the end. *)
LEMMA CutsAscend ==
    ASSUME NEW m \in Nat \ {0}, NEW k \in 0 .. TotalChunks(m) - 1
    PROVE  /\ CutAt(m, k) \in 0 .. m - 1
           /\ CutAt(m, k) = k * PartSize
           /\ CutAt(m, k + 1) \in CutAt(m, k) + 1 .. m
           /\ CutAt(m, k + 1) - CutAt(m, k) <= PartSize
           /\ CutAt(m, 0) = 0
           /\ CutAt(m, TotalChunks(m)) = m
<1> DEFINE d == PartSize
           T == TotalChunks(m)
<1>1. d \in Nat \ {0} /\ T \in Nat \ {0} /\ T * d >= m /\ k * d < m
  BY SizesAreNumbers, CountOfParts
<1> HIDE DEF d, T
<1>2. k \in Nat /\ k * d \in Nat /\ (k + 1) * d = k * d + d /\ 0 * d = 0
  BY <1>1 DEF T
<1> QED BY <1>1, <1>2 DEF CutAt, d, T

(* A part of a message is what lies between two cuts, and fits a frame. *)
LEMMA SliceIsCut ==
    ASSUME NEW m \in Nat \ {0}, NEW k \in 0 .. TotalChunks(m) - 1
    PROVE  /\ Slice(m, k) = SubSeq(Payload(m), CutAt(m, k) + 1, CutAt(m, k + 1))
           /\ Slice(m, k) \in Seq(Bytes)
           /\ Len(Slice(m, k)) \in 1 .. PartSize
<1>1. Slice(m, k) = SubSeq(Payload(m), CutAt(m, k) + 1, CutAt(m, k + 1))
  BY CutsAscend DEF Slice, CutAt
<1> DEFINE a == CutAt(m, k)
           b == CutAt(m, k + 1)
<1>2. a \in 0 .. m - 1 /\ b \in a + 1 .. m /\ b - a <= PartSize /\ PartSize \in Nat
  BY CutsAscend, SizesAreNumbers
<1>3. Payload(m) \in Seq(Bytes) /\ Len(Payload(m)) = m
  BY PayloadIsBytes
<1> HIDE DEF a, b
<1>4. \A i \in a + 1 .. b : Payload(m)[i] \in Bytes
  BY <1>2, <1>3, ElementOfSeq
<1>5. SubSeq(Payload(m), a + 1, b) \in Seq(Bytes) /\ Len(SubSeq(Payload(m), a + 1, b)) = b - a
  BY <1>2, <1>4, SubSeqProperties
<1> QED BY <1>1, <1>2, <1>5 DEF a, b

(* The next part continues what is put together so far. *)
LEMMA PartsConcatenate ==
    ASSUME NEW m \in Nat \ {0}, NEW k \in 0 .. TotalChunks(m) - 1
    PROVE  /\ Upto(m, k) \o Slice(m, k) = Upto(m, k + 1)
           /\ Upto(m, 0) = <<>>
           /\ Upto(m, TotalChunks(m)) = Payload(m)
<1> DEFINE a == CutAt(m, k)
           b == CutAt(m, k + 1)
<1>1. a \in 0 .. m - 1 /\ b \in a + 1 .. m
  BY CutsAscend
<1>2. Payload(m) \in Seq(Bytes) /\ Len(Payload(m)) = m
  BY PayloadIsBytes
<1>3. Slice(m, k) = SubSeq(Payload(m), a + 1, b)
  BY SliceIsCut
<1> HIDE DEF a, b
<1>4. SubSeq(Payload(m), 1, a) \o SubSeq(Payload(m), a + 1, b) = SubSeq(Payload(m), 1, b)
  BY <1>1, <1>2, ConcatAdjacentSubSeq
<1>5. Upto(m, 0) = <<>>
  BY CutsAscend, SubSeqEmpty DEF Upto
<1>6. Upto(m, TotalChunks(m)) = Payload(m)
  BY CutsAscend, <1>2, SubSeqFull DEF Upto
<1> QED BY <1>3, <1>4, <1>5, <1>6 DEF Upto, a, b

(* The first parts of a message are bytes. *)
LEMMA UptoIsBytes ==
    ASSUME NEW m \in Nat \ {0}, NEW k \in 0 .. TotalChunks(m)
    PROVE  Upto(m, k) \in Seq(Bytes) /\ Len(Upto(m, k)) <= m
<1>1. Payload(m) \in Seq(Bytes) /\ Len(Payload(m)) = m
  BY PayloadIsBytes
<1>2. CutAt(m, k) \in 0 .. m
  <2>1. TotalChunks(m) \in Nat \ {0}
    BY CountOfParts
  <2>2. CASE k = TotalChunks(m)
    BY <2>1, <2>2, CutsAscend
  <2>3. CASE k \in 0 .. TotalChunks(m) - 1
    BY <2>3, CutsAscend
  <2> QED BY <2>1, <2>2, <2>3
<1> DEFINE b == CutAt(m, k)
<1> HIDE DEF b
<1>3. \A i \in 1 .. b : Payload(m)[i] \in Bytes
  BY <1>1, <1>2, ElementOfSeq DEF b
<1>4. SubSeq(Payload(m), 1, b) \in Seq(Bytes) /\ Len(SubSeq(Payload(m), 1, b)) = b
  BY <1>2, <1>3, SubSeqProperties DEF b
<1> QED BY <1>2, <1>4 DEF Upto, b

-----------------------------------------------------------------------------
(* The frames of a message. *)

PartsOf(m) == IF m <= MaxPlaintext THEN 1 ELSE TotalChunks(m)
FrameOf(m, id, k) ==
    IF m <= MaxPlaintext THEN Whole(Payload(m))
    ELSE Fragment(id, k, TotalChunks(m), Slice(m, k))
Accepted == 1 .. MaxMessage
Ids == ChunkIds \cup {0}
FrameType == [kind : {"whole", "fragment", "short"}, id : Ids, index : Nat,
              total : Nat, part : Seq(Bytes)]

(* Frames cuts a message into its parts, in order. *)
LEMMA FramesAreParts ==
    ASSUME NEW m \in Accepted, NEW id
    PROVE  /\ PartsOf(m) \in Nat \ {0}
           /\ DOMAIN Frames(m, id) = 1 .. PartsOf(m)
           /\ \A j \in 1 .. PartsOf(m) : Frames(m, id)[j] = FrameOf(m, id, j - 1)
<1>1. m \in Nat \ {0}
  BY SizesAreNumbers DEF Accepted
<1>2. CASE m <= MaxPlaintext
  BY <1>2, SizesAreNumbers DEF PartsOf, FrameOf, Frames
<1>3. CASE ~(m <= MaxPlaintext)
  BY <1>1, <1>3, CountOfParts DEF PartsOf, FrameOf, Frames
<1> QED BY <1>2, <1>3

(* Every part of an accepted message makes a frame within the limit. *)
LEMMA FrameFits ==
    ASSUME NEW m \in Accepted, NEW id \in Ids, NEW k \in 0 .. PartsOf(m) - 1
    PROVE  /\ FrameOf(m, id, k) \in FrameType
           /\ Plaintext(FrameOf(m, id, k)) \in 1 .. MaxPlaintext
<1>1. m \in Nat \ {0}
  BY SizesAreNumbers DEF Accepted
<1>2. CASE m <= MaxPlaintext
  <2>1. Payload(m) \in Seq(Bytes) /\ Len(Payload(m)) = m
    BY <1>1, PayloadIsBytes
  <2>2. FrameOf(m, id, k) = Whole(Payload(m))
    BY <1>2 DEF FrameOf
  <2>3. Whole(Payload(m)) \in FrameType
    BY <2>1 DEF Whole, FrameType, Ids
  <2>4. Plaintext(Whole(Payload(m))) = m
    BY <2>1, <1>1 DEF Plaintext, Whole
  <2> QED BY <1>1, <1>2, <2>2, <2>3, <2>4, SizesAreNumbers
<1>3. CASE ~(m <= MaxPlaintext)
  <2>1. k \in 0 .. TotalChunks(m) - 1 /\ TotalChunks(m) \in Nat
    BY <1>1, <1>3, CountOfParts DEF PartsOf
  <2>2. Slice(m, k) \in Seq(Bytes) /\ Len(Slice(m, k)) \in 1 .. PartSize
    BY <1>1, <2>1, SliceIsCut
  <2>3. FrameOf(m, id, k) = Fragment(id, k, TotalChunks(m), Slice(m, k))
    BY <1>3 DEF FrameOf
  <2>4. Fragment(id, k, TotalChunks(m), Slice(m, k)) \in FrameType
    BY <2>1, <2>2 DEF Fragment, FrameType
  <2>5. Plaintext(Fragment(id, k, TotalChunks(m), Slice(m, k))) = Len(Slice(m, k)) + HeaderLen
    BY DEF Plaintext, Fragment
  <2> QED BY <2>2, <2>3, <2>4, <2>5, SizesAreNumbers
<1> QED BY <1>2, <1>3

-----------------------------------------------------------------------------
(* What is in flight. *)

\* Of the first n frames, frame j is part part[j] of message number[j], one of
\* the first count messages, and the next one is what encrypt_message writes
\* after it.
Placed(frames, n, messages, count, ids, number, part) ==
    \A j \in 1 .. n :
        LET m == messages[number[j]]
        IN  /\ number[j] \in 1 .. count
            /\ part[j] \in 0 .. PartsOf(m) - 1
            /\ frames[j] = FrameOf(m, ids[number[j]], part[j])
            /\ IF part[j] + 1 = PartsOf(m)
               THEN number[j + 1] = number[j] + 1 /\ part[j + 1] = 0
               ELSE number[j + 1] = number[j] /\ part[j + 1] = part[j] + 1

\* The first k parts of message m put together.
Building(m, id, k) ==
    [id |-> id, total_chunks |-> TotalChunks(m), next_chunk |-> k, payload |-> Upto(m, k)]

InFlight == wire \o outbox

ChannelType ==
    /\ peer \in {"code", "any"}
    /\ sent \in Seq(Accepted)
    /\ writing \in BOOLEAN
    /\ wire \in Seq(FrameType)
    /\ outbox \in Seq(FrameType)

\* The messages decoded are the first ones sent.
ReceivedIsPrefix ==
    /\ received \in Seq(Accepted)
    /\ Len(received) <= Len(sent)
    /\ \A n \in 1 .. Len(received) : received[n] = sent[n]

\* The frames in flight continue what is put together and, while the sender's
\* session is up, end with the last part of the last message sent.
Continues(ids, number, part) ==
    /\ Placed(InFlight, Len(InFlight), sent, Len(sent), ids, number, part)
    /\ number[1] = Len(received) + 1
    /\ part[1] = incoming.next_chunk
    /\ IF incoming.next_chunk = 0 THEN incoming = Nothing
       ELSE /\ Len(received) < Len(sent)
            /\ incoming = Building(sent[number[1]], ids[number[1]], part[1])
    /\ writing =>
        /\ number[Len(InFlight) + 1] = Len(sent) + 1
        /\ part[Len(InFlight) + 1] = 0

\* Without encrypt_message at the other end nothing is in flight: AnyFrameTaken
\* makes the frame it takes.
ChannelInv ==
    /\ ChannelType
    /\ peer = "any" => sent = <<>> /\ wire = <<>> /\ outbox = <<>> /\ writing
    /\ peer = "code" =>
        /\ error \in {"none", "LEFT"}
        /\ ReceivedIsPrefix
        /\ \E ids \in [Nat -> Ids], number \in [Nat -> Nat], part \in [Nat -> Nat] :
            Continues(ids, number, part)

(* The frames in flight are those on the wire and behind them those not written. *)
LEMMA InFlightType ==
    ASSUME ChannelType
    PROVE  /\ InFlight \in Seq(FrameType)
           /\ Len(InFlight) = Len(wire) + Len(outbox)
           /\ Len(wire) \in Nat /\ Len(outbox) \in Nat /\ Len(sent) \in Nat
           /\ \A j \in 1 .. Len(wire) : InFlight[j] = wire[j]
           /\ \A j \in 1 .. Len(outbox) : InFlight[Len(wire) + j] = outbox[j]
<1> USE DEF ChannelType
<1>1. /\ wire \o outbox \in Seq(FrameType)
      /\ Len(wire \o outbox) = Len(wire) + Len(outbox)
      /\ \A i \in 1 .. Len(wire) + Len(outbox) : (wire \o outbox)[i] =
              IF i <= Len(wire) THEN wire[i] ELSE outbox[i - Len(wire)]
  BY ConcatProperties
<1>2. Len(wire) \in Nat /\ Len(outbox) \in Nat /\ Len(sent) \in Nat
  OBVIOUS
<1> QED BY <1>1, <1>2 DEF InFlight

(* Nothing is in flight at the start. *)
LEMMA InvInit == ChannelInit => ChannelInv
<1> SUFFICES ASSUME ChannelInit PROVE ChannelInv
  OBVIOUS
<1>1. ChannelType
  BY DEF ChannelInit, ChannelType
<1>2. ReceivedIsPrefix
  BY DEF ChannelInit, ReceivedIsPrefix
<1> DEFINE ids == [n \in Nat |-> 0]
           number == [j \in Nat |-> 1]
           part == [j \in Nat |-> 0]
<1>3. ids \in [Nat -> Ids] /\ number \in [Nat -> Nat] /\ part \in [Nat -> Nat]
  BY DEF Ids
<1>4. number[1] = 1 /\ part[1] = 0
  OBVIOUS
<1> HIDE DEF ids, number, part
<1>5. Len(InFlight) = 0
  BY <1>1, InFlightType DEF ChannelInit
<1>6. Placed(InFlight, Len(InFlight), sent, Len(sent), ids, number, part)
  BY <1>5 DEF Placed
<1>7. Continues(ids, number, part)
  BY <1>4, <1>5, <1>6 DEF Continues, ChannelInit, Nothing
<1> QED BY <1>1, <1>2, <1>3, <1>7 DEF ChannelInv, ChannelInit

(* What is left of the frames in flight when some at the end are dropped stays *)
(* in its place.                                                               *)
LEMMA PlacedPrefix ==
    ASSUME NEW F, NEW G, NEW n \in Nat, NEW k \in 0 .. n,
           NEW messages, NEW count, NEW ids, NEW number, NEW part,
           Placed(F, n, messages, count, ids, number, part),
           \A j \in 1 .. k : G[j] = F[j]
    PROVE  Placed(G, k, messages, count, ids, number, part)
BY DEF Placed

\* The places number2 and part2 are number and part up to L, and then those of
\* the T frames of message N + 1.
PlacesAfter(L, N, T, number, part, number2, part2) ==
    /\ \A j \in 1 .. L + 1 : number2[j] = number[j] /\ part2[j] = part[j]
    /\ \A i \in 1 .. T :
          /\ number2[L + i] = N + 1 /\ part2[L + i] = i - 1
          /\ IF i = T THEN number2[L + i + 1] = N + 2 /\ part2[L + i + 1] = 0
             ELSE number2[L + i + 1] = N + 1 /\ part2[L + i + 1] = i
    /\ number2[L + T + 1] = N + 2 /\ part2[L + T + 1] = 0

\* The frames G are the first L frames F and then those of message m.
FramesAfter(L, T, m, id, F, G) ==
    /\ \A j \in 1 .. L : G[j] = F[j]
    /\ \A j \in 1 .. T : G[L + j] = FrameOf(m, id, j - 1)

\* The messages more are the first N messages and then m.
MessagesAfter(N, m, messages, more) ==
    /\ more[N + 1] = m
    /\ \A n \in 1 .. N : more[n] = messages[n]

(* Places of frames in flight extend to the frames of one more message. *)
LEMMA MorePlaces ==
    ASSUME NEW L \in Nat, NEW N \in Nat, NEW T \in Nat \ {0},
           NEW number \in [Nat -> Nat], NEW part \in [Nat -> Nat],
           number[L + 1] = N + 1, part[L + 1] = 0
    PROVE  \E number2 \in [Nat -> Nat], part2 \in [Nat -> Nat] :
              PlacesAfter(L, N, T, number, part, number2, part2)
<1> DEFINE number2 == [j \in Nat |-> IF j <= L THEN number[j]
                                     ELSE IF j <= L + T THEN N + 1 ELSE N + 2]
           part2 == [j \in Nat |-> IF j <= L THEN part[j]
                                   ELSE IF j <= L + T THEN j - (L + 1) ELSE 0]
<1>1. number2 \in [Nat -> Nat] /\ part2 \in [Nat -> Nat]
  OBVIOUS
<1>2. \A j \in 1 .. L + 1 : number2[j] = number[j] /\ part2[j] = part[j]
  OBVIOUS
<1>3. \A i \in 1 .. T :
        /\ number2[L + i] = N + 1 /\ part2[L + i] = i - 1
        /\ IF i = T THEN number2[L + i + 1] = N + 2 /\ part2[L + i + 1] = 0
           ELSE number2[L + i + 1] = N + 1 /\ part2[L + i + 1] = i
  OBVIOUS
<1>4. number2[L + T + 1] = N + 2 /\ part2[L + T + 1] = 0
  OBVIOUS
<1> HIDE DEF number2, part2
<1> QED BY <1>1, <1>2, <1>3, <1>4 DEF PlacesAfter

\* The L frames F of the N messages are placed, and one more message follows
\* the last one.
OneMore(L, N, T, m, id, F, G, messages, more, ids, number, part) ==
    /\ L \in Nat /\ N \in Nat /\ T \in Nat \ {0} /\ m \in Accepted /\ id \in Ids
    /\ ids \in [Nat -> Ids] /\ number \in [Nat -> Nat] /\ part \in [Nat -> Nat]
    /\ T = PartsOf(m)
    /\ FramesAfter(L, T, m, id, F, G)
    /\ MessagesAfter(N, m, messages, more)
    /\ Placed(F, L, messages, N, ids, number, part)
    /\ number[L + 1] = N + 1 /\ part[L + 1] = 0

(* The frames of one more message have their places after those of the last one. *)
LEMMA PlacedMore ==
    ASSUME NEW L, NEW N, NEW T, NEW m, NEW id, NEW F, NEW G, NEW messages, NEW more,
           NEW ids, NEW number, NEW part,
           OneMore(L, N, T, m, id, F, G, messages, more, ids, number, part)
    PROVE  \E ids2 \in [Nat -> Ids], number2 \in [Nat -> Nat], part2 \in [Nat -> Nat] :
                /\ Placed(G, L + T, more, N + 1, ids2, number2, part2)
                /\ \A n \in 1 .. N : ids2[n] = ids[n]
                /\ number2[1] = number[1] /\ part2[1] = part[1]
                /\ number2[L + T + 1] = N + 2 /\ part2[L + T + 1] = 0
<1>1. /\ L \in Nat /\ N \in Nat /\ T \in Nat \ {0} /\ m \in Accepted /\ id \in Ids
      /\ ids \in [Nat -> Ids] /\ number \in [Nat -> Nat] /\ part \in [Nat -> Nat]
      /\ T = PartsOf(m)
      /\ number[L + 1] = N + 1 /\ part[L + 1] = 0
  BY DEF OneMore
<1>6. /\ FramesAfter(L, T, m, id, F, G)
      /\ MessagesAfter(N, m, messages, more)
      /\ Placed(F, L, messages, N, ids, number, part)
  BY DEF OneMore
<1> USE <1>1
<1>2. PICK number2 \in [Nat -> Nat], part2 \in [Nat -> Nat] :
              PlacesAfter(L, N, T, number, part, number2, part2)
  BY MorePlaces
<1> DEFINE ids2 == [n \in Nat |-> IF n = N + 1 THEN id ELSE ids[n]]
<1>3. ids2 \in [Nat -> Ids] /\ ids2[N + 1] = id /\ \A n \in 1 .. N : ids2[n] = ids[n]
  OBVIOUS
<1> HIDE DEF ids2
<1>4. Placed(G, L + T, more, N + 1, ids2, number2, part2)
  <2> SUFFICES ASSUME NEW j \in 1 .. L + T
               PROVE  /\ number2[j] \in 1 .. N + 1
                      /\ part2[j] \in 0 .. PartsOf(more[number2[j]]) - 1
                      /\ G[j] = FrameOf(more[number2[j]], ids2[number2[j]], part2[j])
                      /\ IF part2[j] + 1 = PartsOf(more[number2[j]])
                         THEN number2[j + 1] = number2[j] + 1 /\ part2[j + 1] = 0
                         ELSE number2[j + 1] = number2[j] /\ part2[j + 1] = part2[j] + 1
    BY DEF Placed
  <2> USE DEF FramesAfter, MessagesAfter, PlacesAfter
  <2>1. CASE j \in 1 .. L
    <3>1. /\ number[j] \in 1 .. N
          /\ part[j] \in 0 .. PartsOf(messages[number[j]]) - 1
          /\ F[j] = FrameOf(messages[number[j]], ids[number[j]], part[j])
          /\ IF part[j] + 1 = PartsOf(messages[number[j]])
             THEN number[j + 1] = number[j] + 1 /\ part[j + 1] = 0
             ELSE number[j + 1] = number[j] /\ part[j + 1] = part[j] + 1
      BY <1>6, <2>1 DEF Placed
    <3>2. /\ number2[j] = number[j] /\ part2[j] = part[j]
          /\ number2[j + 1] = number[j + 1] /\ part2[j + 1] = part[j + 1]
      BY <1>2, <2>1
    <3>3. more[number[j]] = messages[number[j]] /\ ids2[number[j]] = ids[number[j]]
      BY <1>3, <1>6, <3>1
    <3>4. number[j] \in 1 .. N + 1
      BY <3>1
    <3> QED BY <1>6, <2>1, <3>1, <3>2, <3>3, <3>4
  <2>2. CASE j \in L + 1 .. L + T
    <3>1. PICK i \in 1 .. T : j = L + i
      <4>1. j - L \in 1 .. T /\ j = L + (j - L)
        BY <2>2
      <4> QED BY <4>1
    <3>2. number2[j] = N + 1 /\ part2[j] = i - 1 /\ G[j] = FrameOf(m, id, i - 1)
      BY <1>2, <1>6, <3>1
    <3>3. more[number2[j]] = m /\ ids2[number2[j]] = id
      BY <1>3, <1>6, <3>2
    <3>4. IF i = T THEN number2[j + 1] = N + 2 /\ part2[j + 1] = 0
          ELSE number2[j + 1] = N + 1 /\ part2[j + 1] = i
      BY <1>2, <3>1
    <3> QED BY <3>1, <3>2, <3>3, <3>4
  <2> QED BY <2>1, <2>2
<1>5. /\ number2[1] = number[1] /\ part2[1] = part[1]
      /\ number2[L + T + 1] = N + 2 /\ part2[L + T + 1] = 0
  BY <1>2 DEF PlacesAfter
<1> QED BY <1>2, <1>3, <1>4, <1>5

(* What Frames makes is a sequence of frames. *)
LEMMA FramesType ==
    ASSUME NEW m \in Accepted, NEW id \in Ids
    PROVE  Frames(m, id) \in Seq(FrameType) /\ Len(Frames(m, id)) = PartsOf(m)
<1>1. PICK T \in Nat \ {0} : T = PartsOf(m)
  BY FramesAreParts
<1>2. PICK new : new = Frames(m, id)
  OBVIOUS
<1>3. DOMAIN new = 1 .. T /\ \A j \in 1 .. T : new[j] = FrameOf(m, id, j - 1)
  BY <1>1, <1>2, FramesAreParts
<1>4. ASSUME NEW j \in 1 .. T PROVE new[j] \in FrameType
  <2>1. j - 1 \in 0 .. PartsOf(m) - 1
    BY <1>1
  <2> QED BY <2>1, <1>3, FrameFits
<1>5. new = [j \in DOMAIN new |-> new[j]]
  <2>1. CASE m <= MaxPlaintext
    BY <1>2, <2>1 DEF Frames
  <2>2. CASE ~(m <= MaxPlaintext)
    BY <1>2, <2>2, Zenon DEF Frames
  <2> QED BY <2>1, <2>2
<1>6. new \in [1 .. T -> FrameType]
  BY <1>3, <1>4, <1>5
<1> QED BY <1>1, <1>2, <1>6

(* Encrypt: the frames of the message follow those in flight. *)
LEMMA EncryptKeeps ==
    ASSUME ChannelInv, Encrypt
    PROVE  ChannelInv'
<1>1. ChannelType /\ peer = "code" /\ writing /\ outbox = <<>> /\ ReceivedIsPrefix
  BY DEF ChannelInv, Encrypt
<1>2. UNCHANGED <<peer, wire, incoming, received, error>>
  BY DEF Encrypt, receiverVars
<1>3. PICK ids, number, part :
          /\ ids \in [Nat -> Ids] /\ number \in [Nat -> Nat] /\ part \in [Nat -> Nat]
          /\ Continues(ids, number, part)
  BY <1>1 DEF ChannelInv
<1>4. PICK m \in Messages, id \in ChunkIds :
        \/ /\ m <= MaxMessage
           /\ outbox' = Frames(m, id)
           /\ sent' = Append(sent, m)
           /\ UNCHANGED writing
        \/ /\ m > MaxMessage
           /\ writing' = FALSE
           /\ UNCHANGED <<outbox, sent>>
  BY DEF Encrypt
<1>5. CASE m > MaxMessage
  <2>1. writing' = FALSE /\ UNCHANGED <<outbox, sent>>
    BY <1>4, <1>5, SizesAreNumbers DEF Messages
  <2>2. ChannelType'
    BY <1>1, <1>2, <2>1 DEF ChannelType
  <2>3. ReceivedIsPrefix' /\ InFlight' = InFlight
    BY <1>1, <1>2, <2>1 DEF ReceivedIsPrefix, InFlight
  <2>4. Continues(ids, number, part)'
    BY <1>2, <1>3, <2>1, <2>3 DEF Continues
  <2> QED BY <1>1, <1>2, <1>3, <2>2, <2>3, <2>4 DEF ChannelInv
<1>6. CASE m <= MaxMessage
  <2>1. m \in Accepted /\ id \in Ids
    BY <1>6, SizesAreNumbers DEF Accepted, Messages, Ids
  <2>2. outbox' = Frames(m, id) /\ sent' = Append(sent, m) /\ writing' = writing
    BY <1>4, <1>6, SizesAreNumbers DEF Messages
  <2>3. InFlight = wire /\ wire \in Seq(FrameType) /\ sent \in Seq(Accepted)
    BY <1>1, ConcatEmptySeq DEF InFlight, ChannelType
  <2>4. /\ Placed(wire, Len(wire), sent, Len(sent), ids, number, part)
        /\ number[Len(wire) + 1] = Len(sent) + 1 /\ part[Len(wire) + 1] = 0
    BY <1>1, <1>3, <2>3 DEF Continues
  <2>5. Frames(m, id) \in Seq(FrameType) /\ Len(Frames(m, id)) = PartsOf(m)
        /\ \A j \in 1 .. PartsOf(m) : Frames(m, id)[j] = FrameOf(m, id, j - 1)
    BY <2>1, FramesType, FramesAreParts
  <2>6. PICK L \in Nat, N \in Nat, T \in Nat \ {0} :
            L = Len(wire) /\ N = Len(sent) /\ T = PartsOf(m)
    BY <1>1, <2>1, InFlightType, FramesAreParts
  <2>7. /\ Len(InFlight') = L + T
        /\ \A j \in 1 .. L : InFlight'[j] = wire[j]
        /\ \A j \in 1 .. T : InFlight'[L + j] = FrameOf(m, id, j - 1)
    <3>1. InFlight' = wire \o Frames(m, id)
      BY <1>2, <2>2 DEF InFlight
    <3>2. /\ Len(InFlight') = Len(wire) + Len(Frames(m, id))
          /\ \A i \in 1 .. Len(wire) + Len(Frames(m, id)) : InFlight'[i] =
                IF i <= Len(wire) THEN wire[i] ELSE Frames(m, id)[i - Len(wire)]
      BY <2>3, <2>5, <3>1, ConcatProperties
    <3>3. /\ Len(InFlight') = L + T
          /\ \A i \in 1 .. L + T : InFlight'[i] =
                IF i <= L THEN wire[i] ELSE Frames(m, id)[i - L]
      BY <2>5, <2>6, <3>2, Zenon
    <3>4. ASSUME NEW j \in 1 .. T PROVE InFlight'[L + j] = Frames(m, id)[j]
      <4>1. L + j \in 1 .. L + T /\ ~(L + j <= L) /\ (L + j) - L = j
        OBVIOUS
      <4> QED BY <3>3, <4>1
    <3>5. ASSUME NEW j \in 1 .. L PROVE InFlight'[j] = wire[j]
      <4>1. j \in 1 .. L + T /\ j <= L
        OBVIOUS
      <4> QED BY <3>3, <4>1
    <3> QED BY <2>5, <2>6, <3>3, <3>4, <3>5
  <2>8. /\ sent' \in Seq(Accepted) /\ Len(sent') = Len(sent) + 1 /\ Len(sent) \in Nat
        /\ \A n \in 1 .. Len(sent) : sent'[n] = sent[n]
    BY <2>1, <2>2, <2>3, AppendProperties
  <2>9. ChannelType'
    BY <1>1, <1>2, <2>2, <2>5, <2>8 DEF ChannelType
  <2>10. PICK ids2 \in [Nat -> Ids], number2 \in [Nat -> Nat], part2 \in [Nat -> Nat] :
                /\ Placed(InFlight', L + T, sent', N + 1, ids2, number2, part2)
                /\ \A n \in 1 .. N : ids2[n] = ids[n]
                /\ number2[1] = number[1] /\ part2[1] = part[1]
                /\ number2[L + T + 1] = N + 2 /\ part2[L + T + 1] = 0
    <3>1. MessagesAfter(N, m, sent, sent')
      BY <2>1, <2>2, <2>3, <2>6, AppendProperties DEF MessagesAfter
    <3>3. FramesAfter(L, T, m, id, wire, InFlight')
      BY <2>7 DEF FramesAfter
    <3>2. /\ Placed(wire, L, sent, N, ids, number, part)
          /\ number[L + 1] = N + 1 /\ part[L + 1] = 0
      BY <2>4, <2>6
    <3>4. OneMore(L, N, T, m, id, wire, InFlight', sent, sent', ids, number, part)
      BY <1>3, <2>1, <2>6, <3>1, <3>2, <3>3 DEF OneMore
    <3> QED BY <3>4, PlacedMore
  <2>11. PICK R \in Nat : R = Len(received) /\ R <= N
    BY <1>1, <2>6 DEF ReceivedIsPrefix
  <2>12. Len(sent') = N + 1 /\ \A n \in 1 .. N : sent'[n] = sent[n]
    BY <2>6, <2>8
  <2>13. ReceivedIsPrefix'
    <3>1. received' \in Seq(Accepted) /\ \A n \in 1 .. R : received'[n] = sent[n]
      BY <1>1, <1>2, <2>11 DEF ReceivedIsPrefix
    <3>2. \A n \in 1 .. R : n \in 1 .. N
      BY <2>11
    <3>3. Len(received') = R
      BY <1>2, <2>11
    <3>4. R <= N + 1
      BY <2>11
    <3> QED BY <2>12, <3>1, <3>2, <3>3, <3>4 DEF ReceivedIsPrefix
  <2>14. Continues(ids2, number2, part2)'
    <3>1. /\ number[1] = R + 1
          /\ part[1] = incoming.next_chunk
          /\ IF incoming.next_chunk = 0 THEN incoming = Nothing
             ELSE /\ R < N
                  /\ incoming = Building(sent[number[1]], ids[number[1]], part[1])
      BY <1>3, <2>6, <2>11 DEF Continues
    <3>2. R < N => number[1] \in 1 .. N
      BY <3>1
    <3>3. R < N => sent'[number[1]] = sent[number[1]] /\ ids2[number[1]] = ids[number[1]]
      BY <2>10, <2>12, <3>2
    <3>4. R < N => R < N + 1
      OBVIOUS
    <3>5. Len(InFlight') = L + T /\ Len(sent') = N + 1 /\ Len(received') = R
      BY <1>2, <2>7, <2>11, <2>12
    <3>6. N + 2 = (N + 1) + 1
      OBVIOUS
    <3>7. /\ Placed(InFlight', L + T, sent', N + 1, ids2, number2, part2)
          /\ number2[1] = R + 1
          /\ part2[1] = incoming.next_chunk
          /\ IF incoming.next_chunk = 0 THEN incoming = Nothing
             ELSE /\ R < N + 1
                  /\ incoming = Building(sent'[number2[1]], ids2[number2[1]], part2[1])
          /\ number2[L + T + 1] = (N + 1) + 1
          /\ part2[L + T + 1] = 0
      BY <2>10, <3>1, <3>3, <3>4, <3>6
    <3> QED BY <1>2, <3>5, <3>7, Zenon DEF Continues
  <2> QED BY <1>1, <1>2, <2>9, <2>13, <2>14 DEF ChannelInv
<1> QED BY <1>4, <1>5, <1>6

(* WriteFrame: the frame moves from one end of what is in flight to the other. *)
LEMMA WriteFrameKeeps ==
    ASSUME ChannelInv, WriteFrame
    PROVE  ChannelInv'
<1>1. ChannelType /\ outbox # <<>>
  BY DEF ChannelInv, WriteFrame
<1>2. /\ UNCHANGED <<peer, sent, writing, incoming, received, error>>
      /\ wire' = Append(wire, Head(outbox)) /\ outbox' = Tail(outbox)
  BY DEF WriteFrame, receiverVars
<1>3. /\ wire \in Seq(FrameType) /\ outbox \in Seq(FrameType)
      /\ Head(outbox) \in FrameType /\ Tail(outbox) \in Seq(FrameType)
      /\ wire' \in Seq(FrameType)
  BY <1>1, <1>2, HeadTailProperties, AppendProperties DEF ChannelType
<1>4. ChannelType'
  BY <1>1, <1>2, <1>3 DEF ChannelType
<1>5. InFlight' = InFlight
  <2>1. outbox = <<Head(outbox)>> \o Tail(outbox)
    BY <1>1, <1>3
  <2>2. wire' = wire \o <<Head(outbox)>> /\ <<Head(outbox)>> \in Seq(FrameType)
    BY <1>2, <1>3, AppendIsConcat
  <2>3. (wire \o <<Head(outbox)>>) \o Tail(outbox) = wire \o (<<Head(outbox)>> \o Tail(outbox))
    BY <1>3, <2>2, ConcatAssociative
  <2> QED BY <1>2, <2>1, <2>2, <2>3 DEF InFlight
<1>6. peer # "any"
  BY <1>1 DEF ChannelInv
<1>7. ReceivedIsPrefix' <=> ReceivedIsPrefix
  BY <1>2 DEF ReceivedIsPrefix
<1>8. ASSUME NEW ids, NEW number, NEW part, Continues(ids, number, part)
      PROVE  Continues(ids, number, part)'
  BY <1>2, <1>5, <1>8 DEF Continues
<1> QED BY <1>2, <1>4, <1>6, <1>7, <1>8 DEF ChannelInv

(* WriteFails: a first part of what is in flight stays. *)
LEMMA WriteFailsKeeps ==
    ASSUME ChannelInv, WriteFails
    PROVE  ChannelInv'
<1>1. ChannelType /\ outbox # <<>> /\ peer # "any"
  BY DEF ChannelInv, WriteFails
<1>2. /\ UNCHANGED <<peer, sent, incoming, received, error>>
      /\ wire' \in {wire, Append(wire, Head(outbox))}
      /\ outbox' = <<>> /\ writing' = FALSE
  BY DEF WriteFails, FrameLeaves, receiverVars
<1>3. /\ wire \in Seq(FrameType) /\ outbox \in Seq(FrameType)
      /\ Head(outbox) \in FrameType /\ Head(outbox) = outbox[1]
      /\ wire' \in Seq(FrameType)
  BY <1>1, <1>2, HeadTailProperties, AppendProperties DEF ChannelType
<1>4. ChannelType'
  BY <1>1, <1>2, <1>3, EmptySeq DEF ChannelType
<1>5. InFlight' = wire'
  BY <1>2, <1>3, ConcatEmptySeq DEF InFlight
<1>6. PICK n \in Nat, k \in Nat :
          /\ k <= n /\ n = Len(InFlight) /\ k = Len(InFlight')
          /\ \A j \in 1 .. k : InFlight'[j] = InFlight[j]
  <2>1. PICK L \in Nat, B \in Nat \ {0} :
            /\ L = Len(wire) /\ B = Len(outbox) /\ Len(InFlight) = L + B
            /\ \A j \in 1 .. L : InFlight[j] = wire[j]
            /\ InFlight[L + 1] = outbox[1]
    <3>1. Len(outbox) \in Nat \ {0}
      BY <1>1, <1>3, EmptySeq
    <3>2. 1 \in 1 .. Len(outbox)
      BY <3>1
    <3>3. InFlight[Len(wire) + 1] = outbox[1]
      BY <1>1, <3>2, InFlightType
    <3> QED BY <1>1, <3>1, <3>3, InFlightType
  <2>2. CASE wire' = wire
    <3>1. L <= L + B /\ L + B \in Nat
      OBVIOUS
    <3> QED BY <1>5, <2>1, <2>2, <3>1
  <2>3. CASE wire' = Append(wire, Head(outbox))
    <3>1. Len(wire') = L + 1 /\ (\A j \in 1 .. L : wire'[j] = wire[j]) /\ wire'[L + 1] = outbox[1]
      BY <1>3, <2>1, <2>3, AppendProperties
    <3>2. L + 1 <= L + B /\ L + 1 \in Nat /\ L + B \in Nat
      OBVIOUS
    <3>3. ASSUME NEW j \in 1 .. L + 1 PROVE wire'[j] = InFlight[j]
      BY <2>1, <3>1
    <3> QED BY <1>5, <2>1, <3>1, <3>2, <3>3
  <2> QED BY <1>2, <2>2, <2>3
<1>7. ReceivedIsPrefix' <=> ReceivedIsPrefix
  BY <1>2 DEF ReceivedIsPrefix
<1>8. ASSUME NEW ids, NEW number, NEW part, Continues(ids, number, part)
      PROVE  Continues(ids, number, part)'
  <2>1. Placed(InFlight, n, sent, Len(sent), ids, number, part)
    BY <1>6, <1>8 DEF Continues
  <2>2. Placed(InFlight', k, sent', Len(sent'), ids, number, part)
    BY <1>2, <1>6, <2>1 DEF Placed
  <2> QED BY <1>2, <1>6, <1>8, <2>2 DEF Continues
<1> QED BY <1>1, <1>2, <1>4, <1>7, <1>8 DEF ChannelInv
(* All of a message is decoded as that message. *)
LEMMA DecodesPayload ==
    ASSUME NEW m \in Accepted, Decodes(Payload(m))
    PROVE  /\ received' = Append(received, m)
           /\ error' = error
           /\ incoming' = Nothing
<1>1. m \in Messages /\ m \in Nat
  BY SizesAreNumbers DEF Accepted, Messages
<1>2. PICK p \in Messages : Payload(m) = Payload(p) /\ received' = Append(received, p)
  BY <1>1 DEF Decodes
<1>3. p = m
  BY <1>1, <1>2, PayloadsDiffer, SizesAreNumbers DEF Messages
<1> QED BY <1>1, <1>2, <1>3 DEF Decodes

(* The next part of the message that is put together is taken and not refused. *)
LEMMA TakesPart ==
    ASSUME NEW m \in Accepted, NEW id \in Ids, NEW k \in 0 .. PartsOf(m) - 1,
           incoming.next_chunk = k,
           IF k = 0 THEN incoming = Nothing ELSE incoming = Building(m, id, k),
           DecryptFrame(FrameOf(m, id, k))
    PROVE  /\ error' = error
           /\ IF k + 1 = PartsOf(m)
              THEN received' = Append(received, m) /\ incoming' = Nothing
              ELSE received' = received /\ incoming' = Building(m, id, k + 1)
<1> DEFINE frame == FrameOf(m, id, k)
<1>1. Plaintext(frame) <= MaxPlaintext /\ ~(Plaintext(frame) > MaxPlaintext)
  BY FrameFits, SizesAreNumbers
<1>2. m \in Nat \ {0} /\ m <= MaxMessage
  BY SizesAreNumbers DEF Accepted
<1>3. CASE m <= MaxPlaintext
  <2>1. frame = Whole(Payload(m)) /\ PartsOf(m) = 1 /\ k = 0
    BY <1>3 DEF FrameOf, PartsOf
  <2>2. frame.kind = "whole" /\ frame.part = Payload(m)
    BY <2>1 DEF Whole
  <2>3. TakeWhole(frame)
    BY <1>1, <2>2 DEF DecryptFrame
  <2>4. Decodes(Payload(m))
    BY <2>1, <2>2, <2>3 DEF TakeWhole
  <2> QED BY <2>1, <2>4, DecodesPayload
<1>4. CASE ~(m <= MaxPlaintext)
  <2> DEFINE T == TotalChunks(m)
  <2>1. frame = Fragment(id, k, T, Slice(m, k)) /\ PartsOf(m) = T
    BY <1>4 DEF FrameOf, PartsOf
  <2>2. /\ frame.kind = "fragment" /\ frame.id = id /\ frame.index = k
        /\ frame.total = T /\ frame.part = Slice(m, k)
    BY <2>1 DEF Fragment
  <2>3. T \in Nat \ {0} /\ k \in 0 .. T - 1 /\ k < T /\ T # 0 /\ ~(k >= T)
    BY <1>2, <2>1, CountOfParts
  <2>4. TakeFragment(frame)
    BY <1>1, <2>2 DEF DecryptFrame
  <2> HIDE DEF frame, T
  <2>5. k = 0 <=> incoming = Nothing
    <3>1. k # 0 => incoming.next_chunk # Nothing.next_chunk
      BY DEF Nothing
    <3> QED BY <3>1
  <2>6. Continued(frame) = Building(m, id, k)
    <3>1. CASE k = 0
      <4>1. Upto(m, 0) = <<>>
        BY <1>2, <2>3, PartsConcatenate DEF T
      <4> QED BY <2>2, <3>1, <4>1 DEF Continued, Building, T
    <3>2. CASE k # 0
      BY <2>2, <3>2 DEF Continued
    <3> QED BY <3>1, <3>2
  <2>7. /\ Building(m, id, k).id = id /\ Building(m, id, k).total_chunks = T
        /\ Building(m, id, k).next_chunk = k /\ Building(m, id, k).payload = Upto(m, k)
    BY DEF Building, T
  <2>8. Upto(m, k) \o Slice(m, k) = Upto(m, k + 1)
    BY <1>2, <2>3, PartsConcatenate DEF T
  <2>9. ~TooMuch(Upto(m, k + 1))
    <3>1. k + 1 \in 0 .. TotalChunks(m)
      BY <2>3 DEF T
    <3>2. Len(Upto(m, k + 1)) <= m /\ Len(Upto(m, k + 1)) \in Nat
      BY <1>2, <3>1, UptoIsBytes
    <3> QED BY <1>2, <3>2, SizesAreNumbers DEF TooMuch
  <2>10. Fits(frame, Building(m, id, k))
    BY <2>2, <2>7 DEF Fits
  <2>11. \/ /\ k + 1 # T
            /\ incoming' = [Building(m, id, k) EXCEPT !.next_chunk = @ + 1,
                                                      !.payload = Upto(m, k + 1)]
            /\ UNCHANGED <<received, error>>
         \/ /\ k + 1 = T
            /\ Decodes(Upto(m, k + 1))
    BY <2>2, <2>3, <2>4, <2>5, <2>6, <2>7, <2>8, <2>9, <2>10 DEF TakeFragment
  <2>12. CASE k + 1 # T
    <3>1. incoming' = Building(m, id, k + 1)
      BY <2>11, <2>12 DEF Building
    <3> QED BY <2>1, <2>11, <2>12, <3>1
  <2>13. CASE k + 1 = T
    <3>1. Upto(m, k + 1) = Payload(m)
      BY <1>2, <2>3, <2>13, PartsConcatenate DEF T
    <3> QED BY <2>1, <2>11, <2>13, <3>1, DecodesPayload
  <2> QED BY <2>12, <2>13
<1> QED BY <1>3, <1>4
\* The places of the frames left when the first one is taken.
Shifted(places) == [j \in Nat |-> places[j + 1]]

(* Places counted from the second frame on are places. *)
LEMMA ShiftedType ==
    ASSUME NEW places \in [Nat -> Nat]
    PROVE  Shifted(places) \in [Nat -> Nat]
BY DEF Shifted

(* Without the first frame the others keep their places. *)
LEMMA PlacedTail ==
    ASSUME NEW n \in Nat, NEW F, NEW G, NEW messages, NEW count, NEW ids, NEW number, NEW part,
           \A j \in 1 .. n : G[j] = F[j + 1],
           Placed(F, n + 1, messages, count, ids, number, part)
    PROVE  Placed(G, n, messages, count, ids, Shifted(number), Shifted(part))
<1> SUFFICES ASSUME NEW j \in 1 .. n
             PROVE  LET m == messages[Shifted(number)[j]]
                        k == Shifted(part)[j]
                    IN  /\ Shifted(number)[j] \in 1 .. count
                        /\ k \in 0 .. PartsOf(m) - 1
                        /\ G[j] = FrameOf(m, ids[Shifted(number)[j]], k)
                        /\ IF k + 1 = PartsOf(m)
                           THEN Shifted(number)[j + 1] = Shifted(number)[j] + 1
                                /\ Shifted(part)[j + 1] = 0
                           ELSE Shifted(number)[j + 1] = Shifted(number)[j]
                                /\ Shifted(part)[j + 1] = k + 1
  BY Zenon DEF Placed
<1>1. /\ Shifted(number)[j] = number[j + 1] /\ Shifted(part)[j] = part[j + 1]
      /\ Shifted(number)[j + 1] = number[(j + 1) + 1] /\ Shifted(part)[j + 1] = part[(j + 1) + 1]
  BY DEF Shifted
<1>2. j + 1 \in 1 .. n + 1
  OBVIOUS
<1> QED BY <1>1, <1>2 DEF Placed

(* TakeFrame: the first frame in flight is the part that is expected. *)
LEMMA TakeFrameTakes ==
    ASSUME ChannelInv, TakeFrame
    PROVE  /\ peer = "code" /\ error' = "none"
           /\ \E ids, number, part, m, k :
                /\ ids \in [Nat -> Ids] /\ number \in [Nat -> Nat] /\ part \in [Nat -> Nat]
                /\ Continues(ids, number, part)
                /\ number[1] \in 1 .. Len(sent) /\ m = sent[number[1]] /\ k = part[1]
                /\ m \in Accepted /\ k \in Nat
                /\ IF k + 1 = PartsOf(m)
                   THEN /\ received' = Append(received, m) /\ incoming' = Nothing
                        /\ number[2] = number[1] + 1 /\ part[2] = 0
                   ELSE /\ received' = received
                        /\ incoming' = Building(m, ids[number[1]], k + 1)
                        /\ number[2] = number[1] /\ part[2] = k + 1
<1>1. ChannelType /\ wire # <<>> /\ error = "none" /\ DecryptFrame(Head(wire))
  BY DEF ChannelInv, TakeFrame
<1>2. peer = "code"
  BY <1>1 DEF ChannelInv, ChannelType
<1>3. PICK ids, number, part :
          /\ ids \in [Nat -> Ids] /\ number \in [Nat -> Nat] /\ part \in [Nat -> Nat]
          /\ Continues(ids, number, part)
  BY <1>2 DEF ChannelInv
<1>4. InFlight[1] = Head(wire) /\ 1 \in 1 .. Len(InFlight)
  <2>1. Len(wire) \in Nat \ {0} /\ Head(wire) = wire[1]
    BY <1>1, EmptySeq DEF ChannelType
  <2>2. InFlight[1] = wire[1]
    BY <1>1, <2>1, InFlightType
  <2>3. Len(InFlight) = Len(wire) + Len(outbox) /\ Len(outbox) \in Nat
    BY <1>1, InFlightType
  <2> QED BY <2>1, <2>2, <2>3
<1> DEFINE m == sent[number[1]]
           id == ids[number[1]]
           k == part[1]
<1>5. /\ number[1] \in 1 .. Len(sent)
      /\ k \in 0 .. PartsOf(m) - 1
      /\ Head(wire) = FrameOf(m, id, k)
      /\ IF k + 1 = PartsOf(m)
         THEN number[2] = number[1] + 1 /\ part[2] = 0
         ELSE number[2] = number[1] /\ part[2] = k + 1
  <2>1. Placed(InFlight, Len(InFlight), sent, Len(sent), ids, number, part)
    BY <1>3 DEF Continues
  <2>2. 1 + 1 = 2
    OBVIOUS
  <2> QED BY <1>4, <2>1, <2>2, Zenon DEF Placed
<1>6. m \in Accepted /\ id \in Ids
  <2>1. m \in Accepted
    BY <1>1, <1>5, ElementOfSeq DEF ChannelType
  <2>2. number[1] \in Nat
    BY <1>3
  <2> QED BY <1>3, <2>1, <2>2
<1>7. k = incoming.next_chunk /\ IF k = 0 THEN incoming = Nothing ELSE incoming = Building(m, id, k)
  BY <1>3 DEF Continues
<1> HIDE DEF m, id, k
<1>8. /\ error' = error
      /\ IF k + 1 = PartsOf(m)
         THEN received' = Append(received, m) /\ incoming' = Nothing
         ELSE received' = received /\ incoming' = Building(m, id, k + 1)
  BY <1>1, <1>5, <1>6, <1>7, TakesPart
<1>9. k \in Nat
  BY <1>3 DEF k
<1> USE DEF m, id, k
<1>10. number[1] \in 1 .. Len(sent) /\ m = sent[number[1]] /\ k = part[1]
  BY <1>5
<1>11. IF k + 1 = PartsOf(m)
       THEN /\ received' = Append(received, m) /\ incoming' = Nothing
            /\ number[2] = number[1] + 1 /\ part[2] = 0
       ELSE /\ received' = received
            /\ incoming' = Building(m, ids[number[1]], k + 1)
            /\ number[2] = number[1] /\ part[2] = k + 1
  BY <1>5, <1>8
<1> QED BY <1>1, <1>2, <1>3, <1>6, <1>8, <1>9, <1>10, <1>11

(* Taking a frame of encrypt_message keeps the invariant. *)
LEMMA TakeFrameKeeps ==
    ASSUME ChannelInv, TakeFrame
    PROVE  ChannelInv'
<1>1. ChannelType /\ wire # <<>> /\ peer = "code" /\ error' = "none" /\ ReceivedIsPrefix
  BY TakeFrameTakes DEF ChannelInv, TakeFrame
<1>2. UNCHANGED <<peer, sent, writing, outbox>> /\ wire' = Tail(wire)
  BY DEF TakeFrame
<1>3. wire' \in Seq(FrameType)
  BY <1>1, <1>2, HeadTailProperties DEF ChannelType
<1>4. ChannelType'
  BY <1>1, <1>2, <1>3 DEF ChannelType
<1>5. PICK ids, number, part, m, k :
                /\ ids \in [Nat -> Ids] /\ number \in [Nat -> Nat] /\ part \in [Nat -> Nat]
                /\ Continues(ids, number, part)
                /\ number[1] \in 1 .. Len(sent) /\ m = sent[number[1]] /\ k = part[1]
                /\ m \in Accepted /\ k \in Nat
                /\ IF k + 1 = PartsOf(m)
                   THEN /\ received' = Append(received, m) /\ incoming' = Nothing
                        /\ number[2] = number[1] + 1 /\ part[2] = 0
                   ELSE /\ received' = received
                        /\ incoming' = Building(m, ids[number[1]], k + 1)
                        /\ number[2] = number[1] /\ part[2] = k + 1
  BY TakeFrameTakes
<1>6. PICK n \in Nat : /\ Len(InFlight) = n + 1 /\ Len(InFlight') = n
                       /\ \A j \in 1 .. n : InFlight'[j] = InFlight[j + 1]
  <2>1. PICK W \in Nat, B \in Nat :
            /\ Len(wire) = W + 1 /\ Len(wire') = W /\ Len(outbox) = B
            /\ \A j \in 1 .. W : wire'[j] = wire[j + 1]
    <3>1. Len(wire) \in Nat \ {0} /\ Len(outbox) \in Nat
      BY <1>1, EmptySeq DEF ChannelType
    <3>2. Len(wire') = Len(wire) - 1 /\ \A j \in 1 .. Len(wire') : wire'[j] = wire[j + 1]
      BY <1>1, <1>2, HeadTailProperties DEF ChannelType
    <3>3. Len(wire) - 1 \in Nat /\ Len(wire) = (Len(wire) - 1) + 1
      BY <3>1
    <3> QED BY <3>1, <3>2, <3>3
  <2>2. /\ Len(InFlight) = Len(wire) + Len(outbox)
        /\ \A i \in 1 .. Len(wire) + Len(outbox) : InFlight[i] =
              IF i <= Len(wire) THEN wire[i] ELSE outbox[i - Len(wire)]
    BY <1>1, ConcatProperties DEF ChannelType, InFlight
  <2>3. /\ Len(InFlight') = Len(wire') + Len(outbox)
        /\ \A i \in 1 .. Len(wire') + Len(outbox) : InFlight'[i] =
              IF i <= Len(wire') THEN wire'[i] ELSE outbox[i - Len(wire')]
    <3>1. InFlight' = wire' \o outbox
      BY <1>2 DEF InFlight
    <3> QED BY <1>1, <1>3, <3>1, ConcatProperties DEF ChannelType
  <2>4. /\ Len(InFlight) = (W + 1) + B
        /\ \A i \in 1 .. (W + 1) + B : InFlight[i] =
              IF i <= W + 1 THEN wire[i] ELSE outbox[i - (W + 1)]
    BY <2>1, <2>2, Zenon
  <2>5. /\ Len(InFlight') = W + B
        /\ \A i \in 1 .. W + B : InFlight'[i] =
              IF i <= W THEN wire'[i] ELSE outbox[i - W]
    BY <2>1, <2>3, Zenon
  <2>6. ASSUME NEW j \in 1 .. W + B PROVE InFlight'[j] = InFlight[j + 1]
    <3>1. j + 1 \in 1 .. (W + 1) + B /\ (j + 1) - (W + 1) = j - W /\ (j + 1 <= W + 1 <=> j <= W)
      OBVIOUS
    <3>2. j <= W => j \in 1 .. W
      OBVIOUS
    <3>3. j <= W => wire'[j] = wire[j + 1]
      BY <2>1, <3>2
    <3>4. InFlight[j + 1] = IF j <= W THEN wire[j + 1] ELSE outbox[j - W]
      BY <2>4, <3>1
    <3>5. InFlight'[j] = IF j <= W THEN wire'[j] ELSE outbox[j - W]
      BY <2>5
    <3> QED BY <3>3, <3>4, <3>5
  <2>7. (W + 1) + B = (W + B) + 1 /\ W + B \in Nat
    OBVIOUS
  <2> QED BY <2>4, <2>5, <2>6, <2>7
<1>7. PICK R \in Nat, N \in Nat :
          /\ R = Len(received) /\ N = Len(sent) /\ R <= N /\ number[1] = R + 1 /\ R + 1 <= N
  <2>1. Len(received) \in Nat /\ Len(sent) \in Nat /\ Len(received) <= Len(sent)
    BY <1>1 DEF ReceivedIsPrefix, ChannelType
  <2>2. number[1] = Len(received) + 1
    BY <1>5 DEF Continues
  <2>3. Len(received) + 1 <= Len(sent)
    BY <1>5, <2>1, <2>2
  <2> QED BY <2>1, <2>2, <2>3
<1>8. ReceivedIsPrefix'
  <2>1. CASE k + 1 = PartsOf(m)
    <3>1. /\ received' \in Seq(Accepted) /\ Len(received') = R + 1
          /\ \A i \in 1 .. R : received'[i] = received[i]
          /\ received'[R + 1] = m
      <4>1. received \in Seq(Accepted) /\ received' = Append(received, m) /\ m \in Accepted
        BY <1>1, <1>5, <2>1 DEF ReceivedIsPrefix
      <4> QED BY <1>7, <4>1, AppendProperties
    <3>2. \A i \in 1 .. R : received[i] = sent[i]
      BY <1>1, <1>7 DEF ReceivedIsPrefix
    <3>3. m = sent[R + 1]
      BY <1>5, <1>7
    <3>4. \A i \in 1 .. R + 1 : received'[i] = sent[i]
      BY <3>1, <3>2, <3>3
    <3>5. Len(sent') = N /\ sent' = sent
      BY <1>2, <1>7
    <3> QED BY <1>7, <3>1, <3>4, <3>5 DEF ReceivedIsPrefix
  <2>2. CASE k + 1 # PartsOf(m)
    BY <1>1, <1>2, <1>5, <2>2 DEF ReceivedIsPrefix
  <2> QED BY <2>1, <2>2
<1>9. Shifted(number) \in [Nat -> Nat] /\ Shifted(part) \in [Nat -> Nat]
  BY <1>5, ShiftedType
<1>10. /\ Shifted(number)[1] = number[2] /\ Shifted(part)[1] = part[2]
       /\ Shifted(number)[n + 1] = number[(n + 1) + 1] /\ Shifted(part)[n + 1] = part[(n + 1) + 1]
  BY DEF Shifted
<1>11. Continues(ids, Shifted(number), Shifted(part))'
  <2>1. Placed(InFlight', n, sent, Len(sent), ids, Shifted(number), Shifted(part))
    <3>1. Placed(InFlight, n + 1, sent, Len(sent), ids, number, part)
      BY <1>5, <1>6 DEF Continues
    <3> QED BY <1>6, <3>1, PlacedTail
  <2>2. writing => number[(n + 1) + 1] = Len(sent) + 1 /\ part[(n + 1) + 1] = 0
    BY <1>5, <1>6 DEF Continues
  <2>3. CASE k + 1 = PartsOf(m)
    <3>1. Len(received') = R + 1
      BY <1>1, <1>5, <1>7, <2>3, AppendProperties DEF ReceivedIsPrefix
    <3>2. /\ Shifted(number)[1] = (R + 1) + 1 /\ Shifted(part)[1] = 0
          /\ incoming' = Nothing /\ incoming'.next_chunk = 0
      BY <1>5, <1>7, <1>10, <2>3 DEF Nothing
    <3> QED BY <1>2, <1>6, <1>10, <2>1, <2>2, <3>1, <3>2, Zenon DEF Continues
  <2>4. CASE k + 1 # PartsOf(m)
    <3>1. /\ Len(received') = R /\ Shifted(number)[1] = R + 1 /\ Shifted(part)[1] = k + 1
          /\ incoming' = Building(m, ids[R + 1], k + 1) /\ m = sent[R + 1]
      BY <1>5, <1>7, <1>10, <2>4
    <3>2. incoming'.next_chunk = k + 1 /\ k + 1 # 0
      BY <1>5, <3>1 DEF Building
    <3>3. R < N
      BY <1>7
    <3>4. /\ Len(received') < Len(sent')
          /\ incoming' = Building(sent'[Shifted(number)[1]], ids[Shifted(number)[1]], Shifted(part)[1])
      BY <1>2, <1>7, <3>1, <3>3
    <3> QED BY <1>2, <1>6, <1>10, <2>1, <2>2, <3>1, <3>2, <3>4, Zenon DEF Continues
  <2> QED BY <2>3, <2>4
<1>12. ids \in [Nat -> Ids]
  BY <1>5
<1> QED BY <1>1, <1>2, <1>4, <1>8, <1>9, <1>11, <1>12 DEF ChannelInv

(* Every step of the channel keeps it. *)
LEMMA InvNext == ChannelInv /\ [ChannelNext]_channelVars => ChannelInv'
<1> SUFFICES ASSUME ChannelInv, [ChannelNext]_channelVars PROVE ChannelInv'
  OBVIOUS
<1>1. CASE Encrypt
  BY <1>1, EncryptKeeps
<1>2. CASE WriteFrame
  BY <1>2, WriteFrameKeeps
<1>3. CASE WriteFails
  BY <1>3, WriteFailsKeeps
<1>4. CASE TakeFrame
  BY <1>4, TakeFrameKeeps
<1>5. CASE AnyFrameTaken
  <2>1. peer = "any" /\ UNCHANGED <<peer, sent, writing, outbox, wire>>
    BY <1>5 DEF AnyFrameTaken
  <2> QED BY <2>1 DEF ChannelInv, ChannelType
<1>6. CASE ReceiverLeaves \/ UNCHANGED channelVars
  <2>1. /\ UNCHANGED <<peer, sent, writing, outbox, wire, incoming, received>>
        /\ error' \in {error, "LEFT"}
    BY <1>6 DEF ReceiverLeaves, channelVars
  <2>2. InFlight' = InFlight
    BY <2>1 DEF InFlight
  <2>3. ChannelType' /\ (ReceivedIsPrefix' <=> ReceivedIsPrefix)
    BY <2>1 DEF ChannelInv, ChannelType, ReceivedIsPrefix
  <2>4. ASSUME NEW ids, NEW number, NEW part, Continues(ids, number, part)
        PROVE  Continues(ids, number, part)'
    BY <2>1, <2>2, <2>4 DEF Continues
  <2> QED BY <2>1, <2>3, <2>4 DEF ChannelInv
<1> QED BY <1>1, <1>2, <1>3, <1>4, <1>5, <1>6 DEF ChannelNext

(* The inductive invariant: what is in flight, what is put together and what  *)
(* is decoded are the messages sent, cut at one place.                        *)
LEMMA ChannelInvariant == ChannelSpec => []ChannelInv
<1>1. ChannelInit => ChannelInv
  BY InvInit
<1>2. ChannelInv /\ [ChannelNext]_channelVars => ChannelInv'
  BY InvNext
<1> QED BY <1>1, <1>2, PTL DEF ChannelSpec

(* For every size of a frame, of the header and of a message, an accepted     *)
(* message is cut into frames that encrypt_message may send, and              *)
(* decrypt_frame refuses none of them.                                        *)
THEOREM BothEndsAgreeOnLimits == ChannelSpec => []LimitsMeet
<1>1. ChannelInv => LimitsMeet
  <2> SUFFICES ASSUME ChannelInv PROVE LimitsMeet
    OBVIOUS
  <2>1. ChannelType
    BY DEF ChannelInv
  <2>2. ASSUME NEW n \in DOMAIN outbox
        PROVE  Plaintext(outbox[n]) \in 1 .. MaxPlaintext
    <3>1. PICK L \in Nat, B \in Nat : /\ L = Len(wire) /\ B = Len(outbox)
                                      /\ Len(InFlight) = L + B /\ n \in 1 .. B
      BY <2>1, <2>2, InFlightType, LenProperties DEF ChannelType
    <3>2. InFlight[L + n] = outbox[n]
      BY <2>1, <3>1, InFlightType
    <3>3. peer = "code"
      <4>1. outbox # <<>>
        BY <2>2
      <4> QED BY <4>1 DEF ChannelInv, ChannelType
    <3>4. PICK ids, number, part :
            /\ ids \in [Nat -> Ids] /\ number \in [Nat -> Nat] /\ part \in [Nat -> Nat]
            /\ Continues(ids, number, part)
      BY <3>3 DEF ChannelInv
    <3>5. Placed(InFlight, L + B, sent, Len(sent), ids, number, part)
      BY <3>1, <3>4 DEF Continues
    <3>6. L + n \in 1 .. L + B
      BY <3>1
    <3>7. /\ number[L + n] \in 1 .. Len(sent)
          /\ part[L + n] \in 0 .. PartsOf(sent[number[L + n]]) - 1
          /\ outbox[n] = FrameOf(sent[number[L + n]], ids[number[L + n]], part[L + n])
      BY <3>2, <3>5, <3>6, Zenon DEF Placed
    <3>8. sent[number[L + n]] \in Accepted
      BY <2>1, <3>7, ElementOfSeq DEF ChannelType
    <3>9. number[L + n] \in Nat
      BY <3>4, <3>6
    <3>10. ids[number[L + n]] \in Ids
      BY <3>4, <3>9
    <3> QED BY <3>7, <3>8, <3>10, FrameFits
  <2> QED BY <2>2 DEF ChannelInv, LimitsMeet
<1> QED BY <1>1, ChannelInvariant, PTL

(* The two ends implement the stream of messages of MessageStream, for every  *)
(* size: no message is lost, repeated, changed or overtaken, whatever of it   *)
(* is cut off.                                                                *)
THEOREM StreamKept == ChannelSpec => KeepsStream
<1> DEFINE mapped == IF peer = "code" THEN received ELSE <<>>
<1>1. ChannelInit => Channel!StreamInit
  BY DEF ChannelInit, Channel!StreamInit
<1>2. ChannelInv /\ [ChannelNext]_channelVars
        => [Channel!Send \/ Channel!Receive \/ Channel!Break]_<<sent, mapped, ~writing>>
  <2> SUFFICES ASSUME ChannelInv, [ChannelNext]_channelVars
               PROVE  [Channel!Send \/ Channel!Receive \/ Channel!Break]_<<sent, mapped, ~writing>>
    OBVIOUS
  <2>1. CASE Encrypt
    <3>1. /\ writing /\ UNCHANGED <<peer, received>>
          /\ \E m \in Messages :
                \/ sent' = Append(sent, m) /\ UNCHANGED writing
                \/ writing' = FALSE /\ UNCHANGED sent
      BY <2>1 DEF Encrypt, receiverVars
    <3> QED BY <3>1 DEF Channel!Send, Channel!Break
  <2>2. CASE WriteFrame
    BY <2>2 DEF WriteFrame, receiverVars
  <2>3. CASE WriteFails
    BY <2>3 DEF WriteFails, receiverVars, Channel!Break
  <2>4. CASE TakeFrame
    <3>1. UNCHANGED <<peer, sent, writing>> /\ peer = "code"
      BY <2>4, TakeFrameTakes DEF TakeFrame
    <3>2. \/ received' = received
          \/ Len(received) + 1 \in 1 .. Len(sent) /\ received' = Append(received, sent[Len(received) + 1])
      <4>1. PICK number, m, k :
              /\ number[1] = Len(received) + 1
              /\ number[1] \in 1 .. Len(sent) /\ m = sent[number[1]]
              /\ IF k + 1 = PartsOf(m) THEN received' = Append(received, m)
                 ELSE received' = received
        <5>1. PICK ids, number, part, m, k :
                /\ ids \in [Nat -> Ids] /\ number \in [Nat -> Nat] /\ part \in [Nat -> Nat]
                /\ Continues(ids, number, part)
                /\ number[1] \in 1 .. Len(sent) /\ m = sent[number[1]] /\ k = part[1]
                /\ m \in Accepted /\ k \in Nat
                /\ IF k + 1 = PartsOf(m)
                   THEN /\ received' = Append(received, m) /\ incoming' = Nothing
                        /\ number[2] = number[1] + 1 /\ part[2] = 0
                   ELSE /\ received' = received
                        /\ incoming' = Building(m, ids[number[1]], k + 1)
                        /\ number[2] = number[1] /\ part[2] = k + 1
          BY <2>4, TakeFrameTakes
        <5>2. number[1] = Len(received) + 1
          BY <5>1 DEF Continues
        <5> QED BY <5>1, <5>2
      <4> QED BY <4>1
    <3>3. Len(received) + 1 \in 1 .. Len(sent) => Len(received) < Len(sent)
      BY <3>1 DEF ChannelInv, ReceivedIsPrefix, ChannelType
    <3> QED BY <3>1, <3>2, <3>3 DEF Channel!Receive
  <2>5. CASE AnyFrameTaken
    BY <2>5 DEF AnyFrameTaken
  <2>6. CASE ReceiverLeaves \/ UNCHANGED channelVars
    BY <2>6 DEF ReceiverLeaves, channelVars
  <2> QED BY <2>1, <2>2, <2>3, <2>4, <2>5, <2>6 DEF ChannelNext
<1> QED BY <1>1, <1>2, ChannelInvariant, PTL DEF ChannelSpec, KeepsStream, Channel!Stream, Channel!streamVars
-----------------------------------------------------------------------------
(* What is put together from the frames of any peer. *)

\* The partial results of Assembled as a run of steps: step k adds part k + 1.
AddPart(run) ==
    [x \in Nat \X Seq(Bytes) |->
        IF x[1] < Len(run) THEN x[2] \o run[x[1] + 1].part ELSE x[2]]

(* The step that adds a part to what is put together gives bytes. *)
LEMMA AddPartType ==
    ASSUME NEW run \in Seq(FrameType)
    PROVE  /\ \A k \in Nat, v \in Seq(Bytes) : AddPart(run)[<<k, v>>] \in Seq(Bytes)
           /\ \A k \in 0 .. Len(run) - 1, v \in Seq(Bytes) :
                AddPart(run)[<<k, v>>] = v \o run[k + 1].part
<1>1. PICK n \in Nat : n = Len(run)
  OBVIOUS
<1>2. ASSUME NEW k \in Nat, NEW v \in Seq(Bytes), k < n
      PROVE  run[k + 1].part \in Seq(Bytes)
  <2>1. k + 1 \in 1 .. Len(run)
    BY <1>1, <1>2
  <2>2. run[k + 1] \in FrameType
    BY <2>1, ElementOfSeq
  <2> QED BY <2>2 DEF FrameType
<1>3. ASSUME NEW k \in Nat, NEW v \in Seq(Bytes)
      PROVE  AddPart(run)[<<k, v>>] = IF k < n THEN v \o run[k + 1].part ELSE v
  BY <1>1 DEF AddPart
<1>4. ASSUME NEW k \in Nat, NEW v \in Seq(Bytes), k < n
      PROVE  v \o run[k + 1].part \in Seq(Bytes)
  BY <1>2, <1>4, ConcatProperties
<1>5. \A k \in 0 .. n - 1 : k \in Nat /\ k < n
  BY <1>1
<1> QED BY <1>1, <1>3, <1>4, <1>5

(* Assembled is the result of all steps of that run. *)
LEMMA AssembledRuns ==
    ASSUME NEW run \in Seq(FrameType), NEW n \in Nat, n = Len(run)
    PROVE  \E g \in [0 .. n -> Seq(Bytes)] :
              Runs(g, n, <<>>, AddPart(run)) /\ Assembled(run) = g[n]
<1>1. PICK g \in [0 .. n -> Seq(Bytes)] : Runs(g, n, <<>>, AddPart(run))
  <2>1. PICK V, step, base : V = Seq(Bytes) /\ step = AddPart(run) /\ base = <<>>
    OBVIOUS
  <2>2. base \in V /\ \A k \in Nat, v \in V : step[<<k, v>>] \in V
    BY <2>1, AddPartType, EmptySeq
  <2>3. \A k \in Nat : \E g \in [0 .. k -> V] : Runs(g, k, base, step)
    BY <2>2, RunExists
  <2> QED BY <2>1, <2>3
<1>3. /\ g[0] = <<>>
      /\ \A k \in 0 .. n - 1 : g[k + 1] = g[k] \o run[k + 1].part
  <2>1. ASSUME NEW k \in 0 .. n - 1 PROVE g[k + 1] = g[k] \o run[k + 1].part
    <3>1. g[k + 1] = AddPart(run)[<<k, g[k]>>] /\ g[k] \in Seq(Bytes)
      BY <1>1 DEF Runs
    <3> QED BY <3>1, AddPartType
  <2> QED BY <1>1, <2>1 DEF Runs
<1> DEFINE upto[k \in 0 .. n] == IF k = 0 THEN <<>> ELSE upto[k - 1] \o run[k].part
<1>4. upto = [k \in 0 .. n |-> IF k = 0 THEN <<>> ELSE upto[k - 1] \o run[k].part]
  <2> SUFFICES \E u : u = [k \in 0 .. n |-> IF k = 0 THEN <<>> ELSE u[k - 1] \o run[k].part]
    OBVIOUS
  <2>1. ASSUME NEW k \in 0 .. n
        PROVE  g[k] = IF k = 0 THEN <<>> ELSE g[k - 1] \o run[k].part
    <3>1. CASE k = 0
      BY <1>3, <3>1
    <3>2. CASE k # 0
      <4>1. k - 1 \in 0 .. n - 1 /\ (k - 1) + 1 = k
        BY <3>2
      <4>2. g[(k - 1) + 1] = g[k - 1] \o run[(k - 1) + 1].part
        BY <1>3, <4>1
      <4> QED BY <3>2, <4>1, <4>2
    <3> QED BY <3>1, <3>2
  <2>2. g = [k \in 0 .. n |-> g[k]]
    OBVIOUS
  <2>3. g = [k \in 0 .. n |-> IF k = 0 THEN <<>> ELSE g[k - 1] \o run[k].part]
    BY <2>1, <2>2
  <2> QED BY <2>3, Zenon
<1>5. Assembled(run) = upto[n]
  BY DEF Assembled
<1> HIDE DEF upto
<1>6. \A k \in 0 .. n : upto[k] = IF k = 0 THEN <<>> ELSE upto[k - 1] \o run[k].part
  BY <1>4
<1> DEFINE S == {k \in Nat : k <= n => upto[k] = g[k]}
<1>7. 0 \in S
  BY <1>3, <1>6
<1>8. ASSUME NEW k \in Nat, k \in S PROVE k + 1 \in S
  <2> SUFFICES ASSUME k + 1 <= n PROVE upto[k + 1] = g[k + 1]
    OBVIOUS
  <2>1. k \in 0 .. n - 1 /\ k + 1 \in 0 .. n /\ k + 1 # 0 /\ (k + 1) - 1 = k
    OBVIOUS
  <2>2. upto[k] = g[k]
    BY <1>8, <2>1
  <2>3. upto[k + 1] = upto[(k + 1) - 1] \o run[k + 1].part
    BY <1>6, <2>1
  <2> QED BY <1>3, <2>1, <2>2, <2>3
<1> HIDE DEF S
<1>9. \A k \in Nat : k \in S
  BY <1>7, <1>8, Induction
<1>10. upto[n] = g[n]
  BY <1>9 DEF S
<1> QED BY <1>1, <1>5, <1>10

(* Nothing is put together from no frames, and one more frame adds its part. *)
LEMMA AssembledMore ==
    ASSUME NEW run \in Seq(FrameType), NEW more \in Seq(FrameType), NEW n \in Nat,
           Len(run) = n, Len(more) = n + 1, \A k \in 1 .. n : more[k] = run[k]
    PROVE  /\ Assembled(more) = Assembled(run) \o more[n + 1].part
           /\ Assembled(run) \in Seq(Bytes)
           /\ n = 0 => Assembled(run) = <<>>
<1>1. PICK g \in [0 .. n -> Seq(Bytes)] :
          Runs(g, n, <<>>, AddPart(run)) /\ Assembled(run) = g[n]
  BY AssembledRuns
<1>2. PICK h \in [0 .. n + 1 -> Seq(Bytes)] :
          Runs(h, n + 1, <<>>, AddPart(more)) /\ Assembled(more) = h[n + 1]
  <2>1. PICK m \in Nat : m = n + 1
    OBVIOUS
  <2>2. \E h \in [0 .. m -> Seq(Bytes)] :
          Runs(h, m, <<>>, AddPart(more)) /\ Assembled(more) = h[m]
    BY <2>1, AssembledRuns
  <2> QED BY <2>1, <2>2
<1>3. \A k \in 0 .. n - 1 : g[k + 1] = g[k] \o run[k + 1].part
  <2>1. ASSUME NEW k \in 0 .. n - 1 PROVE g[k + 1] = g[k] \o run[k + 1].part
    <3>1. g[k + 1] = AddPart(run)[<<k, g[k]>>] /\ g[k] \in Seq(Bytes)
      BY <1>1 DEF Runs
    <3> QED BY <3>1, AddPartType
  <2> QED BY <2>1
<1>4. \A k \in 0 .. n : h[k + 1] = h[k] \o more[k + 1].part
  <2>1. ASSUME NEW k \in 0 .. n PROVE h[k + 1] = h[k] \o more[k + 1].part
    <3>1. k \in 0 .. (n + 1) - 1 /\ k \in 0 .. n + 1
      OBVIOUS
    <3>2. h[k + 1] = AddPart(more)[<<k, h[k]>>] /\ h[k] \in Seq(Bytes)
      BY <1>2, <3>1 DEF Runs
    <3> QED BY <3>1, <3>2, AddPartType
  <2> QED BY <2>1
<1>5. g[0] = <<>> /\ h[0] = <<>>
  BY <1>1, <1>2 DEF Runs
<1> DEFINE S == {k \in Nat : k <= n => h[k] = g[k]}
<1>6. 0 \in S
  BY <1>5
<1>7. ASSUME NEW k \in Nat, k \in S PROVE k + 1 \in S
  <2> SUFFICES ASSUME k + 1 <= n PROVE h[k + 1] = g[k + 1]
    OBVIOUS
  <2>1. k \in 0 .. n - 1 /\ k \in 0 .. n /\ k + 1 \in 1 .. n
    OBVIOUS
  <2>2. h[k] = g[k]
    BY <1>7, <2>1
  <2>3. h[k + 1] = h[k] \o more[k + 1].part /\ g[k + 1] = g[k] \o run[k + 1].part
    BY <1>3, <1>4, <2>1
  <2> QED BY <2>1, <2>2, <2>3
<1> HIDE DEF S
<1>8. \A k \in Nat : k \in S
  BY <1>6, <1>7, Induction
<1>9. h[n] = g[n]
  BY <1>8 DEF S
<1>10. h[n + 1] = h[n] \o more[n + 1].part /\ g[n] \in Seq(Bytes)
  <2>1. n \in 0 .. n
    OBVIOUS
  <2> QED BY <1>4, <2>1
<1> QED BY <1>1, <1>2, <1>5, <1>9, <1>10
\* A message that is put together, of any peer.
Incoming == [id : Ids, total_chunks : Nat, next_chunk : Nat, payload : Seq(Bytes)]

ReceiverType ==
    /\ taken \in Seq(FrameType)
    /\ incoming \in Incoming
    /\ received \in Seq(Messages)

AnyPeerInv ==
    /\ peer \in {"code", "any"}
    /\ peer = "any" => ReceiverType
    /\ BufferIsOneRun

(* One more frame makes the last run longer by it. *)
LEMMA LastMore ==
    ASSUME NEW frames \in Seq(FrameType), NEW frame \in FrameType, NEW n \in Nat,
           n <= Len(frames)
    PROVE  /\ LastFrames(frames, n) \in Seq(FrameType)
           /\ LastFrames(Append(frames, frame), n + 1) \in Seq(FrameType)
           /\ Len(LastFrames(frames, n)) = n
           /\ Len(LastFrames(Append(frames, frame), n + 1)) = n + 1
           /\ \A k \in 1 .. n :
                LastFrames(Append(frames, frame), n + 1)[k] = LastFrames(frames, n)[k]
           /\ LastFrames(Append(frames, frame), n + 1)[n + 1] = frame
<1>1. PICK L \in Nat : L = Len(frames) /\ n <= L
  OBVIOUS
<1>2. PICK more : more = Append(frames, frame)
  OBVIOUS
<1>3. /\ more \in Seq(FrameType) /\ Len(more) = L + 1 /\ more[L + 1] = frame
      /\ \A k \in 1 .. L : more[k] = frames[k]
  BY <1>1, <1>2, AppendProperties
<1>4. /\ LastFrames(frames, n) = SubSeq(frames, L - n + 1, L)
      /\ LastFrames(more, n + 1) = SubSeq(more, (L + 1) - (n + 1) + 1, L + 1)
  BY <1>1, <1>3 DEF LastFrames
<1>5. PICK a \in Nat \ {0} : a = L - n + 1
  <2>1. L - n + 1 \in Nat \ {0}
    BY <1>1
  <2> QED BY <2>1
<1>6. (L + 1) - (n + 1) + 1 = a /\ a <= L + 1 /\ n = L - a + 1 /\ n + 1 = (L + 1) - a + 1
  BY <1>1, <1>5
<1>7. (\A k \in a .. L : frames[k] \in FrameType) /\ (\A k \in a .. L + 1 : more[k] \in FrameType)
  <2>1. ASSUME NEW k \in a .. L PROVE frames[k] \in FrameType
    <3>1. k \in 1 .. Len(frames)
      BY <1>1
    <3> QED BY <3>1, ElementOfSeq
  <2>2. ASSUME NEW k \in a .. L + 1 PROVE more[k] \in FrameType
    <3>1. k \in 1 .. Len(more)
      BY <1>3
    <3> QED BY <1>3, <3>1, ElementOfSeq
  <2> QED BY <2>1, <2>2
<1>8. /\ SubSeq(frames, a, L) \in Seq(FrameType)
      /\ Len(SubSeq(frames, a, L)) = n
      /\ \A k \in 1 .. n : SubSeq(frames, a, L)[k] = frames[a + k - 1]
  <2>1. a \in Int /\ L \in Int
    BY <1>1
  <2>2. /\ SubSeq(frames, a, L) \in Seq(FrameType)
        /\ Len(SubSeq(frames, a, L)) = IF a <= L THEN L - a + 1 ELSE 0
        /\ \A k \in 1 .. L - a + 1 : SubSeq(frames, a, L)[k] = frames[a + k - 1]
    BY <1>7, <2>1, SubSeqProperties
  <2>3. (IF a <= L THEN L - a + 1 ELSE 0) = n
    BY <1>6
  <2> QED BY <1>6, <2>2, <2>3
<1>9. /\ SubSeq(more, a, L + 1) \in Seq(FrameType)
      /\ Len(SubSeq(more, a, L + 1)) = n + 1
      /\ \A k \in 1 .. n + 1 : SubSeq(more, a, L + 1)[k] = more[a + k - 1]
  <2>1. a \in Int /\ L + 1 \in Int
    BY <1>1
  <2>2. /\ SubSeq(more, a, L + 1) \in Seq(FrameType)
        /\ Len(SubSeq(more, a, L + 1)) = IF a <= L + 1 THEN (L + 1) - a + 1 ELSE 0
        /\ \A k \in 1 .. (L + 1) - a + 1 : SubSeq(more, a, L + 1)[k] = more[a + k - 1]
    BY <1>7, <2>1, SubSeqProperties
  <2>3. (IF a <= L + 1 THEN (L + 1) - a + 1 ELSE 0) = n + 1
    BY <1>6
  <2> QED BY <1>6, <2>2, <2>3
<1>10. ASSUME NEW k \in 1 .. n
       PROVE  SubSeq(more, a, L + 1)[k] = SubSeq(frames, a, L)[k]
  <2>1. k \in 1 .. n + 1 /\ a + k - 1 \in 1 .. L
    BY <1>6
  <2> QED BY <1>3, <1>8, <1>9, <2>1
<1>11. SubSeq(more, a, L + 1)[n + 1] = frame
  <2>1. n + 1 \in 1 .. n + 1 /\ a + (n + 1) - 1 = L + 1
    BY <1>6
  <2> QED BY <1>3, <1>9, <2>1
<1> QED BY <1>2, <1>4, <1>5, <1>6, <1>8, <1>9, <1>10, <1>11

(* The frames a peer is given to send. *)
LEMMA AnyFramesType ==
    ASSUME NEW frame \in AnyFrames
    PROVE  /\ frame \in FrameType
           /\ frame.kind = "fragment" =>
                frame = Fragment(frame.id, frame.index, frame.total, frame.part)
<1>1. ASSUME NEW part \in Parts PROVE part \in Seq(Bytes)
  <2>1. CASE part = <<>>
    BY <2>1, EmptySeq
  <2>2. CASE part # <<>>
    <3>1. PICK m \in ForgedFrom : \E first, last \in 1 .. m : part = SubSeq(Payload(m), first, last)
      BY <2>2 DEF Parts
    <3>2. PICK first \in 1 .. m, last \in 1 .. m : part = SubSeq(Payload(m), first, last)
      BY <3>1
    <3>3. m \in Nat
      BY ForgedAssumption, SizesAreNumbers
    <3>4. \A k \in first .. last : Payload(m)[k] \in Bytes
      BY <3>3, PayloadIsBytes, ElementOfSeq
    <3>5. first \in Int /\ last \in Int
      BY <3>3
    <3>6. SubSeq(Payload(m), first, last) \in Seq(Bytes)
      BY <3>4, <3>5, SubSeqProperties
    <3> QED BY <3>2, <3>6
  <2> QED BY <2>1, <2>2
<1>2. CASE frame = Short
  BY <1>2, EmptySeq DEF Short, FrameType, Ids
<1>3. CASE \E part \in Parts : frame = Whole(part)
  BY <1>1, <1>3 DEF Whole, FrameType, Ids
<1>4. CASE \E id \in ChunkIds, index \in Indexes, total \in Indexes, part \in Parts :
              frame = Fragment(id, index, total, part)
  <2>1. PICK id \in ChunkIds, index \in Indexes, total \in Indexes, part \in Parts :
              frame = Fragment(id, index, total, part)
    BY <1>4
  <2>2. index \in Nat /\ total \in Nat /\ part \in Seq(Bytes) /\ id \in Ids
    BY <1>1 DEF Indexes, Ids
  <2> QED BY <2>1, <2>2 DEF Fragment, FrameType
<1> QED BY <1>2, <1>3, <1>4 DEF AnyFrames
DecodedAs(payload) ==
    /\ incoming' = Nothing
    /\ \E m \in Messages : payload = Payload(m) /\ received' = Append(received, m)

(* A frame that is taken without an error is all of a message, or the next    *)
(* fragment of the one that is put together.                                  *)
LEMMA TakenFrame ==
    ASSUME NEW frame, error = "none", DecryptFrame(frame), error' = "none",
           NEW message, message = Continued(frame)
    PROVE  \/ frame.kind = "whole" /\ DecodedAs(frame.part)
           \/ /\ frame.kind = "fragment"
              /\ frame.index < frame.total
              /\ frame.index = 0 <=> incoming = Nothing
              /\ Fits(frame, message)
              /\ ~TooMuch(message.payload \o frame.part)
              /\ \/ /\ message.next_chunk + 1 # message.total_chunks
                    /\ incoming' = [message EXCEPT !.next_chunk = @ + 1,
                                                   !.payload = message.payload \o frame.part]
                    /\ received' = received
                 \/ /\ message.next_chunk + 1 = message.total_chunks
                    /\ DecodedAs(message.payload \o frame.part)
<1>1. \/ frame.kind = "whole" /\ TakeWhole(frame)
      \/ frame.kind = "fragment" /\ TakeFragment(frame)
  BY DEF DecryptFrame, Refuses
<1>2. ASSUME NEW payload, Decodes(payload) PROVE DecodedAs(payload)
  BY <1>2 DEF Decodes, DecodedAs, Refuses
<1>3. CASE frame.kind = "whole" /\ TakeWhole(frame)
  BY <1>2, <1>3 DEF TakeWhole, Refuses
<1>4. CASE frame.kind = "fragment" /\ TakeFragment(frame)
  <2> DEFINE payload == message.payload \o frame.part
  <2>1. /\ frame.index < frame.total
        /\ frame.index = 0 <=> incoming = Nothing
        /\ Fits(frame, message)
        /\ ~TooMuch(payload)
        /\ \/ /\ message.next_chunk + 1 # message.total_chunks
              /\ incoming' = [message EXCEPT !.next_chunk = @ + 1, !.payload = payload]
              /\ received' = received
           \/ /\ message.next_chunk + 1 = message.total_chunks
              /\ Decodes(payload)
    BY <1>4, Zenon DEF TakeFragment, Refuses
  <2> HIDE DEF payload
  <2>2. Decodes(payload) => DecodedAs(payload)
    BY <1>2
  <2> USE DEF payload
  <2> QED BY <1>4, <2>1, <2>2, Zenon
<1> QED BY <1>1, <1>3, <1>4

(* The last frames taken, with the one taken now, are the fragments so far of *)
(* the message that is put together.                                          *)
LEMMA RunContinues ==
    ASSUME AnyPeerInv, peer = "any", NEW frame \in AnyFrames,
           frame.kind = "fragment", frame.index < frame.total,
           frame.index = 0 <=> incoming = Nothing,
           NEW message, message = Continued(frame), Fits(frame, message)
    PROVE  /\ message \in Incoming
           /\ frame.index \in Nat /\ frame.index + 1 <= Len(Append(taken, frame))
           /\ IsRun(LastFrames(Append(taken, frame), frame.index + 1), frame.id, frame.total)
           /\ message.payload \o frame.part
                = Assembled(LastFrames(Append(taken, frame), frame.index + 1))
           /\ message.payload \o frame.part \in Seq(Bytes)
<1>1. /\ taken \in Seq(FrameType) /\ incoming \in Incoming
      /\ frame \in FrameType
      /\ frame = Fragment(frame.id, frame.index, frame.total, frame.part)
  BY AnyFramesType DEF AnyPeerInv, ReceiverType
<1>2. /\ frame.id \in Ids /\ frame.index \in Nat /\ frame.total \in Nat /\ frame.part \in Seq(Bytes)
  BY <1>1 DEF FrameType
<1>3. message \in Incoming
  BY <1>1, <1>2, EmptySeq DEF Continued, Incoming
<1>4. /\ message.id = frame.id /\ message.total_chunks = frame.total
      /\ message.next_chunk = frame.index
  BY DEF Fits
<1>5. PICK n \in Nat : n = frame.index
  BY <1>2
<1> DEFINE run == LastFrames(taken, n)
           more == LastFrames(Append(taken, frame), n + 1)
<1>6. n <= Len(taken)
  <2>1. CASE n = 0
    BY <1>1, <2>1
  <2>2. CASE n # 0
    <3>1. incoming # Nothing /\ message = incoming
      BY <1>5, <2>2 DEF Continued
    <3>2. BufferIsOneRun
      BY DEF AnyPeerInv
    <3> QED BY <1>4, <1>5, <3>1, <3>2 DEF BufferIsOneRun
  <2> QED BY <2>1, <2>2
<1>7. /\ run \in Seq(FrameType) /\ more \in Seq(FrameType)
      /\ Len(run) = n /\ Len(more) = n + 1
      /\ \A k \in 1 .. n : more[k] = run[k]
      /\ more[n + 1] = frame
  BY <1>1, <1>6, LastMore
<1>8. Len(Append(taken, frame)) = Len(taken) + 1 /\ Len(taken) \in Nat
  BY <1>1, AppendProperties
<1> HIDE DEF run, more
<1>9. /\ Assembled(more) = Assembled(run) \o frame.part /\ Assembled(run) \in Seq(Bytes)
      /\ n = 0 => Assembled(run) = <<>>
  BY <1>7, AssembledMore
<1>10. Assembled(run) \o frame.part \in Seq(Bytes)
  BY <1>2, <1>9, ConcatProperties
<1>13. IsRun(run, frame.id, frame.total) /\ message.payload = Assembled(run)
  <2>1. CASE n = 0
    <3>1. \A k \in DOMAIN run : FALSE
      BY <1>7, <2>1, LenProperties
    <3>2. message.payload = <<>>
      BY <1>5, <2>1 DEF Continued
    <3> QED BY <1>9, <2>1, <3>1, <3>2 DEF IsRun
  <2>2. CASE n # 0
    <3>1. incoming # Nothing /\ message = incoming
      BY <1>5, <2>2 DEF Continued
    <3>2. BufferIsOneRun
      BY DEF AnyPeerInv
    <3> QED BY <1>4, <1>5, <3>1, <3>2 DEF BufferIsOneRun, run
  <2> QED BY <2>1, <2>2
<1>11. IsRun(more, frame.id, frame.total)
  <2> SUFFICES ASSUME NEW k \in 1 .. n + 1
               PROVE  more[k] = Fragment(frame.id, k - 1, frame.total, more[k].part)
    BY <1>7, LenProperties DEF IsRun
  <2>1. CASE k \in 1 .. n
    <3>1. k \in DOMAIN run
      BY <1>7, <2>1, LenProperties
    <3> QED BY <1>7, <1>13, <2>1, <3>1 DEF IsRun
  <2>2. CASE k = n + 1
    <3>1. k - 1 = frame.index
      BY <1>5, <2>2
    <3> QED BY <1>1, <1>7, <2>2, <3>1
  <2> QED BY <2>1, <2>2
<1>12. n + 1 <= Len(Append(taken, frame))
  BY <1>6, <1>8
<1> QED BY <1>2, <1>3, <1>5, <1>9, <1>10, <1>11, <1>12, <1>13 DEF more
\* The body of DecodedFromOneRun.
DecodesOneRun ==
    peer = "any" /\ received' # received =>
        \E n \in 1 .. Len(taken') :
            LET run == LastFrames(taken', n) IN
            /\ Assembled(run) = Payload(received'[Len(received')])
            /\ \/ n = 1 /\ run[1].kind = "whole"
               \/ IsRun(run, run[1].id, n)

(* A message just decoded is the last one received. *)
LEMMA AppendedLast ==
    ASSUME received \in Seq(Messages), NEW m \in Messages, received' = Append(received, m)
    PROVE  received' \in Seq(Messages) /\ received'[Len(received')] = m
BY AppendProperties

(* Taking a frame of any peer keeps the buffer one run. *)
LEMMA AnyFrameKeeps ==
    ASSUME AnyPeerInv, AnyFrameTaken
    PROVE  AnyPeerInv' /\ DecodesOneRun
<1>1. /\ peer = "any" /\ error = "none" /\ peer' = peer
      /\ taken \in Seq(FrameType) /\ incoming \in Incoming /\ received \in Seq(Messages)
  BY DEF AnyFrameTaken, AnyPeerInv, ReceiverType
<1>2. PICK frame \in AnyFrames :
        /\ DecryptFrame(frame)
        /\ taken' = IF error' = "none" THEN Append(taken, frame) ELSE taken
  BY DEF AnyFrameTaken
<1>3. frame \in FrameType
  BY AnyFramesType
<1>4. Nothing \in Incoming
  BY EmptySeq DEF Nothing, Incoming, Ids
<1>5. CASE error' # "none"
  <2>1. taken' = taken /\ received' = received
    <3>1. \A payload : Decodes(payload) => received' = received
      BY <1>1, <1>5 DEF Decodes, Refuses
    <3> QED BY <1>1, <1>2, <1>5, <3>1 DEF DecryptFrame, TakeWhole, TakeFragment, Refuses
  <2>2. incoming' \in {Nothing, incoming}
    <3>1. \A payload : Decodes(payload) => incoming' = Nothing
      BY DEF Decodes, Refuses
    <3> QED BY <1>1, <1>2, <1>5, <3>1 DEF DecryptFrame, TakeWhole, TakeFragment, Refuses
  <2>3. CASE incoming' = incoming
    BY <1>1, <2>1, <2>3 DEF AnyPeerInv, ReceiverType, BufferIsOneRun, DecodesOneRun
  <2>4. CASE incoming' = Nothing
    BY <1>1, <1>4, <2>1, <2>4 DEF AnyPeerInv, ReceiverType, BufferIsOneRun, DecodesOneRun
  <2> QED BY <2>2, <2>3, <2>4
<1>6. CASE error' = "none"
  <2>1. taken' = Append(taken, frame)
    BY <1>2, <1>6
  <2>2. taken' \in Seq(FrameType) /\ Len(taken') = Len(taken) + 1 /\ Len(taken) \in Nat
    BY <1>1, <1>3, <2>1, AppendProperties
  <2>3. PICK message : message = Continued(frame)
    OBVIOUS
  <2>4. \/ frame.kind = "whole" /\ DecodedAs(frame.part)
        \/ /\ frame.kind = "fragment"
           /\ frame.index < frame.total
           /\ frame.index = 0 <=> incoming = Nothing
           /\ Fits(frame, message)
           /\ ~TooMuch(message.payload \o frame.part)
           /\ \/ /\ message.next_chunk + 1 # message.total_chunks
                 /\ incoming' = [message EXCEPT !.next_chunk = @ + 1,
                                                !.payload = message.payload \o frame.part]
                 /\ received' = received
              \/ /\ message.next_chunk + 1 = message.total_chunks
                 /\ DecodedAs(message.payload \o frame.part)
    BY <1>1, <1>2, <1>6, <2>3, TakenFrame
  <2>5. CASE frame.kind = "whole" /\ DecodedAs(frame.part)
    <3>1. PICK m \in Messages : frame.part = Payload(m) /\ received' = Append(received, m)
      BY <2>5 DEF DecodedAs
    <3>2. received' \in Seq(Messages) /\ received'[Len(received')] = m
      BY <1>1, <3>1, AppendedLast
    <3>3. incoming' = Nothing
      BY <2>5 DEF DecodedAs
    <3>4. AnyPeerInv'
      BY <1>1, <1>4, <2>2, <3>2, <3>3 DEF AnyPeerInv, ReceiverType, BufferIsOneRun
    <3>5. PICK n \in Nat : n = 0 /\ n <= Len(taken)
      BY <2>2
    <3> DEFINE none == LastFrames(taken, n)
               run == LastFrames(Append(taken, frame), n + 1)
    <3>6. /\ none \in Seq(FrameType) /\ run \in Seq(FrameType)
          /\ Len(none) = n /\ Len(run) = n + 1
          /\ \A k \in 1 .. n : run[k] = none[k]
          /\ run[n + 1] = frame
      <4>1. taken \in Seq(FrameType)
        BY <1>1
      <4>2. n <= Len(taken)
        BY <3>5
      <4> QED BY <1>3, <4>1, <4>2, LastMore
    <3>12. run = LastFrames(taken', 1)
      BY <2>1, <3>5
    <3> HIDE DEF none, run
    <3>7. Assembled(run) = <<>> \o frame.part
      <4>1. Assembled(run) = Assembled(none) \o run[n + 1].part /\ Assembled(none) = <<>>
        BY <3>5, <3>6, AssembledMore
      <4> QED BY <3>6, <4>1
    <3>8. frame.part \in Seq(Bytes)
      BY <1>3 DEF FrameType
    <3>9. Assembled(run) = Payload(m) /\ run[1].kind = "whole"
      BY <2>5, <3>1, <3>5, <3>6, <3>7, <3>8, ConcatEmptySeq
    <3>10. 1 \in 1 .. Len(taken')
      BY <2>2
    <3>11. DecodesOneRun
      BY <3>2, <3>9, <3>10, <3>12 DEF DecodesOneRun
    <3> QED BY <3>4, <3>11
  <2>6. CASE frame.kind = "fragment"
    <3> DEFINE payload == message.payload \o frame.part
               run == LastFrames(taken', frame.index + 1)
    <3>1. /\ frame.index < frame.total
          /\ frame.index = 0 <=> incoming = Nothing
          /\ Fits(frame, message)
          /\ ~TooMuch(payload)
          /\ \/ /\ message.next_chunk + 1 # message.total_chunks
                /\ incoming' = [message EXCEPT !.next_chunk = @ + 1, !.payload = payload]
                /\ received' = received
             \/ /\ message.next_chunk + 1 = message.total_chunks
                /\ DecodedAs(payload)
      BY <2>4, <2>6
    <3>2. /\ message \in Incoming
          /\ frame.index \in Nat /\ frame.index + 1 <= Len(taken')
          /\ IsRun(run, frame.id, frame.total)
          /\ payload = Assembled(run)
          /\ payload \in Seq(Bytes)
      BY <1>1, <2>1, <2>3, <2>6, <3>1, RunContinues
    <3>3. frame.total \in Nat
      BY <1>3 DEF FrameType
    <3>4. /\ message.id = frame.id /\ message.total_chunks = frame.total
          /\ message.next_chunk = frame.index
      BY <3>1 DEF Fits
    <3>5. Len(payload) <= MaxMessage
      BY <3>1, <3>2, SizesAreNumbers, LenProperties DEF TooMuch
    <3> HIDE DEF payload, run
    <3>6. CASE /\ message.next_chunk + 1 # message.total_chunks
               /\ incoming' = [message EXCEPT !.next_chunk = @ + 1, !.payload = payload]
               /\ received' = received
      <4>1. /\ incoming' \in Incoming
            /\ incoming'.id = frame.id /\ incoming'.total_chunks = frame.total
            /\ incoming'.next_chunk = frame.index + 1 /\ incoming'.payload = payload
        <5>1. PICK next : next = frame.index + 1
          OBVIOUS
        <5>2. next \in Nat /\ message.next_chunk + 1 = next
          BY <3>2, <3>4, <5>1
        <5>3. incoming' = [id |-> message.id, total_chunks |-> message.total_chunks,
                           next_chunk |-> next, payload |-> payload]
          BY <3>2, <3>6, <5>2 DEF Incoming
        <5>4. message.id \in Ids /\ message.total_chunks \in Nat
          BY <3>2 DEF Incoming
        <5> QED BY <3>2, <3>4, <5>1, <5>2, <5>3, <5>4 DEF Incoming
      <4>2. frame.index + 1 < frame.total
        BY <3>1, <3>2, <3>3, <3>4, <3>6
      <4>3. LastFrames(taken', incoming'.next_chunk) = run
        BY <4>1 DEF run
      <4>4. BufferIsOneRun'
        BY <3>2, <3>5, <4>1, <4>2, <4>3 DEF BufferIsOneRun
      <4> QED BY <1>1, <2>2, <3>6, <4>1, <4>4 DEF AnyPeerInv, ReceiverType, DecodesOneRun
    <3>7. CASE /\ message.next_chunk + 1 = message.total_chunks
               /\ DecodedAs(payload)
      <4>1. PICK m \in Messages : payload = Payload(m) /\ received' = Append(received, m)
        BY <3>7 DEF DecodedAs
      <4>2. received' \in Seq(Messages) /\ received'[Len(received')] = m
        BY <1>1, <4>1, AppendedLast
      <4>3. incoming' = Nothing
        BY <3>7 DEF DecodedAs
      <4>4. AnyPeerInv'
        BY <1>1, <1>4, <2>2, <4>2, <4>3 DEF AnyPeerInv, ReceiverType, BufferIsOneRun
      <4>5. frame.total = frame.index + 1 /\ frame.total \in 1 .. Len(taken')
        BY <2>2, <3>2, <3>4, <3>7
      <4>6. run = LastFrames(taken', frame.total)
        BY <4>5 DEF run
      <4>7. run[1].id = frame.id
        <5>1. Len(run) = frame.index + 1 /\ run \in Seq(FrameType)
          <6>1. PICK n \in Nat : n = frame.index /\ n <= Len(taken)
            BY <2>2, <3>2
          <6>2. /\ Len(LastFrames(Append(taken, frame), n + 1)) = n + 1
                /\ LastFrames(Append(taken, frame), n + 1) \in Seq(FrameType)
            <7>1. taken \in Seq(FrameType)
              BY <1>1
            <7>2. n <= Len(taken)
              BY <6>1
            <7> QED BY <1>3, <7>1, <7>2, LastMore
          <6> QED BY <2>1, <6>1, <6>2 DEF run
        <5>2. 1 \in DOMAIN run
          BY <3>2, <5>1, LenProperties
        <5>3. run[1] = Fragment(frame.id, 1 - 1, frame.total, run[1].part)
          BY <3>2, <5>2 DEF IsRun
        <5> QED BY <5>3 DEF Fragment
      <4>8. Assembled(run) = Payload(received'[Len(received')]) /\ IsRun(run, run[1].id, frame.total)
        BY <3>2, <4>1, <4>2, <4>7
      <4>9. DecodesOneRun
        BY <4>5, <4>6, <4>8 DEF DecodesOneRun
      <4> QED BY <4>4, <4>9
    <3> QED BY <3>1, <3>6, <3>7
  <2> QED BY <2>4, <2>5, <2>6
<1> QED BY <1>5, <1>6

(* A message is decoded from one run only. *)
LEMMA AnyPeerStep ==
    ASSUME ChannelInv, AnyPeerInv, [ChannelNext]_channelVars
    PROVE  AnyPeerInv' /\ [DecodesOneRun]_channelVars
<1>1. CASE Encrypt \/ WriteFrame \/ WriteFails \/ TakeFrame
  <2>1. peer # "any" /\ peer' = peer
    BY <1>1 DEF Encrypt, WriteFrame, WriteFails, TakeFrame, ChannelInv
  <2> QED BY <2>1 DEF AnyPeerInv, BufferIsOneRun, DecodesOneRun
<1>2. CASE AnyFrameTaken
  BY <1>2, AnyFrameKeeps
<1>3. CASE ReceiverLeaves \/ UNCHANGED channelVars
  <2>1. UNCHANGED <<peer, incoming, received, taken>>
    BY <1>3 DEF ReceiverLeaves, channelVars
  <2> QED BY <2>1 DEF AnyPeerInv, ReceiverType, BufferIsOneRun, DecodesOneRun
<1> QED BY <1>1, <1>2, <1>3 DEF ChannelNext

(* Whatever a peer sends, the buffer is one run. *)
LEMMA AnyPeerInvariant == ChannelSpec => []AnyPeerInv
<1>1. ChannelInit => AnyPeerInv
  BY EmptySeq DEF ChannelInit, AnyPeerInv, ReceiverType, BufferIsOneRun, Nothing, Incoming, Ids
<1>2. ChannelInv /\ AnyPeerInv /\ [ChannelNext]_channelVars => AnyPeerInv'
  BY AnyPeerStep
<1> QED BY <1>1, <1>2, ChannelInvariant, PTL DEF ChannelSpec

(* Whatever frames a peer sends, what is being put together is exactly the    *)
(* frames taken since its first fragment, and within the limit of a message.  *)
THEOREM BufferHoldsOneRun == ChannelSpec => []BufferIsOneRun
<1>1. AnyPeerInv => BufferIsOneRun
  BY DEF AnyPeerInv
<1> QED BY <1>1, AnyPeerInvariant, PTL

(* Whatever frames a peer sends, a message is decoded only from one whole     *)
(* frame or from all the fragments of one message, in order and with nothing  *)
(* in between.                                                                *)
THEOREM DecodedOnlyFromOneRun == ChannelSpec => DecodedFromOneRun
<1>1. ChannelInv /\ AnyPeerInv /\ [ChannelNext]_channelVars => [DecodesOneRun]_channelVars
  BY AnyPeerStep
<1> QED BY <1>1, ChannelInvariant, AnyPeerInvariant, PTL
        DEF ChannelSpec, DecodedFromOneRun, DecodesOneRun
=============================================================================
