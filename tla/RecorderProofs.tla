--------------------------- MODULE RecorderProofs ---------------------------
(***************************************************************************)
(* Proofs about Recorder, for every limit of the buffer, every chunk size, *)
(* and every number of frames the device delivers.                         *)
(***************************************************************************)
EXTENDS Recorder, SequenceTheorems, TLAPS

\* Who holds the lock, and what it means that a stream is not running any more.
LockOK ==
    /\ holder = "callback" <=> frames > 0
    /\ holder = "ui" <=> ui = "draining"
StreamOK ==
    /\ overflowed = TRUE => stream # "running" /\ frames = 0
    /\ ui \in {"finishing"} \cup Finished => stream = "closed" /\ frames = 0
    /\ stream = "closed" => ui \in {"finishing"} \cup Finished
\* Without an overflow every frame is sent, buffered, or in the callback's hands.
NothingLost == overflowed = FALSE => Len(sent) + Len(samples) + frames = captured
CompleteOK == ui = "complete" => overflowed = FALSE /\ samples = <<>>

IInv == TypeOK /\ LockOK /\ StreamOK /\ SentAsCaptured /\ NothingLost /\ CompleteOK

\* Samples taken from the front of the buffer continue what was sent.
LEMMA TakesKeeps ==
    ASSUME IInv, NEW n \in 0 .. Len(samples), Takes(n)
    PROVE /\ samples' \in Seq(1 .. MaxCaptured) /\ Len(samples') = Len(samples) - n
          /\ sent' \in Seq(1 .. MaxCaptured) /\ Len(sent') = Len(sent) + n
          /\ SentAsCaptured'
<1>1. /\ samples \in Seq(1 .. MaxCaptured) /\ sent \in Seq(1 .. MaxCaptured)
      /\ Len(samples) \in Nat /\ Len(sent) \in Nat /\ n \in Nat
  BY LenProperties DEF IInv, TypeOK
<1> DEFINE front == SubSeq(samples, 1, n)
           back == SubSeq(samples, n + 1, Len(samples))
<1>2. \A i \in 1 .. Len(samples) : samples[i] \in 1 .. MaxCaptured
  BY <1>1, LenProperties
<1>3. front \in Seq(1 .. MaxCaptured) /\ Len(front) = n
      /\ \A i \in 1 .. n : front[i] = samples[i]
  BY <1>1, <1>2, SubSeqProperties
<1>4. back \in Seq(1 .. MaxCaptured) /\ Len(back) = Len(samples) - n
      /\ \A i \in 1 .. Len(samples) - n : back[i] = samples[n + i]
  <2>1. n + 1 \in Int /\ Len(samples) \in Int
        /\ \A i \in n + 1 .. Len(samples) : samples[i] \in 1 .. MaxCaptured
    BY <1>1, <1>2
  <2>2. /\ back \in Seq(1 .. MaxCaptured)
        /\ Len(back) = IF n + 1 <= Len(samples) THEN Len(samples) - (n + 1) + 1 ELSE 0
        /\ \A i \in 1 .. Len(samples) - (n + 1) + 1 : back[i] = samples[n + 1 + i - 1]
    BY <2>1, SubSeqProperties
  <2> HIDE DEF back
  <2> QED BY <1>1, <2>2
<1>5. sent' = sent \o front /\ samples' = back
  BY DEF Takes
<1> HIDE DEF front, back
<1>6. /\ sent' \in Seq(1 .. MaxCaptured) /\ Len(sent') = Len(sent) + n
      /\ \A i \in 1 .. Len(sent) + n :
            sent'[i] = IF i <= Len(sent) THEN sent[i] ELSE front[i - Len(sent)]
  <2>1. /\ sent \o front \in Seq(1 .. MaxCaptured)
        /\ Len(sent \o front) = Len(sent) + Len(front)
        /\ \A i \in 1 .. Len(sent) + Len(front) :
              (sent \o front)[i] = IF i <= Len(sent) THEN sent[i] ELSE front[i - Len(sent)]
    BY <1>1, <1>3, ConcatProperties, Zenon
  <2> QED BY <2>1, <1>3, <1>5
<1>7. \A i \in 1 .. Len(sent') : sent'[i] = i
  <2>1. /\ \A i \in 1 .. Len(sent) : sent[i] = i
        /\ \A i \in 1 .. n : front[i] = Len(sent) + i
    BY <1>1, <1>3 DEF IInv, SentAsCaptured
  <2> SUFFICES ASSUME NEW i \in 1 .. Len(sent) + n PROVE sent'[i] = i
    BY <1>6
  <2>2. CASE i <= Len(sent)
    BY <1>1, <1>6, <2>1, <2>2
  <2>3. CASE ~(i <= Len(sent))
    <3>1. i - Len(sent) \in 1 .. n /\ Len(sent) + (i - Len(sent)) = i
      BY <1>1, <2>3
    <3>2. sent'[i] = front[i - Len(sent)]
      BY <1>6, <2>3
    <3> QED BY <3>1, <3>2, <2>1
  <2> QED BY <2>2, <2>3
<1>8. \A i \in 1 .. Len(samples') : samples'[i] = Len(sent') + i
  <2>1. \A i \in 1 .. Len(samples) : samples[i] = Len(sent) + i
    BY DEF IInv, SentAsCaptured
  <2> SUFFICES ASSUME NEW i \in 1 .. Len(samples) - n PROVE samples'[i] = Len(sent) + n + i
    BY <1>1, <1>4, <1>5, <1>6
  <2>2. n + i \in 1 .. Len(samples) /\ samples'[i] = samples[n + i]
    BY <1>1, <1>4, <1>5
  <2> QED BY <1>1, <2>1, <2>2
<1> QED BY <1>4, <1>5, <1>6, <1>7, <1>8 DEF SentAsCaptured

\* The frames of a callback continue what is buffered.
LEMMA AppendKeeps ==
    ASSUME IInv, overflowed = FALSE, frames > 0,
           samples' = samples \o Numbers(captured - frames, frames), UNCHANGED sent
    PROVE /\ samples' \in Seq(1 .. MaxCaptured) /\ Len(samples') = Len(samples) + frames
          /\ SentAsCaptured'
<1>1. /\ samples \in Seq(1 .. MaxCaptured) /\ sent \in Seq(1 .. MaxCaptured)
      /\ Len(samples) \in Nat /\ Len(sent) \in Nat
      /\ frames \in Nat /\ captured \in 0 .. MaxCaptured /\ MaxCaptured \in Nat
      /\ captured - frames = Len(sent) + Len(samples)
  BY RecorderAssumption DEF IInv, TypeOK, NothingLost
<1> DEFINE new == Numbers(captured - frames, frames)
<1>2. /\ new \in Seq(1 .. MaxCaptured) /\ Len(new) = frames
      /\ \A i \in 1 .. frames : new[i] = captured - frames + i
  BY <1>1 DEF Numbers
<1>3. samples' = samples \o new
  OBVIOUS
<1> HIDE DEF new
<1>4. /\ samples' \in Seq(1 .. MaxCaptured) /\ Len(samples') = Len(samples) + frames
      /\ \A i \in 1 .. Len(samples) + frames :
            samples'[i] = IF i <= Len(samples) THEN samples[i] ELSE new[i - Len(samples)]
  <2>1. /\ samples \o new \in Seq(1 .. MaxCaptured)
        /\ Len(samples \o new) = Len(samples) + Len(new)
        /\ \A i \in 1 .. Len(samples) + Len(new) :
              (samples \o new)[i] =
                IF i <= Len(samples) THEN samples[i] ELSE new[i - Len(samples)]
    <3> samples \in Seq(1 .. MaxCaptured) /\ new \in Seq(1 .. MaxCaptured)
      BY <1>1, <1>2, Zenon
    <3> QED BY ConcatProperties, Zenon
  <2> QED BY <2>1, <1>2, <1>3
<1>5. \A i \in 1 .. Len(samples') : samples'[i] = Len(sent) + i
  <2>1. /\ \A i \in 1 .. Len(samples) : samples[i] = Len(sent) + i
        /\ \A i \in 1 .. frames : new[i] = Len(sent) + Len(samples) + i
    BY <1>1, <1>2 DEF IInv, SentAsCaptured
  <2> SUFFICES ASSUME NEW i \in 1 .. Len(samples) + frames PROVE samples'[i] = Len(sent) + i
    BY <1>4
  <2>2. CASE i <= Len(samples)
    <3>1. i \in 1 .. Len(samples)
      BY <1>1, <2>2
    <3>2. samples'[i] = samples[i]
      BY <1>4, <2>2
    <3> QED BY <3>1, <3>2, <2>1
  <2>3. CASE ~(i <= Len(samples))
    <3>1. i - Len(samples) \in 1 .. frames
          /\ Len(sent) + Len(samples) + (i - Len(samples)) = Len(sent) + i
      BY <1>1, <2>3
    <3>2. samples'[i] = new[i - Len(samples)]
      BY <1>4, <2>3
    <3> QED BY <3>1, <3>2, <2>1
  <2> QED BY <2>2, <2>3
<1> QED BY <1>4, <1>5 DEF IInv, SentAsCaptured

(* The invariant holds when the stream has started. *)
LEMMA InitIInv == Init => IInv
<1> SUFFICES ASSUME Init PROVE IInv
  OBVIOUS
<1>1. TypeOK
  <2>1. <<>> \in Seq(1 .. MaxCaptured) /\ Len(<<>>) = 0
    OBVIOUS
  <2>2. samples \in Seq(1 .. MaxCaptured) /\ Len(samples) <= Limit
        /\ sent \in Seq(1 .. MaxCaptured)
    BY <2>1, RecorderAssumption DEF Init
  <2>3. frames \in 0 .. MaxFrames /\ captured \in 0 .. MaxCaptured
    BY RecorderAssumption DEF Init
  <2>4. /\ stream \in {"running", "stopped", "closed"}
        /\ overflowed \in BOOLEAN
        /\ holder \in {"nobody", "callback", "ui"}
        /\ ui \in {"idle", "locking", "draining", "finishing"} \cup Finished
    BY DEF Init
  <2> QED BY <2>2, <2>3, <2>4 DEF TypeOK
<1>2. SentAsCaptured /\ NothingLost
  BY DEF Init, SentAsCaptured, NothingLost
<1>3. LockOK /\ StreamOK /\ CompleteOK
  BY DEF Init, LockOK, StreamOK, CompleteOK, Finished
<1> QED BY <1>1, <1>2, <1>3 DEF IInv

\* The invariant is inductive: one step per action.
LEMMA StepIInv == IInv /\ [Next]_vars => IInv'
<1> SUFFICES ASSUME IInv, [Next]_vars PROVE IInv'
  OBVIOUS
<1> USE RecorderAssumption
<1>1. CASE AudioReady
  <2>1. UNCHANGED <<samples, ui, sent>> /\ stream = "running" /\ overflowed = FALSE /\ frames = 0
    BY <1>1 DEF AudioReady, IInv, TypeOK, StreamOK
  <2>2. PICK n \in 1 .. MaxFrames :
          /\ captured + n <= MaxCaptured
          /\ captured' = captured + n
          /\ \/ /\ holder = "nobody"
                /\ holder' = "callback" /\ frames' = n
                /\ UNCHANGED <<overflowed, stream>>
             \/ holder # "nobody" /\ Overflows /\ UNCHANGED <<holder, frames>>
    BY <1>1 DEF AudioReady
  <2>3. TypeOK'
    <3>1. captured' \in 0 .. MaxCaptured
      BY <2>2 DEF IInv, TypeOK
    <3>2. frames' \in 0 .. MaxFrames
      BY <2>1, <2>2
    <3>3. /\ stream' \in {"running", "stopped", "closed"}
          /\ overflowed' \in BOOLEAN
          /\ holder' \in {"nobody", "callback", "ui"}
      BY <2>1, <2>2 DEF Overflows, IInv, TypeOK
    <3> QED BY <2>1, <3>1, <3>2, <3>3 DEF IInv, TypeOK
  <2>4. LockOK' /\ StreamOK' /\ CompleteOK'
    BY <2>1, <2>2 DEF Overflows, IInv, TypeOK, LockOK, StreamOK, CompleteOK, Finished
  <2>5. SentAsCaptured'
    BY <2>1 DEF IInv, SentAsCaptured
  <2>6. NothingLost'
    <3>1. Len(sent) \in Nat /\ Len(samples) \in Nat /\ captured \in Nat /\ MaxFrames \in Nat
      BY LenProperties DEF IInv, TypeOK
    <3>2. Len(sent) + Len(samples) = captured
      BY <2>1, <3>1 DEF IInv, NothingLost
    <3>3. CASE UNCHANGED overflowed /\ frames' = n
      BY <2>1, <2>2, <3>1, <3>2, <3>3 DEF NothingLost
    <3>4. CASE overflowed' = TRUE
      BY <3>4 DEF NothingLost
    <3> QED BY <2>2, <3>3, <3>4 DEF Overflows
  <2> QED BY <2>3, <2>4, <2>5, <2>6 DEF IInv
<1>2. CASE AudioAppended
  <2>1. CASE TooMany(frames)
    BY <1>2, <2>1 DEF AudioAppended, Overflows, IInv, TypeOK, LockOK, StreamOK,
       SentAsCaptured, NothingLost, CompleteOK, Finished
  <2>2. CASE ~TooMany(frames)
    <3>1. overflowed = FALSE /\ frames > 0 /\ UNCHANGED sent
      BY <1>2 DEF AudioAppended, IInv, TypeOK, StreamOK
    <3>2. samples' = samples \o Numbers(captured - frames, frames)
      BY <1>2, <2>2 DEF AudioAppended
    <3>3. /\ samples' \in Seq(1 .. MaxCaptured) /\ Len(samples') = Len(samples) + frames
          /\ SentAsCaptured'
      BY <3>1, <3>2, AppendKeeps
    <3>4. /\ frames' = 0 /\ holder' = "nobody" /\ Len(samples) + frames <= Limit
          /\ UNCHANGED <<captured, ui, sent, overflowed, stream>>
      BY <1>2, <2>2, RecorderAssumption DEF AudioAppended, TooMany, IInv, TypeOK
    <3>5. TypeOK'
      BY <3>3, <3>4 DEF IInv, TypeOK
    <3>6. LockOK' /\ StreamOK' /\ CompleteOK'
      BY <3>1, <3>4 DEF IInv, TypeOK, LockOK, StreamOK, CompleteOK, Finished
    <3>7. NothingLost'
      <4>1. Len(sent) \in Nat /\ Len(samples) \in Nat /\ frames \in Nat
        BY LenProperties DEF IInv, TypeOK
      <4> QED BY <3>1, <3>3, <3>4, <4>1 DEF IInv, NothingLost
    <3> QED BY <3>3, <3>5, <3>6, <3>7 DEF IInv
  <2> QED BY <2>1, <2>2
<1>3. CASE DrainPcm16
  BY <1>3 DEF DrainPcm16, DrainRefuses, Closes, deviceVars, IInv, TypeOK, LockOK, StreamOK,
     SentAsCaptured, NothingLost, CompleteOK, Finished
<1>4. CASE DrainLocks
  BY <1>4 DEF DrainLocks, deviceVars, IInv, TypeOK, LockOK, StreamOK, SentAsCaptured,
     NothingLost, CompleteOK, Finished
<1>5. CASE DrainTakes
  <2> DEFINE n == IF Len(samples) < MaxSamples THEN Len(samples) ELSE MaxSamples
  <2>1. n \in 0 .. Len(samples) /\ Takes(n)
    BY <1>5 DEF DrainTakes, IInv, TypeOK
  <2> HIDE DEF n
  <2>2. /\ samples' \in Seq(1 .. MaxCaptured) /\ Len(samples') = Len(samples) - n
        /\ sent' \in Seq(1 .. MaxCaptured) /\ Len(sent') = Len(sent) + n
        /\ SentAsCaptured'
    BY <2>1, TakesKeeps
  <2>3. /\ ui = "draining" /\ ui' = "idle" /\ holder' = "nobody"
        /\ UNCHANGED <<stream, overflowed, frames, captured>>
    BY <1>5 DEF DrainTakes, deviceVars
  <2>4. TypeOK'
    BY <2>1, <2>2, <2>3 DEF IInv, TypeOK
  <2>5. LockOK' /\ StreamOK' /\ CompleteOK'
    BY <2>3 DEF IInv, TypeOK, LockOK, StreamOK, CompleteOK, Finished
  <2>6. NothingLost'
    <3>1. Len(sent) \in Nat /\ Len(samples) \in Nat /\ frames \in Nat /\ n \in Nat
      BY <2>1, LenProperties DEF IInv, TypeOK
    <3> QED BY <2>2, <2>3, <3>1 DEF IInv, NothingLost
  <2> QED BY <2>2, <2>4, <2>5, <2>6 DEF IInv
<1>6. CASE FinishPcmChunks
  BY <1>6 DEF FinishPcmChunks, Closes, deviceVars, IInv, TypeOK, LockOK, StreamOK,
     SentAsCaptured, NothingLost, CompleteOK, Finished
<1>7. CASE FinishTakes
  <2>1. CASE FinishRefuses
    BY <1>7, <2>1 DEF FinishTakes, FinishRefuses, deviceVars, IInv, TypeOK, LockOK, StreamOK,
       SentAsCaptured, NothingLost, CompleteOK, Finished
  <2>2. CASE ~FinishRefuses
    <3> overflowed = FALSE
      BY <2>2, Zenon DEF FinishRefuses, IInv, TypeOK
    <3>1. Len(samples) \in 0 .. Len(samples) /\ Takes(Len(samples))
      BY <1>7, <2>2 DEF FinishTakes, IInv, TypeOK
    <3>2. /\ samples' \in Seq(1 .. MaxCaptured) /\ Len(samples') = Len(samples) - Len(samples)
          /\ sent' \in Seq(1 .. MaxCaptured) /\ Len(sent') = Len(sent) + Len(samples)
          /\ SentAsCaptured'
      BY <3>1, TakesKeeps
    <3>3. samples' = <<>>
      BY <3>1, <3>2 DEF IInv, TypeOK
    <3> QED BY <1>7, <2>2, <3>2, <3>3 DEF FinishTakes, FinishRefuses, deviceVars, IInv, TypeOK,
               LockOK, StreamOK, NothingLost, CompleteOK, Finished
  <2> QED BY <2>1, <2>2
<1>8. CASE Stop
  BY <1>8 DEF Stop, Closes, deviceVars, IInv, TypeOK, LockOK, StreamOK,
     SentAsCaptured, NothingLost, CompleteOK, Finished
<1>9. CASE UNCHANGED vars
  BY <1>9 DEF vars, deviceVars, IInv, TypeOK, LockOK, StreamOK, SentAsCaptured, NothingLost,
     CompleteOK, Finished
<1> QED BY <1>1, <1>2, <1>3, <1>4, <1>5, <1>6, <1>7, <1>8, <1>9 DEF Next

(* And it always does. *)
LEMMA AlwaysIInv == Spec => []IInv
BY InitIInv, StepIInv, PTL DEF Spec

\* The buffer never holds more than its limit, and every variable has its type.
THEOREM RecorderTypeOK == Spec => []TypeOK
<1>1. IInv => TypeOK
  BY DEF IInv
<1> QED BY <1>1, AlwaysIInv, PTL

\* What drain_pcm16 and finish_pcm_chunks hand out is a prefix of what was captured.
THEOREM RecorderSentAsCaptured == Spec => []SentAsCaptured
<1>1. IInv => SentAsCaptured
  BY DEF IInv
<1> QED BY <1>1, AlwaysIInv, PTL

\* A recording that finishes without an error is complete.
THEOREM RecorderCompleteOrRefused == Spec => []CompleteOrRefused
<1>1. IInv => CompleteOrRefused
  BY DEF IInv, TypeOK, StreamOK, NothingLost, CompleteOK, CompleteOrRefused, Finished
<1> QED BY <1>1, AlwaysIInv, PTL
=============================================================================
