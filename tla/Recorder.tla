------------------------------ MODULE Recorder ------------------------------
(***************************************************************************)
(* ale-gui/src/audio.rs: the buffer that the audio callback fills on its   *)
(* own thread and the UI thread drains, from a stream that has started to  *)
(* a recorder that is gone.                                                *)
(*                                                                         *)
(* A sample is its number in the order of capture.  The callback only      *)
(* tries the lock; the UI thread waits for it.  A callback that returned   *)
(* Stop is not called again, and closing the stream waits for a callback   *)
(* that runs: that is the contract of the audio library.                   *)
(***************************************************************************)
EXTENDS Naturals, Sequences

CONSTANTS
    Limit,         \* max_buffered_samples, stored before the stream starts
    MaxSamples,    \* max_samples of one drained chunk
    MaxFrames,     \* bound: frames of one callback
    MaxCaptured    \* bound: frames the device delivers

ASSUME RecorderAssumption ==
    Limit \in Nat /\ MaxSamples \in Nat /\ MaxFrames \in Nat /\ MaxCaptured \in Nat

VARIABLES
    stream,        \* "running", "stopped" by its callback, "closed"
    samples,       \* the buffer
    overflowed,
    holder,        \* who has the lock of the buffer: "nobody", "callback", "ui"
    frames,        \* how many frames the running callback brings; 0 if none runs
    captured,      \* frames the device delivered, also those that were refused
    ui,            \* what the UI thread does with the recorder
    sent           \* the samples drain_pcm16 and finish_pcm_chunks returned

deviceVars == <<frames, captured>>
vars == <<stream, samples, overflowed, holder, deviceVars, ui, sent>>

Finished == {"complete", "overflow", "dropped"}

TypeOK ==
    /\ stream \in {"running", "stopped", "closed"}
    /\ samples \in Seq(1 .. MaxCaptured) /\ Len(samples) <= Limit
    /\ overflowed \in BOOLEAN
    /\ holder \in {"nobody", "callback", "ui"}
    /\ frames \in 0 .. MaxFrames
    /\ captured \in 0 .. MaxCaptured
    /\ ui \in {"idle", "locking", "draining", "finishing"} \cup Finished
    /\ sent \in Seq(1 .. MaxCaptured)

Init ==
    /\ stream = "running"
    /\ samples = <<>> /\ sent = <<>>
    /\ overflowed = FALSE
    /\ holder = "nobody"
    /\ frames = 0 /\ captured = 0
    /\ ui = "idle"

Numbers(m, n) == [i \in 1 .. n |-> m + i]    \* n samples after the first m

-----------------------------------------------------------------------------
(* on_audio_ready.                                                         *)

OverflowsAndContinues == overflowed' = TRUE /\ UNCHANGED stream
Overflows == overflowed' = TRUE /\ stream' = "stopped"

\* The lock is tried first: while the UI thread drains, that is an overflow.
AudioReady ==
    /\ stream = "running" /\ frames = 0
    /\ \E n \in 1 .. MaxFrames :
        /\ captured + n <= MaxCaptured
        /\ captured' = captured + n
        /\ \/ /\ holder = "nobody"
              /\ holder' = "callback" /\ frames' = n
              /\ UNCHANGED <<overflowed, stream>>
           \/ holder # "nobody" /\ Overflows /\ UNCHANGED <<holder, frames>>
    /\ UNCHANGED <<samples, ui, sent>>

TooManyLate(n) == Len(samples) > Limit
TooMany(n) == Len(samples) + n > Limit

AudioAppended ==
    /\ frames > 0
    /\ frames' = 0 /\ holder' = "nobody"
    /\ \/ TooMany(frames) /\ Overflows /\ UNCHANGED samples
       \/ /\ ~TooMany(frames)
          /\ samples' = samples \o Numbers(captured - frames, frames)
          /\ UNCHANGED <<overflowed, stream>>
    /\ UNCHANGED <<captured, ui, sent>>

-----------------------------------------------------------------------------
(* The UI thread.                                                          *)

\* Dropping the recorder closes its stream.
Closes(after) ==
    /\ frames = 0
    /\ stream' = "closed"
    /\ ui' = after
    /\ UNCHANGED <<samples, overflowed, holder, deviceVars, sent>>

DrainRefusesNever == FALSE
DrainRefuses == overflowed

\* drain_pcm16; on its error abort_recording drops the recorder.
DrainPcm16 ==
    /\ ui = "idle"
    /\ \/ DrainRefuses /\ Closes("overflow")
       \/ /\ ~DrainRefuses
          /\ ui' = "locking"
          /\ UNCHANGED <<stream, samples, overflowed, holder, deviceVars, sent>>

DrainLocks ==
    /\ ui = "locking" /\ holder = "nobody"
    /\ ui' = "draining" /\ holder' = "ui"
    /\ UNCHANGED <<stream, samples, overflowed, deviceVars, sent>>

Takes(n) ==
    /\ sent' = sent \o SubSeq(samples, 1, n)
    /\ samples' = SubSeq(samples, n + 1, Len(samples))

DrainTakes ==
    /\ ui = "draining"
    /\ Takes(IF Len(samples) < MaxSamples THEN Len(samples) ELSE MaxSamples)
    /\ ui' = "idle" /\ holder' = "nobody"
    /\ UNCHANGED <<stream, overflowed, deviceVars>>

\* finish_pcm_chunks: the stream is dropped before the mark is read.
FinishPcmChunks == ui = "idle" /\ Closes("finishing")

FinishRefusesNever == FALSE
FinishRefuses == overflowed

FinishTakes ==
    /\ ui = "finishing"
    /\ \/ FinishRefuses /\ ui' = "overflow" /\ UNCHANGED <<samples, sent>>
       \/ ~FinishRefuses /\ ui' = "complete" /\ Takes(Len(samples))
    /\ UNCHANGED <<stream, overflowed, holder, deviceVars>>

\* A cancel, a lost connection or a disconnect drops the recorder as it is.
Stop == ui = "idle" /\ Closes("dropped")

-----------------------------------------------------------------------------

Next ==
    \/ AudioReady \/ AudioAppended
    \/ DrainPcm16 \/ DrainLocks \/ DrainTakes
    \/ FinishPcmChunks \/ FinishTakes \/ Stop

Spec == Init /\ [][Next]_vars

\* The timer of the recording tick and the two threads go on.
FairSpec ==
    /\ Spec
    /\ WF_vars(AudioAppended)
    /\ WF_vars(DrainPcm16) /\ SF_vars(DrainLocks) /\ WF_vars(DrainTakes) /\ WF_vars(FinishTakes)

-----------------------------------------------------------------------------

\* What was sent, and then what is buffered, is what was captured, from the start
\* and in order: nothing twice, nothing swapped, and no hole, for a callback that
\* is refused ends the stream.
SentAsCaptured ==
    /\ \A i \in 1 .. Len(sent) : sent[i] = i
    /\ \A i \in 1 .. Len(samples) : samples[i] = Len(sent) + i

\* A recording that ends without an error is complete: nothing that the device
\* delivered is missing, also not what came while the stream was being closed.
CompleteOrRefused == ui = "complete" => Len(sent) = captured

\* An overflow does not stay unnoticed: the tick, the end of the recording, or a
\* cancel finds it.
OverflowNoticed == overflowed ~> ui \in {"overflow", "dropped"}
=============================================================================
