---------------------------- MODULE MessageStream ----------------------------
(***************************************************************************)
(* What the two ends of remote_crypto.rs provide together, one direction:  *)
(* messages arrive whole, in the order in which they were sent, none twice *)
(* and none left out, until one end stops.                                 *)
(***************************************************************************)
EXTENDS Naturals, Sequences

CONSTANT Messages

VARIABLES
    sent,
    received,
    broken      \* no message is sent any more

streamVars == <<sent, received, broken>>

StreamInit ==
    /\ sent = <<>>
    /\ received = <<>>
    /\ broken = FALSE

Send ==
    /\ ~broken
    /\ \E m \in Messages : sent' = Append(sent, m)
    /\ UNCHANGED <<received, broken>>

\* What was sent before the end may still arrive after it.
Receive ==
    /\ Len(received) < Len(sent)
    /\ received' = Append(received, sent[Len(received) + 1])
    /\ UNCHANGED <<sent, broken>>

Break == broken' = TRUE /\ UNCHANGED <<sent, received>>

Stream == StreamInit /\ [][Send \/ Receive \/ Break]_streamVars
=============================================================================
