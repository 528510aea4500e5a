---------------------------- MODULE MCSessionLink ----------------------------
(* SessionLink on small instances. *)
EXTENDS SessionLink, TLC

Symmetry == Permutations(Callers) \cup Permutations(Ids)

\* The answer a call has returned with, and the message of the last step, have no
\* part in what happens next.
Asked == [c \in Callers |-> IF Waits(c) THEN call[c] ELSE Idle("none", NoId)]
LinkView ==
    <<Asked, queue, held, phase, loopVars, issued, event, up, down, peerVars, cancelled>>
=============================================================================
