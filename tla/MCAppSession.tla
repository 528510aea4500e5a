---------------------------- MODULE MCAppSession ----------------------------
(* AppSession on small instances.  The places for tasks are alike: which of *)
(* the unused ones a task is given makes no difference.                     *)
EXTENDS AppSession, TLC

Symmetry == Permutations(Tasks)
=============================================================================
