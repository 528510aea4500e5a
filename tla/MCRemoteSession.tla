-------------------------- MODULE MCRemoteSession --------------------------
(* RemoteSession on small instances. *)
EXTENDS RemoteSession, TLC

Symmetry == Permutations(Callers) \cup Permutations(Ids)
=============================================================================
