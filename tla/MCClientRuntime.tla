-------------------------- MODULE MCClientRuntime --------------------------
(* Two Hosts and two calls at a time. *)
EXTENDS ClientRuntime, TLC

Alike == Permutations(Hosts) \cup Permutations(Tasks)
=============================================================================
