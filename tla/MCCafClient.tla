------------------------------ MODULE MCCafClient ------------------------------
(* Two callers that share the token; time in units of the latency. *)
EXTENDS CafClient, TLC

CallerSymmetry == Permutations(Callers)
=============================================================================
