---------------------------- MODULE MCSessionQuota ----------------------------
(* Plans small enough for a handful of requests to exhaust them. *)
EXTENDS SessionQuota, TLC

MCQuota == [p \in Plans |-> CASE p = "free" -> 1 [] p = "pro" -> 2 [] p = "scale" -> 3]
RequestSymmetry == Permutations(Requests)
=============================================================================
