---------------------------- MODULE MCSubscription ----------------------------
(* The plan ids of PLANS and one that is not among them. *)
EXTENDS Subscription, TLC

MCPlans == {"free", "pro", "scale"}
MCRequested == MCPlans \union {"bogus"}
SubSymmetry == Permutations(Subs)
=============================================================================
