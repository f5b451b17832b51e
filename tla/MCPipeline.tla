----------------------------- MODULE MCPipeline -----------------------------
(***************************************************************************)
(* Instances of the pipeline for TLC: which requests carry which tokens,   *)
(* and which faults happen.                                                *)
(***************************************************************************)
EXTENDS VerificationPipeline, TLC

CONSTANTS s1, v1, v2, d1, d2

\* All verify requests carry the one session token, all document requests the
\* document token of v1.
MCSessionOf == [v \in Verifies |-> s1]
MCTxOf == [d \in Submits |-> v1]

\* Nothing tells the document requests apart.
SubmitSymmetry == Permutations(Submits)

\* Calls that fail, with their effect or without, and a bucket that removes old
\* objects, while every process lives.
Exceptions == FaultKinds \ {"crash", "stall"}
\* Processes that die, locks that expire under a live worker.
Outages == {"crash", "stall"}
\* Slow processes and a slow network.
Delays == {"stall", "lost"}
CrashOnly == {"crash"}
=============================================================================
