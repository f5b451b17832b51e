------------------------- MODULE VerificationContract -------------------------
(***************************************************************************)
(* What a tenant may rely on, for every verification it opened.            *)
(*                                                                         *)
(* A verification has one verdict on file.  The face phase gives it once;  *)
(* only a request for a document that the tenant has been told about is    *)
(* replaced, once, by the verdict of the document phase.  The tenant is    *)
(* told nothing but the verdict on file.                                   *)
(*                                                                         *)
(* Nothing is said here of sessions, queues, retries, workers or crashes:  *)
(* VerificationPipeline implements this module with all of them.           *)
(***************************************************************************)
CONSTANTS
  Transactions,   \* verifications
  FaceVerdicts,   \* verdicts of the face phase
  DocVerdicts,    \* verdicts of the document phase
  Escalation,     \* the face verdict that asks for a document
  NoVerdict

VARIABLES
  filed,   \* the verdict on file
  told     \* the verdicts the tenant was told

vars == <<filed, told>>

Init ==
  /\ filed = [t \in Transactions |-> NoVerdict]
  /\ told = [t \in Transactions |-> {}]

Judge(t) ==
  /\ filed[t] = NoVerdict
  /\ \E v \in FaceVerdicts : filed' = [filed EXCEPT ![t] = v]
  /\ UNCHANGED told

Resolve(t) ==
  /\ filed[t] = Escalation
  /\ Escalation \in told[t]
  /\ \E v \in DocVerdicts : filed' = [filed EXCEPT ![t] = v]
  /\ UNCHANGED told

Tell(t) ==
  /\ filed[t] # NoVerdict
  /\ told' = [told EXCEPT ![t] = @ \union {filed[t]}]
  /\ UNCHANGED filed

Next == \E t \in Transactions : Judge(t) \/ Resolve(t) \/ Tell(t)

Spec == Init /\ [][Next]_vars
=============================================================================
