---------------------- MODULE VerificationPipelineProofs ----------------------
(***************************************************************************)
(* Theorems about VerificationPipeline, for any number of sessions,        *)
(* requests, workers, attempts and tries, and any set of faults.           *)
(*                                                                         *)
(* In this order: the types; each job is processed once and each session   *)
(* judged once; the tenant is told nothing but the verdict on file, and    *)
(* the refinement of VerificationContract; the audit leads the record;     *)
(* the media are erased or accounted for.                                  *)
(***************************************************************************)
EXTENDS VerificationPipeline, TLAPS

-----------------------------------------------------------------------------
(* Type correctness.  The type invariant is cut into one part per group of *)
(* variables; two of the parts need a strengthening to be inductive.       *)

ApiTyped ==
  /\ session \in [Sessions -> {"live", "expired", "deleted"}]
  /\ docSession \in [Verifies -> {"none", "live", "expired", "deleted"}]
  /\ request \in [Verifies \union Submits -> RequestStates]

StoreTyped == store \subseteq Media

\* A job that did not fail has an attempt left.
QueueTyped ==
  /\ job \in [Jobs -> JobStates]
  /\ attempts \in [Jobs -> 0..MaxAttempts]
  /\ stalls \in [Jobs -> 0..MaxStalls]
  /\ owner \in [Jobs -> Workers \union {Nobody}]
  /\ \A j \in Jobs : job[j] # "failed" => attempts[j] < MaxAttempts

OnceTyped == once \subseteq Jobs /\ runs \in [Jobs -> Nat]

\* A slot has a job exactly while it works, a verdict of the right phase from
\* the decision on, and a webhook try left until it gives up.
Judged == {"issue", "audit", "record", "dispatch"}
Finishing == {"delete", "deleteSelfie", "discard", "settle"}
SlotTyped ==
  /\ pc \in [Workers -> Steps]
  /\ task \in [Workers -> Jobs \union {NoJob}]
  /\ err \in [Workers -> BOOLEAN]
  /\ verdict \in [Workers -> Verdicts \union {NoVerdict}]
  /\ tries \in [Workers -> 0..MaxDispatch]
  /\ \A w \in Workers :
       /\ pc[w] = "idle" <=> task[w] = NoJob
       /\ pc[w] \in Judged => verdict[w] \in VerdictsOf(task[w])
       /\ pc[w] \notin Finishing => tries[w] < MaxDispatch

TrailTyped ==
  /\ audit \in [Verifies -> Verdicts \union {NoVerdict}]
  /\ record \in [Verifies -> Verdicts \union {NoVerdict}]
  /\ inbox \in [Verifies -> Seq(Verdicts)]

DiscardTyped == discards \in [Jobs -> Nat]

Typed == ApiTyped /\ StoreTyped /\ QueueTyped /\ OnceTyped /\ SlotTyped /\ TrailTyped
         /\ DiscardTyped

LEMMA TypedTypeOK == Typed => TypeOK
  BY DEF Typed, ApiTyped, StoreTyped, QueueTyped, OnceTyped, SlotTyped, TrailTyped,
         DiscardTyped, TypeOK

\* The parts whose variables a step leaves alone are kept.
LEMMA Frames ==
  ASSUME Typed
  PROVE  /\ UNCHANGED <<session, docSession, request>> => ApiTyped'
         /\ UNCHANGED store => StoreTyped'
         /\ UNCHANGED queueVars => QueueTyped'
         /\ UNCHANGED <<once, runs>> => OnceTyped'
         /\ UNCHANGED slotVars => SlotTyped'
         /\ UNCHANGED <<audit, record, inbox>> => TrailTyped'
         /\ UNCHANGED discards => DiscardTyped'
<1> USE DEF Typed, queueVars, slotVars
<1>1. UNCHANGED <<session, docSession, request>> => ApiTyped'  BY DEF ApiTyped
<1>2. UNCHANGED store => StoreTyped'  BY DEF StoreTyped
<1>3. UNCHANGED queueVars => QueueTyped'  BY DEF QueueTyped
<1>4. UNCHANGED <<once, runs>> => OnceTyped'  BY DEF OnceTyped
<1>5. UNCHANGED slotVars => SlotTyped'  BY DEF SlotTyped
<1>6. UNCHANGED <<audit, record, inbox>> => TrailTyped'  BY DEF TrailTyped
<1>7. UNCHANGED discards => DiscardTyped'  BY DEF DiscardTyped
<1> QED BY <1>1, <1>2, <1>3, <1>4, <1>5, <1>6, <1>7

LEMMA VerdictTypes ==
  /\ \A j \in Jobs : VerdictsOf(j) \subseteq Verdicts
  /\ DocRequired \in AgeVerdicts /\ DocRequired \notin DocVerdicts
  /\ NoVerdict \notin Verdicts
  /\ AgeVerdicts \intersect DocVerdicts = {}
  BY DEF VerdictsOf, Verdicts, AgeVerdicts, DocVerdicts, DocRequired, NoVerdict

LEMMA InitTyped == Init => Typed
  BY PipelineAssumption
  DEF Init, Typed, ApiTyped, StoreTyped, QueueTyped, OnceTyped, SlotTyped, TrailTyped,
      DiscardTyped, Jobs, Media, Steps, RequestStates, JobStates, NoVerdict, Judged, Finishing

-----------------------------------------------------------------------------
LEMMA UploadTyped ==
  ASSUME Typed, NEW r \in Verifies \union Submits, NEW m \in Media,
         NEW from \in RequestStates, NEW to \in RequestStates, Upload(r, m, from, to)
  PROVE  Typed'
<1>1. ApiTyped'
  BY DEF Upload, Typed, ApiTyped, At, May, RequestStates
<1>2. StoreTyped'
  BY DEF Upload, Typed, StoreTyped
<1> QED BY <1>1, <1>2, Frames DEF Upload, Typed, trailVars

LEMMA AddTyped ==
  ASSUME Typed, NEW j \in Jobs, Add(j)
  PROVE  QueueTyped'
<1>1. CASE UNCHANGED queueVars
  BY <1>1, Frames
<1>2. CASE IdFree(j)
  BY <1>2, PipelineAssumption DEF Add, Typed, QueueTyped, JobStates
<1> QED BY <1>1, <1>2 DEF Add

LEMMA EnqueueTyped ==
  ASSUME Typed, NEW r \in Verifies \union Submits, NEW j \in Jobs, Enqueue(r, j)
  PROVE  Typed'
<1>1. ApiTyped'
  BY DEF Enqueue, Typed, ApiTyped, At, May, RequestStates
<1>2. QueueTyped'
  BY AddTyped, Frames DEF Enqueue
<1> QED BY <1>1, <1>2, Frames DEF Enqueue, Typed, trailVars

LEMMA ConsumeTyped ==
  ASSUME Typed,
         \/ \E s \in Sessions : ExpireSession(s)
         \/ \E t \in Verifies : ExpireDocSession(t)
         \/ \E v \in Verifies : ConsumeSession(v)
         \/ \E d \in Submits : ConsumeDocSession(d)
  PROVE  Typed'
<1>1. ASSUME NEW s \in Sessions, ExpireSession(s) PROVE Typed'
  <2>1. ApiTyped'  BY <1>1 DEF ExpireSession, Typed, ApiTyped
  <2> QED BY <1>1, <2>1, Frames DEF ExpireSession, Typed, trailVars
<1>2. ASSUME NEW t \in Verifies, ExpireDocSession(t) PROVE Typed'
  <2>1. ApiTyped'  BY <1>2 DEF ExpireDocSession, Typed, ApiTyped
  <2> QED BY <1>2, <2>1, Frames DEF ExpireDocSession, Typed, trailVars
<1>3. ASSUME NEW v \in Verifies, ConsumeSession(v) PROVE Typed'
  <2>1. ApiTyped'
    BY <1>3, PipelineAssumption
    DEF ConsumeSession, Consumed, At, Typed, ApiTyped, RequestStates
  <2> QED BY <1>3, <2>1, Frames DEF ConsumeSession, Typed, trailVars
<1>4. ASSUME NEW d \in Submits, ConsumeDocSession(d) PROVE Typed'
  <2>1. ApiTyped'
    BY <1>4, PipelineAssumption
    DEF ConsumeDocSession, Consumed, At, Typed, ApiTyped, RequestStates
  <2> QED BY <1>4, <2>1, Frames DEF ConsumeDocSession, Typed, trailVars
<1> QED BY <1>1, <1>2, <1>3, <1>4

LEMMA ApiTypedStep ==
  ASSUME Typed,
         \/ \E v \in Verifies : VerifyStep(v)
         \/ \E d \in Submits : SubmitStep(d)
  PROVE  Typed'
<1>1. ASSUME NEW v \in Verifies, VerifyStep(v) PROVE Typed'
  BY <1>1, ConsumeTyped, UploadTyped, EnqueueTyped
  DEF VerifyStep, PutFrame, EnqueueVerification, Media, Jobs, RequestStates
<1>2. ASSUME NEW d \in Submits, SubmitStep(d) PROVE Typed'
  BY <1>2, ConsumeTyped, UploadTyped, EnqueueTyped, PipelineAssumption
  DEF SubmitStep, PutDocument, PutSelfie, EnqueueDocument, Media, Jobs, RequestStates
<1> QED BY <1>1, <1>2

-----------------------------------------------------------------------------
\* The ways a slot moves: it goes on, throws, or is released.
LEMMA GoTyped ==
  ASSUME Typed, NEW w \in Workers, NEW from \in Steps, NEW to \in Steps,
         Go(w, from, to), UNCHANGED <<task, verdict, tries>>,
         from # "idle", to # "idle",
         to \in Judged => from \in Judged, to \notin Finishing => from \notin Finishing
  PROVE  SlotTyped'
  BY DEF Typed, SlotTyped, Go

LEMMA ThrowTyped ==
  ASSUME Typed, NEW w \in Workers, NEW from \in Steps,
         Throw(w, from), UNCHANGED <<task, verdict, tries>>, from # "idle"
  PROVE  SlotTyped'
  BY DEF Typed, SlotTyped, Throw, Judged, Finishing, Steps

LEMMA ReleaseTyped ==
  ASSUME Typed, NEW w \in Workers, Release(w)
  PROVE  SlotTyped'
  BY PipelineAssumption DEF Typed, SlotTyped, Release, Judged, Finishing, NoVerdict, Steps

LEMMA TaskTyped ==
  ASSUME Typed, NEW w \in Workers, pc[w] # "idle"
  PROVE  task[w] \in Jobs /\ Tx(w) \in Verifies
  BY DEF Typed, SlotTyped, Tx, Jobs

LEMMA QueueStepTyped ==
  ASSUME Typed,
         \/ \E w \in Workers, j \in Jobs : Fetch(w, j)
         \/ \E j \in Jobs : Promote(j) \/ LockExpires(j)
         \/ \E w \in Workers : Settle(w) \/ Crash(w)
         \/ \E m \in Media : BucketExpires(m)
  PROVE  Typed'
<1>1. ASSUME NEW w \in Workers, NEW j \in Jobs, Fetch(w, j) PROVE Typed'
  <2>1. QueueTyped'  BY <1>1 DEF Fetch, Typed, QueueTyped, JobStates
  <2>2. j # NoJob  BY PipelineAssumption DEF Jobs
  <2>3. SlotTyped'
    BY <1>1, <2>2 DEF Fetch, Typed, SlotTyped, Steps, Judged, Finishing
  <2> QED BY <1>1, <2>1, <2>3, Frames DEF Fetch, Typed, apiVars, trailVars
<1>2. ASSUME NEW j \in Jobs, Promote(j) PROVE Typed'
  <2>1. QueueTyped'  BY <1>2 DEF Promote, Typed, QueueTyped, JobStates
  <2> QED BY <1>2, <2>1, Frames DEF Promote, Typed, apiVars, trailVars
<1>3. ASSUME NEW j \in Jobs, LockExpires(j) PROVE Typed'
  <2>1. CASE stalls[j] < MaxStalls
    <3>1. QueueTyped'
      BY <1>3, <2>1, PipelineAssumption DEF LockExpires, Typed, QueueTyped, JobStates
    <3> QED BY <1>3, <3>1, Frames DEF LockExpires, Typed, apiVars, trailVars
  <2>2. CASE ~(stalls[j] < MaxStalls)
    <3>1. QueueTyped'
      BY <1>3, <2>2 DEF LockExpires, Typed, QueueTyped, JobStates
    <3> QED BY <1>3, <3>1, Frames DEF LockExpires, Typed, apiVars, trailVars
  <2> QED BY <2>1, <2>2
<1>4. ASSUME NEW w \in Workers, Settle(w) PROVE Typed'
  <2> DEFINE j == task[w]
  <2>1. j \in Jobs  BY <1>4, TaskTyped DEF Settle
  <2>2. SlotTyped'  BY <1>4, ReleaseTyped DEF Settle
  <2>3. QueueTyped'
    <3>1. CASE owner[j] = w /\ job[j] = "active" /\ err[w]
      <4>1. attempts[j] < MaxAttempts /\ attempts[j] \in 0..MaxAttempts
        BY <2>1, <3>1 DEF Typed, QueueTyped
      <4> QED BY <1>4, <2>1, <3>1, <4>1, PipelineAssumption
              DEF Settle, Typed, QueueTyped, JobStates
    <3>2. CASE owner[j] = w /\ job[j] = "active" /\ ~err[w]
      BY <1>4, <2>1, <3>2 DEF Settle, Typed, QueueTyped, JobStates
    <3>3. CASE ~(owner[j] = w /\ job[j] = "active")
      BY <1>4, <3>3, Frames DEF Settle, queueVars
    <3> QED BY <3>1, <3>2, <3>3
  <2> QED BY <1>4, <2>2, <2>3, Frames DEF Settle, Typed, apiVars, trailVars
<1>5. ASSUME NEW w \in Workers, Crash(w) PROVE Typed'
  BY <1>5, ReleaseTyped, Frames DEF Crash, Typed, apiVars, trailVars
<1>6. ASSUME NEW m \in Media, BucketExpires(m) PROVE Typed'
  <2>1. StoreTyped'  BY <1>6 DEF BucketExpires, Typed, StoreTyped
  <2> QED BY <1>6, <2>1, Frames DEF BucketExpires, Typed, apiVars, trailVars
<1> QED BY <1>1, <1>2, <1>3, <1>4, <1>5, <1>6

LEMMA ProcessorTyped ==
  ASSUME Typed, NEW w \in Workers,
         \/ GetMedia(w) \/ AcquireOnce(w) \/ Decide(w) \/ IssueDocumentSession(w)
         \/ SaveAudit(w) \/ SaveRecord(w) \/ Dispatch(w)
         \/ DeleteMedia(w) \/ DeleteSelfie(w) \/ RecordDiscard(w)
  PROVE  Typed'
<1> USE DEF apiVars, trailVars
<1>0. Steps = {"idle", "get", "once", "decide"} \union Judged \union Finishing
  BY DEF Steps, Judged, Finishing
<1>1. CASE GetMedia(w)
  <2>1. SlotTyped'
    BY <1>1, <1>0, GoTyped, ThrowTyped DEF GetMedia, Steps, Judged, Finishing
  <2> QED BY <1>1, <2>1, Frames DEF GetMedia, Typed
<1>2. CASE AcquireOnce(w)
  <2>1. task[w] \in Jobs  BY <1>2, TaskTyped DEF AcquireOnce, Go, Throw
  <2>2. SlotTyped'
    BY <1>2, GoTyped, ThrowTyped DEF AcquireOnce, Steps, Judged, Finishing
  <2>3. OnceTyped'
    BY <1>2, <2>1 DEF AcquireOnce, KeySet, Typed, OnceTyped
  <2> QED BY <1>2, <2>2, <2>3, Frames DEF AcquireOnce, Typed
<1>3. CASE Decide(w)
  <2>1. task[w] \in Jobs /\ pc[w] = "decide"
    BY <1>3, TaskTyped DEF Decide, Go, Throw
  <2>2. ASSUME NEW v \in VerdictsOf(task[w]),
               Go(w, "decide", IF v = DocRequired THEN "issue" ELSE "audit"),
               verdict' = [verdict EXCEPT ![w] = v], UNCHANGED <<task, tries>>
        PROVE  SlotTyped'
    <3>1. v \in Verdicts  BY <2>1, VerdictTypes
    <3> QED BY <2>1, <2>2, <3>1 DEF Typed, SlotTyped, Go, Steps, Judged, Finishing
  <2>3. SlotTyped'
    BY <1>3, <2>2, ThrowTyped DEF Decide, Steps
  <2> QED BY <1>3, <2>3, Frames DEF Decide, Typed
<1>4. CASE IssueDocumentSession(w)
  <2>1. Tx(w) \in Verifies  BY <1>4, TaskTyped DEF IssueDocumentSession, Go, Throw
  <2>2. SlotTyped'
    BY <1>4, GoTyped, ThrowTyped DEF IssueDocumentSession, Steps, Judged, Finishing
  <2>3. ApiTyped'
    BY <1>4, <2>1 DEF IssueDocumentSession, Typed, ApiTyped
  <2> QED BY <1>4, <2>2, <2>3, Frames DEF IssueDocumentSession, Typed
<1>5. CASE SaveAudit(w)
  <2>1. Tx(w) \in Verifies /\ verdict[w] \in Verdicts \union {NoVerdict}
    BY <1>5, TaskTyped DEF SaveAudit, Go, Throw, Typed, SlotTyped
  <2>2. SlotTyped'
    BY <1>5, GoTyped, ThrowTyped DEF SaveAudit, Steps, Judged, Finishing
  <2>3. TrailTyped'
    BY <1>5, <2>1 DEF SaveAudit, Typed, TrailTyped
  <2> QED BY <1>5, <2>2, <2>3, Frames DEF SaveAudit, Typed
<1>6. CASE SaveRecord(w)
  <2>1. Tx(w) \in Verifies /\ verdict[w] \in Verdicts \union {NoVerdict}
    BY <1>6, TaskTyped DEF SaveRecord, Go, Throw, Typed, SlotTyped
  <2>2. SlotTyped'
    BY <1>6, GoTyped, ThrowTyped DEF SaveRecord, Steps, Judged, Finishing
  <2>3. TrailTyped'
    BY <1>6, <2>1 DEF SaveRecord, Typed, TrailTyped
  <2> QED BY <1>6, <2>2, <2>3, Frames DEF SaveRecord, Typed
<1>7. CASE Dispatch(w)
  <2>1. task[w] \in Jobs /\ Tx(w) \in Verifies /\ pc[w] = "dispatch"
    BY <1>7, TaskTyped DEF Dispatch
  <2>2. verdict[w] \in Verdicts
    BY <2>1, VerdictTypes DEF Typed, SlotTyped, Judged
  <2>3. TrailTyped'
    <3>1. Append(inbox[Tx(w)], verdict[w]) \in Seq(Verdicts)
      BY <2>1, <2>2 DEF Typed, TrailTyped
    <3>2. Delivered(w) \in [Verifies -> Seq(Verdicts)]
      BY <3>1 DEF Delivered, Typed, TrailTyped
    <3> QED BY <1>7, <3>2 DEF Dispatch, Typed, TrailTyped
  <2>4. SlotTyped'
    <3>1. CASE Go(w, "dispatch", "delete") /\ UNCHANGED tries
      BY <1>7, <3>1, GoTyped DEF Dispatch, Steps, Judged, Finishing
    <3>2. CASE tries' = [tries EXCEPT ![w] = @ + 1] /\ tries[w] + 1 < MaxDispatch
               /\ Go(w, "dispatch", "dispatch")
      BY <1>7, <2>1, <3>2, PipelineAssumption
      DEF Dispatch, Go, Typed, SlotTyped, Steps, Judged, Finishing
    <3>3. CASE tries' = [tries EXCEPT ![w] = @ + 1] /\ ~(tries[w] + 1 < MaxDispatch)
               /\ Throw(w, "dispatch")
      <4>1. tries[w] < MaxDispatch
        BY <2>1 DEF Typed, SlotTyped, Finishing
      <4> QED BY <1>7, <2>1, <3>3, <4>1, PipelineAssumption
              DEF Dispatch, Throw, Typed, SlotTyped, Steps, Judged, Finishing
    <3> QED BY <1>7, <3>1, <3>2, <3>3 DEF Dispatch, TriesLeft
  <2> QED BY <1>7, <2>3, <2>4, Frames DEF Dispatch, Typed
<1>8. ASSUME NEW m \in Media, NEW from \in {"delete", "deleteSelfie"},
             NEW to \in {"deleteSelfie", "discard"}, Remove(w, m, from, to)
      PROVE  Typed'
  <2>1. SlotTyped'
    <3>1. CASE Go(w, from, to)
      BY <1>8, <3>1, GoTyped DEF Remove, Steps, Judged, Finishing
    <3>2. CASE pc[w] = from /\ pc' = [pc EXCEPT ![w] = "settle"]
               /\ err' = [err EXCEPT ![w] = TRUE]
      BY <1>8, <3>2 DEF Remove, Typed, SlotTyped, Steps, Judged, Finishing
    <3> QED BY <1>8, <3>1, <3>2 DEF Remove
  <2>2. StoreTyped'
    BY <1>8 DEF Remove, Typed, StoreTyped
  <2> QED BY <1>8, <2>1, <2>2, Frames DEF Remove, Typed
<1>9. CASE DeleteMedia(w)
  <2>1. Tx(w) \in Verifies  BY <1>9, TaskTyped DEF DeleteMedia
  <2> QED BY <1>8, <1>9, <2>1 DEF DeleteMedia, Media
<1>10. CASE DeleteSelfie(w)
  <2>1. Tx(w) \in Verifies  BY <1>10, TaskTyped DEF DeleteSelfie, Remove, Go
  <2> QED BY <1>8, <1>10, <2>1 DEF DeleteSelfie, Media
<1>11. CASE RecordDiscard(w)
  <2>1. task[w] \in Jobs  BY <1>11, TaskTyped DEF RecordDiscard, Go
  <2>2. SlotTyped'
    BY <1>11, GoTyped DEF RecordDiscard, Steps, Judged, Finishing
  <2>3. DiscardTyped'
    BY <1>11, <2>1 DEF RecordDiscard, Typed, DiscardTyped
  <2> QED BY <1>11, <2>2, <2>3, Frames DEF RecordDiscard, Typed
<1> QED BY <1>1, <1>2, <1>3, <1>4, <1>5, <1>6, <1>7, <1>9, <1>10, <1>11

LEMMA TypedInductive == Typed /\ [Next]_vars => Typed'
<1> SUFFICES ASSUME Typed, [Next]_vars PROVE Typed'
  OBVIOUS
<1>1. CASE UNCHANGED vars
  BY <1>1, Frames DEF vars, Typed, queueVars, slotVars
<1>2. CASE Next
  BY <1>2, ConsumeTyped, ApiTypedStep, QueueStepTyped, ProcessorTyped DEF Next, WorkerStep
<1> QED BY <1>1, <1>2

\* Every reachable state is well typed: attempts, stalls and webhook tries stay
\* within their limits (verification.queue.ts:7-16, webhook.service.ts:15-36),
\* and a slot is idle exactly when it has no job.
THEOREM TypeCorrect == Spec => []TypeOK
<1>1. Spec => []Typed
  BY InitTyped, TypedInductive, PTL DEF Spec
<1> QED BY <1>1, TypedTypeOK, PTL

-----------------------------------------------------------------------------
(* At most one run of a job goes past the once-guard. *)

OnceInv == \A j \in Jobs : runs[j] <= 1 /\ (runs[j] = 1 => j \in once)

\* Only AcquireOnce writes the keys and counts a run.
LEMMA OnceKept ==
  ASSUME Next, \A w \in Workers : ~AcquireOnce(w)
  PROVE  UNCHANGED <<once, runs>>
<1> USE DEF slotVars, queueVars, trailVars, apiVars
<1>1. CASE \/ \E s \in Sessions : ExpireSession(s)
           \/ \E t \in Verifies : ExpireDocSession(t)
           \/ \E v \in Verifies : VerifyStep(v)
           \/ \E d \in Submits : SubmitStep(d)
  BY <1>1 DEF ExpireSession, ExpireDocSession, VerifyStep, SubmitStep, ConsumeSession,
              ConsumeDocSession, PutFrame, PutDocument, PutSelfie, Upload, Enqueue,
              EnqueueVerification, EnqueueDocument
<1>2. CASE \/ \E w \in Workers, j \in Jobs : Fetch(w, j)
           \/ \E j \in Jobs : Promote(j) \/ LockExpires(j)
           \/ \E m \in Media : BucketExpires(m)
  BY <1>2 DEF Fetch, Promote, LockExpires, BucketExpires
<1>3. ASSUME NEW w \in Workers, WorkerStep(w) \/ Crash(w), ~AcquireOnce(w)
      PROVE  UNCHANGED <<once, runs>>
  BY <1>3 DEF WorkerStep, Crash, GetMedia, Decide, IssueDocumentSession, SaveAudit,
              SaveRecord, Dispatch, DeleteMedia, DeleteSelfie, Remove, RecordDiscard, Settle
<1> QED BY <1>1, <1>2, <1>3 DEF Next

LEMMA OnceInductive ==
  ASSUME Typed, OnceInv, [Next]_vars
  PROVE  OnceInv'
<1>1. CASE UNCHANGED <<once, runs>>
  BY <1>1 DEF OnceInv
<1>2. ASSUME NEW w \in Workers, AcquireOnce(w) PROVE OnceInv'
  <2>1. task[w] \in Jobs  BY <1>2, TaskTyped DEF AcquireOnce
  <2> QED BY <1>2, <2>1 DEF AcquireOnce, KeySet, OnceInv, Typed, OnceTyped
<1> QED BY <1>1, <1>2, OnceKept DEF vars

\* "Ensures a transaction is processed at most once" (once-guard.ts:3), for any
\* number of workers, retries, stalls, crashes and failing calls.
THEOREM AtMostOnce == Spec => []ProcessedAtMostOnce
<1>1. Init => OnceInv
  BY DEF Init, OnceInv
<1>2. Typed /\ OnceInv /\ [Next]_vars => OnceInv'
  BY OnceInductive
<1>3. OnceInv => ProcessedAtMostOnce
  BY DEF OnceInv, ProcessedAtMostOnce
<1> QED BY <1>1, <1>2, <1>3, InitTyped, TypedInductive, PTL DEF Spec

-----------------------------------------------------------------------------
(* A session token pays for one judgement, whatever is replayed, retried   *)
(* or crashes.                                                             *)

Queued(j) == job[j] # "none"

\* A job that a slot works on, or that was ever run, has been queued.
QueuedInv ==
  /\ \A w \in Workers : pc[w] # "idle" => Queued(task[w])
  /\ \A j \in Jobs : runs[j] > 0 => Queued(j)

\* The request consumed its token and goes on.
Paid(v) == request[v] \in {"put", "enqueue"} \/ Queued(<<v, "age">>)

\* A token is gone as soon as a request is paid with it, and pays for only one.
SessionInv ==
  /\ \A v \in Verifies : Paid(v) => session[SessionOf[v]] = "deleted"
  /\ \A u, v \in Verifies : (SessionOf[u] = SessionOf[v] /\ Paid(u) /\ Paid(v)) => u = v

-----------------------------------------------------------------------------
\* The steps of the queue, the workers and the bucket, and of ExpireDocSession.
BackStep ==
  \/ \E t \in Verifies : ExpireDocSession(t)
  \/ \E w \in Workers, j \in Jobs : Fetch(w, j)
  \/ \E j \in Jobs : Promote(j) \/ LockExpires(j)
  \/ \E w \in Workers : WorkerStep(w) \/ Crash(w)
  \/ \E m \in Media : BucketExpires(m)

\* None of them queues a job or touches a request or a session.
LEMMA BackStepKeeps ==
  ASSUME Typed, BackStep
  PROVE  /\ UNCHANGED <<session, request>>
         /\ \A j \in Jobs : Queued(j)' <=> Queued(j)
<1> USE DEF slotVars, queueVars, trailVars, apiVars, Queued
<1>1. CASE \/ \E t \in Verifies : ExpireDocSession(t)
           \/ \E m \in Media : BucketExpires(m)
  BY <1>1 DEF ExpireDocSession, BucketExpires
<1>2. ASSUME NEW w \in Workers, NEW j \in Jobs, Fetch(w, j)
      PROVE  UNCHANGED <<session, request>> /\ \A i \in Jobs : Queued(i)' <=> Queued(i)
  BY <1>2 DEF Fetch, Typed, QueueTyped
<1>3. ASSUME NEW j \in Jobs, Promote(j) \/ LockExpires(j)
      PROVE  UNCHANGED <<session, request>> /\ \A i \in Jobs : Queued(i)' <=> Queued(i)
  BY <1>3 DEF Promote, LockExpires, Typed, QueueTyped
<1>4. ASSUME NEW w \in Workers, Settle(w)
      PROVE  UNCHANGED <<session, request>> /\ \A i \in Jobs : Queued(i)' <=> Queued(i)
  <2>1. task[w] \in Jobs  BY <1>4, TaskTyped DEF Settle
  <2> QED BY <1>4, <2>1 DEF Settle, Typed, QueueTyped
<1>5. ASSUME NEW w \in Workers, WorkerStep(w) \/ Crash(w), ~Settle(w)
      PROVE  UNCHANGED <<session, request>> /\ UNCHANGED job
  BY <1>5 DEF WorkerStep, Crash, GetMedia, AcquireOnce, Decide, IssueDocumentSession, SaveAudit,
              SaveRecord, Dispatch, DeleteMedia, DeleteSelfie, Remove, RecordDiscard
<1> QED BY <1>1, <1>2, <1>3, <1>4, <1>5 DEF BackStep

LEMMA EnqueueQueues ==
  ASSUME Typed, NEW r \in Verifies \union Submits, NEW j \in Jobs, Enqueue(r, j)
  PROVE  /\ request[r] = "enqueue"
         /\ request' \in {[request EXCEPT ![r] = "accepted"], [request EXCEPT ![r] = "failed"]}
         /\ UNCHANGED session
         /\ \A i \in Jobs \ {j} : Queued(i)' <=> Queued(i)
         /\ Queued(j) => Queued(j)'
<1>1. job' = job \/ job' = [job EXCEPT ![j] = "wait"]
  BY DEF Enqueue, Add, queueVars
<1> QED BY <1>1 DEF Enqueue, At, Typed, QueueTyped, Queued

\* What a step does to the tokens and to the requests paid with them: nothing
\* is paid except by one consumption of a live token.
LEMMA Payments ==
  ASSUME Typed, Next
  PROVE  /\ \A s \in Sessions : session[s] = "deleted" => session'[s] = "deleted"
         /\ \/ \A v \in Verifies : Paid(v)' => Paid(v)
            \/ \E v \in Verifies :
                 /\ session[SessionOf[v]] = "live" /\ session'[SessionOf[v]] = "deleted"
                 /\ \A u \in Verifies \ {v} : Paid(u)' => Paid(u)
<1> USE PipelineAssumption
<1> DEFINE Kept == \A s \in Sessions : session[s] = "deleted" => session'[s] = "deleted"
           None == \A v \in Verifies : Paid(v)' => Paid(v)
<1>0. \A v \in Verifies : <<v, "age">> \in Jobs /\ <<v, "doc">> \in Jobs
  BY DEF Jobs
<1>1. CASE BackStep
  BY <1>0, <1>1, BackStepKeeps DEF Paid
<1>2. ASSUME NEW s \in Sessions, ExpireSession(s) PROVE Kept /\ None
  BY <1>2 DEF ExpireSession, Typed, ApiTyped, Paid, Queued, queueVars
<1>3. ASSUME NEW v \in Verifies, ConsumeSession(v)
      PROVE  /\ Kept
             /\ \/ None
                \/ /\ session[SessionOf[v]] = "live" /\ session'[SessionOf[v]] = "deleted"
                   /\ \A u \in Verifies \ {v} : Paid(u)' => Paid(u)
  BY <1>3 DEF ConsumeSession, Consumed, At, Typed, ApiTyped, Paid, Queued, queueVars
<1>4. ASSUME NEW d \in Submits, ConsumeDocSession(d) PROVE Kept /\ None
  BY <1>4 DEF ConsumeDocSession, At, Typed, ApiTyped, Paid, Queued, queueVars
<1>5. ASSUME NEW v \in Verifies, PutFrame(v) PROVE Kept /\ None
  BY <1>5 DEF PutFrame, Upload, At, Typed, ApiTyped, Paid, Queued, queueVars
<1>6. ASSUME NEW d \in Submits, PutDocument(d) \/ PutSelfie(d) PROVE Kept /\ None
  BY <1>6 DEF PutDocument, PutSelfie, Upload, At, Typed, ApiTyped, Paid, Queued, queueVars
<1>7. ASSUME NEW v \in Verifies, EnqueueVerification(v) PROVE Kept /\ None
  <2>1. \A u \in Verifies : u # v => <<u, "age">> \in Jobs \ {<<v, "age">>}
    BY <1>0
  <2> QED BY <1>0, <1>7, <2>1, EnqueueQueues DEF EnqueueVerification, Typed, ApiTyped, Paid
<1>8. ASSUME NEW d \in Submits, EnqueueDocument(d) PROVE Kept /\ None
  <2>1. <<TxOf[d], "doc">> \in Jobs /\ \A v \in Verifies : <<v, "age">> # <<TxOf[d], "doc">>
    BY <1>0
  <2> QED BY <1>0, <1>8, <2>1, EnqueueQueues DEF EnqueueDocument, Typed, ApiTyped, Paid
<1> QED BY <1>1, <1>2, <1>3, <1>4, <1>5, <1>6, <1>7, <1>8
        DEF Next, BackStep, VerifyStep, SubmitStep

LEMMA SessionInductive ==
  ASSUME Typed, SessionInv, [Next]_vars
  PROVE  SessionInv'
<1>1. CASE UNCHANGED vars
  BY <1>1 DEF SessionInv, Paid, Queued, vars
<1>2. CASE Next
  BY <1>2, Payments, PipelineAssumption DEF SessionInv
<1> QED BY <1>1, <1>2

-----------------------------------------------------------------------------
LEMMA QueuedKept ==
  ASSUME Typed, Next
  PROVE  \A j \in Jobs : Queued(j) => Queued(j)'
<1>1. CASE BackStep
  BY <1>1, BackStepKeeps
<1>2. ASSUME NEW v \in Verifies, EnqueueVerification(v)
      PROVE  \A j \in Jobs : Queued(j) => Queued(j)'
  BY <1>2, EnqueueQueues DEF EnqueueVerification, Jobs
<1>3. ASSUME NEW d \in Submits, EnqueueDocument(d)
      PROVE  \A j \in Jobs : Queued(j) => Queued(j)'
  <2>1. <<TxOf[d], "doc">> \in Jobs  BY PipelineAssumption DEF Jobs
  <2> QED BY <1>3, <2>1, EnqueueQueues DEF EnqueueDocument
<1>4. CASE \/ \E s \in Sessions : ExpireSession(s)
           \/ \E v \in Verifies : ConsumeSession(v) \/ PutFrame(v)
           \/ \E d \in Submits : ConsumeDocSession(d) \/ PutDocument(d) \/ PutSelfie(d)
  BY <1>4 DEF ExpireSession, ConsumeSession, ConsumeDocSession, PutFrame, PutDocument,
              PutSelfie, Upload, Queued, queueVars
<1> QED BY <1>1, <1>2, <1>3, <1>4 DEF Next, BackStep, VerifyStep, SubmitStep

LEMMA QueuedInductive ==
  ASSUME Typed, QueuedInv, [Next]_vars
  PROVE  QueuedInv'
<1> USE DEF slotVars, queueVars, trailVars, apiVars
<1>1. CASE UNCHANGED vars
  BY <1>1 DEF QueuedInv, Queued, vars
<1>2. CASE Next /\ UNCHANGED <<pc, task, runs>>
  BY <1>2, QueuedKept DEF QueuedInv, Typed, SlotTyped, Jobs
<1>3. ASSUME NEW w \in Workers, NEW j \in Jobs, Fetch(w, j) PROVE QueuedInv'
  BY <1>3 DEF Fetch, QueuedInv, Queued, Typed, SlotTyped, QueueTyped
<1>4. ASSUME NEW w \in Workers, Settle(w) \/ Crash(w) PROVE QueuedInv'
  <2>1. BackStep  BY <1>4 DEF BackStep, WorkerStep
  <2>2. pc' = [pc EXCEPT ![w] = "idle"] /\ task' = [task EXCEPT ![w] = NoJob]
        /\ UNCHANGED runs
    BY <1>4 DEF Settle, Crash, Release
  <2> QED BY <2>1, <2>2, BackStepKeeps DEF QueuedInv, Typed, SlotTyped
<1>5. ASSUME NEW w \in Workers, WorkerStep(w), ~Settle(w) PROVE QueuedInv'
  <2>1. UNCHANGED <<job, task>> /\ pc[w] # "idle" /\ \A x \in Workers \ {w} : pc'[x] = pc[x]
    BY <1>5
    DEF WorkerStep, GetMedia, AcquireOnce, Decide, IssueDocumentSession, SaveAudit, SaveRecord,
        Dispatch, DeleteMedia, DeleteSelfie, Remove, RecordDiscard, Go, Throw, Typed, SlotTyped
  <2>2. task[w] \in Jobs
    BY <2>1, TaskTyped
  <2>3. runs' = runs \/ runs' = [runs EXCEPT ![task[w]] = @ + 1]
    BY <1>5
    DEF WorkerStep, GetMedia, AcquireOnce, Decide, IssueDocumentSession, SaveAudit, SaveRecord,
        Dispatch, DeleteMedia, DeleteSelfie, Remove, RecordDiscard
  <2> QED BY <2>1, <2>2, <2>3 DEF QueuedInv, Queued, Typed, OnceTyped
<1>6. CASE Next /\ ~(\E w \in Workers : WorkerStep(w) \/ Crash(w) \/ \E j \in Jobs : Fetch(w, j))
  <2>1. UNCHANGED <<pc, task, runs>>
    BY <1>6 DEF Next, ExpireSession, ExpireDocSession, VerifyStep, SubmitStep, ConsumeSession,
                ConsumeDocSession, PutFrame, PutDocument, PutSelfie, Upload, Enqueue,
                EnqueueVerification, EnqueueDocument, Promote, LockExpires, BucketExpires
  <2> QED BY <1>2, <1>6, <2>1
<1> QED BY <1>1, <1>3, <1>4, <1>5, <1>6 DEF Next

\* Of all the /verify requests that carry one session token, replayed or
\* concurrent, at most one is ever judged (verification.controller.ts:41-46 and
\* consume_session in 0009-app-role.ts).
THEOREM JudgedOnce == Spec => []SessionJudgedOnce
<1> DEFINE IInv == Typed /\ SessionInv /\ QueuedInv
<1>1. Init => IInv
  BY InitTyped DEF Init, SessionInv, QueuedInv, Paid, Queued, Jobs
<1>2. IInv /\ [Next]_vars => IInv'
  BY TypedInductive, SessionInductive, QueuedInductive
<1>3. IInv => SessionJudgedOnce
  BY DEF SessionInv, QueuedInv, SessionJudgedOnce, Paid, Jobs
<1> QED BY <1>1, <1>2, <1>3, PTL DEF Spec

-----------------------------------------------------------------------------
(* The tenant is told nothing but the verdict on file, and the pipeline      *)
(* implements VerificationContract.                                          *)

\* The slot went past the once-guard and still has something to write.
Running(w) == pc[w] \in {"decide"} \union Judged

\* One slot at most is past the once-guard of a job, and its run is counted.
RunInv ==
  /\ \A w \in Workers : Running(w) => runs[task[w]] = 1
  /\ \A w, x \in Workers : (Running(w) /\ Running(x) /\ task[w] = task[x]) => w = x

\* The document phase exists only for a tenant that was asked for a document.
AskedInv ==
  /\ \A d \in Submits : request[d] \in {"put", "putSelfie", "enqueue"}
                          => DocRequired \in Received(TxOf[d])
  /\ \A t \in Verifies : Queued(<<t, "doc">>) => DocRequired \in Received(t)

\* What the record of a transaction can be, by the phases that ran.
RecordInv ==
  \A t \in Verifies :
    /\ runs[<<t, "age">>] = 0 => record[t] = NoVerdict
    /\ runs[<<t, "doc">>] = 0 => record[t] \notin DocVerdicts
    /\ record[t] \in DocVerdicts => DocRequired \in Received(t)

\* What it is while a slot runs.
RunningInv ==
  \A w \in Workers : Running(w) =>
    IF task[w][2] = "age"
    THEN IF pc[w] = "dispatch"
         THEN \/ record[Tx(w)] = verdict[w]
              \/ verdict[w] = DocRequired /\ record[Tx(w)] \in DocVerdicts
         ELSE record[Tx(w)] = NoVerdict
    ELSE record[Tx(w)] = IF pc[w] = "dispatch" THEN verdict[w] ELSE DocRequired

TrailInv == RunInv /\ AskedInv /\ RecordInv /\ RunningInv /\ WebhookBacked

-----------------------------------------------------------------------------
LEMMA AppendReceived ==
  ASSUME NEW s \in Seq(Verdicts), NEW v \in Verdicts
  PROVE  {Append(s, v)[i] : i \in 1..Len(Append(s, v))} = {s[i] : i \in 1..Len(s)} \union {v}
<1>1. Len(Append(s, v)) = Len(s) + 1 /\ Len(s) \in Nat
  OBVIOUS
<1>2. Append(s, v)[Len(s) + 1] = v
  OBVIOUS
<1>3. \A i \in 1..Len(s) : Append(s, v)[i] = s[i]
  OBVIOUS
<1>4. 1..(Len(s) + 1) = 1..Len(s) \union {Len(s) + 1}
  BY <1>1
<1> QED BY <1>1, <1>2, <1>3, <1>4

LEMMA ReceivedTyped == Typed => \A t \in Verifies : Received(t) \subseteq Verdicts
  BY DEF Typed, TrailTyped, Received

\* A webhook that arrives adds its verdict; nothing that arrived is forgotten.
LEMMA DispatchTells ==
  ASSUME Typed, NEW w \in Workers, Dispatch(w)
  PROVE  /\ task[w] \in Jobs /\ Tx(w) \in Verifies
         /\ pc[w] = "dispatch" /\ Running(w) /\ verdict[w] \in Verdicts
         /\ UNCHANGED <<record, runs, task, verdict, request, job>>
         /\ \A t \in Verifies :
              \/ Received(t)' = Received(t)
              \/ t = Tx(w) /\ Received(t)' = Received(t) \union {verdict[w]}
         /\ pc' \in {pc, [pc EXCEPT ![w] = "delete"]}
<1>1. pc[w] = "dispatch" /\ task[w] \in Jobs /\ Tx(w) \in Verifies
  BY TaskTyped DEF Dispatch
<1>2. verdict[w] \in Verdicts /\ Running(w)
  BY <1>1, VerdictTypes DEF Typed, SlotTyped, Judged, Running
<1>3. inbox' = inbox \/ inbox' = [inbox EXCEPT ![Tx(w)] = Append(@, verdict[w])]
  BY DEF Dispatch, Delivered
<1>4. pc' \in {pc, [pc EXCEPT ![w] = "delete"]}
  BY <1>1 DEF Dispatch, Go, Throw, Typed, SlotTyped
<1>5. UNCHANGED <<record, runs, task, verdict, request, job>>
  BY DEF Dispatch, trailVars, queueVars, apiVars
<1>6. ASSUME NEW t \in Verifies
      PROVE  \/ Received(t)' = Received(t)
             \/ t = Tx(w) /\ Received(t)' = Received(t) \union {verdict[w]}
  <2>1. CASE inbox'[t] = inbox[t]
    BY <2>1 DEF Received
  <2>2. CASE t = Tx(w) /\ inbox' = [inbox EXCEPT ![t] = Append(@, verdict[w])]
    <3>1. inbox'[t] = Append(inbox[t], verdict[w]) /\ inbox[t] \in Seq(Verdicts)
      BY <2>2 DEF Typed, TrailTyped
    <3> QED BY <1>2, <2>2, <3>1, AppendReceived DEF Received
  <2> QED BY <1>1, <1>3, <2>1, <2>2 DEF Typed, TrailTyped
<1> QED BY <1>1, <1>2, <1>4, <1>5, <1>6

\* Only SaveRecord and Dispatch touch what the tenant sees.
LEMMA TrailKept ==
  ASSUME Next, \A w \in Workers : ~SaveRecord(w) /\ ~Dispatch(w)
  PROVE  UNCHANGED <<record, inbox>>
<1> USE DEF slotVars, queueVars, trailVars, apiVars
<1>1. CASE \/ \E s \in Sessions : ExpireSession(s)
           \/ \E t \in Verifies : ExpireDocSession(t)
           \/ \E v \in Verifies : VerifyStep(v)
           \/ \E d \in Submits : SubmitStep(d)
  BY <1>1 DEF ExpireSession, ExpireDocSession, VerifyStep, SubmitStep, ConsumeSession,
              ConsumeDocSession, PutFrame, PutDocument, PutSelfie, Upload, Enqueue,
              EnqueueVerification, EnqueueDocument
<1>2. CASE \/ \E w \in Workers, j \in Jobs : Fetch(w, j)
           \/ \E j \in Jobs : Promote(j) \/ LockExpires(j)
           \/ \E m \in Media : BucketExpires(m)
  BY <1>2 DEF Fetch, Promote, LockExpires, BucketExpires
<1>3. ASSUME NEW w \in Workers, WorkerStep(w) \/ Crash(w), ~SaveRecord(w), ~Dispatch(w)
      PROVE  UNCHANGED <<record, inbox>>
  BY <1>3 DEF WorkerStep, Crash, GetMedia, AcquireOnce, Decide, IssueDocumentSession,
              SaveAudit, DeleteMedia, DeleteSelfie, Remove, RecordDiscard, Settle
<1> QED BY <1>1, <1>2, <1>3 DEF Next

LEMMA ReceivedKept ==
  ASSUME Typed, Next
  PROVE  \A t \in Verifies : Received(t) \subseteq Received(t)'
<1>1. CASE \E w \in Workers : Dispatch(w)
  BY <1>1, DispatchTells
<1>2. CASE UNCHANGED inbox
  BY <1>2 DEF Received
<1>3. ASSUME NEW w \in Workers, SaveRecord(w) PROVE UNCHANGED inbox
  BY <1>3 DEF SaveRecord
<1> QED BY <1>1, <1>2, <1>3, TrailKept

-----------------------------------------------------------------------------
(* The document phase follows from the webhook that asked for it. *)

LEMMA AskedInductive ==
  ASSUME Typed, AskedInv, Next
  PROVE  AskedInv'
<1> USE PipelineAssumption
<1>1. \A t \in Verifies : <<t, "age">> \in Jobs /\ <<t, "doc">> \in Jobs
  BY DEF Jobs
<1>2. CASE BackStep
  BY <1>1, <1>2, BackStepKeeps, ReceivedKept DEF AskedInv
<1>3. ASSUME NEW d \in Submits, ConsumeDocSession(d) PROVE AskedInv'
  BY <1>3, ReceivedKept
  DEF ConsumeDocSession, At, AskedInv, Queued, queueVars, Typed, ApiTyped
<1>4. CASE \/ \E s \in Sessions : ExpireSession(s)
           \/ \E v \in Verifies : ConsumeSession(v) \/ PutFrame(v)
  <2>1. UNCHANGED job /\ \A d \in Submits : request'[d] = request[d]
    BY <1>4 DEF ExpireSession, ConsumeSession, PutFrame, Upload, At, Typed, ApiTyped, queueVars
  <2> QED BY <2>1, ReceivedKept DEF AskedInv, Queued
<1>5. ASSUME NEW d \in Submits, PutDocument(d) \/ PutSelfie(d) PROVE AskedInv'
  <2>1. UNCHANGED job
        /\ \A e \in Submits : request'[e] \in {"put", "putSelfie", "enqueue"}
                                => request[e] \in {"put", "putSelfie", "enqueue"}
    BY <1>5 DEF PutDocument, PutSelfie, Upload, At, Typed, ApiTyped, queueVars
  <2> QED BY <2>1, ReceivedKept DEF AskedInv, Queued
<1>6. ASSUME NEW v \in Verifies, EnqueueVerification(v) PROVE AskedInv'
  <2>1. /\ \A t \in Verifies : Queued(<<t, "doc">>)' <=> Queued(<<t, "doc">>)
        /\ \A d \in Submits : request'[d] = request[d]
    <3>1. \A t \in Verifies : <<t, "doc">> \in Jobs \ {<<v, "age">>}
      BY <1>1
    <3>2. Enqueue(v, <<v, "age">>) /\ <<v, "age">> \in Jobs
      BY <1>1, <1>6 DEF EnqueueVerification
    <3>3. /\ \A i \in Jobs \ {<<v, "age">>} : Queued(i)' <=> Queued(i)
          /\ request' \in {[request EXCEPT ![v] = "accepted"], [request EXCEPT ![v] = "failed"]}
      BY <3>2, EnqueueQueues
    <3>4. \A d \in Submits : d # v
      BY PipelineAssumption
    <3>5. \A d \in Submits : request'[d] = request[d]
      BY <3>3, <3>4 DEF Typed, ApiTyped
    <3> QED BY <3>1, <3>3, <3>5
  <2> QED BY <2>1, ReceivedKept DEF AskedInv
<1>7. ASSUME NEW d \in Submits, EnqueueDocument(d) PROVE AskedInv'
  <2>1. /\ \A t \in Verifies \ {TxOf[d]} : Queued(<<t, "doc">>)' <=> Queued(<<t, "doc">>)
        /\ request[d] = "enqueue"
        /\ \A e \in Submits : request'[e] \in {request[e], "accepted", "failed"}
    <3>1. \A t \in Verifies \ {TxOf[d]} : <<t, "doc">> \in Jobs \ {<<TxOf[d], "doc">>}
      BY <1>1
    <3> QED BY <1>1, <1>7, <3>1, EnqueueQueues DEF EnqueueDocument, Typed, ApiTyped
  <2> QED BY <2>1, ReceivedKept DEF AskedInv
<1> QED BY <1>2, <1>3, <1>4, <1>5, <1>6, <1>7 DEF Next, BackStep, VerifyStep, SubmitStep

-----------------------------------------------------------------------------
(* Steps that neither start a run, nor write a record, nor call the tenant. *)

Quiet ==
  /\ UNCHANGED <<record, inbox, runs>>
  /\ \A w \in Workers : Running(w)' =>
       /\ Running(w) /\ task'[w] = task[w]
       /\ pc'[w] = "dispatch" <=> pc[w] = "dispatch"
       /\ pc'[w] = "dispatch" => verdict'[w] = verdict[w]

LEMMA QuietKeeps ==
  ASSUME Typed, TrailInv, AskedInv', Quiet
  PROVE  TrailInv'
<1>1. RunInv'
  BY DEF Quiet, TrailInv, RunInv
<1>2. \A t \in Verifies : Received(t)' = Received(t)
  BY DEF Quiet, Received
<1>3. RecordInv' /\ WebhookBacked'
  BY <1>2 DEF Quiet, TrailInv, RecordInv, WebhookBacked
<1>4. RunningInv'
  BY DEF Quiet, TrailInv, RunningInv, Tx
<1> QED BY <1>1, <1>3, <1>4 DEF TrailInv

LEMMA QuietSteps ==
  ASSUME Typed, Next,
         \A w \in Workers : ~AcquireOnce(w) /\ ~SaveRecord(w) /\ ~Dispatch(w)
  PROVE  Quiet
<1> USE DEF slotVars, queueVars, trailVars, apiVars
<1>0. UNCHANGED <<record, inbox, runs>>
  BY TrailKept, OnceKept
<1>1. CASE UNCHANGED slotVars
  BY <1>0, <1>1 DEF Quiet, Running
<1>2. ASSUME NEW w \in Workers, NEW j \in Jobs, Fetch(w, j) PROVE Quiet
  BY <1>0, <1>2 DEF Fetch, Quiet, Running, Judged, Typed, SlotTyped
<1>3. ASSUME NEW w \in Workers, Settle(w) \/ Crash(w) PROVE Quiet
  <2>1. Release(w)  BY <1>3 DEF Settle, Crash
  <2> QED BY <1>0, <2>1 DEF Release, Quiet, Running, Judged, Typed, SlotTyped
<1>4. ASSUME NEW w \in Workers, WorkerStep(w), ~Settle(w) PROVE Quiet
  <2>1. UNCHANGED task
    BY <1>4
    DEF WorkerStep, GetMedia, AcquireOnce, Decide, IssueDocumentSession, SaveAudit, SaveRecord,
        Dispatch, DeleteMedia, DeleteSelfie, Remove, RecordDiscard
  <2>2. \/ UNCHANGED verdict
        \/ pc[w] = "decide" /\ \A x \in Workers \ {w} : verdict'[x] = verdict[x]
    BY <1>4
    DEF WorkerStep, GetMedia, Decide, IssueDocumentSession, SaveAudit, DeleteMedia,
        DeleteSelfie, Remove, RecordDiscard, Go, Throw, Typed, SlotTyped
  <2>3. \E to \in Steps :
          /\ pc' = [pc EXCEPT ![w] = to]
          /\ to \in {"decide"} \union Judged => Running(w)
          /\ to = "dispatch" => FALSE
          /\ pc[w] # "dispatch"
    BY <1>4
    DEF WorkerStep, GetMedia, Decide, IssueDocumentSession, SaveAudit, DeleteMedia,
        DeleteSelfie, Remove, RecordDiscard, Go, Throw, Steps, Running, Judged
  <2> QED BY <1>0, <2>1, <2>2, <2>3 DEF Quiet, Running, Judged, Typed, SlotTyped
<1>5. CASE ~(\E w \in Workers : WorkerStep(w) \/ Crash(w) \/ \E j \in Jobs : Fetch(w, j))
  <2>1. UNCHANGED slotVars
    BY <1>5 DEF Next, ExpireSession, ExpireDocSession, VerifyStep, SubmitStep, ConsumeSession,
                ConsumeDocSession, PutFrame, PutDocument, PutSelfie, Upload, Enqueue,
                EnqueueVerification, EnqueueDocument, Promote, LockExpires, BucketExpires
  <2> QED BY <1>1, <2>1
<1> QED BY <1>2, <1>3, <1>4, <1>5

-----------------------------------------------------------------------------
(* The three steps that matter. *)

LEMMA PhaseOf ==
  ASSUME NEW j \in Jobs
  PROVE  /\ j = <<j[1], "age">> \/ j = <<j[1], "doc">>
         /\ j[1] \in Verifies /\ j[2] \in {"age", "doc"}
  BY DEF Jobs

\* A run that starts finds no record in the age phase, and the request for a
\* document in the document phase.
LEMMA AcquireKeeps ==
  ASSUME Typed, OnceInv, QueuedInv, TrailInv, AskedInv', NEW w \in Workers, AcquireOnce(w)
  PROVE  TrailInv'
<1> DEFINE j == task[w]
           t == j[1]
<1>1. pc[w] = "once" /\ j \in Jobs /\ t \in Verifies
  BY TaskTyped, PhaseOf DEF AcquireOnce
<1>2. UNCHANGED <<record, inbox, task, verdict>>
  BY DEF AcquireOnce, trailVars
<1>3. CASE UNCHANGED runs /\ \E to \in {"delete"} : pc' = [pc EXCEPT ![w] = to]
  <2>1. Quiet
    BY <1>1, <1>2, <1>3 DEF Quiet, Running, Judged, Typed, SlotTyped
  <2> QED BY <2>1, QuietKeeps
<1>4. CASE /\ j \notin once
           /\ pc' = [pc EXCEPT ![w] = "decide"]
           /\ runs' = [runs EXCEPT ![j] = @ + 1]
  <2>1. runs[j] = 0 /\ runs'[j] = 1 /\ \A i \in Jobs \ {j} : runs'[i] = runs[i]
    BY <1>1, <1>4 DEF OnceInv, Typed, OnceTyped
  <2>2. \A x \in Workers : Running(x) => task[x] \in Jobs /\ task[x] # j
    BY <2>1, TaskTyped DEF TrailInv, RunInv, Running, Judged
  <2>3. \A x \in Workers : (Running(x)' <=> Running(x) \/ x = w) /\ (x # w => pc'[x] = pc[x])
    BY <1>1, <1>4 DEF Running, Judged, Typed, SlotTyped
  <2>4. RunInv'
    BY <1>2, <2>1, <2>2, <2>3 DEF TrailInv, RunInv
  <2>5. \A u \in Verifies : Received(u)' = Received(u)
    BY <1>2 DEF Received
  <2>6. WebhookBacked'
    BY <1>2, <2>5 DEF TrailInv, WebhookBacked
  <2>7. RecordInv'
    <3>1. \A u \in Verifies : <<u, "age">> \in Jobs /\ <<u, "doc">> \in Jobs
      BY DEF Jobs
    <3>2. \A i \in Jobs : runs'[i] = 0 => runs[i] = 0
      BY <2>1
    <3> QED BY <1>2, <2>5, <3>1, <3>2 DEF TrailInv, RecordInv
  <2>8. IF j[2] = "age" THEN record[t] = NoVerdict ELSE record[t] = DocRequired
    <3>1. CASE j = <<t, "age">>
      <4>1. runs[<<t, "age">>] = 0
        BY <2>1, <3>1
      <4>2. j[2] = "age"
        BY <3>1
      <4> QED BY <1>1, <4>1, <4>2 DEF TrailInv, RecordInv
    <3>2. CASE j = <<t, "doc">>
      <4>1. DocRequired \in Received(t)
        BY <1>1, <3>2 DEF QueuedInv, TrailInv, AskedInv
      <4>2. record[t] \notin DocVerdicts
        BY <1>1, <2>1, <3>2 DEF TrailInv, RecordInv
      <4> QED BY <1>1, <3>2, <4>1, <4>2 DEF TrailInv, WebhookBacked
    <3> QED BY <1>1, <3>1, <3>2, PhaseOf
  <2>9. RunningInv'
    <3>1. ASSUME NEW x \in Workers, x # w, Running(x)'
          PROVE  Running(x) /\ pc'[x] = pc[x]
      BY <2>3, <3>1
    <3>2. pc'[w] = "decide"
      BY <1>1, <1>4 DEF Typed, SlotTyped
    <3> QED BY <1>1, <1>2, <2>8, <3>1, <3>2 DEF TrailInv, RunningInv, Tx
  <2> QED BY <2>4, <2>6, <2>7, <2>9 DEF TrailInv
<1> QED BY <1>1, <1>3, <1>4 DEF AcquireOnce, Go, Throw

\* A record that is written is the first one of the age phase, or replaces the
\* request for a document.
LEMMA SaveRecordFrom ==
  ASSUME Typed, TrailInv, NEW w \in Workers, SaveRecord(w)
  PROVE  /\ task[w] \in Jobs /\ Tx(w) \in Verifies /\ pc[w] = "record" /\ Running(w)
         /\ IF task[w][2] = "age"
            THEN record[Tx(w)] = NoVerdict /\ verdict[w] \in AgeVerdicts
            ELSE record[Tx(w)] = DocRequired /\ verdict[w] \in DocVerdicts
         /\ UNCHANGED <<inbox, runs, task, verdict, request, job>>
         /\ record' \in {record, [record EXCEPT ![Tx(w)] = verdict[w]]}
         /\ \/ pc' = [pc EXCEPT ![w] = "delete"]
            \/ pc' = [pc EXCEPT ![w] = "dispatch"] /\ record' = [record EXCEPT ![Tx(w)] = verdict[w]]
<1>1. pc[w] = "record"
  BY DEF SaveRecord, Go, Throw
<1>2. task[w] \in Jobs /\ Tx(w) \in Verifies /\ Running(w)
  BY <1>1, TaskTyped DEF Running, Judged
<1>3. verdict[w] \in VerdictsOf(task[w])
  BY <1>1 DEF Typed, SlotTyped, Judged
<1> QED BY <1>1, <1>2, <1>3
        DEF SaveRecord, Go, Throw, VerdictsOf, TrailInv, RunningInv, queueVars, apiVars

LEMMA SaveRecordKeeps ==
  ASSUME Typed, QueuedInv, TrailInv, AskedInv', NEW w \in Workers, SaveRecord(w)
  PROVE  TrailInv'
<1> DEFINE t == Tx(w)
<1>1. /\ task[w] \in Jobs /\ t \in Verifies /\ pc[w] = "record" /\ Running(w)
      /\ UNCHANGED <<inbox, runs, task, verdict>>
  BY SaveRecordFrom
<1>2. CASE record' = record
  <2>1. pc' = [pc EXCEPT ![w] = "delete"] \/ record[t] = verdict[w]
    BY <1>1, <1>2, SaveRecordFrom DEF Typed, TrailTyped
  <2>2. pc' = [pc EXCEPT ![w] = "delete"]
    BY <1>1, <2>1, SaveRecordFrom, VerdictTypes DEF Verdicts
  <2>3. Quiet
    BY <1>1, <1>2, <2>2 DEF Quiet, Running, Judged, Typed, SlotTyped
  <2> QED BY <2>3, QuietKeeps
<1>3. CASE record' = [record EXCEPT ![t] = verdict[w]]
  <2>1. record'[t] = verdict[w] /\ \A u \in Verifies \ {t} : record'[u] = record[u]
    BY <1>1, <1>3 DEF Typed, TrailTyped
  <2>2. \A x \in Workers : Running(x)' => Running(x) /\ (x # w => pc'[x] = pc[x])
    BY <1>1, SaveRecordFrom DEF Running, Judged, Typed, SlotTyped
  <2>3. RunInv'
    BY <1>1, <2>2 DEF TrailInv, RunInv
  <2>4. \A u \in Verifies : Received(u)' = Received(u)
    BY <1>1 DEF Received
  <2>5. task[w] = <<t, "age">> \/ task[w] = <<t, "doc">>
    BY <1>1, PhaseOf DEF Tx
  <2>6. runs[task[w]] = 1 /\ Queued(task[w])
    BY <1>1 DEF TrailInv, RunInv, QueuedInv
  <2>7. CASE task[w] = <<t, "age">>
    <3>1. record[t] = NoVerdict /\ verdict[w] \in AgeVerdicts
      BY <2>7, SaveRecordFrom
    <3>2. Received(t) = {}
      <4>1. \A v \in Received(t) : v \in Verdicts  BY <1>1, ReceivedTyped
      <4> QED BY <1>1, <3>1, <4>1, VerdictTypes DEF TrailInv, WebhookBacked, Verdicts
    <3>3. WebhookBacked'
      BY <2>1, <2>4, <3>2 DEF TrailInv, WebhookBacked
    <3>4. RecordInv'
      <4>1. runs'[<<t, "age">>] # 0
        BY <1>1, <2>6, <2>7
      <4>2. record'[t] \notin DocVerdicts
        BY <2>1, <3>1, VerdictTypes
      <4> QED BY <1>1, <2>1, <2>4, <4>1, <4>2 DEF TrailInv, RecordInv
    <3>5. ASSUME NEW x \in Workers, x # w, Running(x)
          PROVE  Tx(x) # t
      <4>1. task[x] \in Jobs  BY <3>5, TaskTyped DEF Running, Judged
      <4>2. task[x] # task[w]  BY <1>1, <3>5 DEF TrailInv, RunInv
      <4>3. task[x] # <<t, "doc">>
        BY <1>1, <3>2, <3>5 DEF TrailInv, AskedInv, QueuedInv, Running, Judged
      <4> QED BY <2>7, <4>1, <4>2, <4>3, PhaseOf DEF Tx
    <3>6. Running(w)' => pc'[w] = "dispatch"
      BY <1>1, SaveRecordFrom DEF Running, Judged, Typed, SlotTyped
    <3>7. \A x \in Workers : Running(x) => Tx(x) \in Verifies
      BY TaskTyped DEF Running, Judged
    <3>8. RunningInv'
      BY <1>1, <2>1, <2>2, <2>7, <3>5, <3>6, <3>7 DEF TrailInv, RunningInv, Tx
    <3> QED BY <2>3, <3>3, <3>4, <3>8 DEF TrailInv
  <2>8. CASE task[w] = <<t, "doc">>
    <3>1. record[t] = DocRequired /\ verdict[w] \in DocVerdicts
      BY <2>8, SaveRecordFrom
    <3>2. DocRequired \in Received(t)
      BY <1>1, <2>6, <2>8 DEF TrailInv, AskedInv
    <3>3. WebhookBacked'
      BY <1>1, <2>1, <2>4, <3>1, VerdictTypes DEF TrailInv, WebhookBacked
    <3>4. runs[<<t, "age">>] # 0
      BY <1>1, <3>1, VerdictTypes DEF TrailInv, RecordInv, Verdicts
    <3>5. RecordInv'
      <4>1. runs'[<<t, "doc">>] # 0 /\ runs'[<<t, "age">>] # 0
        BY <1>1, <2>6, <2>8, <3>4
      <4>2. \A u \in Verifies : u = t => DocRequired \in Received(u)'
        BY <1>1, <2>4, <3>2
      <4> QED BY <1>1, <2>1, <2>4, <4>1, <4>2 DEF TrailInv, RecordInv
    <3>6. ASSUME NEW x \in Workers, x # w, Running(x), Tx(x) = t
          PROVE  task[x][2] = "age" /\ pc[x] = "dispatch" /\ verdict[x] = DocRequired
      <4>1. task[x] \in Jobs  BY <3>6, TaskTyped DEF Running, Judged
      <4>2. task[x] # task[w]  BY <1>1, <3>6 DEF TrailInv, RunInv
      <4>3. task[x] = <<t, "age">>
        BY <2>8, <3>6, <4>1, <4>2, PhaseOf DEF Tx
      <4>4. pc[x] = "dispatch"
        BY <3>1, <3>6, <4>3, VerdictTypes DEF TrailInv, RunningInv, Verdicts
      <4> QED BY <3>1, <3>6, <4>3, <4>4, VerdictTypes DEF TrailInv, RunningInv
    <3>7. Running(w)' => pc'[w] = "dispatch"
      BY <1>1, SaveRecordFrom DEF Running, Judged, Typed, SlotTyped
    <3>8. \A x \in Workers : Running(x) => Tx(x) \in Verifies
      BY TaskTyped DEF Running, Judged
    <3>9. RunningInv'
      BY <1>1, <2>1, <2>2, <2>8, <3>1, <3>6, <3>7, <3>8 DEF TrailInv, RunningInv, Tx
    <3> QED BY <2>3, <3>3, <3>5, <3>9 DEF TrailInv
  <2> QED BY <2>5, <2>7, <2>8
<1> QED BY <1>2, <1>3, SaveRecordFrom

\* A webhook carries the record, or a request for a document that was heard.
LEMMA DispatchKeeps ==
  ASSUME Typed, TrailInv, AskedInv', NEW w \in Workers, Dispatch(w)
  PROVE  TrailInv'
<1>1. \/ record[Tx(w)] = verdict[w]
      \/ verdict[w] = DocRequired /\ record[Tx(w)] \in DocVerdicts
  BY DispatchTells DEF TrailInv, RunningInv
<1>2. WebhookBacked'
  BY <1>1, DispatchTells DEF TrailInv, WebhookBacked
<1>3. \A x \in Workers : Running(x)' => Running(x) /\ pc'[x] = pc[x]
  BY DispatchTells DEF Running, Judged, Typed, SlotTyped
<1>4. RunInv'
  BY <1>3, DispatchTells DEF TrailInv, RunInv
<1>5. RecordInv'
  BY DispatchTells DEF TrailInv, RecordInv
<1>6. RunningInv'
  BY <1>3, DispatchTells DEF TrailInv, RunningInv, Tx
<1> QED BY <1>2, <1>4, <1>5, <1>6 DEF TrailInv

-----------------------------------------------------------------------------
AllInv == Typed /\ OnceInv /\ SessionInv /\ QueuedInv /\ TrailInv

LEMMA InitAll == Init => AllInv
<1> SUFFICES ASSUME Init PROVE AllInv
  OBVIOUS
<1> USE DEF Init
<1>1. Typed  BY InitTyped
<1>2. OnceInv  BY DEF OnceInv
<1>3. SessionInv /\ QueuedInv
  BY DEF SessionInv, QueuedInv, Paid, Queued, Jobs
<1>4. \A t \in Verifies : Received(t) = {}
  BY DEF Received
<1>5. RunInv /\ RunningInv
  BY DEF RunInv, RunningInv, Running, Judged
<1>6. AskedInv
  BY <1>4, PipelineAssumption DEF AskedInv, Queued, Jobs
<1>7. RecordInv /\ WebhookBacked
  BY <1>4, VerdictTypes DEF RecordInv, WebhookBacked, Verdicts
<1> QED BY <1>1, <1>2, <1>3, <1>5, <1>6, <1>7 DEF AllInv, TrailInv

LEMMA AllInductive ==
  ASSUME AllInv, [Next]_vars
  PROVE  AllInv'
<1> USE DEF AllInv
<1>1. Typed' /\ OnceInv' /\ SessionInv' /\ QueuedInv'
  BY TypedInductive, OnceInductive, SessionInductive, QueuedInductive
<1>2. CASE UNCHANGED vars
  <2>1. AskedInv'
    BY <1>2 DEF vars, TrailInv, AskedInv, Queued, Received
  <2>2. Quiet
    BY <1>2 DEF vars, Quiet, Running
  <2> QED BY <1>1, <2>1, <2>2, QuietKeeps
<1>3. CASE Next
  <2>1. AskedInv'
    BY <1>3, AskedInductive DEF TrailInv
  <2> QED BY <1>1, <1>3, <2>1, QuietSteps, QuietKeeps, AcquireKeeps, SaveRecordKeeps,
             DispatchKeeps
<1> QED BY <1>2, <1>3

LEMMA AllInvariant == Spec => []AllInv
  BY InitAll, AllInductive, PTL DEF Spec

\* The tenant is never told a status that is not the one on file, or the request
\* for a document that the document phase has since replaced, for any number of
\* workers and any fault (verification.service.ts:68-77,
\* document.processor.ts:67-75).
THEOREM ToldIsOnFile == Spec => []WebhookBacked
<1>1. AllInv => WebhookBacked
  BY DEF AllInv, TrailInv
<1> QED BY <1>1, AllInvariant, PTL

-----------------------------------------------------------------------------
(* The refinement. *)

LEMMA InitContract == Init => Contract!Init
  BY DEF Init, Contract!Init, Received

LEMMA StepContract ==
  ASSUME AllInv, [Next]_vars
  PROVE  [Contract!Next]_(Contract!vars)
<1> DEFINE told == [t \in Verifies |-> Received(t)]
<1> USE DEF AllInv
<1>1. CASE UNCHANGED <<record, inbox>>
  BY <1>1 DEF Contract!vars, Received
<1>2. ASSUME NEW w \in Workers, SaveRecord(w)
      PROVE  [Contract!Next]_(Contract!vars)
  <2> DEFINE t == Tx(w)
  <2>1. t \in Verifies /\ UNCHANGED inbox /\ task[w] \in Jobs /\ Running(w)
    BY <1>2, SaveRecordFrom
  <2>2. told' = told
    BY <2>1 DEF Received
  <2>3. CASE record' = record
    BY <2>1, <2>3, <1>1
  <2>4. CASE record' = [record EXCEPT ![t] = verdict[w]]
    <3>1. CASE task[w][2] = "age"
      <4>1. record[t] = NoVerdict /\ verdict[w] \in AgeVerdicts
        BY <1>2, <3>1, SaveRecordFrom
      <4>2. \E u \in Verifies : Contract!Judge(u)
        BY <2>1, <2>2, <2>4, <4>1 DEF Contract!Judge
      <4> QED BY <4>2 DEF Contract!Next
    <3>2. CASE task[w][2] # "age"
      <4>1. record[t] = DocRequired /\ verdict[w] \in DocVerdicts
        BY <1>2, <3>2, SaveRecordFrom
      <4>2. task[w] = <<t, "doc">> /\ Queued(task[w])
        BY <2>1, <3>2, PhaseOf DEF Tx, QueuedInv, Running, Judged
      <4>3. DocRequired \in told[t]
        BY <2>1, <4>2 DEF TrailInv, AskedInv
      <4>4. \E u \in Verifies : Contract!Resolve(u)
        BY <2>1, <2>2, <2>4, <4>1, <4>3 DEF Contract!Resolve
      <4> QED BY <4>4 DEF Contract!Next
    <3> QED BY <3>1, <3>2
  <2> QED BY <1>2, <2>3, <2>4, SaveRecordFrom
<1>3. ASSUME NEW w \in Workers, Dispatch(w)
      PROVE  [Contract!Next]_(Contract!vars)
  <2> DEFINE t == Tx(w)
  <2>1. t \in Verifies /\ UNCHANGED record /\ verdict[w] \in Verdicts
    BY <1>3, DispatchTells
  <2>2. CASE told' = told
    BY <2>1, <2>2 DEF Contract!vars
  <2>3. CASE told' # told
    <3>1. told' = [told EXCEPT ![t] = @ \union {verdict[w]}] /\ verdict[w] \notin Received(t)
      <4>1. \A u \in Verifies : \/ Received(u)' = Received(u)
                                \/ u = t /\ Received(u)' = Received(u) \union {verdict[w]}
        BY <1>3, DispatchTells
      <4>2. PICK u \in Verifies : Received(u)' # Received(u)
        BY <2>3
      <4> QED BY <2>1, <4>1, <4>2
    <3>2. \/ record[t] = verdict[w]
          \/ verdict[w] = DocRequired /\ record[t] \in DocVerdicts
      BY <1>3, DispatchTells DEF TrailInv, RunningInv
    <3>3. record[t] = verdict[w]
      BY <2>1, <3>1, <3>2 DEF TrailInv, RecordInv
    <3>4. \E u \in Verifies : Contract!Tell(u)
      BY <2>1, <3>1, <3>3, VerdictTypes DEF Contract!Tell
    <3> QED BY <3>4 DEF Contract!Next
  <2> QED BY <2>2, <2>3
<1> QED BY <1>1, <1>2, <1>3, TrailKept DEF vars

\* With retries, crashes, lost locks, failing calls and lost answers, what the
\* tenant sees of the pipeline is what VerificationContract allows.
THEOREM Implementation == Spec => ImplementsContract
  BY InitContract, StepContract, AllInvariant, PTL DEF Spec, ImplementsContract, Contract!Spec

-----------------------------------------------------------------------------
(* The audit trail and the records. *)

\* A slot that is about to save the record has just saved the same audit.
AuditInv ==
  /\ AuditLeadsRecord
  /\ \A w \in Workers : pc[w] = "record" => audit[Tx(w)] = verdict[w]

\* Two slots at work on one transaction are in different phases, and the document
\* phase only runs when the age phase has its record: so they never both have an
\* audit or a record to save.
LEMMA OneWriter ==
  ASSUME Typed, TrailInv, NEW w \in Workers, NEW x \in Workers,
         pc[w] \in {"audit", "record"}, pc[x] \in {"audit", "record"}, Tx(w) = Tx(x)
  PROVE  w = x
<1>1. Running(w) /\ Running(x) /\ task[w] \in Jobs /\ task[x] \in Jobs
  BY TaskTyped DEF Running, Judged
<1>2. NoVerdict # DocRequired
  BY VerdictTypes DEF Verdicts
<1>3. task[w][2] = task[x][2]
  BY <1>1, <1>2, PhaseOf DEF TrailInv, RunningInv
<1>4. task[w] = task[x]
  BY <1>1, <1>3, PhaseOf DEF Tx
<1> QED BY <1>1, <1>4 DEF TrailInv, RunInv

\* Only SaveAudit and SaveRecord touch the two, only SaveAudit leads to the
\* record, and no slot changes its verdict there.
LEMMA AuditKept ==
  ASSUME Typed, Next, \A w \in Workers : ~SaveAudit(w) /\ ~SaveRecord(w)
  PROVE  /\ UNCHANGED <<audit, record>>
         /\ \A w \in Workers : pc'[w] = "record" =>
              pc[w] = "record" /\ task'[w] = task[w] /\ verdict'[w] = verdict[w]
<1> USE DEF slotVars, queueVars, trailVars, apiVars
<1> DEFINE Kept == \A w \in Workers : pc'[w] = "record" =>
                     pc[w] = "record" /\ task'[w] = task[w] /\ verdict'[w] = verdict[w]
<1>1. CASE \/ \E s \in Sessions : ExpireSession(s)
           \/ \E t \in Verifies : ExpireDocSession(t)
           \/ \E v \in Verifies : VerifyStep(v)
           \/ \E d \in Submits : SubmitStep(d)
           \/ \E j \in Jobs : Promote(j) \/ LockExpires(j)
           \/ \E m \in Media : BucketExpires(m)
  BY <1>1 DEF ExpireSession, ExpireDocSession, VerifyStep, SubmitStep, ConsumeSession,
              ConsumeDocSession, PutFrame, PutDocument, PutSelfie, Upload, Enqueue,
              EnqueueVerification, EnqueueDocument, Promote, LockExpires, BucketExpires
<1>2. ASSUME NEW w \in Workers, NEW j \in Jobs, Fetch(w, j)
      PROVE  UNCHANGED <<audit, record>> /\ Kept
  BY <1>2 DEF Fetch, Typed, SlotTyped
<1>3. ASSUME NEW w \in Workers, Settle(w) \/ Crash(w)
      PROVE  UNCHANGED <<audit, record>> /\ Kept
  BY <1>3 DEF Settle, Crash, Release, Typed, SlotTyped
<1>4. ASSUME NEW w \in Workers, WorkerStep(w), ~Settle(w), ~SaveAudit(w), ~SaveRecord(w)
      PROVE  UNCHANGED <<audit, record>> /\ Kept
  BY <1>4
  DEF WorkerStep, GetMedia, AcquireOnce, Decide, IssueDocumentSession, Dispatch, DeleteMedia,
      DeleteSelfie, Remove, RecordDiscard, Go, Throw, Typed, SlotTyped
<1> QED BY <1>1, <1>2, <1>3, <1>4 DEF Next, WorkerStep

LEMMA AuditInductive ==
  ASSUME Typed, TrailInv, AuditInv, [Next]_vars
  PROVE  AuditInv'
<1>1. CASE UNCHANGED vars
  BY <1>1 DEF vars, AuditInv, AuditLeadsRecord, Tx
<1>2. ASSUME NEW w \in Workers, SaveAudit(w) PROVE AuditInv'
  <2>1. /\ pc[w] = "audit" /\ task[w] \in Jobs /\ Tx(w) \in Verifies /\ Running(w)
        /\ verdict[w] \in VerdictsOf(task[w])
        /\ UNCHANGED <<record, task, verdict>>
    BY <1>2, TaskTyped
    DEF SaveAudit, Go, Throw, Running, Judged, Typed, SlotTyped
  <2>2. IF task[w][2] = "age" THEN record[Tx(w)] = NoVerdict
        ELSE record[Tx(w)] = DocRequired /\ verdict[w] \in DocVerdicts
    BY <2>1 DEF TrailInv, RunningInv, VerdictsOf
  <2>3. audit' \in {audit, [audit EXCEPT ![Tx(w)] = verdict[w]]}
    BY <1>2 DEF SaveAudit
  <2>4. AuditLeadsRecord'
    BY <2>1, <2>2, <2>3 DEF AuditInv, AuditLeadsRecord, Typed, TrailTyped
  <2>5. ASSUME NEW x \in Workers, pc'[x] = "record"
        PROVE  audit'[Tx(x)] = verdict[x]
    <3>1. CASE x = w
      BY <1>2, <2>1, <2>5, <3>1 DEF SaveAudit, Go, Throw, Typed, SlotTyped, TrailTyped
    <3>2. CASE x # w
      <4>1. pc[x] = "record"
        BY <1>2, <2>5, <3>2 DEF SaveAudit, Go, Throw, Typed, SlotTyped
      <4>2. Tx(x) # Tx(w)
        BY <2>1, <3>2, <4>1, OneWriter
      <4> QED BY <2>3, <4>1, <4>2, TaskTyped DEF AuditInv, Typed, TrailTyped
    <3> QED BY <3>1, <3>2
  <2> QED BY <2>1, <2>4, <2>5 DEF AuditInv, Tx
<1>3. ASSUME NEW w \in Workers, SaveRecord(w) PROVE AuditInv'
  <2>1. /\ Tx(w) \in Verifies /\ pc[w] = "record" /\ UNCHANGED <<audit, task, verdict>>
        /\ record' \in {record, [record EXCEPT ![Tx(w)] = verdict[w]]}
        /\ \A x \in Workers : pc'[x] = "record" => pc[x] = "record"
    BY <1>3, SaveRecordFrom DEF SaveRecord, Typed, SlotTyped
  <2> QED BY <2>1 DEF AuditInv, AuditLeadsRecord, Tx, Typed, TrailTyped
<1>4. CASE Next /\ \A w \in Workers : ~SaveAudit(w) /\ ~SaveRecord(w)
  BY <1>4, AuditKept DEF AuditInv, AuditLeadsRecord, Tx
<1> QED BY <1>1, <1>2, <1>3, <1>4

LEMMA AuditInvariant == Spec => []AuditInv
<1>1. Init => AuditInv
  BY DEF Init, AuditInv, AuditLeadsRecord
<1>2. AllInv /\ AuditInv /\ [Next]_vars => AuditInv'
  BY AuditInductive DEF AllInv
<1> QED BY <1>1, <1>2, AllInvariant, PTL DEF Spec

\* The record of a transaction never runs ahead of its audit, and they differ
\* only where a document phase saved its audit and not, or not yet, its record
\* (verification.service.ts:68-76, document.processor.ts:67-74).
THEOREM AuditFirst == Spec => []AuditLeadsRecord
<1>1. AuditInv => AuditLeadsRecord
  BY DEF AuditInv
<1> QED BY <1>1, AuditInvariant, PTL

\* The document phase of a transaction only exists where the audit and the record
\* asked for a document (verification.service.ts:62-66, the document token that
\* only the webhook carries).
THEOREM OnlyWhenAsked == Spec => []EscalationGrounded
<1>1. AllInv /\ AuditInv => EscalationGrounded
  <2> SUFFICES ASSUME AllInv, AuditInv, NEW t \in Verifies, Queued(<<t, "doc">>)
               PROVE  /\ audit[t] \in {DocRequired} \union DocVerdicts
                      /\ record[t] \in {DocRequired} \union DocVerdicts
    BY DEF EscalationGrounded, Queued
  <2>1. DocRequired \in Received(t)
    BY DEF AllInv, TrailInv, AskedInv
  <2>2. record[t] \in {DocRequired} \union DocVerdicts
    BY <2>1 DEF AllInv, TrailInv, WebhookBacked
  <2>3. record[t] # NoVerdict
    BY <2>2, VerdictTypes DEF Verdicts
  <2> QED BY <2>2, <2>3 DEF AuditInv, AuditLeadsRecord
<1> QED BY <1>1, AllInvariant, AuditInvariant, PTL

-----------------------------------------------------------------------------
(* The document token: it is issued at most once for a transaction, by the age *)
(* phase, and spent by the first document request.                             *)

Gone(j) == MediaOf(j) \intersect store = {}
Sending(d) == request[d] \in {"put", "putSelfie", "enqueue"}

IssueInv == \A w \in Workers : pc[w] = "issue" => verdict[w] = DocRequired

\* A document request that is at work, and a document job, have spent the token;
\* there is one of them at a time.
TokenInv ==
  /\ \A d \in Submits : Sending(d) => docSession[TxOf[d]] = "deleted"
  /\ \A d, e \in Submits : (TxOf[d] = TxOf[e] /\ Sending(d) /\ Sending(e)) => d = e
  /\ \A d \in Submits : Queued(<<TxOf[d], "doc">>) =>
       docSession[TxOf[d]] = "deleted" /\ ~Sending(d)

\* An age job is queued by the last step of its request.
UploadInv == \A v \in Verifies : Queued(<<v, "age">>) => request[v] \in {"accepted", "failed"}

LEMMA IssueInductive ==
  ASSUME Typed, IssueInv, [Next]_vars
  PROVE  IssueInv'
<1> USE DEF slotVars, queueVars, trailVars, apiVars
<1>1. CASE UNCHANGED slotVars
  BY <1>1 DEF IssueInv
<1>2. ASSUME NEW w \in Workers, NEW j \in Jobs, Fetch(w, j) PROVE IssueInv'
  BY <1>2 DEF Fetch, IssueInv, Typed, SlotTyped
<1>3. ASSUME NEW w \in Workers, Settle(w) \/ Crash(w) PROVE IssueInv'
  BY <1>3 DEF Settle, Crash, Release, IssueInv, Typed, SlotTyped
<1>4. ASSUME NEW w \in Workers, Decide(w) PROVE IssueInv'
  BY <1>4 DEF Decide, Go, Throw, IssueInv, Typed, SlotTyped
<1>5. ASSUME NEW w \in Workers, WorkerStep(w), ~Settle(w), ~Decide(w) PROVE IssueInv'
  BY <1>5
  DEF WorkerStep, GetMedia, AcquireOnce, IssueDocumentSession, SaveAudit, SaveRecord, Dispatch,
      DeleteMedia, DeleteSelfie, Remove, RecordDiscard, Go, Throw, IssueInv, Typed, SlotTyped
<1>6. CASE ~(\E w \in Workers : WorkerStep(w) \/ Crash(w) \/ \E j \in Jobs : Fetch(w, j))
  <2>1. UNCHANGED slotVars
    BY <1>6 DEF Next, vars, ExpireSession, ExpireDocSession, VerifyStep, SubmitStep,
                ConsumeSession, ConsumeDocSession, PutFrame, PutDocument, PutSelfie, Upload,
                Enqueue, EnqueueVerification, EnqueueDocument, Promote, LockExpires,
                BucketExpires
  <2> QED BY <1>1, <2>1
<1> QED BY <1>2, <1>3, <1>4, <1>5, <1>6

\* While a token is being issued nobody has asked the tenant for a document yet.
LEMMA IssuedFirst ==
  ASSUME AllInv, IssueInv, NEW w \in Workers, pc[w] = "issue"
  PROVE  /\ Tx(w) \in Verifies
         /\ ~Queued(<<Tx(w), "doc">>)
         /\ \A d \in Submits : TxOf[d] = Tx(w) => ~Sending(d)
<1>1. task[w] \in Jobs /\ Tx(w) \in Verifies /\ Running(w)
  BY TaskTyped DEF Running, Judged, AllInv
<1>2. verdict[w] = DocRequired /\ verdict[w] \in VerdictsOf(task[w])
  BY DEF IssueInv, AllInv, Typed, SlotTyped, Judged
<1>3. task[w][2] = "age"
  BY <1>1, <1>2, VerdictTypes DEF VerdictsOf
<1>4. record[Tx(w)] = NoVerdict
  BY <1>1, <1>3 DEF AllInv, TrailInv, RunningInv
<1>5. DocRequired \notin Received(Tx(w))
  BY <1>1, <1>4, VerdictTypes DEF AllInv, TrailInv, WebhookBacked, Verdicts
<1> QED BY <1>1, <1>5 DEF AllInv, TrailInv, AskedInv, Sending

LEMMA DocSessionKept ==
  ASSUME Next, ~(\E t \in Verifies : ExpireDocSession(t)),
         ~(\E w \in Workers : IssueDocumentSession(w)),
         ~(\E d \in Submits : ConsumeDocSession(d))
  PROVE  UNCHANGED docSession
<1> USE DEF slotVars, queueVars, trailVars, apiVars
<1>1. CASE \E w \in Workers : WorkerStep(w) \/ Crash(w)
  BY <1>1 DEF WorkerStep, Crash, GetMedia, AcquireOnce, Decide, SaveAudit, SaveRecord, Dispatch,
              DeleteMedia, DeleteSelfie, Remove, RecordDiscard, Settle
<1>2. CASE ~(\E w \in Workers : WorkerStep(w) \/ Crash(w))
  BY <1>2 DEF Next, ExpireSession, VerifyStep, SubmitStep, ConsumeSession, PutFrame, PutDocument,
              PutSelfie, Upload, Enqueue, EnqueueVerification, EnqueueDocument, Fetch, Promote,
              LockExpires, BucketExpires
<1> QED BY <1>1, <1>2

LEMMA TokenInductive ==
  ASSUME AllInv, IssueInv, TokenInv, Next
  PROVE  TokenInv'
<1> USE PipelineAssumption
<1>0. Typed /\ ApiTyped /\ \A t \in Verifies : <<t, "doc">> \in Jobs /\ <<t, "age">> \in Jobs
  BY DEF AllInv, Typed, Jobs
<1>1. CASE BackStep /\ UNCHANGED docSession
  BY <1>0, <1>1, BackStepKeeps DEF TokenInv, Sending
<1>2. ASSUME NEW t \in Verifies, ExpireDocSession(t) PROVE TokenInv'
  <2>1. BackStep  BY <1>2 DEF BackStep
  <2> QED BY <1>0, <1>2, <2>1, BackStepKeeps
          DEF ExpireDocSession, TokenInv, Sending, ApiTyped
<1>3. ASSUME NEW w \in Workers, IssueDocumentSession(w) PROVE TokenInv'
  <2>1. BackStep /\ pc[w] = "issue"
    BY <1>3 DEF BackStep, WorkerStep, IssueDocumentSession, Go, Throw
  <2>2. \A t \in Verifies \ {Tx(w)} : docSession'[t] = docSession[t]
    BY <1>0, <1>3 DEF IssueDocumentSession, ApiTyped
  <2> QED BY <1>0, <2>1, <2>2, BackStepKeeps, IssuedFirst DEF TokenInv, Sending
<1>4. ASSUME NEW d \in Submits, ConsumeDocSession(d) PROVE TokenInv'
  <2>1. /\ UNCHANGED job
        /\ docSession' \in {docSession, [docSession EXCEPT ![TxOf[d]] = "deleted"]}
        /\ \A e \in Submits \ {d} : request'[e] = request[e]
        /\ Sending(d)' => docSession[TxOf[d]] = "live" /\ docSession'[TxOf[d]] = "deleted"
    BY <1>0, <1>4
    DEF ConsumeDocSession, Consumed, At, ApiTyped, queueVars, Sending
  <2> QED BY <1>0, <2>1 DEF TokenInv, Queued, Sending, ApiTyped
<1>5. ASSUME NEW d \in Submits, PutDocument(d) \/ PutSelfie(d) PROVE TokenInv'
  <2>1. UNCHANGED <<job, docSession>> /\ \A e \in Submits : Sending(e)' => Sending(e)
    BY <1>0, <1>5 DEF PutDocument, PutSelfie, Upload, At, ApiTyped, queueVars, Sending
  <2> QED BY <2>1 DEF TokenInv, Queued
<1>6. ASSUME NEW d \in Submits, EnqueueDocument(d) PROVE TokenInv'
  <2>1. UNCHANGED docSession
    BY <1>6 DEF EnqueueDocument, Enqueue
  <2>2. /\ \A t \in Verifies \ {TxOf[d]} : Queued(<<t, "doc">>)' <=> Queued(<<t, "doc">>)
        /\ Sending(d) /\ ~Sending(d)'
        /\ \A e \in Submits \ {d} : request'[e] = request[e]
    <3>1. \A t \in Verifies \ {TxOf[d]} : <<t, "doc">> \in Jobs \ {<<TxOf[d], "doc">>}
      BY <1>0
    <3>2. /\ request[d] = "enqueue"
          /\ request' \in {[request EXCEPT ![d] = "accepted"], [request EXCEPT ![d] = "failed"]}
          /\ \A i \in Jobs \ {<<TxOf[d], "doc">>} : Queued(i)' <=> Queued(i)
      BY <1>0, <1>6, EnqueueQueues DEF EnqueueDocument
    <3> QED BY <1>0, <3>1, <3>2 DEF ApiTyped, Sending
  <2> QED BY <2>1, <2>2 DEF TokenInv, Sending
<1>7. ASSUME NEW v \in Verifies, EnqueueVerification(v) PROVE TokenInv'
  <2>1. UNCHANGED docSession
    BY <1>7 DEF EnqueueVerification, Enqueue
  <2>2. /\ \A t \in Verifies : Queued(<<t, "doc">>)' <=> Queued(<<t, "doc">>)
        /\ \A d \in Submits : request'[d] = request[d]
    <3>1. \A t \in Verifies : <<t, "doc">> \in Jobs \ {<<v, "age">>}
      BY <1>0
    <3>2. /\ request[v] = "enqueue"
          /\ request' \in {[request EXCEPT ![v] = "accepted"], [request EXCEPT ![v] = "failed"]}
          /\ \A i \in Jobs \ {<<v, "age">>} : Queued(i)' <=> Queued(i)
      BY <1>0, <1>7, EnqueueQueues DEF EnqueueVerification
    <3> QED BY <1>0, <3>1, <3>2 DEF ApiTyped
  <2> QED BY <2>1, <2>2 DEF TokenInv, Sending
<1>8. CASE \/ \E s \in Sessions : ExpireSession(s)
           \/ \E v \in Verifies : ConsumeSession(v) \/ PutFrame(v)
  <2>1. UNCHANGED <<job, docSession>> /\ \A d \in Submits : request'[d] = request[d]
    BY <1>0, <1>8 DEF ExpireSession, ConsumeSession, PutFrame, Upload, At, ApiTyped, queueVars
  <2> QED BY <2>1 DEF TokenInv, Sending, Queued
<1>9. CASE BackStep /\ ~(\E t \in Verifies : ExpireDocSession(t))
           /\ ~(\E w \in Workers : IssueDocumentSession(w))
           /\ ~(\E d \in Submits : ConsumeDocSession(d))
  BY <1>1, <1>9, DocSessionKept
<1> QED BY <1>2, <1>3, <1>4, <1>5, <1>6, <1>7, <1>8, <1>9
        DEF Next, BackStep, VerifyStep, SubmitStep

LEMMA UploadInductive ==
  ASSUME Typed, UploadInv, Next
  PROVE  UploadInv'
<1> USE PipelineAssumption
<1>0. ApiTyped /\ \A t \in Verifies : <<t, "doc">> \in Jobs /\ <<t, "age">> \in Jobs
  BY DEF Typed, Jobs
<1>1. CASE BackStep
  BY <1>0, <1>1, BackStepKeeps DEF UploadInv
<1>2. ASSUME NEW v \in Verifies, EnqueueVerification(v) PROVE UploadInv'
  <2>1. \A u \in Verifies \ {v} : <<u, "age">> \in Jobs \ {<<v, "age">>}
    BY <1>0
  <2>2. /\ request[v] = "enqueue"
        /\ request' \in {[request EXCEPT ![v] = "accepted"], [request EXCEPT ![v] = "failed"]}
        /\ \A i \in Jobs \ {<<v, "age">>} : Queued(i)' <=> Queued(i)
    BY <1>0, <1>2, EnqueueQueues DEF EnqueueVerification
  <2> QED BY <1>0, <2>1, <2>2 DEF UploadInv, ApiTyped
<1>3. ASSUME NEW d \in Submits, EnqueueDocument(d) PROVE UploadInv'
  <2>1. \A u \in Verifies : <<u, "age">> \in Jobs \ {<<TxOf[d], "doc">>}
    BY <1>0
  <2> QED BY <1>0, <1>3, <2>1, EnqueueQueues DEF EnqueueDocument, UploadInv, ApiTyped
<1>4. CASE \/ \E s \in Sessions : ExpireSession(s)
           \/ \E v \in Verifies : ConsumeSession(v) \/ PutFrame(v)
           \/ \E d \in Submits : ConsumeDocSession(d) \/ PutDocument(d) \/ PutSelfie(d)
  BY <1>0, <1>4
  DEF ExpireSession, ConsumeSession, ConsumeDocSession, PutFrame, PutDocument, PutSelfie, Upload,
      At, ApiTyped, queueVars, UploadInv, Queued
<1> QED BY <1>1, <1>2, <1>3, <1>4 DEF Next, BackStep, VerifyStep, SubmitStep

-----------------------------------------------------------------------------
(* The media. *)

\* What a slot has deleted so far.
SlotErased(w) ==
  /\ pc[w] = "deleteSelfie" => task[w][2] = "doc" /\ <<Tx(w), "document">> \notin store
  /\ pc[w] = "discard" \/ (pc[w] = "settle" /\ ~err[w]) => Gone(task[w])

\* What is known to be gone, and stays so: what a discard proof names, the media
\* of a job that is completed, and what a slot has deleted.
ErasedInv ==
  /\ \A j \in Jobs : discards[j] > 0 => Queued(j) /\ Gone(j)
  /\ \A j \in Jobs : job[j] = "completed" => Gone(j)
  /\ \A w \in Workers : SlotErased(w)

\* Media without a job has a request that answers for it.
UploadersOf(j) == IF j[2] = "age" THEN {j[1]} ELSE {d \in Submits : TxOf[d] = j[1]}
Answering(r) == request[r] \in {"putSelfie", "enqueue", "failed"}
LeftInv ==
  \A j \in Jobs : (~Queued(j) /\ ~Gone(j)) => \E r \in UploadersOf(j) : Answering(r)

LEMMA MediaOfJob ==
  ASSUME NEW j \in Jobs
  PROVE  /\ \A m \in MediaOf(j) : m[1] = j[1] /\ (m[2] = "frame" <=> j[2] = "age")
         /\ \A m \in MediaOf(j) : UploadOf(m) = UploadersOf(j)
         /\ UploadersOf(j) \subseteq Verifies \union Submits
<1>1. \A m \in MediaOf(j) : m[1] = j[1] /\ (m[2] = "frame" <=> j[2] = "age")
  BY PhaseOf DEF MediaOf
<1>2. j[1] \in Verifies
  BY PhaseOf
<1> QED BY <1>1, <1>2 DEF UploadOf, UploadersOf

\* Who puts what in the bucket.
Uploads(r, j) ==
  \/ r \in Verifies /\ j = <<r, "age">> /\ PutFrame(r)
  \/ r \in Submits /\ j = <<TxOf[r], "doc">> /\ (PutDocument(r) \/ PutSelfie(r))

LEMMA UploadStep ==
  ASSUME Typed, TokenInv, UploadInv, NEW r \in Verifies \union Submits, NEW j \in Jobs,
         Uploads(r, j)
  PROVE  /\ ~Queued(j) /\ r \in UploadersOf(j) /\ Answering(r)'
         /\ \A i \in Jobs \ {j} : Gone(i) => Gone(i)'
         /\ \A q \in (Verifies \union Submits) \ {r} : request'[q] = request[q]
         /\ UNCHANGED job
<1> USE PipelineAssumption
<1>0. ApiTyped /\ r \in UploadersOf(j)
  BY DEF Typed, Uploads, UploadersOf
<1>1. Answering(r)' /\ UNCHANGED job
      /\ \A q \in (Verifies \union Submits) \ {r} : request'[q] = request[q]
  BY <1>0 DEF Uploads, PutFrame, PutDocument, PutSelfie, Upload, At, Answering, ApiTyped, queueVars
<1>2. ~Queued(j)
  BY DEF Uploads, PutFrame, PutDocument, PutSelfie, Upload, At, TokenInv, UploadInv, Sending
<1>3. store' \subseteq store \union MediaOf(j)
  BY DEF Uploads, PutFrame, PutDocument, PutSelfie, Upload, MediaOf
<1>4. \A i \in Jobs \ {j} : MediaOf(i) \intersect MediaOf(j) = {}
  <2> SUFFICES ASSUME NEW i \in Jobs \ {j}, NEW m \in MediaOf(i), m \in MediaOf(j)
               PROVE  FALSE
    OBVIOUS
  <2>1. i[1] = j[1] /\ (i[2] = "age" <=> j[2] = "age")
    BY MediaOfJob
  <2> QED BY <2>1, PhaseOf
<1> QED BY <1>0, <1>1, <1>2, <1>3, <1>4 DEF Gone

\* Only uploads put anything in the bucket.
LEMMA StoreShrinks ==
  ASSUME Next, ~(\E v \in Verifies : PutFrame(v)),
         ~(\E d \in Submits : PutDocument(d) \/ PutSelfie(d))
  PROVE  store' \subseteq store
<1>1. CASE \E w \in Workers : WorkerStep(w) \/ Crash(w)
  BY <1>1 DEF WorkerStep, Crash, GetMedia, AcquireOnce, Decide, IssueDocumentSession, SaveAudit,
              SaveRecord, Dispatch, DeleteMedia, DeleteSelfie, Remove, RecordDiscard, Settle
<1>2. CASE ~(\E w \in Workers : WorkerStep(w) \/ Crash(w))
  BY <1>2 DEF Next, ExpireSession, ExpireDocSession, VerifyStep, SubmitStep, ConsumeSession,
              ConsumeDocSession, Enqueue, EnqueueVerification, EnqueueDocument, Fetch, Promote,
              LockExpires, BucketExpires
<1> QED BY <1>1, <1>2

\* An upload step is one of a request for its own job.
LEMMA UploadOfRequest ==
  ASSUME \/ \E v \in Verifies : PutFrame(v)
         \/ \E d \in Submits : PutDocument(d) \/ PutSelfie(d)
  PROVE  \E r \in Verifies \union Submits, j \in Jobs : Uploads(r, j)
<1>1. ASSUME NEW v \in Verifies, PutFrame(v)
      PROVE  \E r \in Verifies \union Submits, j \in Jobs : Uploads(r, j)
  <2>1. <<v, "age">> \in Jobs  BY DEF Jobs
  <2> QED BY <1>1, <2>1 DEF Uploads
<1>2. ASSUME NEW d \in Submits, PutDocument(d) \/ PutSelfie(d)
      PROVE  \E r \in Verifies \union Submits, j \in Jobs : Uploads(r, j)
  <2>1. <<TxOf[d], "doc">> \in Jobs  BY PipelineAssumption DEF Jobs
  <2> QED BY <1>2, <2>1 DEF Uploads
<1> QED BY <1>1, <1>2

\* What is gone once its job is queued does not come back.
LEMMA GoneStays ==
  ASSUME Typed, TokenInv, UploadInv, Next
  PROVE  \A j \in Jobs : Queued(j) /\ Gone(j) => Gone(j)'
<1>1. CASE store' \subseteq store
  BY <1>1 DEF Gone
<1>2. CASE \E r \in Verifies \union Submits, j \in Jobs : Uploads(r, j)
  BY <1>2, UploadStep
<1> QED BY <1>1, <1>2, StoreShrinks, UploadOfRequest

-----------------------------------------------------------------------------
\* The steps that neither delete media, nor log a discard, nor end a job.
LEMMA NoErasure ==
  ASSUME Typed, Next,
         \A w \in Workers : ~DeleteMedia(w) /\ ~DeleteSelfie(w) /\ ~RecordDiscard(w) /\ ~Settle(w)
  PROVE  /\ UNCHANGED discards
         /\ \A j \in Jobs : job'[j] = "completed" => job[j] = "completed"
         /\ \A w \in Workers : pc'[w] \in {"deleteSelfie", "discard", "settle"} =>
              pc'[w] = pc[w] /\ task'[w] = task[w] /\ err'[w] = err[w]
<1> USE DEF slotVars, queueVars, trailVars, apiVars
<1> DEFINE Same == \A w \in Workers : pc'[w] \in {"deleteSelfie", "discard", "settle"} =>
                     pc'[w] = pc[w] /\ task'[w] = task[w] /\ err'[w] = err[w]
           Ended == \A j \in Jobs : job'[j] = "completed" => job[j] = "completed"
<1>1. ASSUME NEW w \in Workers, NEW j \in Jobs, Fetch(w, j)
      PROVE  UNCHANGED discards /\ Ended /\ Same
  BY <1>1 DEF Fetch, Typed, SlotTyped, QueueTyped
<1>2. ASSUME NEW w \in Workers, Crash(w)
      PROVE  UNCHANGED discards /\ Ended /\ Same
  BY <1>2 DEF Crash, Release, Typed, SlotTyped
<1>3. ASSUME NEW w \in Workers, WorkerStep(w),
             ~DeleteMedia(w) /\ ~DeleteSelfie(w) /\ ~RecordDiscard(w) /\ ~Settle(w)
      PROVE  UNCHANGED discards /\ Ended /\ Same
  BY <1>3
  DEF WorkerStep, GetMedia, AcquireOnce, Decide, IssueDocumentSession, SaveAudit, SaveRecord,
      Dispatch, Go, Throw, Typed, SlotTyped
<1>4. ASSUME NEW j \in Jobs, Promote(j) \/ LockExpires(j)
      PROVE  UNCHANGED discards /\ Ended /\ Same
  BY <1>4 DEF Promote, LockExpires, Typed, QueueTyped
<1>5. ASSUME NEW r \in Verifies \union Submits, NEW j \in Jobs, Enqueue(r, j)
      PROVE  UNCHANGED discards /\ Ended /\ Same
  BY <1>5 DEF Enqueue, Add, Typed, QueueTyped
<1>6. CASE \/ \E s \in Sessions : ExpireSession(s)
           \/ \E t \in Verifies : ExpireDocSession(t)
           \/ \E v \in Verifies : ConsumeSession(v) \/ PutFrame(v)
           \/ \E d \in Submits : ConsumeDocSession(d) \/ PutDocument(d) \/ PutSelfie(d)
           \/ \E m \in Media : BucketExpires(m)
  BY <1>6 DEF ExpireSession, ExpireDocSession, ConsumeSession, ConsumeDocSession, PutFrame,
              PutDocument, PutSelfie, Upload, BucketExpires
<1>7. \A v \in Verifies : <<v, "age">> \in Jobs /\ <<v, "doc">> \in Jobs
  BY DEF Jobs
<1> QED BY <1>1, <1>2, <1>3, <1>4, <1>5, <1>6, <1>7, PipelineAssumption
        DEF Next, VerifyStep, SubmitStep, EnqueueVerification, EnqueueDocument

LEMMA ErasedInductive ==
  ASSUME AllInv, TokenInv, UploadInv, ErasedInv, Next
  PROVE  ErasedInv'
<1>0. Typed /\ SlotTyped /\ QueueTyped /\ QueuedInv /\ DiscardTyped
  BY DEF AllInv, Typed
<1>1. \A j \in Jobs : Queued(j) => Queued(j)' /\ (Gone(j) => Gone(j)')
  BY <1>0, QueuedKept, GoneStays
<1>2. \A w \in Workers : pc[w] # "idle" => task[w] \in Jobs /\ Tx(w) \in Verifies /\ Queued(task[w])
  BY <1>0, TaskTyped DEF QueuedInv
\* What carries over to everything a step leaves alone.
<1>3. \A j \in Jobs : discards[j] > 0 => Queued(j)' /\ Gone(j)'
  BY <1>1 DEF ErasedInv
<1>4. \A j \in Jobs : job[j] = "completed" => Gone(j)'
  BY <1>1 DEF ErasedInv, Queued
<1>5. ASSUME NEW w \in Workers, pc[w] = "deleteSelfie"
      PROVE  task[w][2] = "doc" /\ <<Tx(w), "document">> \notin store'
  <2>1. task[w] = <<Tx(w), "doc">> /\ <<Tx(w), "document">> \notin store
    BY <1>2, <1>5, PhaseOf DEF ErasedInv, SlotErased, Tx
  <2>2. CASE store' \subseteq store
    BY <2>1, <2>2
  <2>3. CASE \E r \in Verifies \union Submits, j \in Jobs : Uploads(r, j)
    <3>1. PICK r \in Verifies \union Submits, j \in Jobs : Uploads(r, j)
      BY <2>3
    <3>2. j # task[w]
      BY <1>0, <1>2, <1>5, <3>1, UploadStep
    <3>3. store' \subseteq store \union MediaOf(j)
      BY <3>1 DEF Uploads, PutFrame, PutDocument, PutSelfie, Upload, MediaOf
    <3>4. <<Tx(w), "document">> \notin MediaOf(j)
      BY <1>2, <1>5, <2>1, <3>2, PhaseOf DEF MediaOf
    <3> QED BY <2>1, <3>3, <3>4
  <2> QED BY <2>1, <2>2, <2>3, StoreShrinks, UploadOfRequest
<1>6. ASSUME NEW w \in Workers, NEW j \in Jobs, task[w] = j,
             pc[w] = "discard" \/ (pc[w] = "settle" /\ ~err[w])
      PROVE  Queued(j) /\ Gone(j) /\ Gone(j)'
  BY <1>1, <1>2, <1>6 DEF ErasedInv, SlotErased
<1>7. ASSUME NEW w \in Workers,
             pc'[w] \in {"deleteSelfie", "discard", "settle"} =>
               pc'[w] = pc[w] /\ task'[w] = task[w] /\ err'[w] = err[w]
      PROVE  SlotErased(w)'
  <2>1. CASE pc'[w] = "deleteSelfie"
    BY <1>5, <1>7, <2>1 DEF SlotErased, Tx
  <2>2. CASE pc'[w] \in {"discard", "settle"}
    <3>1. pc[w] # "idle" /\ task'[w] = task[w]
      BY <1>7, <2>2
    <3>2. PICK j \in Jobs : task[w] = j
      BY <1>2, <3>1
    <3> QED BY <1>6, <1>7, <2>2, <3>1, <3>2 DEF SlotErased
  <2> QED BY <2>1, <2>2 DEF SlotErased
<1>8. CASE \A w \in Workers :
             ~DeleteMedia(w) /\ ~DeleteSelfie(w) /\ ~RecordDiscard(w) /\ ~Settle(w)
  BY <1>0, <1>3, <1>4, <1>7, <1>8, NoErasure DEF ErasedInv
<1>9. ASSUME NEW w \in Workers, NEW j \in Jobs, task[w] = j, DeleteMedia(w)
      PROVE  ErasedInv'
  <2>1. /\ UNCHANGED <<job, discards, task>>
        /\ \A x \in Workers \ {w} : pc'[x] = pc[x] /\ err'[x] = err[x]
    BY <1>0, <1>9 DEF DeleteMedia, Remove, Go, queueVars, SlotTyped
  <2>2. SlotErased(w)'
    BY <1>0, <1>9, PhaseOf
    DEF DeleteMedia, Remove, Go, SlotErased, SlotTyped, Gone, MediaOf, Tx
  <2> QED BY <1>3, <1>4, <1>7, <2>1, <2>2 DEF ErasedInv
<1>10. ASSUME NEW w \in Workers, NEW j \in Jobs, task[w] = j, DeleteSelfie(w)
       PROVE  ErasedInv'
  <2>1. /\ UNCHANGED <<job, discards, task>>
        /\ pc[w] = "deleteSelfie"
        /\ \A x \in Workers \ {w} : pc'[x] = pc[x] /\ err'[x] = err[x]
    BY <1>0, <1>10 DEF DeleteSelfie, Remove, Go, queueVars, SlotTyped
  <2>2. SlotErased(w)'
    BY <1>0, <1>10, <2>1, PhaseOf
    DEF DeleteSelfie, Remove, Go, ErasedInv, SlotErased, SlotTyped, Gone, MediaOf, Tx
  <2> QED BY <1>3, <1>4, <1>7, <2>1, <2>2 DEF ErasedInv
<1>11. ASSUME NEW w \in Workers, NEW j \in Jobs, task[w] = j, RecordDiscard(w)
       PROVE  ErasedInv'
  <2>1. /\ UNCHANGED <<job, task, err>> /\ pc[w] = "discard"
        /\ \A i \in Jobs \ {j} : discards'[i] = discards[i]
        /\ pc'[w] = "settle" /\ \A x \in Workers \ {w} : pc'[x] = pc[x]
    BY <1>0, <1>11 DEF RecordDiscard, Go, queueVars, SlotTyped, DiscardTyped
  <2>2. Queued(j)' /\ Gone(j)'
    BY <1>1, <1>6, <1>11, <2>1
  <2>3. SlotErased(w)'
    BY <1>11, <2>1, <2>2 DEF SlotErased
  <2> QED BY <1>3, <1>4, <1>7, <2>1, <2>2, <2>3 DEF ErasedInv
<1>12. ASSUME NEW w \in Workers, NEW j \in Jobs, task[w] = j, Settle(w)
       PROVE  ErasedInv'
  <2>1. /\ UNCHANGED discards /\ pc[w] = "settle" /\ pc'[w] = "idle"
        /\ \A x \in Workers \ {w} : pc'[x] = pc[x] /\ task'[x] = task[x] /\ err'[x] = err[x]
        /\ \A i \in Jobs \ {j} : job'[i] = job[i]
        /\ job'[j] = "completed" => job[j] = "completed" \/ ~err[w]
    BY <1>0, <1>12 DEF Settle, Release, SlotTyped, QueueTyped
  <2> QED BY <1>3, <1>4, <1>6, <1>7, <1>12, <2>1 DEF ErasedInv
<1>13. \A w \in Workers : DeleteMedia(w) \/ DeleteSelfie(w) \/ RecordDiscard(w) \/ Settle(w)
                            => task[w] \in Jobs
  BY <1>2 DEF DeleteMedia, DeleteSelfie, Remove, RecordDiscard, Settle, Go
<1> QED BY <1>8, <1>9, <1>10, <1>11, <1>12, <1>13

-----------------------------------------------------------------------------
LEMMA LeftInductive ==
  ASSUME Typed, TokenInv, UploadInv, LeftInv, Next
  PROVE  LeftInv'
<1> USE PipelineAssumption
<1>0. /\ ApiTyped /\ QueueTyped
      /\ \A v \in Verifies : <<v, "age">> \in Jobs /\ <<v, "doc">> \in Jobs
  BY DEF Typed, Jobs
<1>1. \A j \in Jobs : UploadersOf(j) \subseteq Verifies \union Submits
  BY MediaOfJob
<1>2. CASE BackStep
  <2>1. UNCHANGED request /\ \A j \in Jobs : Queued(j)' <=> Queued(j)
    BY <1>2, BackStepKeeps
  <2>2. store' \subseteq store
    BY <1>2
    DEF BackStep, WorkerStep, Crash, GetMedia, AcquireOnce, Decide, IssueDocumentSession,
        SaveAudit, SaveRecord, Dispatch, DeleteMedia, DeleteSelfie, Remove, RecordDiscard,
        Settle, ExpireDocSession, Fetch, Promote, LockExpires, BucketExpires
  <2> QED BY <2>1, <2>2 DEF LeftInv, Gone, Answering
<1>3. CASE \/ \E s \in Sessions : ExpireSession(s)
           \/ \E v \in Verifies : ConsumeSession(v)
           \/ \E d \in Submits : ConsumeDocSession(d)
  <2>1. /\ UNCHANGED <<store, job>>
        /\ \A r \in Verifies \union Submits : Answering(r) => Answering(r)'
    BY <1>0, <1>3
    DEF ExpireSession, ConsumeSession, ConsumeDocSession, At, ApiTyped, queueVars, Answering
  <2> QED BY <1>1, <2>1 DEF LeftInv, Gone, Queued
<1>4. ASSUME NEW r \in Verifies \union Submits, NEW j \in Jobs, Uploads(r, j)
      PROVE  LeftInv'
  <2>1. \A q \in Verifies \union Submits : Answering(q) => Answering(q)'
    BY <1>4, UploadStep DEF Answering
  <2>2. UNCHANGED job /\ r \in UploadersOf(j) /\ Answering(r)'
    BY <1>4, UploadStep
  <2>3. \A i \in Jobs \ {j} : Gone(i) => Gone(i)'
    BY <1>4, UploadStep
  <2> QED BY <1>1, <2>1, <2>2, <2>3 DEF LeftInv, Queued
<1>5. ASSUME NEW r \in Verifies \union Submits, NEW j \in Jobs, Enqueue(r, j),
             \A i \in Jobs \ {j} : r \notin UploadersOf(i)
      PROVE  LeftInv'
  <2>1. /\ UNCHANGED store
        /\ \A i \in Jobs \ {j} : Queued(i)' <=> Queued(i)
        /\ \A q \in (Verifies \union Submits) \ {r} : request'[q] = request[q]
        /\ Queued(j) => Queued(j)'
    BY <1>0, <1>5, EnqueueQueues DEF Enqueue, At, ApiTyped
  <2>2. Queued(j)' \/ Answering(r)'
    BY <1>0, <1>5
    DEF Enqueue, At, Add, IdFree, ApiTyped, QueueTyped, JobStates, Queued, queueVars, Answering
  <2>3. \A i \in Jobs : Gone(i)' <=> Gone(i)
    BY <2>1 DEF Gone
  <2> QED BY <1>1, <1>5, <2>1, <2>2, <2>3 DEF LeftInv, Answering
<1>6. ASSUME NEW v \in Verifies, EnqueueVerification(v) PROVE LeftInv'
  <2>1. \A i \in Jobs \ {<<v, "age">>} : v \notin UploadersOf(i)
    BY PhaseOf DEF UploadersOf
  <2> QED BY <1>0, <1>5, <1>6, <2>1 DEF EnqueueVerification
<1>7. ASSUME NEW d \in Submits, EnqueueDocument(d) PROVE LeftInv'
  <2>1. \A i \in Jobs \ {<<TxOf[d], "doc">>} : d \notin UploadersOf(i)
    BY PhaseOf DEF UploadersOf
  <2> QED BY <1>0, <1>5, <1>7, <2>1 DEF EnqueueDocument
<1>8. CASE \/ \E v \in Verifies : PutFrame(v)
           \/ \E d \in Submits : PutDocument(d) \/ PutSelfie(d)
  BY <1>4, <1>8, UploadOfRequest
<1> QED BY <1>2, <1>3, <1>6, <1>7, <1>8 DEF Next, BackStep, VerifyStep, SubmitStep

-----------------------------------------------------------------------------
MediaInv == IssueInv /\ TokenInv /\ UploadInv /\ ErasedInv /\ LeftInv

LEMMA InitMedia == Init => MediaInv
<1> SUFFICES ASSUME Init PROVE MediaInv
  OBVIOUS
<1> USE DEF Init
<1>1. \A j \in Jobs : ~Queued(j) /\ Gone(j)
  BY DEF Queued, Gone
<1>2. IssueInv /\ ErasedInv
  BY <1>1 DEF IssueInv, ErasedInv, SlotErased
<1>3. TokenInv /\ UploadInv
  BY <1>1, PipelineAssumption DEF TokenInv, UploadInv, Sending, Jobs
<1>4. LeftInv
  BY <1>1 DEF LeftInv
<1> QED BY <1>2, <1>3, <1>4 DEF MediaInv

LEMMA MediaInductive ==
  ASSUME AllInv, MediaInv, [Next]_vars
  PROVE  MediaInv'
<1> USE DEF MediaInv
<1>1. IssueInv'
  BY IssueInductive DEF AllInv
<1>2. CASE UNCHANGED vars
  BY <1>1, <1>2
  DEF vars, TokenInv, UploadInv, ErasedInv, SlotErased, LeftInv, Queued, Gone, Sending,
      Answering, Tx
<1>3. CASE Next
  BY <1>1, <1>3, TokenInductive, UploadInductive, ErasedInductive, LeftInductive DEF AllInv
<1> QED BY <1>2, <1>3

LEMMA MediaInvariant == Spec => []MediaInv
  BY InitMedia, MediaInductive, AllInvariant, PTL DEF Spec

\* A discard proof is true when it is written and stays true: no retry, late
\* worker or second document request brings the media back
\* (verification.processor.ts:88-96, document.processor.ts:83-94).
THEOREM ProofOfDiscard == Spec => []DiscardTrue
<1>1. MediaInv => DiscardTrue
  BY DEF MediaInv, ErasedInv, DiscardTrue, Gone
<1> QED BY <1>1, MediaInvariant, PTL

\* Media in the bucket always has a job that did not end well, or a request that
\* is between its upload and its job, to answer for it: a job reported as
\* completed left nothing behind, whatever failed before
\* (verification.controller.ts:58-69).
THEOREM NothingLeftBehind == Spec => []MediaAccounted
<1>1. AllInv /\ MediaInv => MediaAccounted
  <2> SUFFICES ASSUME AllInv, MediaInv, NEW j \in Jobs, NEW m \in MediaOf(j), m \in store
               PROVE  \/ job[j] \in {"wait", "active", "delayed", "failed"}
                      \/ job[j] = "none" /\ \E r \in UploadOf(m) :
                           request[r] \in {"putSelfie", "enqueue", "failed"}
    BY DEF MediaAccounted
  <2>1. ~Gone(j)
    BY DEF Gone
  <2>2. job[j] \in JobStates /\ job[j] # "completed"
    BY <2>1 DEF AllInv, Typed, QueueTyped, MediaInv, ErasedInv
  <2>3. job[j] = "none" => \E r \in UploadOf(m) : Answering(r)
    BY <2>1, MediaOfJob DEF MediaInv, LeftInv, Queued
  <2> QED BY <2>2, <2>3 DEF JobStates, Answering
<1> QED BY <1>1, AllInvariant, MediaInvariant, PTL
=============================================================================
