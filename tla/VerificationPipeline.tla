------------------------ MODULE VerificationPipeline ------------------------
(***************************************************************************)
(* The asynchronous verification pipeline, from POST /verify to the        *)
(* webhook and the erasure of the media.                                   *)
(*                                                                         *)
(*   API      /verify and /verify/document consume a single-use token, put *)
(*            the encrypted media in the temporary bucket and enqueue a    *)
(*            job.  The transaction id is the random UUID of the /verify   *)
(*            request, so a request names its own transaction.             *)
(*   queue    BullMQ: a job is retried after an error (attempts) and run   *)
(*            again when the lock of its worker expires (stall).  A worker *)
(*            whose lock expired keeps running until it notices.           *)
(*   worker   VerificationProcessor and VerificationService for the age    *)
(*            phase, DocumentProcessor for the document phase.  The two    *)
(*            have the same skeleton: read media, once-guard, decide,      *)
(*            audit, record, webhook, and a finally that deletes the media *)
(*            and logs the discard.                                        *)
(*   Postgres sessions, document_sessions, audit_logs, verification_records*)
(*            and discard_log.  Every save commits on its own.             *)
(*   Redis    the once-guard keys.  Their 24 h lifetime is not modelled:   *)
(*            a job and its media live for minutes.                        *)
(*                                                                         *)
(* A remote call that fails may still have taken effect: every write has   *)
(* an outcome in which the effect happens and the caller sees an error.    *)
(* Faults says which steps may fail in a run.                              *)
(***************************************************************************)
EXTENDS Naturals, Sequences, FiniteSets

CONSTANTS
  Sessions,     \* session tokens opened by tenants
  Verifies,     \* POST /verify requests; also the transaction ids
  SessionOf,    \* the token each of them carries
  Submits,      \* POST /verify/document requests
  TxOf,         \* the transaction whose document token each of them carries
  Workers,      \* concurrent job slots of the worker processes
  Nobody,       \* no worker holds the lock
  NoJob,        \* the slot is free
  MaxAttempts,  \* attempts of a job: 3
  MaxStalls,    \* maxStalledCount of BullMQ: 1
  MaxDispatch,  \* webhook tries: retries + 1 = 4
  Faults        \* steps that may fail

FaultKinds == {"consume", "put", "enqueue", "get", "once", "decide", "issue", "audit", "record",
               "refused", "lost", "delete", "discard", "crash", "stall", "lifecycle"}

ASSUME PipelineAssumption ==
  /\ SessionOf \in [Verifies -> Sessions]
  /\ TxOf \in [Submits -> Verifies]
  /\ Verifies \intersect Submits = {}
  /\ Nobody \notin Workers
  /\ NoJob \notin Verifies \X {"age", "doc"}
  /\ MaxAttempts \in Nat \ {0} /\ MaxStalls \in Nat /\ MaxDispatch \in Nat \ {0}
  /\ Faults \subseteq FaultKinds

Jobs == Verifies \X {"age", "doc"}          \* jobId <tx> and doc-<tx>
Media == Verifies \X {"frame", "document", "selfie"}
MediaOf(j) == IF j[2] = "age" THEN {<<j[1], "frame">>}
              ELSE {<<j[1], "document">>, <<j[1], "selfie">>}

\* What a phase can decide (decideVerification, decideDocument).
AgeVerdicts == {"age"} \X {"aprovado", "reprovado", "documento_requerido"}
DocVerdicts == {"doc"} \X {"aprovado", "reprovado"}
Verdicts == AgeVerdicts \union DocVerdicts
AnyVerdict(j) == {j[2]} \X {"aprovado", "reprovado", "documento_requerido"}   \* mutant
VerdictsOf(j) == IF j[2] = "age" THEN AgeVerdicts ELSE DocVerdicts
DocRequired == <<"age", "documento_requerido">>
NoVerdict == <<"none", "none">>

VARIABLES
  session,      \* rows of sessions: live, expired (past SESSION_TTL) or deleted
  docSession,   \* rows of document_sessions, by transaction
  request,      \* where each HTTP request stands
  store,        \* objects in the temporary bucket
  job,          \* BullMQ state of each job
  attempts,     \* failed attempts of each job
  stalls,       \* times the lock of the job expired
  owner,        \* worker that holds the lock of the job
  once,         \* once:<id> keys in Redis
  runs,         \* times a job went past the once-guard (history)
  pc,           \* the step each slot is about to take
  task,         \* the job of the slot
  err,          \* the processor is throwing
  verdict,      \* the decision it made
  tries,        \* webhook tries it made
  audit,        \* audit_logs, by transaction
  record,       \* verification_records, by transaction
  inbox,        \* webhooks that reached the tenant, by transaction
  discards      \* number of rows of discard_log, by job

apiVars == <<session, request>>
queueVars == <<job, attempts, stalls, owner>>
slotVars == <<pc, task, err, verdict, tries>>
trailVars == <<audit, record>>
vars == <<session, docSession, request, store, job, attempts, stalls, owner, once, runs,
          pc, task, err, verdict, tries, audit, record, inbox, discards>>

Tx(w) == task[w][1]
Received(t) == {inbox[t][i] : i \in 1..Len(inbox[t])}
May(fault) == fault \in Faults

Init ==
  /\ session = [s \in Sessions |-> "live"]
  /\ docSession = [t \in Verifies |-> "none"]
  /\ request = [r \in Verifies \union Submits |-> "idle"]
  /\ store = {}
  /\ job = [j \in Jobs |-> "none"]
  /\ attempts = [j \in Jobs |-> 0]
  /\ stalls = [j \in Jobs |-> 0]
  /\ owner = [j \in Jobs |-> Nobody]
  /\ once = {}
  /\ runs = [j \in Jobs |-> 0]
  /\ pc = [w \in Workers |-> "idle"]
  /\ task = [w \in Workers |-> NoJob]
  /\ err = [w \in Workers |-> FALSE]
  /\ verdict = [w \in Workers |-> NoVerdict]
  /\ tries = [w \in Workers |-> 0]
  /\ audit = [t \in Verifies |-> NoVerdict]
  /\ record = [t \in Verifies |-> NoVerdict]
  /\ inbox = [t \in Verifies |-> <<>>]
  /\ discards = [j \in Jobs |-> 0]

-----------------------------------------------------------------------------
(* The API. *)

At(r, from, to) == request[r] = from /\ request' = [request EXCEPT ![r] = to]

\* SESSION_TTL passes for a row that is still there.
ExpireSession(s) ==
  /\ session[s] = "live"
  /\ session' = [session EXCEPT ![s] = "expired"]
  /\ UNCHANGED <<docSession, request, store, queueVars, once, runs, slotVars,
                 trailVars, inbox, discards>>

ExpireDocSession(t) ==
  /\ docSession[t] = "live"
  /\ docSession' = [docSession EXCEPT ![t] = "expired"]
  /\ UNCHANGED <<session, request, store, queueVars, once, runs, slotVars,
                 trailVars, inbox, discards>>

\* DELETE ... RETURNING: the row is gone, whatever its age.
KeepsToken(rows, key) == rows           \* mutant: the token is only read
Consumed(rows, key) == [rows EXCEPT ![key] = "deleted"]

\* consume_session deletes and returns the row in one statement; only then is
\* its age looked at, so an expired token is used up as well.
ConsumeSession(v) ==
  LET s == SessionOf[v]
      gone == Consumed(session, s)
  IN  /\ \/ /\ At(v, "idle", IF session[s] = "live" THEN "put" ELSE "rejected")
            /\ session' = gone
         \/ May("consume") /\ At(v, "idle", "failed") /\ session' \in {session, gone}
      /\ UNCHANGED <<docSession, store, queueVars, once, runs, slotVars,
                     trailVars, inbox, discards>>

\* The plugin holds the document token once a webhook has carried it.
ConsumeDocSession(d) ==
  LET t == TxOf[d]
      gone == Consumed(docSession, t)
  IN  /\ DocRequired \in Received(t)
      /\ \/ /\ At(d, "idle", IF docSession[t] = "live" THEN "put" ELSE "rejected")
            /\ docSession' = gone
         \/ May("consume") /\ At(d, "idle", "failed") /\ docSession' \in {docSession, gone}
      /\ UNCHANGED <<session, store, queueVars, once, runs, slotVars,
                     trailVars, inbox, discards>>

\* One upload.  The document endpoint uploads the document, then the selfie.
Upload(r, m, from, to) ==
  /\ \/ At(r, from, to) /\ store' = store \union {m}
     \/ May("put") /\ At(r, from, "failed") /\ store' \in {store, store \union {m}}
  /\ UNCHANGED <<session, docSession, queueVars, once, runs, slotVars, trailVars,
                 inbox, discards>>

SelfieForgotten(d) == Upload(d, <<TxOf[d], "document">>, "put", "enqueue")   \* mutant
PutFrame(v) == Upload(v, <<v, "frame">>, "put", "enqueue")
PutDocument(d) == Upload(d, <<TxOf[d], "document">>, "put", "putSelfie")
PutSelfie(d) == Upload(d, <<TxOf[d], "selfie">>, "putSelfie", "enqueue")

\* queue.add drops a job whose id exists.  A completed job has been removed, so
\* its id is free and names a new job; a failed one stays (removeOnFail: false).
IdFree(j) == job[j] \in {"none", "completed"}

Add(j) ==
  IF IdFree(j)
  THEN /\ job' = [job EXCEPT ![j] = "wait"]
       /\ attempts' = [attempts EXCEPT ![j] = 0]
       /\ stalls' = [stalls EXCEPT ![j] = 0]
       /\ UNCHANGED owner
  ELSE UNCHANGED queueVars

Enqueue(r, j) ==
  /\ \/ At(r, "enqueue", "accepted") /\ Add(j)
     \/ May("enqueue") /\ At(r, "enqueue", "failed") /\ (Add(j) \/ UNCHANGED queueVars)
  /\ UNCHANGED <<session, docSession, store, once, runs, slotVars, trailVars, inbox,
                 discards>>

EnqueueVerification(v) == Enqueue(v, <<v, "age">>)
EnqueueDocument(d) == Enqueue(d, <<TxOf[d], "doc">>)

-----------------------------------------------------------------------------
(* BullMQ. *)

\* A free slot takes a waiting job and its lock.
Fetch(w, j) ==
  /\ pc[w] = "idle" /\ job[j] = "wait"
  /\ job' = [job EXCEPT ![j] = "active"]
  /\ owner' = [owner EXCEPT ![j] = w]
  /\ pc' = [pc EXCEPT ![w] = "get"]
  /\ task' = [task EXCEPT ![w] = j]
  /\ UNCHANGED <<apiVars, docSession, store, attempts, stalls, once, runs, err, verdict,
                 tries, trailVars, inbox, discards>>

\* The backoff delay of a failed attempt is over.
Promote(j) ==
  /\ job[j] = "delayed"
  /\ job' = [job EXCEPT ![j] = "wait"]
  /\ UNCHANGED <<apiVars, docSession, store, attempts, stalls, owner, once, runs, slotVars,
                 trailVars, inbox, discards>>

\* The stalled-job check finds the lock expired, because the worker is gone or
\* (stall) did not renew it in time.  The job goes back to the queue MaxStalls
\* times, then fails.
Abandoned(j) == owner[j] \in Workers => task[owner[j]] # j
LockExpires(j) ==
  /\ job[j] = "active"
  /\ May("stall") \/ Abandoned(j)
  /\ IF stalls[j] < MaxStalls
     THEN /\ job' = [job EXCEPT ![j] = "wait"]
          /\ stalls' = [stalls EXCEPT ![j] = @ + 1]
     ELSE /\ job' = [job EXCEPT ![j] = "failed"]
          /\ UNCHANGED stalls
  /\ owner' = [owner EXCEPT ![j] = Nobody]
  /\ UNCHANGED <<apiVars, docSession, store, attempts, once, runs, slotVars, trailVars,
                 inbox, discards>>

\* The slot becomes free.
Release(w) ==
  /\ pc' = [pc EXCEPT ![w] = "idle"]
  /\ task' = [task EXCEPT ![w] = NoJob]
  /\ err' = [err EXCEPT ![w] = FALSE]
  /\ verdict' = [verdict EXCEPT ![w] = NoVerdict]
  /\ tries' = [tries EXCEPT ![w] = 0]

\* The processor returned or threw.  The result counts only while the worker
\* still holds the lock.
Settle(w) ==
  LET j == task[w]
  IN  /\ pc[w] = "settle"
      /\ IF owner[j] = w /\ job[j] = "active"
         THEN /\ owner' = [owner EXCEPT ![j] = Nobody]
              /\ IF err[w]
                 THEN /\ attempts' = [attempts EXCEPT ![j] = @ + 1]
                      /\ job' = [job EXCEPT ![j] = IF attempts[j] + 1 < MaxAttempts
                                                   THEN "delayed" ELSE "failed"]
                 ELSE /\ job' = [job EXCEPT ![j] = "completed"]
                      /\ UNCHANGED attempts
         ELSE UNCHANGED <<job, attempts, owner>>
      /\ Release(w)
      /\ UNCHANGED <<apiVars, docSession, store, stalls, once, runs, trailVars, inbox,
                     discards>>

\* The worker process dies; its lock stays until it expires.
Crash(w) ==
  /\ May("crash") /\ pc[w] # "idle"
  /\ Release(w)
  /\ UNCHANGED <<apiVars, docSession, store, queueVars, once, runs, trailVars, inbox,
                 discards>>

\* The bucket's lifecycle rule, where one is configured, or the TTL of the
\* in-memory store removes old objects.
BucketExpires(m) ==
  /\ May("lifecycle") /\ m \in store
  /\ store' = store \ {m}
  /\ UNCHANGED <<apiVars, docSession, queueVars, once, runs, slotVars, trailVars, inbox,
                 discards>>

-----------------------------------------------------------------------------
(* The processors. *)

Go(w, from, to) == pc[w] = from /\ pc' = [pc EXCEPT ![w] = to] /\ UNCHANGED err

\* An exception leads to the finally block.
Throw(w, from) ==
  pc[w] = from /\ pc' = [pc EXCEPT ![w] = "delete"] /\ err' = [err EXCEPT ![w] = TRUE]

\* store.get of every object of the job; a missing one is an error.  Reading the
\* two images one after the other sees the same as reading both at once, since
\* they are removed in that order.
WaitsForMedia(w) ==   \* mutant: missing media is waited for
  /\ pc[w] = "get" /\ MediaOf(task[w]) \subseteq store
  /\ Go(w, "get", "once")
  /\ UNCHANGED <<apiVars, docSession, store, queueVars, once, runs, task, verdict, tries,
                 trailVars, inbox, discards>>
GetMedia(w) ==
  /\ pc[w] = "get"
  /\ IF MediaOf(task[w]) \subseteq store
     THEN Go(w, "get", "once") \/ (May("get") /\ Throw(w, "get"))
     ELSE Throw(w, "get")
  /\ UNCHANGED <<apiVars, docSession, store, queueVars, once, runs, task, verdict, tries,
                 trailVars, inbox, discards>>

\* OnceGuard.acquire leaves the key of the job.
KeyForgotten(j) == once                 \* mutant: the key is tested, not set
KeySet(j) == once \union {j}

\* SET NX in Redis: only the first run goes on, any other returns normally
\* through the finally block.
AcquireOnce(w) ==
  LET j == task[w]
  IN  /\ pc[w] = "once"
      /\ \/ /\ j \notin once
            /\ Go(w, "once", "decide")
            /\ once' = KeySet(j)
            /\ runs' = [runs EXCEPT ![j] = @ + 1]
         \/ /\ j \in once
            /\ Go(w, "once", "delete")
            /\ UNCHANGED <<once, runs>>
         \/ /\ May("once") /\ Throw(w, "once")
            /\ once' \in {once, KeySet(j)}
            /\ UNCHANGED runs
      /\ UNCHANGED <<apiVars, docSession, store, queueVars, task, verdict, tries,
                     trailVars, inbox, discards>>

\* Tenant row, webhook secret, decryption, provider call and decision; none of
\* them writes.  Only the age phase issues a document session.
AuditSkipped(w) ==   \* mutant: a final verdict is recorded without its audit
  /\ pc[w] = "decide"
  /\ \/ \E v \in VerdictsOf(task[w]) :
          /\ Go(w, "decide", IF v = DocRequired THEN "issue" ELSE "record")
          /\ verdict' = [verdict EXCEPT ![w] = v]
     \/ May("decide") /\ Throw(w, "decide") /\ UNCHANGED verdict
  /\ UNCHANGED <<apiVars, docSession, store, queueVars, once, runs, task, tries,
                 trailVars, inbox, discards>>
Decide(w) ==
  /\ pc[w] = "decide"
  /\ \/ \E v \in VerdictsOf(task[w]) :
          /\ Go(w, "decide", IF v = DocRequired THEN "issue" ELSE "audit")
          /\ verdict' = [verdict EXCEPT ![w] = v]
     \/ May("decide") /\ Throw(w, "decide") /\ UNCHANGED verdict
  /\ UNCHANGED <<apiVars, docSession, store, queueVars, once, runs, task, tries,
                 trailVars, inbox, discards>>

\* issueDocumentSession inserts its row before the audit is written.
TenantToldFirst(w) ==   \* mutant: the webhook goes out before anything is stored
  LET issued == [docSession EXCEPT ![Tx(w)] = "live"]
  IN  /\ Go(w, "issue", "dispatch") /\ docSession' = issued
      /\ UNCHANGED <<apiVars, store, queueVars, once, runs, task, verdict, tries,
                     trailVars, inbox, discards>>
IssueDocumentSession(w) ==
  LET issued == [docSession EXCEPT ![Tx(w)] = "live"]
  IN  /\ \/ Go(w, "issue", "audit") /\ docSession' = issued
         \/ May("issue") /\ Throw(w, "issue") /\ docSession' \in {docSession, issued}
      /\ UNCHANGED <<apiVars, store, queueVars, once, runs, task, verdict, tries,
                     trailVars, inbox, discards>>

\* audit.record saves by primary key: the document phase overwrites the row.
RecordSkipped(w) ==   \* mutant: the webhook goes out without a record
  /\ Go(w, "audit", "dispatch")
  /\ audit' = [audit EXCEPT ![Tx(w)] = verdict[w]]
  /\ UNCHANGED <<apiVars, docSession, store, queueVars, once, runs, task, verdict, tries,
                 record, inbox, discards>>
SaveAudit(w) ==
  LET saved == [audit EXCEPT ![Tx(w)] = verdict[w]]
  IN  /\ \/ Go(w, "audit", "record") /\ audit' = saved
         \/ May("audit") /\ Throw(w, "audit") /\ audit' \in {audit, saved}
      /\ UNCHANGED <<apiVars, docSession, store, queueVars, once, runs, task, verdict, tries,
                     record, inbox, discards>>

\* Signing the proof and saving the record, again by primary key.
SaveRecord(w) ==
  LET saved == [record EXCEPT ![Tx(w)] = verdict[w]]
  IN  /\ \/ Go(w, "record", "dispatch") /\ record' = saved
         \/ May("record") /\ Throw(w, "record") /\ record' \in {record, saved}
      /\ UNCHANGED <<apiVars, docSession, store, queueVars, once, runs, task, verdict, tries,
                     audit, inbox, discards>>

\* One try of WebhookService.dispatch.  A try fails when the tenant refuses the
\* webhook or when it takes it and the answer is lost; the last failure throws.
OneMoreTry(n) == n <= MaxDispatch   \* mutant
TriesLeft(n) == n < MaxDispatch
Delivered(w) == [inbox EXCEPT ![Tx(w)] = Append(@, verdict[w])]

Dispatch(w) ==
  /\ pc[w] = "dispatch"
  /\ \/ /\ Go(w, "dispatch", "delete")
        /\ inbox' = Delivered(w)
        /\ UNCHANGED tries
     \/ /\ \/ May("refused") /\ inbox' = inbox
           \/ May("lost") /\ inbox' = Delivered(w)
        /\ tries' = [tries EXCEPT ![w] = @ + 1]
        /\ IF TriesLeft(tries[w] + 1) THEN Go(w, "dispatch", "dispatch")
           ELSE Throw(w, "dispatch")
  /\ UNCHANGED <<apiVars, docSession, store, queueVars, once, runs, task, verdict,
                 trailVars, discards>>

\* The finally block deletes the objects one by one; a delete that throws skips
\* the rest of the block and fails the job.
DeleteSwallowed(w, m, from, to) ==   \* mutant: a failed delete is only logged
  /\ Go(w, from, to) /\ store' \in {store \ {m}} \union (IF May("delete") THEN {store} ELSE {})
  /\ UNCHANGED <<apiVars, docSession, queueVars, once, runs, task, verdict, tries,
                 trailVars, inbox, discards>>
DeleteSkipsRest(w, m, from, to) ==   \* mutant: it skips the rest but does not throw
  /\ \/ Go(w, from, to) /\ store' = store \ {m}
     \/ May("delete") /\ Go(w, from, "settle") /\ store' = store
  /\ UNCHANGED <<apiVars, docSession, queueVars, once, runs, task, verdict, tries,
                 trailVars, inbox, discards>>
Remove(w, m, from, to) ==
  /\ \/ Go(w, from, to) /\ store' = store \ {m}
     \/ /\ May("delete")
        /\ pc[w] = from /\ pc' = [pc EXCEPT ![w] = "settle"]
        /\ err' = [err EXCEPT ![w] = TRUE]
        /\ store' \in {store, store \ {m}}
  /\ UNCHANGED <<apiVars, docSession, queueVars, once, runs, task, verdict, tries,
                 trailVars, inbox, discards>>

DeleteMedia(w) ==
  /\ pc[w] = "delete"
  /\ IF task[w][2] = "age" THEN Remove(w, <<Tx(w), "frame">>, "delete", "discard")
     ELSE Remove(w, <<Tx(w), "document">>, "delete", "deleteSelfie")
DeleteSelfie(w) == Remove(w, <<Tx(w), "selfie">>, "deleteSelfie", "discard")

\* The discard proof is best effort: a failure is logged and swallowed.
RecordDiscard(w) ==
  /\ Go(w, "discard", "settle")
  /\ \/ discards' = [discards EXCEPT ![task[w]] = @ + 1]
     \/ May("discard") /\ UNCHANGED discards
  /\ UNCHANGED <<apiVars, docSession, store, queueVars, once, runs, task, verdict, tries,
                 trailVars, inbox>>

-----------------------------------------------------------------------------
WorkerStep(w) ==
  \/ GetMedia(w) \/ AcquireOnce(w) \/ Decide(w) \/ IssueDocumentSession(w)
  \/ SaveAudit(w) \/ SaveRecord(w) \/ Dispatch(w)
  \/ DeleteMedia(w) \/ DeleteSelfie(w) \/ RecordDiscard(w) \/ Settle(w)

VerifyStep(v) == ConsumeSession(v) \/ PutFrame(v) \/ EnqueueVerification(v)
SubmitStep(d) == ConsumeDocSession(d) \/ PutDocument(d) \/ PutSelfie(d) \/ EnqueueDocument(d)

Next ==
  \/ \E s \in Sessions : ExpireSession(s)
  \/ \E t \in Verifies : ExpireDocSession(t)
  \/ \E v \in Verifies : VerifyStep(v)
  \/ \E d \in Submits : SubmitStep(d)
  \/ \E w \in Workers, j \in Jobs : Fetch(w, j)
  \/ \E j \in Jobs : Promote(j) \/ LockExpires(j)
  \/ \E w \in Workers : WorkerStep(w) \/ Crash(w)
  \/ \E m \in Media : BucketExpires(m)

Spec == Init /\ [][Next]_vars

\* What keeps running: a request that was started is carried on by the API, a
\* slot that works takes its next step, BullMQ promotes delayed jobs, checks for
\* stalled ones and hands waiting ones to a free slot.  Clients need not come,
\* sessions need not expire, and nothing has to crash.
Fairness ==
  /\ \A v \in Verifies : WF_vars(PutFrame(v) \/ EnqueueVerification(v))
  /\ \A d \in Submits : WF_vars(PutDocument(d) \/ PutSelfie(d) \/ EnqueueDocument(d))
  /\ \A w \in Workers : WF_vars(WorkerStep(w))
  /\ \A j \in Jobs : /\ SF_vars(\E w \in Workers : Fetch(w, j))
                     /\ WF_vars(Promote(j))
                     /\ WF_vars(Abandoned(j) /\ LockExpires(j))

FairSpec == Spec /\ Fairness

-----------------------------------------------------------------------------
(* What the pipeline promises. *)

Steps == {"idle", "get", "once", "decide", "issue", "audit", "record", "dispatch",
          "delete", "deleteSelfie", "discard", "settle"}
RequestStates == {"idle", "put", "putSelfie", "enqueue", "accepted", "rejected", "failed"}
JobStates == {"none", "wait", "active", "delayed", "failed", "completed"}

\* Type invariant.
TypeOK ==
  /\ session \in [Sessions -> {"live", "expired", "deleted"}]
  /\ docSession \in [Verifies -> {"none", "live", "expired", "deleted"}]
  /\ request \in [Verifies \union Submits -> RequestStates]
  /\ store \subseteq Media
  /\ job \in [Jobs -> JobStates]
  /\ attempts \in [Jobs -> 0..MaxAttempts]
  /\ stalls \in [Jobs -> 0..MaxStalls]
  /\ owner \in [Jobs -> Workers \union {Nobody}]
  /\ once \subseteq Jobs
  /\ runs \in [Jobs -> Nat]
  /\ pc \in [Workers -> Steps]
  /\ task \in [Workers -> Jobs \union {NoJob}]
  /\ err \in [Workers -> BOOLEAN]
  /\ verdict \in [Workers -> Verdicts \union {NoVerdict}]
  /\ tries \in [Workers -> 0..MaxDispatch]
  /\ audit \in [Verifies -> Verdicts \union {NoVerdict}]
  /\ record \in [Verifies -> Verdicts \union {NoVerdict}]
  /\ inbox \in [Verifies -> Seq(Verdicts)]
  /\ discards \in [Jobs -> Nat]

\* "Ensures a transaction is processed at most once" (once-guard.ts:3): however
\* often the queue runs a job, and with a worker that lost its lock still
\* running, only one run decides, audits and notifies.
ProcessedAtMostOnce == \A j \in Jobs : runs[j] <= 1

\* A session token pays for one judgement: of all the /verify requests that
\* carry it, replayed or concurrent, at most one is ever judged.
SessionJudgedOnce ==
  \A u, v \in Verifies :
    (SessionOf[u] = SessionOf[v] /\ runs[<<u, "age">>] > 0 /\ runs[<<v, "age">>] > 0)
      => u = v

\* The tenant is never told a status the audit trail does not hold: a delivered
\* webhook is the stored record, or the request for a document that the record
\* of the document phase has since replaced.
WebhookBacked ==
  \A t \in Verifies : \A v \in Received(t) :
    \/ record[t] = v
    \/ v = DocRequired /\ record[t] \in DocVerdicts

\* audit_logs and verification_records are separate commits.  The record is
\* never ahead of the audit, and they disagree only while, or after, a document
\* phase wrote its audit and not its record.
AuditLeadsRecord ==
  \A t \in Verifies :
    \/ record[t] = NoVerdict
    \/ audit[t] = record[t]
    \/ record[t] = DocRequired /\ audit[t] \in DocVerdicts

\* The document phase only exists for a transaction whose stored status asked
\* for a document.
EscalationGrounded ==
  \A t \in Verifies :
    job[<<t, "doc">>] # "none" =>
      /\ audit[t] \in {DocRequired} \union DocVerdicts
      /\ record[t] \in {DocRequired} \union DocVerdicts

\* A discard proof is true: once it is written the media it names is gone and
\* stays gone.
DiscardTrue ==
  \A j \in Jobs : discards[j] > 0 => MediaOf(j) \intersect store = {}

\* Media in the bucket has somebody to answer for it: a job that has not ended
\* well, or a request that is between its upload and its job or failed there
\* (verification.controller.ts:58-69).  So a job reported as completed left
\* nothing behind, and neither did a request that was accepted or rejected.
UploadOf(m) ==
  IF m[2] = "frame" THEN {m[1]} ELSE {d \in Submits : TxOf[d] = m[1]}
MediaAccounted ==
  \A j \in Jobs : \A m \in MediaOf(j) \intersect store :
    \/ job[j] \in {"wait", "active", "delayed", "failed"}
    \/ job[j] = "none" /\ \E r \in UploadOf(m) : request[r] \in {"putSelfie", "enqueue", "failed"}

\* "Exactly-once" (verification.processor.ts:28): a job that completed, and that
\* no worker still runs, has told the tenant its outcome.
CompletedNotified ==
  \A j \in Jobs :
    (job[j] = "completed" /\ \A w \in Workers : task[w] # j)
      => Received(j[1]) \intersect VerdictsOf(j) # {}

\* Every job the queue took is finished with, completed or failed, whatever
\* fails on the way.
Done(j) == job[j] \in {"completed", "failed"}
EveryJobSettles == \A j \in Jobs : job[j] # "none" ~> Done(j)

\* While no process dies, every verification answered 202 ends in a webhook, and
\* every accepted document in a final one: locks that expire and answers that
\* are lost are made up for.
AcceptedIsNotified ==
  /\ \A v \in Verifies : request[v] = "accepted" ~> inbox[v] # <<>>
  /\ \A d \in Submits :
       request[d] = "accepted" ~> Received(TxOf[d]) \intersect DocVerdicts # {}

\* The pipeline implements the contract: the verdict on file is the record, and
\* what the tenant was told are the webhooks that reached it, in any order and
\* number.
Contract == INSTANCE VerificationContract WITH
  Transactions <- Verifies, FaceVerdicts <- AgeVerdicts, Escalation <- DocRequired,
  filed <- record, told <- [t \in Verifies |-> Received(t)]

\* Through retries, crashes, lost locks and lost answers, every step is a step of
\* the contract or invisible to the tenant.
ImplementsContract == Contract!Spec

=============================================================================
