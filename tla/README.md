# eca-verify in TLA+

eca-verify checks the age of a person for a website (a *tenant*) without keeping
the person's data. The plugin sends an encrypted camera frame; a provider
estimates the age; when the estimate is close to the cut-off the person is asked
for a document and a selfie. The tenant hears the result by a webhook, and the
media is deleted. This directory holds the TLA+ models of that system, the TLC
configurations that check them, and proofs for TLAPS. Paths below are relative
to `apps/api/src/` unless they start with `docs/`, `apps/` or `packages/`.

## 1. Inventory

| Component | State | Operations | Module |
|---|---|---|---|
| decision rules (`verification/decision.ts`, `age-band.ts`, `document/document-decision.ts`, both record builders) | none; what is stored goes to audit and record | `decideVerification`, `decideDocument`, `ageFromBirthDate`, `classifyAgeBand`, `isOver18` | Decision |
| verification API (`verification.controller.ts`, `document.controller.ts`) | rows of `sessions`, `document_sessions` | consume token, put media, enqueue | VerificationPipeline |
| queues and workers (`queue/`, `worker.ts`) | BullMQ jobs, locks, attempts, stalls; `once:` keys | add, fetch, promote, stall check, settle, once-guard | VerificationPipeline |
| processors (`verification.processor.ts`, `verification.service.ts`, `document.processor.ts`) | a slot's position in the code, its decision and error | get media, guard, decide, issue document session, audit, record, dispatch, delete, discard | VerificationPipeline |
| audit, records, discard log | `audit_logs`, `verification_records`, `discard_log` | save by primary key; insert | VerificationPipeline |
| webhook dispatch (`webhook.service.ts`) | none | try, retry | VerificationPipeline |
| frame store (`storage/`) | objects of the bucket | put, get, delete | VerificationPipeline |
| session opening and quota (`session.controller.ts`, `usage.service.ts`, `consent.service.ts`) | Redis counters by month, `sessions`, `consent_records` | `consumeQuota`, the transaction | SessionQuota |
| subscriptions (`billing/`) | `tenants.plan_id`, `stripe_subscription_id` | checkout, Stripe webhooks, `PUT /billing/plan` | Subscription |
| tenant scoping (`tenant-scope.ts`, migrations 0001, 0009) | `app.tenant_id` on pooled connections | `runScoped`, `withTenantScope`, `consume_session` | TenantScope |
| CAF client (`verification/caf/`) | cached token, its expiry | token, create, poll | CafClient |
| tenant settings | `tenants.required_age` | `setRequiredAge` | Decision |
| tenants, API keys, guards | `tenants`, `api_keys` | register, rotate, revoke, resolve | TenantAccess |
| dashboard login | `dashboard_users`, signed token | create user, login, guard | TenantAccess |
| rate limiting | Redis counters by minute | check | TenantAccess |
| browser plugin (`packages/plugin/src/index.ts`, `consent.ts`, `payload.ts`) | the consent flag of each form, what the container shows, running click handlers, camera tracks | mount, change of the box, click, `getUserMedia`, frame and encryption, `fetch`, message, `finally` | Plugin |
| proofs (`proof/`), dashboard and consent queries | none of their own: the stored proof, audit rows, consents | scoped reads | TenantScope, TenantStore (partly) |
| encryption, signatures, masking, URL safety, configuration, shared types, CAF stub | none, or cryptography and text | | not modelled |

How they interact. `POST /sessions` (quota, then one transaction of session and
consent) gives the tenant a single-use token, with which its page mounts the
plugin. The plugin asks for consent, opens the camera and sends one encrypted
frame to `POST /verify`, which consumes the token, puts the frame and enqueues a
job. A worker runs the processor: provider (CAF or a
mock), decision, audit, record, webhook, deletion. A `documento_requerido`
webhook carries a document token, with which `POST /verify/document` starts the
second phase of the same transaction; it overwrites the audit row and the
record. Stripe changes the plan, which is what the quota is read from. All
tenant data goes through pooled connections under row-level security.

What is hard: BullMQ runs a job again after an error and when a lock expires,
also while the first worker still runs; a process may die between any two
commits; a call that fails may have taken effect; the document phase may start
while the worker of the face phase still retries its webhook; the finally block
is the only thing that deletes media; requests race for the last unit of a
quota; Stripe's events repeat and overtake each other; connections carry the
tenant of their last holder; a token may die while a request is under way; the
widget's handlers overlap and outlive the form they were clicked in.

What makes each part correct: a verdict follows from the age and the scores
presented; a token pays for one judgement; a job is judged once; audit, record
and webhooks agree; a discard proof is true; every job ends; the quota holds; a
session has a consent; a paid plan was paid for; nobody reads another tenant's
rows; a result comes from a complete answer; a credential works until it ends,
and only for its own tenant; the widget starts one verification per token, says
what is true and switches the camera off. The sections below say which
properties state this.

## 2. Modules

Each variable and action has a comment that names what it stands for. Operators
marked `\* mutant` stand beside the definition they vary; nothing uses them.
They are the plausible slips each property was tried against.

**VerificationPipeline** (the core). A request is named by the transaction it
creates, a job is a pair of transaction and phase, a slot of a worker process is
a member of `Workers` with a program counter (`pc`) whose values are the awaits of
the processors. Every write to Postgres, Redis, the bucket or the queue is one
action, because each is one commit. Each such action has up to three outcomes:
it works; it fails and had no effect; it fails and had its effect. The set
`Faults` says which of these a run allows. BullMQ is external and modelled from
how `verification.queue.ts`, `document.queue.ts` and `worker.ts` use it: a job
id is added once; `attempts`; one stall is forgiven; a result counts only from
the holder of the lock. Values decided by the provider are a nondeterministic
choice here: what the choice must be is the subject of Decision.

**VerificationContract** is the abstract specification: one verdict on file per
transaction, given once, replaced only when it asks for a document *and the
tenant was told so*; the tenant is told nothing but the verdict on file. It
knows of no queue, retry or crash. The pipeline implements it with the record as
`filed` and the set of received webhooks as `told`.

**Decision**, **DecisionProps**. The pure functions, with JavaScript's `NaN` as a
value all comparisons with which are false, and the two phases around them: the
tenant may change its cut-off in between. `evidence` is a history variable that
keeps what was presented. `Birthdays` in DecisionProps is the reference
definition for the arithmetic of `ageFromBirthDate`: it counts birthdays. Scores may
be `NaN` too, since the mappers of CAF pass what it sent through `Number()`; the
properties promise an age for every approval, and of the score that it was not
below its threshold.

**SessionQuota**. One tenant: read the plan, INCR, compare, DECR when over,
session and consent in one transaction; plan changes and month ends at any time.

**Subscription**. One tenant and Stripe: events are repeated until acknowledged
and delivered in any order. The history variables say whether the history so far
was orderly (`shuffled`, `overlapped`, `chosen`).

**TenantScope**. Connections of a pool with a session-level and a
transaction-level `app.tenant_id`; the policies let through the rows of
`Current`. Three kinds of work use them: `runScoped`, `withTenantScope` and
`consume_session`, which is `SECURITY DEFINER`.

**TenantStore** is the abstract specification of TenantScope: a read finds the
rows of its tenant, all and only, and a token is found by whoever presents it
until it is used. It knows of no connection, setting or policy. TenantScope
implements it with the same rows, reads and answers.

**Plugin**. Every click is a handler with a position in the code (`at`): the
awaits of the listener in `mountEcaVerify`. `page` is what the container shows,
which the last writer decides; `mount` counts the forms the page has drawn, each
with its own token and its own consent flag. The API is present as far as the
widget can tell: where it stands with the request of each handler, the token's
row, the jobs. A fetch may be given up while its request is under way or done.

**CafClient**. Discrete time. A leg of a request takes at most `Latency`, a timer
fires at most `Latency` late. The token is shared by all callers of a process.
CAF is external: when it is asked it answers with at least the services it
listed before.

**TenantAccess**. Requests of every kind that a caller may make of tenants, keys
and logins, each with the step it is at: counted, lookup of the key, lookup of
the tenant, handler. A fault may end any of them, before or after its write.
The rate limit counts a registration or login under the bearer string it comes
with, which nobody verifies there, and under its address when there is none
(`BucketOf`); which of the two, and which string, is the caller's choice.
What a registration or a login hands out is named by the request that made it.
`late` is a history variable: the requests that came with a dead credential.

`MC*` modules give TLC its constants. `*Proofs` modules hold the proofs.

How they compose: SessionQuota opens the sessions that Plugin presents and the
pipeline consumes, and reads the plan that Subscription writes; a job of Plugin
is where VerificationPipeline begins; TenantScope is the connection under
every read of the others; CafClient and Decision are what happens inside the
pipeline's action `Decide`. They are separate because they share only that one
value, which the using module leaves to choice.

## 3. Runs

| Run | Shows | Bounds |
|---|---|---|
| `decision` | approvals and rejections are justified by the evidence, a score of NaN counting as not below its threshold; older is never worse | cut-offs 12, 16, 18, 21; margin 3; estimates on both sides of every limit and NaN; birth dates around the month, the day and 29 February, missing and unparsable; scores around both thresholds and NaN |
| `decision_bad_date` | *violated*: the audit log may hold an approval for an unparsable birth date | as above, with scores that are numbers, so that the date is all that is wrong |
| `pipeline_exceptions` | tokens judged once, audit, record, webhooks and discard proofs agree when any call fails; media in the bucket belongs to a job that has not ended well or to a request that failed | two `/verify` with one token, two (interchangeable) document requests with one token, one slot, 2 attempts, 2 webhook tries, every fault but crash and stall |
| `pipeline_outages` | judged once, contract implemented, every job ends | one transaction with its document phase, two slots, crashes and stalls, 2 attempts, 1 stall |
| `pipeline_notified` | 202 leads to a webhook, a document to a final one | the same, with stalls and lost answers |
| `pipeline_never_notified` | *violated*: a completed job may have told nothing | one transaction, two slots, crashes |
| `quota` | quota held, counter truthful, no refusal for nothing, consent for every session | 4 requests, quotas 1 and 2, two months, failing transactions and processes |
| `subscription` | paid plan was paid for or chosen; in an orderly history the plan follows Stripe | 3 subscriptions, 3 plans and an unknown one, all faults and orders |
| `scope` | isolation, the store implemented, all work served | 2 connections, 4 units of work of 2 tenants |
| `access` | rate limit held for each counter, dead credentials refused, live ones honoured, one tenant per email | 2 registrations, a rotation, a revocation, 2 accounts for one email, a login, a request behind the dashboard guard; one address and one bearer string, limit 2, 2 minutes, one fault |
| `caf` | no dead token used, no partial result read, calls end in time | 2 callers, 2 services, token life 3, skew 2, time-out 3 in units of the latency |
| `plugin` | one verification per token, true messages, camera off | 3 clicks, 2 mounts, every fault of the browser and of the API |

Why these are enough. The hazards are races of two: two requests for one token,
a slot that lost its lock against the slot that got the job, a worker of the face
phase against one of the document phase, a loser against the next request. Two
slots and one transaction with both phases contain them; two attempts contain
"again after an error" and the end of attempts; one stall is BullMQ's default.
Four requests against quotas of 1 and 2 let two lose at once. Three clicks over
two mounts contain a failure, its repetition and a double click, and a handler of
an old form beside one of the new. Numbers that the
code compares only with each other (attempts 3, webhook tries 4, quotas of
hundreds) are shrunk; none of the safety arguments of section 4 depends on them.
Deadlock is not checked: each of these systems may come to rest.

Fairness. `FairSpec` of the pipeline asks that a request the API has taken is
carried on, that a working slot takes its next step, that BullMQ promotes delayed
jobs and finds stalled ones (weak fairness: timers of BullMQ do this), and that a
waiting job is given to a slot if slots are free again and again (strong fairness:
BullMQ's list is first in, first out). Nothing asks that clients come, that a
session expires, or that a fault happens or does not. In TenantScope a task that
holds a connection goes on and the pool serves its queue in order. A lock
expires by fairness only if its worker is gone. In Plugin the camera delivers a
frame or fails, and a fetch is answered or given up, as browsers do; the user
need not answer the prompt and the API need not answer at all.

### What the violated runs say about the code

* `pipeline_never_notified`: `verification.processor.ts:28` promises
  "Exactly-once". The once key is set before the work, so after a crash the retry
  returns at once and the job counts as completed: zero times is possible.
* `decision_bad_date`: `NaN < cutoff` is false (`document-decision.ts:19`). The
  record refuses NaN because its column is an int, so the tenant is told nothing
  and the job fails, but the audit log says `aprovado`.

Other things met while modelling, without a run: `customer.subscription.deleted`
maps to `free` whichever subscription ended (`stripe-adapter.ts:44`), so a tenant
that upgrades by a second checkout loses its plan when the first subscription
ends; the widget's "Tente novamente" stands where the form was, so trying again
takes a new mount, and after a repeated click it may replace the "enviada" of the
click that worked; a consent withdrawn while the browser asks for the camera does
not stop it; the worker never calls `validateEnv`, so a threshold that is not a
number passes everybody in the process that decides; so does a score of CAF that
is not a number (`caf-mappers.ts:22,33`), and for a good age such an approval is
also recorded, because `liveness_score` is a float column that takes NaN, where
`packages/sdk-types` says `0..1`; registrations and logins are limited per bearer
string when they send one, although they need none and it is not verified
(`rate-limit.guard.ts:19-20`), so a caller has as many counters as it sends
strings, and only callers that send none are limited by address;
`dashboard.service.ts:25`
says that the application role bypasses row-level security, which migration 0009
has ended; `verification.processor.ts:62`
says the media is deleted "always", but when workers die in each run of a job
until the stall limit fails it, no finally block runs, and the repository
configures no lifecycle rule on the bucket; a tenant may revoke its last key, and
a registration that fails between its two saves leaves a tenant without one; an attempt that failed before
the once-guard has deleted its media, so no later attempt can succeed; a repeated
`documento_requerido` webhook can arrive after the final one; a process that dies
between INCR and DECR leaves a unit counted; a unit is not given back when the
transaction of `POST /sessions` fails; a `checkout.session.completed` delivered
after the end of its subscription leaves the paid plan; with a cut-off below 18
`is_over_18` is true for minors; a put without an enqueue leaves an orphan in the
bucket; several discard rows per transaction are possible; `fetch` to CAF has no
time-out, and a 401 does not drop the cached token; the documentation of the
scale smoke test expects a 429 from `POST /sessions`, which has no rate limit
guard.

## 4. Proofs

TLAPS proves these for every value of the constants that satisfies the
assumptions of the module: `PipelineAssumption` (any number of sessions, requests,
slots, attempts, stalls and tries, any set of faults), `TasksAssumption` (any
number of connections, tenants and units of work), `PluginAssumption` (clicks and
mounts), `DecisionAssumption` (estimates, scores and thresholds, dates, cut-offs
within 1..120), `QuotaAssumption` (any finite set of requests, any plans and
quotas), `PlansAssumption` (plans and checkouts), `AccessAssumption` (any finite
set of requests, each to one route, any limit), `TimesAssumption` with
`SkewAssumption` (any times, with a skew of at least two latencies). Every
safety invariant that a run checks, and both refinements, are theorems.

| Module | Theorem | States |
|---|---|---|
| VerificationPipelineProofs | `TypeCorrect` | `Spec => []TypeOK` |
| | `AtMostOnce` | `Spec => []ProcessedAtMostOnce` |
| | `JudgedOnce` | `Spec => []SessionJudgedOnce` |
| | `ToldIsOnFile` | `Spec => []WebhookBacked` |
| | `Implementation` | `Spec => ImplementsContract` |
| | `AuditFirst` | `Spec => []AuditLeadsRecord` |
| | `OnlyWhenAsked` | `Spec => []EscalationGrounded` |
| | `ProofOfDiscard` | `Spec => []DiscardTrue` |
| | `NothingLeftBehind` | `Spec => []MediaAccounted` |
| DecisionProofs | `TypeCorrect` | `Spec => []TypeOK` |
| | `ApprovalsJustified` | `Spec => []ApprovalJustified` |
| | `RejectionsJustified` | `Spec => []RejectionJustified` |
| | `OnlyNaN` | an approval in the audit log is `Justified` or has a birth date in `BadDates`, and its score is at or above the threshold or `NaN` |
| | `Monotone` | `Spec => []OlderNeverWorse` |
| SessionQuotaProofs | `TypeCorrect` | `Spec => []TypeOK` |
| | `NeverOverQuota` | `Spec => []QuotaHeld` |
| | `CounterTruthful` | `Spec => []UsageTruthful` |
| | `NoFalseRefusal` | `Spec => []RefusedWhenFull` |
| | `NoSessionWithoutConsent` | `Spec => []ConsentBacked` |
| SubscriptionProofs | `TypeCorrect` | `Spec => []TypeOK` |
| | `PlanFollows` | `Spec => []PlanFollowsStripe` |
| | `OncePaid` | `Spec => []PaidPlanWasPaid` |
| TenantScopeProofs | `TypeCorrect` | `Spec => []TypeOK` |
| | `Isolated` | `Spec => []Isolation` |
| | `Implementation` | `Spec => ImplementsStore` |
| TenantAccessProofs | `TypeCorrect` | `Spec => []TypeOK` |
| | `RateLimited` | `Spec => []LimitHeld` |
| | `TooLate` | `Spec => []LateIsRefused` |
| | `AnsweredWorks` | `Spec => []KeyWorks` |
| | `EmailOwned` | `Spec => []OneTenantPerEmail` |
| CafClientProofs | `TypeCorrect` | `Spec => []TypeOK` |
| | `TokenAlive` | `Spec => []TokenLive` |
| | `CompleteResult` | `Spec => []ResultComplete` |
| | `OverInTime` | `Spec => []EndsInTime` |
| PluginProofs | `TypeCorrect` | `Spec => []TypeOK` |
| | `StartedOnce` | `Spec => []OneVerification` |
| | `Truthful` | `Spec => []ToldTruly` |

Few of these invariants are inductive as they stand. What each proof adds:

### The pipeline

*Type correctness.* A slot that saves its verdict must hold one, and one that
counts a webhook try must not have used them all up. `Typed` adds what a position
in the code implies: a busy slot has a job, a slot past `decide` has a verdict of
its phase, a slot before `delete` has tries left. Variables come in groups
(`ApiTyped`, `QueueTyped`, ...), and the lemma `Frames` says that a group that is
left alone stays typed.

*At most once.* A job whose key is not in `once` has not run.

*Judged once.* A request past its token implies that the row is deleted, and of
the requests that carry one token only one can be past it: the others find it
deleted. A job exists only for such a request.

*Told is on file, and the contract.* The invariant (`TrailInv`) says what a slot
at each step knows of the trail: a slot that has passed the guard is the only one
of its job that has (its exclusiveness follows from `once`); the record holds
its verdict once it has saved it; a document job exists only when a webhook asked
for the document, hence when the record said so; no slot of the face phase is
then before its own save. The step proofs go action by action; the refinement
maps `SaveRecord` to `Judge` or `Resolve`, a delivered webhook to `Tell`, and
every other step to a stutter.

*Audit first.* Two slots that are both about to save something for one
transaction would be in different phases, and the document phase runs only after
the record of the age phase: so there is never more than one (`OneWriter`), and a
slot about to save the record finds its own verdict in the audit (`AuditInv`).

*Media.* Why is what was deleted never put back? Because whoever may put it is
over. `TokenInv`: the document token is issued once, by the one run of the age
phase, and at most one document request gets past it. `UploadInv`: a job is
queued by the last step of its request. So a slot's job has no request left that
could put its media, and `ErasedInv` can say that what a discard row names, what
a completed job had and what a slot has deleted stays gone (`Gone`). `LeftInv`
is the converse: media without a job has a request that still answers for it.

### The other components

*Decision.* Audit and record are functions of the evidence (`AgeInv`, `DocInv`),
but for the rows a `NaN` keeps out of the table; the three properties are then
arithmetic. The lemma `AgeCountsBirthdays` says that the arithmetic on year,
month and day counts the birthdays up to today, for every pair of dates, by the
cardinality of an interval. Estimates and scores may be `NaN`. A score of `NaN`
is below no threshold, so `Justified` asks for a score that is not below it, which
is what the code ensures; `OnlyNaN` says what an approval may then lack, and when.

*SessionQuota.* The counter of a month is the number of requests that hold a unit
(`UsageInv`), so what INCR returns is that number with oneself (`CountInv` says
who has a number). A request admitted under `q` was therefore one of at most `q`
holders, and the last of the admitted ones saw all others (`QuotaHeld` is then
inductive). A request that has lost under one common quota saw it full of
admitted requests and of losers; by `FullInv` the admitted ones alone fill it.

*Subscription.* Only a paid subscription has events (`EventInv`), without overlap
only one is open (`OneInv`), and in orderly histories the last waiting event that
will set the plan sets the one that is paid for; when none waits the tenant has it
already (`FollowInv`). An event may be delivered again before the next, which is
why the invariant is about the last of them and not about the plan.

*TenantScope.* `Isolation` is not inductive, since the setting on a connection
outlives its holder. The invariant says that a task holds a connection exactly
from `Grant` to `Release` and waits at most once (`PoolInv`), that each kind of
work keeps to its own steps (`KindInv`), and that the session setting of a
connection is that of its holder while the holder works, a local setting being
there only inside the transaction that made it (`ScopeInv`). It follows that what
the policies show a task is its tenant's rows (`OwnRows`), hence both the
invariant and the refinement, which maps `Read` to `Read`, `Write` and `Commit` to
`Write`, `consume_session` to `Use` and every other step to a stutter.

*TenantAccess.* Requests of one counter in a minute have different numbers, none
above it (`CountInv`); an injection into `1..Limit` bounds those that
are handled. What a request was answered is on file and stays there but for its
revocation (`WhoInv`, `KeyInv`, `AccountInv`); a request that came with a revoked
key still finds it revoked at its lookup, and an expired token never gets as far
(`LateInv`).

*CafClient.* The token the client keeps until `until` lives at CAF for the skew
beyond it, but for the latency of the answer that brought it (`TokenInv`): a
request issued before `until` is received before the token dies (`HeaderInv`).
Each step of a poll is due one latency after the one before it, and a poll starts
before the deadline (`PollInv`).

*Plugin.* A request that got past its token found the row, and the row is gone
after that; a handler that is clicked has no request yet, so the form it belongs
to does not change under its request. A handler that is over stays over, and an
answer stays what it was.

### Only model-checked

Liveness (`EveryJobSettles`, `AcceptedIsNotified`, `EveryTaskEnds`,
`CameraGoesOff`), which this prover does not reach. The two violated runs are
counterexamples and have nothing to prove, but for `OnlyNaN`, which says
that the one of `decision_bad_date` is the only one of its kind.

## 5. Not modelled, and assumptions

* The 24 hours of a `once:` key, the 40 days of a counter, graceful shutdown.
* Shape checks of bodies, wording, pagination, statistics: pure functions of data.
* Signatures, encryption, hashing, masking: taken to work.
* CafClient assumes a bound on the latency; without it a hung `fetch` has no end.
  It assumes `2 * Latency <= Skew`: the 60 seconds are meant to cover the answer
  that brings a token and the request that uses it.
* TenantAccess takes ids, keys and tokens to be unlike each other, and each
  account to have a password of its own; its rate limit is without the requests to
  `/verify` and `/verify/document`, which add to the same counters and can only
  make it stricter; a counter of the rate limit outlives its
  minute, since it expires 60 s after its first use.
* The console page (`dashboard.page.ts`): two fetches per load with whatever
  credential is set at the time; overlapping loads may show two tenants at once.
* Plugin: a reload of the page, more than one container at a time, and the
  document step, for which the plugin has only an unused payload builder.
* Configuration is constant and numeric.
* TenantScope assumes that the pool serves its waiters in order.
* Redis and Postgres do not lose what they acknowledged.

## 6. Plan

Done: every module of section 2, and the theorems of section 4, which cover every
safety invariant of the runs and both refinements.

Next:

1. An abstract quota (a request is admitted only while fewer than the quota are)
   that SessionQuota implements, stated, checked and proved.
2. A contract of credentials (issued, revoked, used) that TenantAccess implements.
3. Weaker assumptions where the code allows them: thresholds that are not numbers,
   with what is then still true; a pool that does not serve its waiters in order
   (the safety of TenantScope does not use it).
