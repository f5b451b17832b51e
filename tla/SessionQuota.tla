----------------------------- MODULE SessionQuota -----------------------------
(***************************************************************************)
(* Opening a verification session (POST /sessions) of one tenant.          *)
(*                                                                         *)
(* The request reads the quota of the tenant's plan, consumes one unit of  *)
(* the counter of the month in Redis, then stores the session and the      *)
(* consent that covers it in one transaction.  The counter is incremented  *)
(* first and rolled back when it overshoots; requests of the same tenant   *)
(* interleave between the two, the plan may change and the month may end.  *)
(* A session row is deleted when its token is consumed; its consent stays. *)
(*                                                                         *)
(* The counter's expiry, 40 days after its first use, comes after every    *)
(* request of its month and is not modelled.                               *)
(***************************************************************************)
EXTENDS Naturals, FiniteSets

CONSTANTS
  Requests,     \* POST /sessions requests of the tenant
  Plans,        \* plan ids
  Quota,        \* monthlyQuota of each plan
  MaxMonth,     \* months of the run
  Faults        \* steps that may fail: "tx" (the transaction), "crash"

ASSUME QuotaAssumption ==
  /\ IsFiniteSet(Requests)
  /\ Quota \in [Plans -> Nat]
  /\ MaxMonth \in Nat
  /\ Faults \subseteq {"tx", "crash"}

Months == 0..MaxMonth

VARIABLES
  plan,        \* tenants.plan_id
  month,       \* the UTC month of the clock
  usage,       \* the Redis counters usage:<tenant>:<month>
  at,          \* the step each request is about to take
  key,         \* the month of the counter it uses
  limit,       \* the quota it read
  count,       \* what INCR returned to it
  staged,      \* rows written by its open transaction
  sessions,    \* requests whose session row is committed
  consents     \* requests whose consent row is committed

vars == <<plan, month, usage, at, key, limit, count, staged, sessions, consents>>
rows == <<sessions, consents>>

Init ==
  /\ plan \in Plans
  /\ month = 0
  /\ usage = [m \in Months |-> 0]
  /\ at = [r \in Requests |-> "plan"]
  /\ key = [r \in Requests |-> 0]
  /\ limit = [r \in Requests |-> 0]
  /\ count = [r \in Requests |-> 0]
  /\ staged = [r \in Requests |-> {}]
  /\ sessions = {} /\ consents = {}

Goto(r, from, to) == at[r] = from /\ at' = [at EXCEPT ![r] = to]

-----------------------------------------------------------------------------
\* consumeQuota reads the tenant; incrementAndCheck names the counter at once.
ReadPlan(r) ==
  /\ Goto(r, "plan", "incr")
  /\ limit' = [limit EXCEPT ![r] = Quota[plan]]
  /\ key' = [key EXCEPT ![r] = month]
  /\ UNCHANGED <<plan, month, usage, count, staged, rows>>

\* INCR is atomic in Redis and returns the new value.
LostIncrement(r) ==   \* mutant: GET, then SET of the next value
  /\ Goto(r, "incr", "check")
  /\ \E n \in {usage[key[r]], usage[key[r]] - 1} \intersect Nat :
       /\ usage' = [usage EXCEPT ![key[r]] = n + 1]
       /\ count' = [count EXCEPT ![r] = n + 1]
  /\ UNCHANGED <<plan, month, key, limit, staged, rows>>
Increment(r) ==
  /\ Goto(r, "incr", "check")
  /\ usage' = [usage EXCEPT ![key[r]] = @ + 1]
  /\ count' = [count EXCEPT ![r] = usage[key[r]] + 1]
  /\ UNCHANGED <<plan, month, key, limit, staged, rows>>

\* The answer is compared with the quota.
LastUnitLost(r) == count[r] < limit[r]   \* mutant: off by one
Admits(r) == count[r] <= limit[r]
Check(r) ==
  /\ Goto(r, "check", IF Admits(r) THEN "session" ELSE "decr")
  /\ UNCHANGED <<plan, month, usage, key, limit, count, staged, rows>>

\* The loser takes its unit back and is answered 402.
RollbackAll(r) ==   \* mutant: everything the request saw is taken back
  /\ Goto(r, "decr", "refused")
  /\ usage' = [usage EXCEPT ![key[r]] = @ - count[r]]
  /\ UNCHANGED <<plan, month, key, limit, count, staged, rows>>
NoRollback(r) ==   \* mutant: the unit is not taken back
  /\ Goto(r, "decr", "refused")
  /\ UNCHANGED <<plan, month, usage, key, limit, count, staged, rows>>
Rollback(r) ==
  /\ Goto(r, "decr", "refused")
  /\ usage' = [usage EXCEPT ![key[r]] = @ - 1]
  /\ UNCHANGED <<plan, month, key, limit, count, staged, rows>>

\* The transaction: session row, consent row, commit.
Autocommit(r) ==   \* mutant: the session row is saved outside the transaction
  /\ Goto(r, "session", "consent")
  /\ sessions' = sessions \union {r}
  /\ UNCHANGED <<plan, month, usage, key, limit, count, staged, consents>>
SaveSession(r) ==
  /\ Goto(r, "session", "consent")
  /\ staged' = [staged EXCEPT ![r] = @ \union {"session"}]
  /\ UNCHANGED <<plan, month, usage, key, limit, count, rows>>

SaveConsent(r) ==
  /\ Goto(r, "consent", "commit")
  /\ staged' = [staged EXCEPT ![r] = @ \union {"consent"}]
  /\ UNCHANGED <<plan, month, usage, key, limit, count, rows>>

Committed(r) ==
  /\ sessions' = IF "session" \in staged[r] THEN sessions \union {r} ELSE sessions
  /\ consents' = IF "consent" \in staged[r] THEN consents \union {r} ELSE consents

Commit(r) ==
  /\ Goto(r, "commit", "opened")
  /\ Committed(r)
  /\ staged' = [staged EXCEPT ![r] = {}]
  /\ UNCHANGED <<plan, month, usage, key, limit, count>>

\* A statement fails, or the COMMIT is answered with an error although it was
\* applied.  The unit of quota is not given back.
TransactionFails(r) ==
  /\ "tx" \in Faults
  /\ \/ at[r] \in {"session", "consent", "commit"} /\ UNCHANGED rows
     \/ at[r] = "commit" /\ Committed(r)
  /\ at' = [at EXCEPT ![r] = "failed"]
  /\ staged' = [staged EXCEPT ![r] = {}]
  /\ UNCHANGED <<plan, month, usage, key, limit, count>>

\* The API process dies under the request.
Crash(r) ==
  /\ "crash" \in Faults
  /\ at[r] \in {"incr", "check", "decr", "session", "consent", "commit"}
  /\ at' = [at EXCEPT ![r] = "failed"]
  /\ staged' = [staged EXCEPT ![r] = {}]
  /\ UNCHANGED <<plan, month, usage, key, limit, count, rows>>

\* /verify deletes the session row (consume_session); the consent remains.
ConsumeSession(r) ==
  /\ r \in sessions
  /\ sessions' = sessions \ {r}
  /\ UNCHANGED <<plan, month, usage, at, key, limit, count, staged, consents>>

\* PUT /billing/plan, or a Stripe webhook.
changePlan(p) ==
  /\ plan' = p
  /\ UNCHANGED <<month, usage, at, key, limit, count, staged, rows>>

MonthEnds ==
  /\ month < MaxMonth
  /\ month' = month + 1
  /\ UNCHANGED <<plan, usage, at, key, limit, count, staged, rows>>

Step(r) ==
  \/ ReadPlan(r) \/ Increment(r) \/ Check(r) \/ Rollback(r)
  \/ SaveSession(r) \/ SaveConsent(r) \/ Commit(r)

Next ==
  \/ \E r \in Requests : Step(r) \/ TransactionFails(r) \/ Crash(r) \/ ConsumeSession(r)
  \/ \E p \in Plans : changePlan(p)
  \/ MonthEnds

Spec == Init /\ [][Next]_vars

-----------------------------------------------------------------------------
Steps == {"plan", "incr", "check", "decr", "session", "consent", "commit",
          "opened", "refused", "failed"}

\* Type invariant.
TypeOK ==
  /\ plan \in Plans
  /\ month \in Months
  /\ usage \in [Months -> 0..Cardinality(Requests)]
  /\ at \in [Requests -> Steps]
  /\ key \in [Requests -> Months]
  /\ limit \in [Requests -> Nat]
  /\ count \in [Requests -> Nat]
  /\ staged \in [Requests -> SUBSET {"session", "consent"}]
  /\ sessions \subseteq Requests
  /\ consents \subseteq Requests

\* Requests of month m that hold a unit of quota: they are past the comparison,
\* or it will be in their favour; those that still have to give theirs back; and
\* those that failed after INCR, whose unit is not given back.
Admitted(m) ==
  {r \in Requests : key[r] = m /\ \/ at[r] \in {"session", "consent", "commit", "opened"}
                                  \/ at[r] = "check" /\ count[r] <= limit[r]}
Losing(m) ==
  {r \in Requests : key[r] = m /\ \/ at[r] = "decr"
                                  \/ at[r] = "check" /\ count[r] > limit[r]}
Forfeited(m) == {r \in Requests : key[r] = m /\ at[r] = "failed" /\ count[r] > 0}

\* Of the requests that were admitted, however they raced and whatever plans
\* were in force in between, no more than q were admitted under a quota of at
\* most q (billing.service.ts:61-71).
QuotaHeld ==
  \A m \in Months : \A p \in Plans :
    Cardinality({r \in Admitted(m) : limit[r] <= Quota[p]}) <= Quota[p]

\* "a losing concurrent request does not leave the usage inflated"
\* (usage.service.ts:21-26): the counter is the number of the admitted requests,
\* of those still to be rolled back, and of those that failed after INCR.
UsageTruthful ==
  \A m \in Months :
    usage[m] = Cardinality(Admitted(m) \union Losing(m) \union Forfeited(m))

\* While the plan keeps its quota, a request is refused only when the quota is
\* really used up by others, never because a loser was about to roll back
\* (billing.service.ts:61-71).
RefusedWhenFull ==
  \A r \in Requests :
    /\ at[r] \in {"decr", "refused"}
    /\ \A q \in Requests : key[q] = key[r] /\ count[q] > 0 => limit[q] = limit[r]
    => Cardinality(Admitted(key[r]) \union Forfeited(key[r])) >= limit[r]

\* No session without the consent that covers it, whatever fails in between
\* (session.controller.ts:53-58).
ConsentBacked == sessions \subseteq consents
=============================================================================
