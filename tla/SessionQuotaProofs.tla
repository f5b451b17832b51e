-------------------------- MODULE SessionQuotaProofs --------------------------
(***************************************************************************)
(* The quota of a plan holds, the counter in Redis is truthful, and nobody *)
(* is refused for nothing, for any number of requests, plans and months.   *)
(*                                                                         *)
(* The argument rests on one fact: what INCR returns to a request is the   *)
(* number of requests that hold a unit at that moment, itself included.    *)
(***************************************************************************)
EXTENDS SessionQuota, FiniteSetTheorems, TLAPS

\* The type invariant but for the bound of the counters, which follows from
\* what they count.
Typed ==
  /\ plan \in Plans
  /\ month \in Months
  /\ usage \in [Months -> Nat]
  /\ at \in [Requests -> Steps]
  /\ key \in [Requests -> Months]
  /\ limit \in [Requests -> Nat]
  /\ count \in [Requests -> Nat]
  /\ staged \in [Requests -> SUBSET {"session", "consent"}]
  /\ sessions \subseteq Requests
  /\ consents \subseteq Requests

\* A request has a count once it is past INCR.
CountInv ==
  \A r \in Requests :
    /\ at[r] \in {"plan", "incr"} => count[r] = 0
    /\ at[r] \in Steps \ {"plan", "incr", "failed"} => count[r] > 0

\* The transaction is committed with both rows or none.
StagedInv ==
  /\ \A r \in Requests : at[r] = "commit" => "consent" \in staged[r]
  /\ ConsentBacked

\* The requests that hold a unit of the month's counter.
Holds(r) == count[r] > 0 /\ at[r] # "refused"
Holders(m) == {r \in Requests : key[r] = m /\ Holds(r)}

\* Those of them that keep it.
Granted(m) == Admitted(m) \union Forfeited(m)

\* The comparison went, or will go, against the request.
Lost(r) == at[r] \in {"decr", "refused"} \/ (at[r] = "check" /\ count[r] > limit[r])

\* Every request counted with r read the same quota.
SameQuota(r) ==
  \A q \in Requests : key[q] = key[r] /\ count[q] > 0 => limit[q] = limit[r]

UsageInv == \A m \in Months : usage[m] = Cardinality(Holders(m))
FullInv ==
  \A r \in Requests :
    Lost(r) /\ SameQuota(r) => Cardinality(Granted(key[r])) >= limit[r]

IInv == Typed /\ CountInv /\ StagedInv /\ UsageInv /\ QuotaHeld /\ FullInv

-----------------------------------------------------------------------------
(* Facts about the sets that are counted. *)

LEMMA Finite ==
  ASSUME NEW S \in SUBSET Requests
  PROVE  IsFiniteSet(S) /\ Cardinality(S) \in Nat /\ Cardinality(S) <= Cardinality(Requests)
  BY QuotaAssumption, FS_Subset, FS_CardinalityType

LEMMA Monotone ==
  ASSUME NEW S \in SUBSET Requests, NEW T \in SUBSET S
  PROVE  Cardinality(T) <= Cardinality(S)
<1>1. IsFiniteSet(S)
  BY Finite
<1> QED BY <1>1, FS_Subset

\* The holders are the admitted, the losing and the forfeited.
LEMMA HoldersAre ==
  ASSUME Typed, CountInv, NEW m \in Months
  PROVE  /\ Admitted(m) \union Losing(m) \union Forfeited(m) = Holders(m)
         /\ Granted(m) = Holders(m) \ Losing(m)
<1>1. \A r \in Requests : count[r] > limit[r] <=> ~(count[r] <= limit[r])
  BY DEF Typed
<1>2. \A r \in Requests : count[r] > 0 => at[r] \notin {"plan", "incr"}
  BY DEF Typed, CountInv
<1>3. \A r \in Requests : at[r] \in Steps
  BY DEF Typed
<1> QED BY <1>1, <1>2, <1>3
        DEF Admitted, Losing, Forfeited, Granted, Holders, Holds, CountInv, Steps

-----------------------------------------------------------------------------
LEMMA InitIInv == Init => IInv
<1> SUFFICES ASSUME Init PROVE IInv
  OBVIOUS
<1>1. Typed
  BY QuotaAssumption DEF Init, Typed, Months, Steps
<1>2. CountInv /\ StagedInv /\ FullInv
  BY DEF Init, CountInv, StagedInv, ConsentBacked, FullInv, Lost, Steps
<1>3. \A m \in Months : Holders(m) = {} /\ Admitted(m) = {}
  BY DEF Init, Holders, Holds, Admitted
<1>4. UsageInv
  BY <1>3, FS_EmptySet DEF Init, UsageInv
<1>5. QuotaHeld
  <2> SUFFICES ASSUME NEW m \in Months, NEW p \in Plans
               PROVE  Cardinality({r \in Admitted(m) : limit[r] <= Quota[p]}) <= Quota[p]
    BY DEF QuotaHeld
  <2>1. {r \in Admitted(m) : limit[r] <= Quota[p]} = {}
    BY <1>3
  <2>2. Quota[p] \in Nat
    BY QuotaAssumption
  <2> QED BY <2>1, <2>2, FS_EmptySet
<1> QED BY <1>1, <1>2, <1>4, <1>5 DEF IInv

LEMMA TypedStep ==
  ASSUME Typed, CountInv, UsageInv, [Next]_vars
  PROVE  Typed' /\ CountInv'
<1> USE DEF Typed, CountInv, rows, Goto, Steps
<1>1. CASE UNCHANGED vars
  BY <1>1 DEF vars
<1>2. ASSUME NEW r \in Requests, ReadPlan(r) PROVE Typed' /\ CountInv'
  BY <1>2, QuotaAssumption DEF ReadPlan
<1>3. ASSUME NEW r \in Requests, Increment(r) PROVE Typed' /\ CountInv'
  BY <1>3 DEF Increment
<1>4. ASSUME NEW r \in Requests, Check(r) PROVE Typed' /\ CountInv'
  BY <1>4 DEF Check
<1>5. ASSUME NEW r \in Requests, Rollback(r) PROVE Typed' /\ CountInv'
  <2>1. r \in Holders(key[r]) /\ key[r] \in Months
    BY <1>5 DEF Rollback, Holders, Holds
  <2>2. Holders(key[r]) \in SUBSET Requests
    BY DEF Holders
  <2>3. usage[key[r]] # 0
    BY <2>1, <2>2, Finite, FS_EmptySet DEF UsageInv
  <2> QED BY <1>5, <2>1, <2>3 DEF Rollback
<1>6. ASSUME NEW r \in Requests, SaveSession(r) \/ SaveConsent(r)
      PROVE  Typed' /\ CountInv'
  BY <1>6 DEF SaveSession, SaveConsent
<1>7. ASSUME NEW r \in Requests, Commit(r) PROVE Typed' /\ CountInv'
  BY <1>7 DEF Commit, Committed
<1>8. ASSUME NEW r \in Requests, TransactionFails(r) \/ Crash(r)
      PROVE  Typed' /\ CountInv'
  BY <1>8 DEF TransactionFails, Crash, Committed
<1>9. ASSUME NEW r \in Requests, ConsumeSession(r) PROVE Typed' /\ CountInv'
  BY <1>9 DEF ConsumeSession
<1>10. ASSUME NEW p \in Plans, changePlan(p) PROVE Typed' /\ CountInv'
  BY <1>10 DEF changePlan
<1>11. CASE MonthEnds
  BY <1>11, QuotaAssumption DEF MonthEnds, Months
<1> QED BY <1>1, <1>2, <1>3, <1>4, <1>5, <1>6, <1>7, <1>8, <1>9, <1>10, <1>11 DEF Next, Step

LEMMA StagedStep ==
  ASSUME Typed, StagedInv, [Next]_vars
  PROVE  StagedInv'
<1> USE DEF Typed, StagedInv, ConsentBacked, rows, Goto
<1>1. CASE UNCHANGED vars
  BY <1>1 DEF vars
<1>2. ASSUME NEW r \in Requests,
             ReadPlan(r) \/ Increment(r) \/ Check(r) \/ Rollback(r)
      PROVE  StagedInv'
  BY <1>2 DEF ReadPlan, Increment, Check, Rollback
<1>3. ASSUME NEW r \in Requests, SaveSession(r) \/ SaveConsent(r) PROVE StagedInv'
  BY <1>3 DEF SaveSession, SaveConsent
<1>4. ASSUME NEW r \in Requests, Commit(r) PROVE StagedInv'
  BY <1>4 DEF Commit, Committed
<1>5. ASSUME NEW r \in Requests, TransactionFails(r) \/ Crash(r) PROVE StagedInv'
  BY <1>5 DEF TransactionFails, Crash, Committed
<1>6. ASSUME NEW r \in Requests, ConsumeSession(r) PROVE StagedInv'
  BY <1>6 DEF ConsumeSession
<1>7. CASE MonthEnds \/ \E p \in Plans : changePlan(p)
  BY <1>7 DEF MonthEnds, changePlan
<1> QED BY <1>1, <1>2, <1>3, <1>4, <1>5, <1>6, <1>7 DEF Next, Step

-----------------------------------------------------------------------------
(* Every step but INCR leaves what was counted as it is. *)

\* A step after which nobody is newly admitted or newly loses, and nobody who
\* was granted a unit is without it.
Settled ==
  /\ \A r \in Requests : count[r] > 0 =>
       key'[r] = key[r] /\ limit'[r] = limit[r]
  /\ \A r \in Requests : count'[r] = count[r]
  /\ \A r \in Requests : Lost(r)' => Lost(r)
  /\ \A m \in Months : Admitted(m)' \subseteq Admitted(m) /\ Granted(m) \subseteq Granted(m)'

LEMMA SettledKeeps ==
  ASSUME IInv, Typed', CountInv', Settled
  PROVE  QuotaHeld' /\ FullInv'
<1> USE DEF IInv
<1>1. QuotaHeld'
  <2> SUFFICES ASSUME NEW m \in Months, NEW p \in Plans
               PROVE  Cardinality({r \in Admitted(m)' : limit'[r] <= Quota[p]}) <= Quota[p]
    BY DEF QuotaHeld
  <2> DEFINE S == {r \in Admitted(m) : limit[r] <= Quota[p]}
             T == {r \in Admitted(m)' : limit'[r] <= Quota[p]}
  <2>1. \A r \in Admitted(m) : r \in Requests /\ count[r] > 0
    BY DEF Admitted, CountInv, Steps
  <2>2. T \subseteq S /\ S \subseteq Requests
    BY <2>1 DEF Settled
  <2>3. Cardinality(T) <= Cardinality(S) /\ Cardinality(S) \in Nat /\ Cardinality(T) \in Nat
    BY <2>2, Monotone, Finite
  <2>4. Cardinality(S) <= Quota[p] /\ Quota[p] \in Nat
    BY QuotaAssumption DEF QuotaHeld
  <2> QED BY <2>3, <2>4
<1>2. FullInv'
  <2> SUFFICES ASSUME NEW r \in Requests, Lost(r)', SameQuota(r)'
               PROVE  Cardinality(Granted(key[r])') >= limit'[r] /\ key'[r] = key[r]
    BY DEF FullInv
  <2>1. Lost(r) /\ count[r] > 0
    BY DEF Settled, Lost, CountInv, Steps, Typed
  <2>2. key'[r] = key[r] /\ limit'[r] = limit[r] /\ key[r] \in Months /\ limit[r] \in Nat
    BY <2>1 DEF Settled, Typed
  <2>3. SameQuota(r)
    BY <2>2 DEF Settled, SameQuota
  <2>4. Cardinality(Granted(key[r])) >= limit[r]
    BY <2>1, <2>3 DEF FullInv
  <2>5. Granted(key[r]) \subseteq Granted(key[r])' /\ Granted(key[r])' \subseteq Requests
    BY <2>2 DEF Settled, Granted, Admitted, Forfeited
  <2>6. /\ Cardinality(Granted(key[r])) <= Cardinality(Granted(key[r])')
        /\ Cardinality(Granted(key[r])) \in Nat /\ Cardinality(Granted(key[r])') \in Nat
    BY <2>5, Monotone, Finite
  <2> QED BY <2>2, <2>4, <2>6
<1> QED BY <1>1, <1>2

LEMMA SettledSteps ==
  ASSUME Typed, CountInv, [Next]_vars, \A r \in Requests : ~Increment(r)
  PROVE  Settled
<1> USE DEF Typed, CountInv, rows, Goto, Steps
<1> DEFINE EachRequest ==
      /\ \A r \in Requests : count[r] > 0 => key'[r] = key[r] /\ limit'[r] = limit[r]
      /\ UNCHANGED count
      /\ \A r \in Requests : Lost(r)' => Lost(r)
      /\ \A r \in Requests :
           at'[r] \in {"check", "session", "consent", "commit", "opened"} => count[r] > 0
      /\ \A r \in Requests : count[r] > 0 =>
           /\ (at'[r] \in {"session", "consent", "commit", "opened"} =>
                 \/ at[r] \in {"session", "consent", "commit", "opened"}
                 \/ at[r] = "check" /\ count[r] <= limit[r])
           /\ at'[r] = "check" => at[r] = "check"
           /\ at[r] = "check" /\ count[r] <= limit[r] =>
                at'[r] \in {"check", "session", "failed"}
           /\ at[r] \in {"session", "consent", "commit", "opened"} =>
                at'[r] \in {"session", "consent", "commit", "opened", "failed"}
           /\ at[r] = "failed" => at'[r] = "failed"
<1>1. ASSUME UNCHANGED vars PROVE EachRequest
  BY <1>1 DEF vars, Lost
<1>2. ASSUME NEW r \in Requests, ReadPlan(r) PROVE EachRequest
  BY <1>2 DEF ReadPlan, Lost
<1>3. ASSUME NEW r \in Requests, Check(r) PROVE EachRequest
  BY <1>3 DEF Check, Admits, Lost
<1>4. ASSUME NEW r \in Requests, Rollback(r) PROVE EachRequest
  BY <1>4 DEF Rollback, Lost
<1>5. ASSUME NEW r \in Requests, SaveSession(r) \/ SaveConsent(r) \/ Commit(r)
      PROVE  EachRequest
  BY <1>5 DEF SaveSession, SaveConsent, Commit, Lost
<1>6. ASSUME NEW r \in Requests, TransactionFails(r) \/ Crash(r) PROVE EachRequest
  BY <1>6 DEF TransactionFails, Crash, Lost
<1>7. ASSUME \/ \E r \in Requests : ConsumeSession(r)
             \/ \E p \in Plans : changePlan(p)
             \/ MonthEnds
      PROVE  EachRequest
  BY <1>7 DEF ConsumeSession, changePlan, MonthEnds, Lost
<1> HIDE DEF EachRequest
<1>8. EachRequest
  BY <1>1, <1>2, <1>3, <1>4, <1>5, <1>6, <1>7 DEF Next, Step
<1> USE DEF EachRequest
<1>9. \A r \in Requests : at[r] \in Steps \ {"plan", "incr", "failed", "refused"} => count[r] > 0
  OBVIOUS
<1>10. ASSUME NEW m \in Months
       PROVE  Admitted(m)' \subseteq Admitted(m) /\ Granted(m) \subseteq Granted(m)'
  <2>1. ASSUME NEW r \in Requests, r \in Admitted(m)' PROVE r \in Admitted(m)
    <3>1. count'[r] > 0 /\ count[r] > 0
      BY <1>8, <2>1 DEF Admitted
    <3> QED BY <1>8, <2>1, <3>1 DEF Admitted
  <2>2. ASSUME NEW r \in Requests, r \in Granted(m) PROVE r \in Granted(m)'
    <3>1. count[r] > 0
      BY <1>9, <2>2 DEF Granted, Admitted, Forfeited
    <3> QED BY <1>8, <2>2, <3>1 DEF Granted, Admitted, Forfeited
  <2> QED BY <2>1, <2>2 DEF Admitted, Granted, Forfeited
<1> QED BY <1>8, <1>10 DEF Settled

-----------------------------------------------------------------------------
(* INCR. *)

\* The request joins the holders, and its count is their number.
LEMMA IncrementCounts ==
  ASSUME IInv, NEW r \in Requests, Increment(r), NEW m \in Months, m = key[r]
  PROVE  /\ r \notin Holders(m)
         /\ Holders(m)' = Holders(m) \union {r}
         /\ \A n \in Months \ {m} : Holders(n)' = Holders(n)
         /\ count'[r] = Cardinality(Holders(m)) + 1
         /\ count'[r] = Cardinality(Holders(m)')
         /\ \A q \in Requests \ {r} : at'[q] = at[q] /\ count'[q] = count[q]
         /\ at[r] = "incr" /\ at'[r] = "check"
         /\ UNCHANGED <<key, limit>>
         /\ usage' = [usage EXCEPT ![m] = @ + 1]
<1> USE DEF IInv, Typed
<1>1. /\ at[r] = "incr" /\ at'[r] = "check" /\ UNCHANGED <<key, limit>>
      /\ \A q \in Requests \ {r} : at'[q] = at[q] /\ count'[q] = count[q]
      /\ count[r] = 0
      /\ usage' = [usage EXCEPT ![m] = @ + 1]
      /\ count'[r] = usage[m] + 1 /\ usage[m] \in Nat
  BY DEF Increment, Goto, CountInv
<1>2. /\ r \notin Holders(m)
      /\ Holders(m)' = Holders(m) \union {r}
      /\ \A n \in Months \ {m} : Holders(n)' = Holders(n)
  BY <1>1 DEF Holders, Holds
<1>3. count'[r] = Cardinality(Holders(m)) + 1
  BY <1>1 DEF UsageInv
<1>4. Cardinality(Holders(m)') = Cardinality(Holders(m)) + 1
  <2>1. Holders(m) \in SUBSET Requests
    BY DEF Holders
  <2>2. IsFiniteSet(Holders(m))
    BY <2>1, Finite
  <2>3. Cardinality(Holders(m) \union {r})
          = IF r \in Holders(m) THEN Cardinality(Holders(m)) ELSE Cardinality(Holders(m)) + 1
    BY <2>2, FS_AddElement
  <2> QED BY <1>2, <2>3
<1> QED BY <1>1, <1>2, <1>3, <1>4

LEMMA IncrementQuota ==
  ASSUME IInv, Typed', CountInv', NEW r \in Requests, Increment(r)
  PROVE  QuotaHeld'
<1> USE DEF IInv
<1> SUFFICES ASSUME NEW m \in Months, NEW p \in Plans
             PROVE  Cardinality({q \in Admitted(m)' : limit'[q] <= Quota[p]}) <= Quota[p]
  BY DEF QuotaHeld
<1> DEFINE S == {q \in Admitted(m) : limit[q] <= Quota[p]}
           T == {q \in Admitted(m)' : limit'[q] <= Quota[p]}
<1>0. /\ Quota[p] \in Nat /\ UNCHANGED <<key, limit>> /\ key[r] \in Months
      /\ at[r] = "incr" /\ at'[r] = "check"
      /\ \A q \in Requests \ {r} : at'[q] = at[q] /\ count'[q] = count[q]
  BY QuotaAssumption, IncrementCounts DEF Typed
<1>1. CASE r \in T
  <2>1. key[r] = m /\ count'[r] <= limit[r] /\ limit[r] <= Quota[p]
    BY <1>0, <1>1 DEF Admitted
  <2>2. T \subseteq Holders(m)' /\ Holders(m)' \subseteq Requests
    BY HoldersAre DEF Holders, Holds, Admitted, CountInv, Steps
  <2>3. Cardinality(T) <= Cardinality(Holders(m)')
    BY <2>2, Monotone
  <2>4. Cardinality(T) <= count'[r] /\ Cardinality(T) \in Nat
    BY <2>1, <2>2, <2>3, IncrementCounts, Finite
  <2> QED BY <1>0, <2>1, <2>4 DEF Typed
<1>2. CASE r \notin T
  <2>1. T \subseteq S /\ S \subseteq Requests
    BY <1>0, <1>2 DEF Admitted
  <2>2. Cardinality(T) <= Cardinality(S) /\ Cardinality(S) \in Nat /\ Cardinality(T) \in Nat
    BY <2>1, Monotone, Finite
  <2>3. Cardinality(S) <= Quota[p]
    BY DEF QuotaHeld
  <2> QED BY <1>0, <2>2, <2>3
<1> QED BY <1>1, <1>2

\* A request that loses while nobody lost before it finds the quota full.
LEMMA IncrementFull ==
  ASSUME IInv, Typed', CountInv', NEW r \in Requests, Increment(r)
  PROVE  FullInv'
<1> USE DEF IInv
<1> SUFFICES ASSUME NEW x \in Requests, Lost(x)', SameQuota(x)',
                    NEW m \in Months, key'[x] = m
             PROVE  Cardinality(Granted(m)') >= limit'[x]
  BY DEF FullInv, Typed
<1>0. /\ UNCHANGED <<key, limit>> /\ key[x] = m /\ limit[x] \in Nat
      /\ \A q \in Requests \ {r} : at'[q] = at[q] /\ count'[q] = count[q]
      /\ at[r] = "incr" /\ at'[r] = "check" /\ count[r] = 0 /\ count'[r] > 0
  BY IncrementCounts DEF Typed, CountInv, Steps
<1>1. Granted(m) \subseteq Granted(m)' /\ Granted(m)' \subseteq Requests
  BY <1>0 DEF Granted, Admitted, Forfeited
<1>2. /\ Cardinality(Granted(m)) <= Cardinality(Granted(m)')
      /\ Cardinality(Granted(m)) \in Nat /\ Cardinality(Granted(m)') \in Nat
  BY <1>1, Monotone, Finite
<1>3. ASSUME NEW y \in Requests, y # r, Lost(y), key[y] = m, limit[y] = limit[x]
      PROVE  Cardinality(Granted(m)) >= limit[x]
  <2>1. SameQuota(y)
    BY <1>0, <1>3 DEF SameQuota
  <2> QED BY <1>3, <2>1 DEF FullInv
<1>4. CASE x # r
  <2>1. Lost(x)
    BY <1>0, <1>4 DEF Lost
  <2> QED BY <1>0, <1>2, <1>3, <1>4, <2>1
<1>5. CASE x = r
  <2>1. count'[r] > limit[r] /\ count'[r] = Cardinality(Holders(m)) + 1
    BY <1>0, <1>5, IncrementCounts DEF Lost
  <2>2. CASE Losing(m) = {}
    <3>1. Granted(m) = Holders(m)
      BY <2>2, HoldersAre
    <3> QED BY <1>0, <1>2, <1>5, <2>1, <3>1
  <2>3. CASE Losing(m) # {}
    <3>1. PICK y \in Losing(m) : TRUE
      BY <2>3
    <3>2. y \in Requests /\ Lost(y) /\ key[y] = m /\ y # r /\ count[y] > 0
      BY <1>0, <3>1 DEF Losing, Lost, CountInv, Steps
    <3>3. limit[y] = limit[x]
      BY <1>0, <1>5, <3>2 DEF SameQuota
    <3> QED BY <1>0, <1>2, <1>3, <3>2, <3>3
  <2> QED BY <2>2, <2>3
<1> QED BY <1>4, <1>5

-----------------------------------------------------------------------------
\* The counter follows its holders: INCR adds one, DECR removes one.
LEMMA UsageStep ==
  ASSUME IInv, Typed', CountInv', [Next]_vars
  PROVE  UsageInv'
<1> USE DEF IInv
<1>1. ASSUME NEW r \in Requests, Increment(r) PROVE UsageInv'
  BY <1>1, IncrementCounts DEF UsageInv, Typed
<1>2. ASSUME NEW r \in Requests, Rollback(r) PROVE UsageInv'
  <2>0. PICK m \in Months : m = key[r]
    BY DEF Typed
  <2>1. /\ r \in Holders(m)
        /\ Holders(m)' = Holders(m) \ {r}
        /\ \A n \in Months \ {m} : Holders(n)' = Holders(n)
        /\ usage' = [usage EXCEPT ![m] = @ - 1]
    BY <1>2, <2>0 DEF Rollback, Goto, Holders, Holds, Typed, CountInv, Steps
  <2>2. Holders(m) \in SUBSET Requests
    BY DEF Holders
  <2>3. IsFiniteSet(Holders(m))
    BY <2>2, Finite
  <2>4. Cardinality(Holders(m)') = Cardinality(Holders(m)) - 1
    BY <2>1, <2>3, FS_RemoveElement
  <2> QED BY <2>1, <2>4 DEF UsageInv, Typed
<1>3. CASE \A r \in Requests : ~Increment(r) /\ ~Rollback(r)
  <2>1. /\ UNCHANGED <<usage, count>>
        /\ \A r \in Requests : Holds(r)' <=> Holds(r)
        /\ \A r \in Requests : Holds(r) => key'[r] = key[r]
    BY <1>3 DEF Next, Step, ReadPlan, Check, Admits, SaveSession, SaveConsent, Commit,
                TransactionFails, Crash, ConsumeSession, changePlan, MonthEnds, vars, rows,
                Goto, Holds, Typed, CountInv, Steps
  <2>2. \A m \in Months : Holders(m)' = Holders(m)
    BY <2>1 DEF Holders
  <2> QED BY <2>1, <2>2 DEF UsageInv
<1> QED BY <1>1, <1>2, <1>3

LEMMA Inductive == IInv /\ [Next]_vars => IInv'
<1> SUFFICES ASSUME IInv, [Next]_vars PROVE IInv'
  OBVIOUS
<1>1. Typed' /\ CountInv' /\ StagedInv'
  BY TypedStep, StagedStep DEF IInv
<1>2. UsageInv'
  BY <1>1, UsageStep
<1>3. QuotaHeld' /\ FullInv'
  <2>1. CASE \E r \in Requests : Increment(r)
    BY <1>1, <2>1, IncrementQuota, IncrementFull
  <2>2. CASE \A r \in Requests : ~Increment(r)
    BY <1>1, <2>2, SettledSteps, SettledKeeps DEF IInv
  <2> QED BY <2>1, <2>2
<1> QED BY <1>1, <1>2, <1>3 DEF IInv

LEMMA Invariant == Spec => []IInv
  BY InitIInv, Inductive, PTL DEF Spec

-----------------------------------------------------------------------------
\* A counter never exceeds the number of requests, nor falls below zero
\* (usage.service.ts:27-33).
THEOREM TypeCorrect == Spec => []TypeOK
<1>1. IInv => TypeOK
  <2> SUFFICES ASSUME IInv PROVE TypeOK
    OBVIOUS
  <2>1. \A m \in Months : Holders(m) \in SUBSET Requests
    BY DEF Holders
  <2>2. \A m \in Months : usage[m] \in 0..Cardinality(Requests)
    <3> SUFFICES ASSUME NEW m \in Months PROVE usage[m] \in 0..Cardinality(Requests)
      OBVIOUS
    <3>1. Cardinality(Requests) \in Nat
      BY Finite
    <3> QED BY <2>1, <3>1, Finite DEF IInv, UsageInv
  <2> QED BY <2>2 DEF IInv, Typed, TypeOK
<1> QED BY <1>1, Invariant, PTL

\* However requests race and plans change, at most q requests are admitted under
\* a quota of at most q (billing.service.ts:61-71).
THEOREM NeverOverQuota == Spec => []QuotaHeld
<1>1. IInv => QuotaHeld
  BY DEF IInv
<1> QED BY <1>1, Invariant, PTL

\* "a losing concurrent request does not leave the usage inflated"
\* (usage.service.ts:21-26): the counter is the number of requests that hold a
\* unit.
THEOREM CounterTruthful == Spec => []UsageTruthful
<1>1. IInv => UsageTruthful
  BY HoldersAre DEF IInv, UsageInv, UsageTruthful
<1> QED BY <1>1, Invariant, PTL

\* Under one quota nobody is refused while a unit is left
\* (billing.service.ts:61-71).
THEOREM NoFalseRefusal == Spec => []RefusedWhenFull
<1>1. IInv => RefusedWhenFull
  BY DEF IInv, FullInv, RefusedWhenFull, Granted, Lost, SameQuota
<1> QED BY <1>1, Invariant, PTL

\* No session without its consent (session.controller.ts:53-58).
THEOREM NoSessionWithoutConsent == Spec => []ConsentBacked
<1>1. IInv => ConsentBacked
  BY DEF IInv, StagedInv
<1> QED BY <1>1, Invariant, PTL
=============================================================================
