-------------------------- MODULE SubscriptionProofs --------------------------
(***************************************************************************)
(* Theorems about Subscription, for any plans and any number of checkouts. *)
(***************************************************************************)
EXTENDS Subscription, SequenceTheorems, TLAPS

LEMMA RemoveAtProperties ==
  ASSUME NEW S, NEW s \in Seq(S), NEW i \in DOMAIN s
  PROVE  /\ RemoveAt(s, i) \in Seq(S)
         /\ Len(RemoveAt(s, i)) = Len(s) - 1
         /\ \A j \in 1..(Len(s) - 1) : RemoveAt(s, i)[j] = IF j < i THEN s[j] ELSE s[j + 1]
<1> DEFINE l == SubSeq(s, 1, i - 1)
           r == SubSeq(s, i + 1, Len(s))
<1>0. i \in 1..Len(s) /\ Len(s) \in Nat /\ \A j \in 1..Len(s) : s[j] \in S
  OBVIOUS
<1>1. l \in Seq(S) /\ Len(l) = i - 1 /\ \A j \in 1..(i - 1) : l[j] = s[j]
  BY <1>0, SubSeqProperties
<1>2. r \in Seq(S) /\ Len(r) = Len(s) - i /\ \A j \in 1..(Len(s) - i) : r[j] = s[i + j]
  BY <1>0, SubSeqProperties
<1>3. RemoveAt(s, i) = l \o r
  BY DEF RemoveAt
<1> HIDE DEF l, r
<1>4. /\ l \o r \in Seq(S) /\ Len(l \o r) = Len(s) - 1
      /\ \A j \in 1..(Len(s) - 1) : (l \o r)[j] = IF j < i THEN l[j] ELSE r[j - (i - 1)]
  <2>1. /\ l \o r \in Seq(S) /\ Len(l \o r) = Len(l) + Len(r)
        /\ \A j \in 1..(Len(l) + Len(r)) :
             (l \o r)[j] = IF j <= Len(l) THEN l[j] ELSE r[j - Len(l)]
    BY <1>1, <1>2, ConcatProperties
  <2>2. Len(l) + Len(r) = Len(s) - 1 /\ Len(l) = i - 1 /\ i \in Int
    BY <1>0, <1>1, <1>2
  <2>3. \A j \in 1..(Len(s) - 1) : j <= i - 1 <=> j < i
    BY <2>2
  <2> QED BY <2>1, <2>2, <2>3
<1>5. ASSUME NEW j \in 1..(Len(s) - 1), ~(j < i)
      PROVE  r[j - (i - 1)] = s[j + 1]
  <2>1. j - (i - 1) \in 1..(Len(s) - i) /\ i + (j - (i - 1)) = j + 1
    BY <1>0, <1>5
  <2>2. r[j - (i - 1)] = s[i + (j - (i - 1))]
    BY <1>2, <2>1
  <2> QED BY <2>1, <2>2
<1>6. ASSUME NEW j \in 1..(Len(s) - 1), j < i
      PROVE  l[j] = s[j]
  BY <1>0, <1>1, <1>6
<1> QED BY <1>3, <1>4, <1>5, <1>6

-----------------------------------------------------------------------------
\* An event is about a subscription that was paid, and what it names was fixed
\* when its checkout began.
EventInv == \A i \in DOMAIN events : stripe[events[i].sub] \in {"active", "canceled"}

\* Without overlap there is one subscription at a time.
OneInv ==
  ~ overlapped =>
    \A s, t \in Subs : (stripe[s] \in {"checkout", "active"} /\ stripe[t] \in {"checkout", "active"})
                         => s = t

\* p is paid for now.
Paying == {bought[s] : s \in {t \in Active : bought[t] # None}}
Paid(p) == p \in (IF Paying = {} THEN {"free"} ELSE Paying)

\* Events that will set the plan when they are delivered.
Effective == {i \in DOMAIN events : bought[events[i].sub] # None}

\* The last event that will set the plan sets the one that is paid for; if there
\* is none, the tenant has it already.
FollowInv ==
  (~ shuffled /\ ~ overlapped /\ chosen = {}) =>
    /\ Effective = {} => Paid(plan)
    /\ \A i \in Effective : (\A j \in Effective : j <= i) => Paid(PlanOf(events[i]))

IInv == TypeOK /\ EventInv /\ OneInv /\ FollowInv /\ PaidPlanWasPaid

LEMMA Pending ==
  ASSUME TypeOK, NEW i \in DOMAIN events
  PROVE  events[i] \in Events /\ events[i].sub \in Subs /\ i \in 1..Len(events)
<1>1. i \in 1..Len(events) /\ events[i] \in Events
  BY DEF TypeOK
<1> QED BY <1>1 DEF Events

LEMMA InitIInv == Init => IInv
<1> SUFFICES ASSUME Init PROVE IInv
  OBVIOUS
<1>1. Active = {} /\ Effective = {} /\ DOMAIN events = {}
  BY DEF Init, Active, Effective
<1>2. Paying = {}
  BY <1>1 DEF Paying
<1>3. TypeOK
  <2>1. <<>> \in Seq(Events)
    OBVIOUS
  <2> QED BY <2>1, PlansAssumption DEF Init, TypeOK
<1>4. PaidPlanWasPaid /\ OneInv
  BY DEF Init, PaidPlanWasPaid, OneInv
<1> QED BY <1>1, <1>2, <1>3, <1>4 DEF Init, IInv, EventInv, FollowInv, Paid

\* What an event does to the row of the tenant.
LEMMA AppliedRow ==
  ASSUME TypeOK, NEW e \in Events, applySubscriptionChange(e)
  PROVE  /\ bought[e.sub] # None => plan' = PlanOf(e) /\ plan' \in Plans /\ subId' = e.sub
         /\ bought[e.sub] = None => UNCHANGED row
<1>1. bought[e.sub] \in Priced \union {None} /\ e.sub \in Subs
  BY DEF TypeOK, Events
<1>2. CASE bought[e.sub] # None
  BY <1>1, <1>2, PlansAssumption DEF applySubscriptionChange, NamesTenant, isValidPlanId, PlanOf
<1>3. CASE bought[e.sub] = None
  BY <1>1, <1>3, PlansAssumption DEF applySubscriptionChange, NamesTenant, isValidPlanId, PlanOf
<1> QED BY <1>2, <1>3

\* What a delivery does: it applies an event or not, and keeps it or not.
LEMMA Delivery ==
  ASSUME TypeOK, NEW i \in DOMAIN events, Deliver(i)
  PROVE  /\ events[i] \in Events /\ i \in Nat \ {0}
         /\ \/ applySubscriptionChange(events[i]) /\ events' = RemoveAt(events, i)
            \/ applySubscriptionChange(events[i]) /\ events' = events
            \/ UNCHANGED <<plan, subId, events>>
         /\ UNCHANGED <<stripe, bought, overlapped, chosen>>
         /\ ~ shuffled' => ~ shuffled /\ i = 1
         /\ shuffled' \in BOOLEAN
<1>1. i \in 1..Len(events) /\ events[i] \in Events /\ Len(events) \in Nat
  BY Pending DEF TypeOK
<1>2. \/ applySubscriptionChange(events[i]) /\ events' = RemoveAt(events, i)
      \/ applySubscriptionChange(events[i]) /\ events' = events
      \/ UNCHANGED <<plan, subId, events>>
  BY DEF Deliver, row
<1>3. UNCHANGED <<stripe, bought, overlapped, chosen>> /\ shuffled' = (shuffled \/ i > 1)
  BY DEF Deliver
<1>4. shuffled' \in BOOLEAN /\ (~ shuffled' => ~ shuffled /\ ~ (i > 1))
  BY <1>3, Zenon
<1>5. ~ (i > 1) => i = 1
  BY <1>1
<1> QED BY <1>1, <1>2, <1>3, <1>4, <1>5

LEMMA TypeInductive ==
  ASSUME TypeOK, [Next]_vars
  PROVE  TypeOK'
<1> USE PlansAssumption DEF TypeOK
<1>1. CASE UNCHANGED vars
  BY <1>1 DEF vars, history
<1>2. ASSUME NEW s \in Subs, NEW m \in Priced \union {None}, Begin(s, m), UNCHANGED plan
      PROVE  TypeOK'
  BY <1>2 DEF Begin
<1>3. ASSUME NEW s \in Subs, NEW p \in Requested, startCheckout(s, p) PROVE TypeOK'
  BY <1>2, <1>3 DEF startCheckout, Purchasable
<1>4. ASSUME NEW s \in Subs, ForeignCheckout(s) PROVE TypeOK'
  BY <1>2, <1>4 DEF ForeignCheckout
<1>5. ASSUME NEW s \in Subs, Pay(s) \/ Cancel(s) PROVE TypeOK'
  <2>1. \E e \in Events : events' = Append(events, e)
    BY <1>5 DEF Pay, Cancel, Events
  <2>2. events' \in Seq(Events)
    BY <2>1, AppendProperties
  <2> QED BY <1>5, <2>2 DEF Pay, Cancel, row, history
<1>6. ASSUME NEW i \in DOMAIN events, Deliver(i) PROVE TypeOK'
  <2>1. events' \in Seq(Events)
    BY <1>6, Delivery, RemoveAtProperties
  <2>2. plan' \in Plans /\ subId' \in Subs \union {None}
    BY <1>6, Delivery, AppliedRow DEF row, Events
  <2> QED BY <1>6, <2>1, <2>2, Delivery
<1>7. ASSUME NEW p \in Requested, changePlan(p) PROVE TypeOK'
  BY <1>7 DEF changePlan, isValidPlanId
<1> QED BY <1>1, <1>3, <1>4, <1>5, <1>6, <1>7 DEF Next

-----------------------------------------------------------------------------
\* A checkout that begins touches no event and no subscription that was paid.
LEMMA BeginKeeps ==
  ASSUME IInv, NEW s \in Subs, NEW m \in Priced \union {None}, Begin(s, m), UNCHANGED plan
  PROVE  EventInv' /\ OneInv' /\ FollowInv' /\ PaidPlanWasPaid'
<1> USE DEF IInv
<1>1. stripe[s] = "none" /\ stripe' = [stripe EXCEPT ![s] = "checkout"]
      /\ bought' = [bought EXCEPT ![s] = m] /\ UNCHANGED <<plan, events, shuffled, chosen>>
      /\ (~ overlapped' => ~ overlapped /\ \A t \in Subs : stripe[t] \in {"none", "canceled"})
  BY DEF Begin, TypeOK
<1>2. \A i \in DOMAIN events : events[i].sub \in Subs /\ events[i].sub # s
  BY <1>1, Pending DEF EventInv
<1>3. EventInv'
  BY <1>1, <1>2 DEF EventInv, TypeOK
<1>4. OneInv'
  BY <1>1 DEF OneInv, TypeOK
<1>5. PaidPlanWasPaid'
  BY <1>1 DEF PaidPlanWasPaid, TypeOK
<1>6. Active' = Active /\ Effective' = Effective
  BY <1>1, <1>2 DEF Active, Effective, TypeOK
<1>7. Paying' = Paying
  BY <1>1, <1>6 DEF Paying, Active, TypeOK
<1>8. \A i \in DOMAIN events : PlanOf(events[i])' = PlanOf(events[i])
  BY <1>1, <1>2 DEF PlanOf, TypeOK
<1>9. \A i \in Effective : i \in DOMAIN events
  BY DEF Effective
<1>10. FollowInv'
  BY <1>1, <1>6, <1>7, <1>8, <1>9 DEF FollowInv, Paid
<1> QED BY <1>3, <1>4, <1>5, <1>10

\* A new event of a subscription that has a plan is the last to set it, and sets
\* what is paid for from now on.
LEMMA ReportKeeps ==
  ASSUME IInv, NEW s \in Subs, Pay(s) \/ Cancel(s)
  PROVE  EventInv' /\ OneInv' /\ FollowInv' /\ PaidPlanWasPaid'
<1> USE DEF IInv
<1>0. PICK n \in Nat : n = Len(events) + 1
  BY DEF TypeOK
<1>1. PICK e \in Events : e.sub = s /\ events' = Append(events, e)
        /\ \/ Pay(s) /\ e.type = "checkout.session.completed"
           \/ Cancel(s) /\ e.type = "customer.subscription.deleted"
  BY DEF Pay, Cancel, Events
<1>2. UNCHANGED <<plan, bought, shuffled, overlapped, chosen>>
  BY DEF Pay, Cancel, row, history
<1>3. /\ DOMAIN events = 1..Len(events) /\ Len(events) \in Nat
      /\ DOMAIN events' = 1..n /\ n \in Nat
      /\ events'[n] = e /\ \A i \in DOMAIN events : events'[i] = events[i]
  <2>1. events \in Seq(Events)  BY DEF TypeOK
  <2>2. events' \in Seq(Events) /\ Len(events') = n /\ events'[n] = e
        /\ \A i \in 1..Len(events) : events'[i] = events[i]
    BY <1>0, <1>1, <2>1, AppendProperties
  <2> QED BY <1>0, <2>1, <2>2
<1>4. \A i \in DOMAIN events : events[i] \in Events /\ events[i].sub \in Subs
  BY Pending
<1>5. /\ stripe'[s] \in {"active", "canceled"}
      /\ \A t \in Subs \ {s} : stripe'[t] = stripe[t]
      /\ stripe[s] \in {"checkout", "active"}
  BY DEF Pay, Cancel, TypeOK
<1>6. EventInv'
  BY <1>1, <1>3, <1>4, <1>5 DEF EventInv
<1>7. OneInv'
  BY <1>2, <1>5 DEF OneInv
<1>8. PaidPlanWasPaid'
  BY <1>2, <1>5 DEF PaidPlanWasPaid
<1>9. Effective' = IF bought[s] # None THEN Effective \union {n} ELSE Effective
  BY <1>1, <1>2, <1>3 DEF Effective
<1>10. \A i \in Effective : i \in DOMAIN events /\ i < n
  BY <1>0, <1>3 DEF Effective
<1>11. CASE bought[s] = None
  <2>1. Paying' = Paying
    BY <1>2, <1>5, <1>11 DEF Paying, Active
  <2>2. \A i \in Effective : PlanOf(events[i])' = PlanOf(events[i])
    BY <1>2, <1>3, <1>10 DEF PlanOf
  <2> QED BY <1>2, <1>6, <1>7, <1>8, <1>9, <1>11, <2>1, <2>2 DEF FollowInv, Paid
<1>12. CASE bought[s] # None
  <2>1. SUFFICES ASSUME ~ overlapped PROVE Paid(PlanOf(events[n]))'
    <3>1. \A i \in Effective' : (\A j \in Effective' : j <= i) => i = n
      BY <1>3, <1>9, <1>10, <1>12
    <3>2. Effective' # {}
      BY <1>9, <1>12
    <3> QED BY <1>2, <1>6, <1>7, <1>8, <2>1, <3>1, <3>2 DEF FollowInv
  <2>2. \A t \in Subs \ {s} : stripe[t] # "active"
    BY <1>5, <2>1 DEF OneInv
  <2>3. CASE Pay(s) /\ e.type = "checkout.session.completed"
    <3>1. Active' = {s}
      BY <1>5, <2>2, <2>3 DEF Active, Pay, TypeOK
    <3>2. Paying' = {bought[s]}
      BY <1>2, <1>12, <3>1 DEF Paying
    <3> QED BY <1>1, <1>2, <1>3, <2>3, <3>2 DEF Paid, PlanOf
  <2>4. CASE Cancel(s) /\ e.type = "customer.subscription.deleted"
    <3>1. Active' = {}
      BY <1>5, <2>2, <2>4 DEF Active, Cancel, TypeOK
    <3>2. Paying' = {}
      BY <3>1 DEF Paying
    <3> QED BY <1>1, <1>3, <2>4, <3>2 DEF Paid, PlanOf
  <2> QED BY <1>1, <2>3, <2>4
<1> QED BY <1>11, <1>12

\* Delivered in order, an event is gone or comes again before the later ones.
LEMMA DeliverKeeps ==
  ASSUME IInv, NEW i \in DOMAIN events, Deliver(i)
  PROVE  EventInv' /\ OneInv' /\ FollowInv' /\ PaidPlanWasPaid'
<1> USE DEF IInv
<1> DEFINE e == events[i]
<1>1. e \in Events /\ e.sub \in Subs /\ UNCHANGED <<stripe, bought, overlapped, chosen>>
  BY Delivery DEF Events
<1>2. \/ plan' = PlanOf(e) /\ bought[e.sub] # None
      \/ plan' = plan
  BY Delivery, AppliedRow DEF row
<1>3. PaidPlanWasPaid'
  <2>1. CASE plan' = plan
    BY <1>1, <2>1 DEF PaidPlanWasPaid
  <2>2. CASE plan' = PlanOf(e)
    BY <1>1, <2>2 DEF PaidPlanWasPaid, PlanOf, EventInv
  <2> QED BY <1>2, <2>1, <2>2
<1>4. OneInv'
  BY <1>1 DEF OneInv
<1>5. DOMAIN events = 1..Len(events) /\ Len(events) \in Nat /\ events \in Seq(Events)
  BY DEF TypeOK
<1>6. Paying' = Paying
  BY <1>1 DEF Paying, Active
<1>7. CASE events' = events
  <2>1. EventInv'
    BY <1>1, <1>7 DEF EventInv
  <2>2. Effective' = Effective /\ \A k \in Effective : PlanOf(events[k])' = PlanOf(events[k])
    BY <1>1, <1>7 DEF Effective, PlanOf
  <2>3. Effective = {} => plan' = plan
    BY <1>2 DEF Effective
  <2> QED BY <1>1, <1>3, <1>4, <1>6, <1>7, <2>1, <2>2, <2>3, Delivery DEF FollowInv, Paid
<1>8. CASE /\ applySubscriptionChange(e) /\ events' = RemoveAt(events, i)
  <2>1. /\ DOMAIN events' = 1..(Len(events) - 1)
        /\ \A j \in 1..(Len(events) - 1) : events'[j] = IF j < i THEN events[j] ELSE events[j + 1]
    <3>1. events' \in Seq(Events) /\ Len(events') = Len(events) - 1
          /\ \A j \in 1..(Len(events) - 1) : events'[j] = IF j < i THEN events[j] ELSE events[j + 1]
      BY <1>5, <1>8, RemoveAtProperties
    <3> QED BY <3>1
  <2>2. EventInv'
    <3> SUFFICES ASSUME NEW j \in 1..(Len(events) - 1)
                 PROVE  stripe[events'[j].sub] \in {"active", "canceled"}
      BY <1>1, <2>1 DEF EventInv
    <3>1. j \in DOMAIN events /\ j + 1 \in DOMAIN events
      BY <1>5
    <3> QED BY <2>1, <3>1 DEF EventInv
  <2>3. FollowInv'
    <3> SUFFICES ASSUME ~ shuffled', ~ overlapped, chosen = {}
                 PROVE  /\ Effective' = {} => Paid(plan)'
                        /\ \A k \in Effective' : (\A j \in Effective' : j <= k)
                                                   => Paid(PlanOf(events[k]))'
      BY <1>1 DEF FollowInv
    <3>1. i = 1 /\ ~ shuffled
      BY Delivery
    <3>2. \A j \in Effective' : j \in 1..(Len(events) - 1) /\ j + 1 \in Effective
                                  /\ events'[j] = events[j + 1]
      BY <1>1, <1>5, <2>1, <3>1 DEF Effective
    <3>3. \A j \in Effective : j # 1 => j \in Nat /\ j - 1 \in Effective'
      <4> SUFFICES ASSUME NEW j \in Effective, j # 1 PROVE j \in Nat /\ j - 1 \in Effective'
        OBVIOUS
      <4>1. j - 1 \in 1..(Len(events) - 1) /\ (j - 1) + 1 = j
        BY <1>5 DEF Effective
      <4>2. events'[j - 1] = events[j]
        BY <2>1, <3>1, <4>1
      <4> QED BY <1>1, <1>5, <2>1, <4>1, <4>2 DEF Effective
    <3>4. ASSUME Effective' = {} PROVE Paid(plan)'
      <4>1. \A j \in Effective : j = 1
        BY <3>3, <3>4
      <4>2. CASE bought[e.sub] # None
        <5>1. 1 \in Effective /\ plan' = PlanOf(e)
          BY <1>1, <1>8, <3>1, <4>2, AppliedRow DEF Effective
        <5>2. Paid(PlanOf(e))
          BY <3>1, <4>1, <5>1 DEF FollowInv
        <5> QED BY <1>6, <5>1, <5>2 DEF Paid
      <4>3. CASE bought[e.sub] = None
        <5>1. Effective = {}
          BY <3>1, <4>1, <4>3 DEF Effective
        <5>2. plan' = plan
          BY <1>1, <1>8, <4>3, AppliedRow DEF row
        <5> QED BY <1>6, <3>1, <5>1, <5>2 DEF FollowInv, Paid
      <4> QED BY <4>2, <4>3
    <3>5. ASSUME NEW k \in Effective', \A j \in Effective' : j <= k
          PROVE  Paid(PlanOf(events[k]))'
      <4>1. k + 1 \in Effective /\ events'[k] = events[k + 1] /\ k \in Nat
        BY <3>2
      <4>2. \A j \in Effective : j <= k + 1
        <5> SUFFICES ASSUME NEW j \in Effective PROVE j <= k + 1
          OBVIOUS
        <5>1. CASE j = 1
          BY <4>1, <5>1
        <5>2. CASE j # 1
          BY <3>3, <3>5, <4>1, <5>2
        <5> QED BY <5>1, <5>2
      <4>3. Paid(PlanOf(events[k + 1]))
        BY <3>1, <4>1, <4>2 DEF FollowInv
      <4> QED BY <1>1, <1>6, <4>1, <4>3 DEF Paid, PlanOf
    <3> QED BY <3>4, <3>5
  <2> QED BY <1>3, <1>4, <2>2, <2>3
<1> QED BY <1>7, <1>8, Delivery

-----------------------------------------------------------------------------
LEMMA Inductive == IInv /\ [Next]_vars => IInv'
<1> SUFFICES ASSUME IInv, [Next]_vars PROVE IInv'
  OBVIOUS
<1> USE DEF IInv
<1>1. TypeOK'
  BY TypeInductive
<1>2. CASE UNCHANGED vars
  <2>1. UNCHANGED <<plan, stripe, bought, events, shuffled, overlapped, chosen>>
    BY <1>2 DEF vars, history
  <2>2. EventInv' /\ OneInv' /\ PaidPlanWasPaid'
    BY <2>1 DEF EventInv, OneInv, PaidPlanWasPaid
  <2>3. FollowInv'
    BY <2>1 DEF FollowInv, Effective, Paid, Paying, Active, PlanOf
  <2> QED BY <1>1, <2>2, <2>3
<1>3. ASSUME NEW s \in Subs, NEW p \in Requested, startCheckout(s, p) PROVE IInv'
  BY <1>1, <1>3, BeginKeeps DEF startCheckout, Purchasable
<1>4. ASSUME NEW s \in Subs, ForeignCheckout(s) PROVE IInv'
  BY <1>1, <1>4, BeginKeeps DEF ForeignCheckout
<1>5. ASSUME NEW s \in Subs, Pay(s) \/ Cancel(s) PROVE IInv'
  BY <1>1, <1>5, ReportKeeps
<1>6. ASSUME NEW i \in DOMAIN events, Deliver(i) PROVE IInv'
  BY <1>1, <1>6, DeliverKeeps
<1>7. ASSUME NEW p \in Requested, changePlan(p) PROVE IInv'
  <2>1. p \in chosen' /\ plan' = p /\ UNCHANGED <<stripe, bought, events, overlapped>>
    BY <1>7 DEF changePlan
  <2> QED BY <1>1, <2>1 DEF EventInv, OneInv, FollowInv, PaidPlanWasPaid
<1> QED BY <1>2, <1>3, <1>4, <1>5, <1>6, <1>7 DEF Next

LEMMA Invariance == Spec => []IInv
  BY InitIInv, Inductive, PTL DEF Spec

\* tenants.plan_id is always one of PLANS, whatever an event or a client names.
THEOREM TypeCorrect == Spec => []TypeOK
<1>1. IInv => TypeOK  BY DEF IInv
<1> QED BY <1>1, Invariance, PTL

\* For subscriptions that follow one another and events that come in order, any
\* number of times each, the tenant ends with the plan it pays for
\* (billing.service.ts:25-42).
THEOREM PlanFollows == Spec => []PlanFollowsStripe
<1>1. IInv => PlanFollowsStripe
  <2> SUFFICES ASSUME IInv, events = <<>>, ~ shuffled, ~ overlapped, chosen = {}
               PROVE  PlanIsPaid
    BY DEF PlanFollowsStripe
  <2>1. Effective = {}
    BY DEF Effective
  <2> QED BY <2>1 DEF IInv, FollowInv, Paid, Paying, PlanIsPaid
<1> QED BY <1>1, Invariance, PTL

\* Nobody has a paid plan that was neither paid for at some time nor set by hand,
\* in whatever order events come (stripe-adapter.ts:29-50).
THEOREM OncePaid == Spec => []PaidPlanWasPaid
<1>1. IInv => PaidPlanWasPaid  BY DEF IInv
<1> QED BY <1>1, Invariance, PTL
=============================================================================
