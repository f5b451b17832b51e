----------------------------- MODULE Subscription -----------------------------
(***************************************************************************)
(* The plan of one tenant and the Stripe subscriptions that pay for it.    *)
(*                                                                         *)
(* POST /billing/checkout opens a Stripe Checkout; Stripe reports a paid   *)
(* checkout and the end of a subscription by webhooks, which are the only  *)
(* thing the API learns from Stripe.  Stripe repeats an event until it is  *)
(* answered with a 2xx and promises no order.                              *)
(***************************************************************************)
EXTENDS Naturals, Sequences, SequencesExt

CONSTANTS
  Subs,        \* checkouts, and the subscriptions they become
  Plans,       \* the ids of PLANS
  Requested,   \* the plan_id strings a client may send, valid or not
  Priced,      \* paid plans that have a Stripe price configured
  Faults       \* "down": the UPDATE may fail; "lost": its answer may be lost

None == ""     \* metadata without a planId, or a tenant without a subscription

ASSUME PlansAssumption ==
  /\ "free" \in Plans /\ None \notin Plans
  /\ Priced \subseteq Plans \ {"free"}
  /\ Faults \subseteq {"down", "lost"}

VARIABLES
  plan,     \* tenants.plan_id
  subId,    \* tenants.stripe_subscription_id
  stripe,   \* the state of each subscription at Stripe
  bought,   \* the planId in the metadata of its checkout
  events,   \* webhooks Stripe has still to deliver, oldest first
  shuffled,    \* some event was delivered before an older one (history)
  overlapped,  \* some checkout started while another went on (history)
  chosen       \* plans set by PUT /billing/plan (history)

history == <<shuffled, overlapped, chosen>>
vars == <<plan, subId, stripe, bought, events, history>>
row  == <<plan, subId>>

isValidPlanId(p) == p \in Plans

Init ==
  /\ plan = "free" /\ subId = None
  /\ stripe = [s \in Subs |-> "none"]
  /\ bought = [s \in Subs |-> None]
  /\ events = <<>>
  /\ shuffled = FALSE /\ overlapped = FALSE /\ chosen = {}

-----------------------------------------------------------------------------
\* A checkout begins at Stripe, which keeps our metadata.
Begin(s, metadata) ==
  /\ stripe[s] = "none"
  /\ stripe' = [stripe EXCEPT ![s] = "checkout"]
  /\ bought' = [bought EXCEPT ![s] = metadata]
  /\ overlapped' = (overlapped \/ \E t \in Subs : stripe[t] \notin {"none", "canceled"})
  /\ UNCHANGED <<subId, events, shuffled, chosen>>

\* startCheckout and createCheckout: nothing is written on our side.
Purchasable(p) == isValidPlanId(p) /\ p # "free" /\ p \in Priced

GrantedAtOnce(s, p) ==   \* mutant: the plan is granted when checkout starts
  Purchasable(p) /\ Begin(s, p) /\ plan' = p
startCheckout(s, p) ==
  Purchasable(p) /\ Begin(s, p) /\ UNCHANGED plan

\* A checkout for this tenant that was not opened by startCheckout, hence
\* without our metadata.
ForeignCheckout(s) == Begin(s, None) /\ UNCHANGED plan

Pay(s) ==
  /\ stripe[s] = "checkout"
  /\ stripe' = [stripe EXCEPT ![s] = "active"]
  /\ events' = Append(events, [type |-> "checkout.session.completed", sub |-> s])
  /\ UNCHANGED <<row, bought, history>>

\* Canceled by the tenant or, after failed payments, by Stripe.
Cancel(s) ==
  /\ stripe[s] = "active"
  /\ stripe' = [stripe EXCEPT ![s] = "canceled"]
  /\ events' = Append(events, [type |-> "customer.subscription.deleted", sub |-> s])
  /\ UNCHANGED <<row, bought, history>>

-----------------------------------------------------------------------------
\* resolveWebhook: the plan an event asks for.  The tenant of a deleted
\* subscription is read from metadata that only our checkouts set; without it
\* resolveAndApplyWebhook stops.
NamesTenant(e) == e.type = "checkout.session.completed" \/ bought[e.sub] # None
PlanOf(e) == IF e.type = "checkout.session.completed" THEN bought[e.sub] ELSE "free"

\* applySubscriptionChange: one UPDATE.
AnyPlan(e) ==   \* mutant: the guard on unknown plans is dropped
  IF NamesTenant(e)
    THEN plan' = PlanOf(e) /\ subId' = e.sub
    ELSE UNCHANGED row
applySubscriptionChange(e) ==
  IF NamesTenant(e) /\ isValidPlanId(PlanOf(e))
    THEN plan' = PlanOf(e) /\ subId' = e.sub
    ELSE UNCHANGED row

\* Applied and acknowledged; applied, and the answer lost; not applied (the
\* database is away): the last two are delivered again.
AckedFirst(i) ==   \* mutant: the event is acknowledged before the UPDATE
  /\ events' = RemoveAt(events, i)
  /\ \/ applySubscriptionChange(events[i])
     \/ "down" \in Faults /\ UNCHANGED row
  /\ shuffled' = (shuffled \/ i > 1)
  /\ UNCHANGED <<stripe, bought, overlapped, chosen>>
Deliver(i) ==
  /\ \/ applySubscriptionChange(events[i]) /\ events' = RemoveAt(events, i)
     \/ /\ "lost" \in Faults
        /\ applySubscriptionChange(events[i])
        /\ UNCHANGED events
     \/ "down" \in Faults /\ UNCHANGED <<row, events>>
  /\ shuffled' = (shuffled \/ i > 1)
  /\ UNCHANGED <<stripe, bought, overlapped, chosen>>

\* PUT /billing/plan.
changePlan(p) ==
  /\ isValidPlanId(p)
  /\ plan' = p
  /\ chosen' = chosen \union {p}
  /\ UNCHANGED <<subId, stripe, bought, events, shuffled, overlapped>>

Next ==
  \/ \E s \in Subs : \/ \E p \in Requested : startCheckout(s, p)
                     \/ ForeignCheckout(s) \/ Pay(s) \/ Cancel(s)
  \/ \E i \in DOMAIN events : Deliver(i)
  \/ \E p \in Requested : changePlan(p)

Spec == Init /\ [][Next]_vars

-----------------------------------------------------------------------------
Events == [type : {"checkout.session.completed", "customer.subscription.deleted"},
           sub : Subs]

\* Type invariant; plan_id is always one of PLANS, whatever an event carries.
TypeOK ==
  /\ plan \in Plans
  /\ subId \in Subs \union {None}
  /\ stripe \in [Subs -> {"none", "checkout", "active", "canceled"}]
  /\ bought \in [Subs -> Priced \union {None}]
  /\ events \in Seq(Events)
  /\ shuffled \in BOOLEAN /\ overlapped \in BOOLEAN /\ chosen \subseteq Plans

Active == {s \in Subs : stripe[s] = "active"}

\* A plan the tenant is paying for, and the free one only when it pays for none.
PlanIsPaid ==
  LET paying == {bought[s] : s \in {t \in Active : bought[t] # None}}
  IN  plan \in (IF paying = {} THEN {"free"} ELSE paying)

\* Once every event is delivered the tenant has the plan it is paying for, if
\* one subscription followed the other, the events came in order, repeated or
\* not, and nobody set the plan by hand (billing.service.ts:25-42).  Of two that
\* overlap, the end of the first takes the plan of the second away, since every
\* end of a subscription maps to "free" (stripe-adapter.ts:44).
PlanFollowsStripe ==
  (events = <<>> /\ ~ shuffled /\ ~ overlapped /\ chosen = {}) => PlanIsPaid

\* A paid plan was paid for at some time or set by hand, in whatever order and
\* however often the events come (stripe-adapter.ts:29-50).
PaidPlanWasPaid ==
  plan \in {"free"} \union chosen \/
    \E s \in Subs : bought[s] = plan /\ stripe[s] \in {"active", "canceled"}
=============================================================================
