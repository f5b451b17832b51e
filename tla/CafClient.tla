------------------------------- MODULE CafClient -------------------------------
(***************************************************************************)
(* The client of the CAF service: a token cached for all callers, and a    *)
(* transaction that is created and then polled until it is complete.       *)
(*                                                                         *)
(* Time is discrete.  A request and its answer each take up to Latency,    *)
(* and a timer fires up to Latency late, so that an answer, an expiry and  *)
(* a deadline may fall in any order that these bounds allow.  CAF itself   *)
(* is external: it issues tokens and lists and completes services.         *)
(***************************************************************************)
EXTENDS Integers, FiniteSets

CONSTANTS
  Callers,       \* provider calls running in one worker process
  Services,      \* the services a transaction asks for
  Life,          \* expires_in of a token
  Skew,          \* refreshed so long before its expiry
  TimeoutMs,     \* CAF_TIMEOUT_MS
  Interval,      \* CAF_POLL_INTERVAL_MS
  MaxAttempts,   \* CAF_POLL_MAX_ATTEMPTS
  Latency,       \* bound on one leg of a request, and on a late timer
  Horizon        \* bound of the run: no call starts later

ASSUME TimesAssumption ==
  /\ {Life, Skew, TimeoutMs, Interval, MaxAttempts, Latency, Horizon} \subseteq Nat
  /\ Latency > 0

\* What the skew is for: it covers the answer that brings the token and the
\* request that uses it.  A token also outlives the round trip that fetches it.
ASSUME SkewAssumption == 2 * Latency <= Skew /\ 2 * Latency < Life

VARIABLES
  now,
  token,      \* the cached token: [dies] at CAF, [until] in the client
  at,         \* the step of each caller
  hdr,        \* when the token in its Authorization header dies at CAF
  from, due,  \* its next event happens between these times
  purpose,    \* the request it is making: "create" or "get"
  deadline, attempt,
  listed, completed,   \* services of its transaction in the last answer
  why         \* why it failed

vars == <<now, token, at, hdr, from, due, purpose, deadline, attempt,
          listed, completed, why>>
poll == <<purpose, deadline, attempt>>
caf  == <<listed, completed>>

Init ==
  /\ now = 0
  /\ token = [dies |-> 0, until |-> 0]
  /\ at = [c \in Callers |-> "idle"]
  /\ hdr = [c \in Callers |-> 0]
  /\ from = [c \in Callers |-> 0] /\ due = [c \in Callers |-> 0]
  /\ purpose = [c \in Callers |-> "create"]
  /\ deadline = [c \in Callers |-> 0]
  /\ attempt = [c \in Callers |-> 0]
  /\ listed = [c \in Callers |-> {}] /\ completed = [c \in Callers |-> {}]
  /\ why = [c \in Callers |-> "none"]

\* Waiting callers; c waits in `step` for something due in [a, b].
Waiting == {c \in Callers : at[c] \notin {"idle", "done", "failed"}}
Wait(c, step, a, b) ==
  /\ at' = [at EXCEPT ![c] = step]
  /\ from' = [from EXCEPT ![c] = a]
  /\ due' = [due EXCEPT ![c] = b]
Send(c, step) == Wait(c, step, now, now + Latency)
Ready(c, step) == at[c] = step /\ now >= from[c]

Over(c, step) ==
  /\ at' = [at EXCEPT ![c] = step]
  /\ hdr' = [hdr EXCEPT ![c] = 0]
  /\ from' = [from EXCEPT ![c] = 0] /\ due' = [due EXCEPT ![c] = 0]
Fail(c, reason) ==
  /\ Over(c, "failed")
  /\ why' = [why EXCEPT ![c] = reason]

-----------------------------------------------------------------------------
\* authHeader, then the request: with the cached token if it is good for now,
\* otherwise a token is asked for first.
Authorize(c) ==
  /\ IF now < token.until
       THEN Send(c, "sent") /\ hdr' = [hdr EXCEPT ![c] = token.dies]
       ELSE Send(c, "token") /\ UNCHANGED hdr
  /\ UNCHANGED why

\* analyze / verify: createTransaction.
createTransaction(c) ==
  /\ at[c] = "idle" /\ now <= Horizon
  /\ Authorize(c)
  /\ UNCHANGED <<now, token, poll, caf>>

\* POST /token: CAF issues a token, whose life starts now.
Issue(c) ==
  /\ Ready(c, "token")
  /\ Send(c, "issued")
  /\ hdr' = [hdr EXCEPT ![c] = now + Life]
  /\ UNCHANGED <<now, token, poll, caf, why>>

\* Its answer arrives: cached, whatever another caller has cached meanwhile,
\* and used at once.
NoSkew == now + Life   \* mutant: kept until its expiry
CachedUntil == now + Life - Skew
TokenArrives(c) ==
  /\ Ready(c, "issued")
  /\ token' = [dies |-> hdr[c], until |-> CachedUntil]
  /\ Send(c, "sent")
  /\ UNCHANGED <<now, hdr, poll, caf, why>>

\* The request reaches CAF.  A transaction that is asked for is answered as it
\* is: since the last answer CAF may have listed more of its services, together
\* or one by one, and completed some.
Answer(c) ==
  /\ Ready(c, "sent")
  /\ Send(c, "answered")
  /\ \/ purpose[c] = "create" /\ UNCHANGED caf
     \/ /\ purpose[c] = "get"
        /\ \E L, D \in SUBSET Services :
             /\ listed[c] \subseteq L /\ completed[c] \subseteq D /\ D \subseteq L
             /\ listed' = [listed EXCEPT ![c] = L]
             /\ completed' = [completed EXCEPT ![c] = D]
  /\ UNCHANGED <<now, token, hdr, poll, why>>

\* createTransaction returned: awaitTransaction sets its deadline and enters
\* the loop.
OneMore(n, d) == n <= MaxAttempts /\ now < d   \* mutant: off by one
NoDeadline(n, d) == n < MaxAttempts   \* mutant: only attempts are counted
MayPoll(n, d) == n < MaxAttempts /\ now < d
Created(c) ==
  /\ Ready(c, "answered") /\ purpose[c] = "create"
  /\ purpose' = [purpose EXCEPT ![c] = "get"]
  /\ deadline' = [deadline EXCEPT ![c] = now + TimeoutMs]
  /\ IF MayPoll(0, now + TimeoutMs) THEN Authorize(c) ELSE Fail(c, "timeout")
  /\ UNCHANGED <<now, token, attempt, caf>>

\* isTransactionComplete: every listed service, of at least one.
AnyComplete(c) == completed[c] # {}   \* mutant: some for every
isTransactionComplete(c) == listed[c] # {} /\ listed[c] = completed[c]

\* getTransaction returned: extracted if complete, else polled again later.
\* extractAgeLiveness and extractDocument throw when a service is missing.
Got(c) ==
  /\ Ready(c, "answered") /\ purpose[c] = "get"
  /\ IF ~ isTransactionComplete(c)
       THEN /\ Wait(c, "sleep", now + Interval, now + Interval + Latency)
            /\ UNCHANGED <<hdr, why>>
       ELSE IF Services \subseteq listed[c]
         THEN Over(c, "done") /\ UNCHANGED why
         ELSE Fail(c, "missing")
  /\ UNCHANGED <<now, token, poll, caf>>

\* The timer fires: the next attempt, or the end of the loop.
Wake(c) ==
  /\ Ready(c, "sleep")
  /\ attempt' = [attempt EXCEPT ![c] = @ + 1]
  /\ IF MayPoll(attempt[c] + 1, deadline[c]) THEN Authorize(c) ELSE Fail(c, "timeout")
  /\ UNCHANGED <<now, token, purpose, deadline, caf>>

\* A request fails, or is answered with an error status: the caller throws.
HttpError(c) ==
  /\ at[c] \in {"token", "issued", "sent", "answered"}
  /\ Fail(c, "http")
  /\ UNCHANGED <<now, token, poll, caf>>

\* Time passes unless something is due now.
Tick ==
  /\ Waiting # {} \/ now < Horizon
  /\ \A c \in Waiting : now < due[c]
  /\ now' = now + 1
  /\ UNCHANGED <<token, at, hdr, from, due, poll, caf, why>>

Next ==
  \/ \E c \in Callers :
       \/ createTransaction(c) \/ Issue(c) \/ TokenArrives(c) \/ Answer(c)
       \/ Created(c) \/ Got(c) \/ Wake(c) \/ HttpError(c)
  \/ Tick

Spec == Init /\ [][Next]_vars

-----------------------------------------------------------------------------
Polling(c) == c \in Waiting /\ purpose[c] = "get"

\* Type invariant.
TypeOK ==
  /\ now \in Nat
  /\ token \in [dies : Nat, until : Int]
  /\ at \in [Callers -> {"idle", "token", "issued", "sent", "answered", "sleep",
                         "done", "failed"}]
  /\ hdr \in [Callers -> Nat]
  /\ from \in [Callers -> Nat] /\ due \in [Callers -> Nat]
  /\ purpose \in [Callers -> {"create", "get"}]
  /\ deadline \in [Callers -> Nat]
  /\ attempt \in [Callers -> 0..MaxAttempts]
  /\ \A c \in Callers : completed[c] \subseteq listed[c] /\ listed[c] \subseteq Services
  /\ why \in [Callers -> {"none", "http", "timeout", "missing"}]

\* "Refresh 60s before expiry to avoid edge races" (caf-client.ts:24): no
\* request is on its way with a token that is dead at CAF, whoever fetched the
\* token and however old it was when it arrived.
TokenLive == \A c \in Callers : at[c] = "sent" => now < hdr[c]

\* What is extracted comes from an answer in which every service asked for was
\* complete: a score that is not there yet is never read as 0
\* (caf-mappers.ts:13-36).
ResultComplete == \A c \in Callers : at[c] = "done" => completed[c] = Services

\* A call is over soon after CAF_TIMEOUT_MS: the last poll may start just before
\* the deadline, fetch a token, be answered, and sleep (caf-client.ts:50-57).
EndsInTime ==
  \A c \in Callers : Polling(c) => now < deadline[c] + Interval + 5 * Latency
=============================================================================
