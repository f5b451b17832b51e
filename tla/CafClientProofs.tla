--------------------------- MODULE CafClientProofs ---------------------------
(***************************************************************************)
(* The token of the CAF client is alive when it is used, a result is       *)
(* complete and a call ends in time, for any number of callers and         *)
(* services and any times that fit the assumptions of CafClient.           *)
(***************************************************************************)
EXTENDS CafClient, TLAPS

\* The type invariant, with the answers of CAF as functions.
Typed ==
  /\ now \in Nat
  /\ token \in [dies : Nat, until : Int]
  /\ at \in [Callers -> {"idle", "token", "issued", "sent", "answered", "sleep",
                         "done", "failed"}]
  /\ hdr \in [Callers -> Nat]
  /\ from \in [Callers -> Nat] /\ due \in [Callers -> Nat]
  /\ purpose \in [Callers -> {"create", "get"}]
  /\ deadline \in [Callers -> Nat]
  /\ attempt \in [Callers -> 0..MaxAttempts]
  /\ listed \in [Callers -> SUBSET Services]
  /\ completed \in [Callers -> SUBSET Services]
  /\ \A c \in Callers : completed[c] \subseteq listed[c]
  /\ why \in [Callers -> {"none", "http", "timeout", "missing"}]

\* Nothing is overdue.
DueInv == \A c \in Waiting : now <= due[c]

\* What the cached token promises: the client gives it up so early that an
\* answer that took its time to bring it is made up for.
TokenInv == token.until <= 0 \/ token.until + Skew <= token.dies + Latency

\* A token on its way to a caller, and one on its way to CAF.
HeaderInv ==
  \A c \in Callers :
    /\ at[c] = "issued" => due[c] + Life <= hdr[c] + Latency
    /\ at[c] = "sent" => due[c] < hdr[c]

\* How long after the deadline the steps of a poll that began before it can be
\* due, and the attempts that it has left.
PollInv ==
  \A c \in Callers :
    /\ purpose[c] = "create" => attempt[c] = 0
    /\ at[c] = "idle" => purpose[c] = "create"
    /\ at[c] = "sleep" => purpose[c] = "get"
    /\ Polling(c) =>
         /\ attempt[c] < MaxAttempts
         /\ at[c] = "token" => due[c] < deadline[c] + Latency
         /\ at[c] = "issued" => due[c] < deadline[c] + 2 * Latency
         /\ at[c] = "sent" => due[c] < deadline[c] + 3 * Latency
         /\ at[c] = "answered" => due[c] < deadline[c] + 4 * Latency
         /\ at[c] = "sleep" => due[c] < deadline[c] + 5 * Latency + Interval

IInv == Typed /\ DueInv /\ TokenInv /\ HeaderInv /\ PollInv /\ ResultComplete

LEMMA TimesAreNat ==
  /\ Life \in Nat /\ Skew \in Nat /\ TimeoutMs \in Nat /\ Interval \in Nat
  /\ MaxAttempts \in Nat /\ Latency \in Nat /\ Horizon \in Nat /\ Latency > 0
  /\ 2 * Latency <= Skew /\ 2 * Latency < Life
  BY TimesAssumption, SkewAssumption

-----------------------------------------------------------------------------
LEMMA InitIInv == Init => IInv
  BY TimesAreNat
  DEF Init, IInv, Typed, DueInv, TokenInv, HeaderInv, PollInv, ResultComplete, Waiting, Polling

\* The caller takes its next request: with the cached token, which will be alive
\* when it arrives, or by way of a new one.
LEMMA AuthorizeSends ==
  ASSUME IInv, NEW c \in Callers, Authorize(c)
  PROVE  /\ UNCHANGED why
         /\ due' = [due EXCEPT ![c] = now + Latency]
         /\ from' = [from EXCEPT ![c] = now]
         /\ \/ /\ at' = [at EXCEPT ![c] = "sent"]
               /\ hdr' = [hdr EXCEPT ![c] = token.dies]
               /\ now + Latency < token.dies
            \/ /\ at' = [at EXCEPT ![c] = "token"]
               /\ UNCHANGED hdr
<1>1. CASE now < token.until
  <2>1. token.until \in Int /\ token.dies \in Nat /\ now \in Nat
    BY DEF IInv, Typed
  <2>2. now + Latency < token.dies
    BY <1>1, <2>1, TimesAreNat DEF IInv, TokenInv
  <2> QED BY <1>1, <2>2 DEF Authorize, Send, Wait
<1>2. CASE ~(now < token.until)
  BY <1>2 DEF Authorize, Send, Wait
<1> QED BY <1>1, <1>2

\* What a step of one caller has to show.
LEMMA CallerKeeps ==
  ASSUME IInv, NEW c \in Callers, Typed', TokenInv', UNCHANGED now,
         \A d \in Callers \ {c} :
           /\ at'[d] = at[d] /\ due'[d] = due[d] /\ hdr'[d] = hdr[d]
           /\ purpose'[d] = purpose[d] /\ deadline'[d] = deadline[d]
           /\ attempt'[d] = attempt[d] /\ completed'[d] = completed[d],
         c \in Waiting' => now <= due'[c],
         at'[c] = "issued" => due'[c] + Life <= hdr'[c] + Latency,
         at'[c] = "sent" => due'[c] < hdr'[c],
         purpose'[c] = "create" => attempt'[c] = 0,
         at'[c] # "idle",
         at'[c] = "sleep" => purpose'[c] = "get",
         Polling(c)' =>
           /\ attempt'[c] < MaxAttempts
           /\ at'[c] = "token" => due'[c] < deadline'[c] + Latency
           /\ at'[c] = "issued" => due'[c] < deadline'[c] + 2 * Latency
           /\ at'[c] = "sent" => due'[c] < deadline'[c] + 3 * Latency
           /\ at'[c] = "answered" => due'[c] < deadline'[c] + 4 * Latency
           /\ at'[c] = "sleep" => due'[c] < deadline'[c] + 5 * Latency + Interval,
         at'[c] = "done" => completed'[c] = Services
  PROVE  IInv'
<1>1. DueInv'
  BY DEF IInv, DueInv, Waiting
<1>2. HeaderInv'
  BY DEF IInv, HeaderInv
<1>3. PollInv'
  BY DEF IInv, PollInv, Polling, Waiting
<1>4. ResultComplete'
  BY DEF IInv, ResultComplete
<1> QED BY <1>1, <1>2, <1>3, <1>4 DEF IInv

-----------------------------------------------------------------------------
LEMMA Inductive == IInv /\ [Next]_vars => IInv'
<1> SUFFICES ASSUME IInv, [Next]_vars PROVE IInv'
  OBVIOUS
<1> USE TimesAreNat
<1>1. CASE UNCHANGED vars
  BY <1>1 DEF vars, poll, caf, IInv, Typed, DueInv, TokenInv, HeaderInv, PollInv, ResultComplete,
              Waiting, Polling
<1>2. CASE Tick
  <2>1. Typed' /\ TokenInv' /\ HeaderInv' /\ PollInv' /\ ResultComplete'
    BY <1>2 DEF Tick, poll, caf, IInv, Typed, TokenInv, HeaderInv, PollInv, ResultComplete,
                Waiting, Polling
  <2>2. DueInv'
    BY <1>2 DEF Tick, IInv, Typed, DueInv, Waiting
  <2> QED BY <2>1, <2>2 DEF IInv
<1>3. ASSUME NEW c \in Callers, createTransaction(c) PROVE IInv'
  <2> USE <1>3 DEF createTransaction, poll, caf
  <2>1. Authorize(c)
    OBVIOUS
  <2>2. Typed'
    BY <2>1, AuthorizeSends DEF IInv, Typed
  <2>3. TokenInv'
    BY DEF IInv, TokenInv
  <2>4. purpose[c] = "create" /\ attempt[c] = 0
    BY DEF IInv, PollInv
  <2> QED BY <2>1, <2>2, <2>3, <2>4, AuthorizeSends, CallerKeeps DEF IInv, Typed, Polling, Waiting
<1>4. ASSUME NEW c \in Callers, Issue(c) PROVE IInv'
  <2> USE <1>4 DEF Issue, Ready, Send, Wait, poll, caf
  <2>1. Typed' /\ TokenInv'
    BY DEF IInv, Typed, TokenInv
  <2>2. /\ now \in Nat /\ due[c] \in Nat /\ deadline[c] \in Nat /\ now <= due[c]
        /\ Polling(c) => due[c] < deadline[c] + Latency /\ attempt[c] < MaxAttempts
        /\ purpose[c] = "create" => attempt[c] = 0
    BY DEF IInv, Typed, DueInv, Waiting, PollInv, Polling
  <2>3. /\ at'[c] = "issued" /\ due'[c] = now + Latency /\ hdr'[c] = now + Life
        /\ Polling(c)' => Polling(c)
        /\ \A d \in Callers \ {c} : at'[d] = at[d] /\ due'[d] = due[d] /\ hdr'[d] = hdr[d]
        /\ UNCHANGED <<now, purpose, deadline, attempt, completed>>
    BY DEF IInv, Typed, Polling, Waiting
  <2> HIDE <1>4 DEF Issue, Ready, Send, Wait
  <2> QED BY <2>1, <2>2, <2>3, CallerKeeps
<1>5. ASSUME NEW c \in Callers, TokenArrives(c) PROVE IInv'
  <2> USE <1>5 DEF TokenArrives, CachedUntil, Ready, Send, Wait, poll, caf
  <2>1. Typed'
    BY DEF IInv, Typed
  <2>2. now <= due[c] /\ due[c] + Life <= hdr[c] + Latency
    BY DEF IInv, DueInv, Waiting, HeaderInv
  <2>3. TokenInv'
    BY <2>2 DEF IInv, Typed, TokenInv
  <2> QED BY <2>1, <2>2, <2>3, CallerKeeps DEF IInv, Typed, PollInv, Polling, Waiting
<1>6. ASSUME NEW c \in Callers, Answer(c) PROVE IInv'
  <2> USE <1>6 DEF Answer, Ready, Send, Wait, poll, caf
  <2>1. Typed' /\ TokenInv'
    BY DEF IInv, Typed, TokenInv
  <2>2. now <= due[c]
    BY DEF IInv, DueInv, Waiting
  <2> QED BY <2>1, <2>2, CallerKeeps DEF IInv, Typed, PollInv, Polling, Waiting
<1>7. ASSUME NEW c \in Callers, Created(c) PROVE IInv'
  <2> USE <1>7 DEF Created, Ready, MayPoll, poll, caf
  <2>0. TokenInv' /\ attempt[c] = 0
    BY DEF IInv, TokenInv, PollInv
  <2>1. CASE Authorize(c) /\ 0 < MaxAttempts /\ now < now + TimeoutMs
    <3>1. Typed'
      BY <2>1, AuthorizeSends DEF IInv, Typed
    <3>2. /\ due'[c] = now + Latency /\ now \in Nat
          /\ \/ at'[c] = "sent" /\ due'[c] < hdr'[c]
             \/ at'[c] = "token"
          /\ \A d \in Callers \ {c} : at'[d] = at[d] /\ due'[d] = due[d] /\ hdr'[d] = hdr[d]
      BY <2>1, AuthorizeSends DEF IInv, Typed
    <3>3. /\ UNCHANGED <<now, attempt, completed>>
          /\ purpose'[c] = "get" /\ deadline'[c] = now + TimeoutMs
          /\ \A d \in Callers \ {c} : purpose'[d] = purpose[d] /\ deadline'[d] = deadline[d]
      BY <1>7 DEF Created, IInv, Typed
    <3> HIDE <1>7 DEF Created, Ready, MayPoll
    <3> QED BY <2>0, <2>1, <3>1, <3>2, <3>3, CallerKeeps
  <2>2. CASE Fail(c, "timeout")
    <3>1. Typed'
      BY <2>2 DEF Fail, Over, IInv, Typed
    <3> QED BY <2>0, <2>2, <3>1, CallerKeeps DEF Fail, Over, IInv, Typed, Polling, Waiting
  <2> QED BY <2>1, <2>2
<1>8. ASSUME NEW c \in Callers, Got(c) PROVE IInv'
  <2> USE <1>8 DEF Got, Ready, poll, caf
  <2>0. TokenInv' /\ now <= due[c] /\ Polling(c)
    BY DEF IInv, TokenInv, DueInv, Polling, Waiting
  <2>1. CASE Wait(c, "sleep", now + Interval, now + Interval + Latency) /\ UNCHANGED <<hdr, why>>
    <3>1. Typed'
      BY <2>1 DEF Wait, IInv, Typed
    <3> QED BY <2>0, <2>1, <3>1, CallerKeeps DEF Wait, IInv, Typed, PollInv, Polling, Waiting
  <2>2. CASE /\ isTransactionComplete(c) /\ Services \subseteq listed[c]
             /\ Over(c, "done") /\ UNCHANGED why
    <3>1. Typed'
      BY <2>2 DEF Over, IInv, Typed
    <3>2. completed'[c] = Services
      BY <2>2 DEF isTransactionComplete, IInv, Typed
    <3> QED BY <2>0, <2>2, <3>1, <3>2, CallerKeeps DEF Over, IInv, Typed, PollInv, Polling, Waiting
  <2>3. CASE Fail(c, "missing")
    <3>1. Typed'
      BY <2>3 DEF Fail, Over, IInv, Typed
    <3> QED BY <2>0, <2>3, <3>1, CallerKeeps DEF Fail, Over, IInv, Typed, PollInv, Polling, Waiting
  <2> QED BY <2>1, <2>2, <2>3
<1>9. ASSUME NEW c \in Callers, Wake(c) PROVE IInv'
  <2> USE <1>9 DEF Wake, Ready, MayPoll, poll, caf
  <2>0. TokenInv' /\ attempt[c] < MaxAttempts /\ purpose[c] = "get"
    BY DEF IInv, TokenInv, PollInv, Polling, Waiting
  <2>1. CASE Authorize(c) /\ attempt[c] + 1 < MaxAttempts /\ now < deadline[c]
    <3>1. Typed'
      BY <2>0, <2>1, AuthorizeSends DEF IInv, Typed
    <3> QED BY <2>0, <2>1, <3>1, AuthorizeSends, CallerKeeps DEF IInv, Typed, Polling, Waiting
  <2>2. CASE Fail(c, "timeout")
    <3>1. Typed'
      BY <2>0, <2>2 DEF Fail, Over, IInv, Typed
    <3> QED BY <2>0, <2>2, <3>1, CallerKeeps DEF Fail, Over, IInv, Typed, Polling, Waiting
  <2> QED BY <2>1, <2>2
<1>10. ASSUME NEW c \in Callers, HttpError(c) PROVE IInv'
  <2> USE <1>10 DEF HttpError, Fail, Over, poll, caf
  <2>1. Typed' /\ TokenInv'
    BY DEF IInv, Typed, TokenInv
  <2> QED BY <2>1, CallerKeeps DEF IInv, Typed, PollInv, Polling, Waiting
<1> QED BY <1>1, <1>2, <1>3, <1>4, <1>5, <1>6, <1>7, <1>8, <1>9, <1>10 DEF Next

LEMMA Invariant == Spec => []IInv
  BY InitIInv, Inductive, PTL DEF Spec

-----------------------------------------------------------------------------
\* Every reachable state is well typed; a call never makes more polls than
\* CAF_POLL_MAX_ATTEMPTS (caf-client.ts:50-57).
THEOREM TypeCorrect == Spec => []TypeOK
<1>1. IInv => TypeOK
  BY DEF IInv, Typed, TypeOK
<1> QED BY <1>1, Invariant, PTL

\* "Refresh 60s before expiry to avoid edge races" (caf-client.ts:24): a skew of
\* two latencies is enough, however many callers share and refresh the token.
THEOREM TokenAlive == Spec => []TokenLive
<1>1. IInv => TokenLive
  BY DEF IInv, Typed, DueInv, HeaderInv, TokenLive, Waiting
<1> QED BY <1>1, Invariant, PTL

\* A result is extracted only from an answer in which every service asked for
\* is complete (caf-mappers.ts:13-36).
THEOREM CompleteResult == Spec => []ResultComplete
<1>1. IInv => ResultComplete
  BY DEF IInv
<1> QED BY <1>1, Invariant, PTL

\* A call is over within one interval and five latencies of its deadline
\* (caf-client.ts:50-57).
THEOREM OverInTime == Spec => []EndsInTime
<1>1. IInv => EndsInTime
  <2> SUFFICES ASSUME IInv, NEW c \in Callers, Polling(c)
               PROVE  now < deadline[c] + Interval + 5 * Latency
    BY DEF EndsInTime
  <2>1. now <= due[c] /\ now \in Nat /\ due[c] \in Nat /\ deadline[c] \in Nat
    BY DEF IInv, Typed, DueInv, Polling
  <2>2. at[c] \in {"token", "issued", "sent", "answered", "sleep"}
    BY DEF IInv, Typed, Polling, Waiting
  <2> QED BY <2>1, <2>2, TimesAreNat DEF IInv, PollInv
<1> QED BY <1>1, Invariant, PTL
=============================================================================
