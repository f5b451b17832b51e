----------------------------- MODULE TenantAccess -----------------------------
(***************************************************************************)
(* Who may call: tenants, API keys, dashboard logins and the rate limit.   *)
(*                                                                         *)
(* A request names what it creates: a registration its tenant, a           *)
(* registration or rotation its key, POST /auth/users its account and a    *)
(* login its session token.  Ids and secrets are random, so no two         *)
(* requests create the same one, and a client presents only what it was    *)
(* answered.  Every read and every save is a commit of its own, the steps  *)
(* of all requests interleave, and any of them may be a request's last.    *)
(***************************************************************************)
EXTENDS Naturals, FiniteSets

CONSTANTS
  Registers,   \* POST /tenants/register
  Rotates,     \* POST /tenants/me/api-keys
  Revokes,     \* DELETE /tenants/me/api-keys/:id
  Calls,       \* requests that ApiKeyGuard lets through to any other handler
  Creates,     \* POST /auth/users
  Logins,      \* POST /auth/login
  Panels,      \* requests behind DashboardAuthGuard, with a token or a key
  Emails,
  Addresses,   \* req.ip of the callers
  AddressOf,   \* the address each registration and login comes from
  Bearers,     \* strings a caller may send as a bearer token with them
  Wallet,      \* the keys and tokens each guarded request may come with
  Limit,       \* RATE_LIMIT_PER_MIN
  MaxMinute,   \* minutes of the run
  MaxFaults,   \* requests that may come to nothing by a fault
  None

Issuers == Registers \union Rotates
Limited == Registers \union Logins
Guarded == Rotates \union Revokes \union Calls \union Creates \union Panels
Requests == Limited \union Guarded
Minutes == 0..MaxMinute
Buckets == Addresses \union Bearers   \* what the rate limit counts by

ASSUME AccessAssumption ==
  /\ IsFiniteSet(Requests)
  /\ None \notin Requests \union Emails
  \* A request goes to one route.
  /\ Registers \intersect (Logins \union Guarded) = {} /\ Logins \intersect Guarded = {}
  /\ Rotates \intersect (Revokes \union Calls \union Creates \union Panels) = {}
  /\ Revokes \intersect (Calls \union Creates \union Panels) = {}
  /\ Calls \intersect (Creates \union Panels) = {} /\ Creates \intersect Panels = {}
  /\ AddressOf \in [Limited -> Addresses]
  /\ None \notin Buckets /\ Addresses \intersect Bearers = {}
  /\ Wallet \in [Guarded -> SUBSET (Issuers \union Logins)]
  /\ Limit \in Nat /\ MaxMinute \in Nat /\ MaxFaults \in Nat

VARIABLES
  minute,    \* the minute of the clock
  usage,     \* the Redis counters rl:<bucket>:<minute>
  at,        \* the step each request is about to take
  bucket,    \* what a limited request was counted under
  window,    \* the minute it was counted in
  count,     \* what INCR returned to it
  cred,      \* the key or session token it carries, named by its issuer
  who,       \* the tenant it acts for
  mail,      \* the email of an account or a login
  tenants,   \* rows of tenants
  keys,      \* rows of api_keys: none, live or revoked
  owner,     \* their tenant_id
  users,     \* the account that has each email
  expired,   \* session tokens past their expiry
  late       \* requests that came with a key already revoked or a token
             \* already expired (history)

limiter == <<minute, usage, bucket, window, count>>
rows == <<tenants, keys, owner, users>>
vars == <<limiter, at, cred, who, mail, rows, expired, late>>

Init ==
  /\ minute = 0
  /\ usage = [b \in Buckets |-> [m \in Minutes |-> 0]]
  /\ at = [r \in Requests |-> "start"]
  /\ bucket = [r \in Limited |-> None]
  /\ window = [r \in Limited |-> 0] /\ count = [r \in Limited |-> 0]
  /\ cred = [r \in Guarded |-> None]
  /\ who = [r \in Requests |-> None]
  /\ mail = [r \in Creates \union Logins |-> None]
  /\ tenants = {}
  /\ keys = [k \in Issuers |-> "none"]
  /\ owner = [k \in Issuers |-> None]
  /\ users = [e \in Emails |-> None]
  /\ expired = {} /\ late = {}

Goto(r, from, to) == at[r] = from /\ at' = [at EXCEPT ![r] = to]

\* A fault ends the request: Redis or the database throws, or the process dies.
Broken(r, from) ==
  /\ Cardinality({q \in Requests : at[q] = "failed"}) < MaxFaults
  /\ Goto(r, from, "failed")

\* Answered, unless a fault strikes after the save took effect.
Finish(r, from) == Goto(r, from, "answered") \/ Broken(r, from)

-----------------------------------------------------------------------------
(* RateLimitGuard. *)

\* The counter is that of the bearer string, whatever the caller put there, and
\* that of the address only when there is none.
BucketOf(r, bearer) == IF bearer = None THEN AddressOf[r] ELSE bearer

\* The name of the counter is made and INCR sent at once.  Nobody verifies the
\* string at this point, and a registration or login needs none.
SlowIncrement(r, bearer) ==   \* mutant: GET, then SET of the next value
  LET b == BucketOf(r, bearer) IN
  /\ Goto(r, "start", "counted")
  /\ \E n \in {usage[b][minute], usage[b][minute] - 1} \intersect Nat :
       /\ usage' = [usage EXCEPT ![b][minute] = n + 1]
       /\ count' = [count EXCEPT ![r] = n + 1]
  /\ bucket' = [bucket EXCEPT ![r] = b]
  /\ window' = [window EXCEPT ![r] = minute]
  /\ UNCHANGED <<minute, cred, who, mail, rows, expired, late>>
Increment(r, bearer) ==
  LET b == BucketOf(r, bearer) IN
  /\ Goto(r, "start", "counted")
  /\ usage' = [usage EXCEPT ![b][minute] = @ + 1]
  /\ count' = [count EXCEPT ![r] = usage[b][minute] + 1]
  /\ bucket' = [bucket EXCEPT ![r] = b]
  /\ window' = [window EXCEPT ![r] = minute]
  /\ UNCHANGED <<minute, cred, who, mail, rows, expired, late>>

\* After PEXPIRE and PTTL the count is compared; a refused request was counted.
Allow(r) ==
  /\ Goto(r, "counted", IF count[r] <= Limit THEN "handle" ELSE "refused")
  /\ UNCHANGED <<limiter, cred, who, mail, rows, expired, late>>

MinuteEnds ==
  /\ minute < MaxMinute
  /\ minute' = minute + 1
  /\ UNCHANGED <<usage, bucket, window, count, at, cred, who, mail, rows, expired, late>>

-----------------------------------------------------------------------------
(* The guards of keys and tokens. *)

\* A request comes with a key that its client was given.
PresentKey(r, k) ==
  /\ at[k] = "answered"
  /\ Goto(r, "start", "lookup")
  /\ cred' = [cred EXCEPT ![r] = k]
  /\ late' = IF keys[k] = "revoked" THEN late \union {r} ELSE late
  /\ UNCHANGED <<limiter, who, mail, rows, expired>>

\* A token is told from a key by its form and verified without a read.
PresentToken(r, l) ==
  /\ at[l] = "answered"
  /\ Goto(r, "start", IF l \in expired THEN "refused" ELSE "tenant")
  /\ cred' = [cred EXCEPT ![r] = l]
  /\ late' = IF l \in expired THEN late \union {r} ELSE late
  /\ UNCHANGED <<limiter, who, mail, rows, expired>>

\* resolveTenant: the row of the key, if it is not revoked, then its tenant.
AnyRow(r) ==   \* mutant: revoked keys are found too
  /\ at[r] = "lookup"
  /\ Goto(r, "lookup", IF keys[cred[r]] # "none" THEN "tenant" ELSE "refused")
  /\ UNCHANGED <<limiter, cred, who, mail, rows, expired, late>>
FindKey(r) ==
  /\ at[r] = "lookup"
  /\ Goto(r, "lookup", IF keys[cred[r]] = "live" THEN "tenant" ELSE "refused")
  /\ UNCHANGED <<limiter, cred, who, mail, rows, expired, late>>

Claimed(r) == IF cred[r] \in Issuers THEN owner[cred[r]] ELSE who[cred[r]]
FindTenant(r) ==
  /\ at[r] = "tenant"
  /\ IF Claimed(r) \in tenants
       THEN Goto(r, "tenant", "handle") /\ who' = [who EXCEPT ![r] = Claimed(r)]
       ELSE Goto(r, "tenant", "refused") /\ UNCHANGED who
  /\ UNCHANGED <<limiter, cred, mail, rows, expired, late>>

TokenExpires(l) ==
  /\ at[l] = "answered" /\ l \notin expired
  /\ expired' = expired \union {l}
  /\ UNCHANGED <<limiter, at, cred, who, mail, rows, late>>

-----------------------------------------------------------------------------
(* The handlers. *)

\* register: the tenant, then its first key, then the answer.
AnsweredEarly(r) ==   \* mutant: the key is not waited for
  /\ Goto(r, "handle", "answered")
  /\ tenants' = tenants \union {r}
  /\ who' = [who EXCEPT ![r] = r]
  /\ UNCHANGED <<limiter, cred, mail, keys, owner, users, expired, late>>
SaveTenant(r) ==
  /\ Goto(r, "handle", "issue")
  /\ tenants' = tenants \union {r}
  /\ who' = [who EXCEPT ![r] = r]
  /\ UNCHANGED <<limiter, cred, mail, keys, owner, users, expired, late>>

\* ApiKeyService.issue for the tenant of the request.
OwnedByItself(r) == r   \* mutant: the key's own id is saved as its tenant_id
TenantOf(r) == who[r]
Issue(r, from) ==
  /\ Finish(r, from)
  /\ keys' = [keys EXCEPT ![r] = "live"]
  /\ owner' = [owner EXCEPT ![r] = TenantOf(r)]
  /\ UNCHANGED <<limiter, cred, who, mail, tenants, users, expired, late>>

\* revoke: one UPDATE of a live key with this id and this tenant.
Revocable(r, k) == keys[k] = "live" /\ owner[k] = who[r]
Revoke(r, k) ==
  /\ \/ Revocable(r, k) /\ Finish(r, "handle") /\ keys' = [keys EXCEPT ![k] = "revoked"]
     \/ ~ Revocable(r, k) /\ Goto(r, "handle", "refused") /\ UNCHANGED keys
  /\ UNCHANGED <<limiter, cred, who, mail, tenants, owner, users, expired, late>>

\* createUser: the unique index on the email refuses a second account.
LastWins(e) == TRUE   \* mutant: no unique index
Unused(e) == users[e] = None
CreateUser(r, e) ==
  /\ \/ Unused(e) /\ Finish(r, "handle") /\ users' = [users EXCEPT ![e] = r]
     \/ ~ Unused(e) /\ Goto(r, "handle", "failed") /\ UNCHANGED users
  /\ mail' = [mail EXCEPT ![r] = e]
  /\ UNCHANGED <<limiter, cred, who, tenants, keys, owner, expired, late>>

\* Every account has a password of its own: u's opens no other account.
verifyPassword(u) == users[mail[u]] = u

\* login with the email and the password of account u, which has the email or
\* was refused it; the token names the tenant of the account.
Login(r, u) ==
  /\ mail[u] # None
  /\ IF verifyPassword(u)
       THEN Goto(r, "handle", "answered") /\ who' = [who EXCEPT ![r] = who[u]]
       ELSE Goto(r, "handle", "refused") /\ UNCHANGED who
  /\ mail' = [mail EXCEPT ![r] = mail[u]]
  /\ UNCHANGED <<limiter, cred, rows, expired, late>>

\* Any other handler.
Serve(r) ==
  /\ Goto(r, "handle", "answered")
  /\ UNCHANGED <<limiter, cred, who, mail, rows, expired, late>>

\* A fault before the next step takes effect.
Fail(r) ==
  /\ \E from \in {"counted", "lookup", "tenant", "handle", "issue"} : Broken(r, from)
  /\ UNCHANGED <<limiter, cred, who, mail, rows, expired, late>>

Next ==
  \/ MinuteEnds
  \/ \E r \in Limited : \/ \E bearer \in Bearers \union {None} : Increment(r, bearer)
                        \/ Allow(r)
  \/ \E r \in Guarded : \/ \E k \in Wallet[r] \intersect Issuers : PresentKey(r, k)
                        \/ FindKey(r) \/ FindTenant(r)
  \/ \E r \in Panels : \E l \in Wallet[r] \intersect Logins : PresentToken(r, l)
  \/ \E r \in Registers : SaveTenant(r) \/ Issue(r, "issue")
  \/ \E r \in Rotates : Issue(r, "handle")
  \/ \E r \in Revokes, k \in Issuers : Revoke(r, k)
  \/ \E r \in Creates, e \in Emails : CreateUser(r, e)
  \/ \E r \in Logins : TokenExpires(r) \/ \E u \in Creates : Login(r, u)
  \/ \E r \in Calls \union Panels : Serve(r)
  \/ \E r \in Requests : Fail(r)

Spec == Init /\ [][Next]_vars

-----------------------------------------------------------------------------
\* Type invariant.
TypeOK ==
  /\ minute \in Minutes
  /\ usage \in [Buckets -> [Minutes -> Nat]]
  /\ bucket \in [Limited -> Buckets \union {None}]
  /\ at \in [Requests -> {"start", "counted", "lookup", "tenant", "handle", "issue",
                          "answered", "refused", "failed"}]
  /\ window \in [Limited -> Minutes] /\ count \in [Limited -> Nat]
  /\ cred \in [Guarded -> Issuers \union Logins \union {None}]
  /\ who \in [Requests -> Registers \union {None}]
  /\ mail \in [Creates \union Logins -> Emails \union {None}]
  /\ tenants \subseteq Registers
  /\ keys \in [Issuers -> {"none", "live", "revoked"}]
  /\ owner \in [Issuers -> Registers \union {None}]
  /\ \A k \in Issuers : keys[k] # "none" => owner[k] \in tenants
  /\ users \in [Emails -> Creates \union {None}]
  /\ expired \subseteq Logins /\ late \subseteq Guarded

\* In one minute no more registrations and logins than the limit are handled
\* under one counter, however their counting interleaves (rate-limiter.ts:12-18).
\* That bounds the callers of an address that send no bearer string; whoever
\* makes up a new string for a request has a new counter
\* (rate-limit.guard.ts:19-20).
LimitHeld ==
  \A b \in Buckets, m \in Minutes :
    Cardinality({r \in Limited : /\ bucket[r] = b /\ window[r] = m
                                 /\ at[r] \in {"handle", "issue", "answered"}})
      <= Limit

\* A key revoked before the request came, or a token expired before, opens
\* nothing, though requests already past the lookup go on
\* (api-key.service.ts:45-50, dashboard-auth.guard.ts:25-48).
LateIsRefused == \A r \in late : at[r] \notin {"handle", "answered"}

\* A key or token that a client was answered works until it is revoked or
\* expires, so it is never answered before its row and its tenant are saved: no
\* request with it is turned away otherwise (tenant.service.ts:24-39).
KeyWorks ==
  \A r \in Guarded \ Revokes : at[r] = "refused" =>
    IF cred[r] \in Issuers THEN keys[cred[r]] = "revoked" ELSE cred[r] \in expired

\* "one dashboard login = one email = one tenant" (dashboard-user.entity.ts:7):
\* a session token is of the tenant that was answered the account with its
\* email, whoever else tried to take the email.
OneTenantPerEmail ==
  \A l \in Logins, u \in Creates :
    at[l] = "answered" /\ at[u] = "answered" /\ mail[l] = mail[u] => who[l] = who[u]
=============================================================================
