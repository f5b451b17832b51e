-------------------------- MODULE TenantAccessProofs --------------------------
(***************************************************************************)
(* Theorems about TenantAccess, for any requests, addresses, bearer        *)
(* strings and limit and any number of faults.                             *)
(***************************************************************************)
EXTENDS TenantAccess, FiniteSetTheorems, TLAPS

Handled == {"handle", "issue", "answered"}

\* The rate limit: among the requests counted under one counter in one minute,
\* each has a number of its own, and only the numbers up to Limit are handled.
CountInv ==
  \A r \in Limited :
    /\ at[r] = "start" => count[r] = 0
    /\ at[r] # "start" => /\ bucket[r] \in Buckets
                          /\ 0 < count[r] /\ count[r] <= usage[bucket[r]][window[r]]
    /\ at[r] \in Handled => count[r] <= Limit
    /\ \A q \in Limited :
         (q # r /\ count[r] > 0 /\ bucket[q] = bucket[r] /\ window[q] = window[r])
           => count[q] # count[r]

\* A request acts for a tenant that is saved.
WhoInv ==
  /\ \A r \in Requests : who[r] \in tenants \union {None}
  /\ \A r \in Registers : at[r] \in {"issue", "answered"} => who[r] = r
  /\ \A r \in Guarded : at[r] \in {"handle", "answered"} => who[r] # None
  /\ \A u \in Creates : mail[u] # None => who[u] # None
  /\ \A l \in Logins : at[l] = "answered" => who[l] # None

\* A key exists once its issuer was answered, and is issued once; what a guard
\* looks up was answered before.
KeyInv ==
  /\ \A k \in Issuers : keys[k] # "none" => at[k] \in {"answered", "failed"}
  /\ \A k \in Issuers : at[k] = "answered" => keys[k] # "none"
  /\ \A r \in Guarded : at[r] \in {"lookup", "tenant"} =>
       /\ cred[r] \in Issuers \union Logins /\ at[cred[r]] = "answered"
       /\ at[r] = "lookup" => cred[r] \in Issuers

\* A request that came too late gets no further than the lookup.
LateInv ==
  \A r \in late : /\ at[r] \in {"lookup", "refused", "failed"}
                  /\ at[r] = "lookup" => keys[cred[r]] = "revoked"

\* An email belongs to the account that was answered it, and a token to that
\* account's tenant.
AccountInv ==
  /\ \A u \in Creates : mail[u] # None => at[u] \in {"answered", "failed"}
  /\ \A e \in Emails : users[e] # None => mail[users[e]] = e
  /\ \A u \in Creates : at[u] = "answered" => mail[u] # None /\ users[mail[u]] = u
  /\ \A l \in Logins : at[l] = "answered" =>
       mail[l] # None /\ users[mail[l]] # None /\ who[l] = who[users[mail[l]]]

IInv == TypeOK /\ CountInv /\ WhoInv /\ KeyInv /\ LateInv /\ AccountInv /\ KeyWorks

LEMMA InitIInv == Init => IInv
  BY AccessAssumption
  DEF Init, IInv, TypeOK, CountInv, WhoInv, KeyInv, LateInv, AccountInv, KeyWorks, Requests,
      Limited, Guarded, Issuers, Minutes, Handled

-----------------------------------------------------------------------------
(* Each request is of one kind. *)
LEMMA Kinds ==
  /\ Limited \intersect Guarded = {} /\ Registers \intersect Logins = {}
  /\ Issuers \intersect Logins = {} /\ Registers \intersect Rotates = {}
  /\ Rotates \intersect (Revokes \union Calls \union Creates \union Panels) = {}
  /\ Revokes \intersect (Calls \union Creates \union Panels) = {}
  /\ Calls \intersect (Creates \union Panels) = {} /\ Creates \intersect Panels = {}
  /\ Logins \intersect Guarded = {} /\ Registers \intersect Guarded = {}
  /\ Limited \subseteq Requests /\ Guarded \subseteq Requests /\ Issuers \subseteq Requests
  /\ Registers \subseteq Limited /\ Logins \subseteq Limited /\ Registers \subseteq Issuers
  /\ Rotates \subseteq Issuers
  /\ Rotates \union Revokes \union Calls \union Creates \union Panels = Guarded
  /\ None \notin Requests /\ None \notin Emails
  BY AccessAssumption DEF Limited, Guarded, Issuers, Requests

\* The steps, by what they are about.
Counted(r) == \E bearer \in Bearers \union {None} : Increment(r, bearer)
GuardStep ==
  \/ \E r \in Guarded : \/ \E k \in Wallet[r] \intersect Issuers : PresentKey(r, k)
                        \/ FindKey(r) \/ FindTenant(r)
  \/ \E r \in Panels : \E l \in Wallet[r] \intersect Logins : PresentToken(r, l)
IssueStep ==
  \/ \E r \in Registers : SaveTenant(r) \/ Issue(r, "issue")
  \/ \E r \in Rotates : Issue(r, "handle")
AccountStep == \/ \E r \in Creates, e \in Emails : CreateUser(r, e)
               \/ \E r \in Logins, u \in Creates : Login(r, u)
OtherStep == \/ \E r \in Calls \union Panels : Serve(r)
             \/ \E r \in Requests : Fail(r)
             \/ \E r \in Logins : TokenExpires(r)
             \/ MinuteEnds

Places == {"start", "counted", "lookup", "tenant", "handle", "issue", "answered", "refused",
           "failed"}
\* r alone goes from one place to another.
Moved(r, from, to) ==
  /\ r \in Requests /\ at[r] = from /\ at'[r] = to
  /\ at' \in [Requests -> Places]
  /\ \A q \in Requests \ {r} : at'[q] = at[q]
Ended(r, from) == Moved(r, from, "answered") \/ Moved(r, from, "failed")

LEMMA GotoMoves ==
  ASSUME TypeOK, NEW r \in Requests, NEW from, NEW to \in Places, Goto(r, from, to)
  PROVE  Moved(r, from, to)
  BY DEF TypeOK, Goto, Moved, Places

LEMMA FinishMoves ==
  ASSUME TypeOK, NEW r \in Requests, NEW from, Finish(r, from)
  PROVE  Ended(r, from)
<1>1. "answered" \in Places /\ "failed" \in Places
  BY DEF Places
<1> QED BY <1>1, GotoMoves DEF Finish, Broken, Ended

\* Where each step takes its request.
LEMMA Motions ==
  ASSUME TypeOK
  PROVE  /\ \A r \in Limited : Counted(r) => Moved(r, "start", "counted")
         /\ \A r \in Limited : Allow(r) =>
              \/ count[r] <= Limit /\ Moved(r, "counted", "handle")
              \/ count[r] > Limit /\ Moved(r, "counted", "refused")
         /\ \A r \in Guarded, k \in Issuers : PresentKey(r, k) => Moved(r, "start", "lookup")
         /\ \A r \in Guarded : FindKey(r) =>
              \/ keys[cred[r]] = "live" /\ Moved(r, "lookup", "tenant")
              \/ keys[cred[r]] # "live" /\ Moved(r, "lookup", "refused")
         /\ \A r \in Guarded : FindTenant(r) =>
              \/ Claimed(r) \in tenants /\ Moved(r, "tenant", "handle")
              \/ Claimed(r) \notin tenants /\ Moved(r, "tenant", "refused")
         /\ \A r \in Panels, l \in Logins : PresentToken(r, l) =>
              \/ l \in expired /\ Moved(r, "start", "refused")
              \/ l \notin expired /\ Moved(r, "start", "tenant")
         /\ \A r \in Registers : SaveTenant(r) => Moved(r, "handle", "issue")
         /\ \A r \in Issuers : \A from : Issue(r, from) => Ended(r, from)
         /\ \A r \in Revokes, k \in Issuers : Revoke(r, k) =>
              Ended(r, "handle") \/ Moved(r, "handle", "refused")
         /\ \A r \in Creates, e \in Emails : CreateUser(r, e) =>
              \/ users[e] = None /\ Ended(r, "handle")
              \/ users[e] # None /\ Moved(r, "handle", "failed")
         /\ \A r \in Logins, u \in Creates : Login(r, u) =>
              \/ users[mail[u]] = u /\ Moved(r, "handle", "answered")
              \/ users[mail[u]] # u /\ Moved(r, "handle", "refused")
         /\ \A r \in Calls \union Panels : Serve(r) => Moved(r, "handle", "answered")
         /\ \A r \in Requests : Fail(r) =>
              \E from \in Places \ {"start", "answered", "refused", "failed"} :
                Moved(r, from, "failed")
<1> USE Kinds
<1>0. {"counted", "handle", "refused", "lookup", "tenant", "issue", "answered", "failed"}
        \subseteq Places
  BY DEF Places
<1>1. ASSUME NEW r \in Limited
      PROVE  /\ Counted(r) => Moved(r, "start", "counted")
             /\ Allow(r) => \/ count[r] <= Limit /\ Moved(r, "counted", "handle")
                            \/ count[r] > Limit /\ Moved(r, "counted", "refused")
  <2>1. count[r] \in Nat /\ Limit \in Nat  BY AccessAssumption DEF TypeOK
  <2> QED BY <1>0, <2>1, GotoMoves DEF Counted, Increment, Allow
<1>2. ASSUME NEW r \in Guarded
      PROVE  /\ \A k \in Issuers : PresentKey(r, k) => Moved(r, "start", "lookup")
             /\ FindKey(r) => \/ keys[cred[r]] = "live" /\ Moved(r, "lookup", "tenant")
                              \/ keys[cred[r]] # "live" /\ Moved(r, "lookup", "refused")
             /\ FindTenant(r) => \/ Claimed(r) \in tenants /\ Moved(r, "tenant", "handle")
                                 \/ Claimed(r) \notin tenants /\ Moved(r, "tenant", "refused")
  BY <1>0, GotoMoves DEF PresentKey, FindKey, FindTenant
<1>3. ASSUME NEW r \in Panels, NEW l \in Logins
      PROVE  PresentToken(r, l) => \/ l \in expired /\ Moved(r, "start", "refused")
                                   \/ l \notin expired /\ Moved(r, "start", "tenant")
  BY <1>0, GotoMoves DEF PresentToken
<1>4. \A r \in Registers : SaveTenant(r) => Moved(r, "handle", "issue")
  BY <1>0, GotoMoves DEF SaveTenant
<1>5. \A r \in Issuers : \A from : Issue(r, from) => Ended(r, from)
  BY FinishMoves DEF Issue
<1>6. \A r \in Revokes, k \in Issuers : Revoke(r, k) =>
        Ended(r, "handle") \/ Moved(r, "handle", "refused")
  BY <1>0, GotoMoves, FinishMoves DEF Revoke
<1>7. \A r \in Creates, e \in Emails : CreateUser(r, e) =>
        \/ users[e] = None /\ Ended(r, "handle")
        \/ users[e] # None /\ Moved(r, "handle", "failed")
  BY <1>0, GotoMoves, FinishMoves DEF CreateUser, Unused
<1>8. \A r \in Logins, u \in Creates : Login(r, u) =>
        \/ users[mail[u]] = u /\ Moved(r, "handle", "answered")
        \/ users[mail[u]] # u /\ Moved(r, "handle", "refused")
  BY <1>0, GotoMoves DEF Login, verifyPassword
<1>9. \A r \in Calls \union Panels : Serve(r) => Moved(r, "handle", "answered")
  BY <1>0, GotoMoves DEF Serve
<1>10. ASSUME NEW r \in Requests, Fail(r)
       PROVE  \E from \in Places \ {"start", "answered", "refused", "failed"} :
                Moved(r, from, "failed")
  <2>1. PICK from \in {"counted", "lookup", "tenant", "handle", "issue"} : Goto(r, from, "failed")
    BY <1>10 DEF Fail, Broken
  <2> QED BY <1>0, <2>1, GotoMoves DEF Places
<1> QED BY <1>1, <1>2, <1>3, <1>4, <1>5, <1>6, <1>7, <1>8, <1>9, <1>10

LEMMA AtTyped ==
  ASSUME TypeOK, [Next]_vars
  PROVE  at' \in [Requests -> Places]
<1> USE Kinds
<1>1. CASE GuardStep \/ AccountStep
  BY <1>1, Motions DEF GuardStep, AccountStep, Moved, Ended
<1>2. CASE \/ \E r \in Limited : Counted(r) \/ Allow(r)
           \/ IssueStep
           \/ \E r \in Revokes, k \in Issuers : Revoke(r, k)
  BY <1>2, Motions DEF IssueStep, Moved, Ended
<1>3. CASE \/ \E r \in Calls \union Panels : Serve(r)
           \/ \E r \in Requests : Fail(r)
  BY <1>3, Motions DEF Moved
<1>4. CASE UNCHANGED at
  BY <1>4 DEF TypeOK, Places
<1> QED BY <1>1, <1>2, <1>3, <1>4
        DEF Next, Counted, GuardStep, IssueStep, AccountStep, TokenExpires, MinuteEnds, vars

LEMMA TypeInductive ==
  ASSUME TypeOK, WhoInv, [Next]_vars
  PROVE  TypeOK'
<1> USE AccessAssumption, AtTyped DEF TypeOK, Places
<1>1. CASE UNCHANGED vars
  BY <1>1 DEF vars, limiter, rows
<1>2. ASSUME NEW r \in Limited, Counted(r) PROVE TypeOK'
  <2>1. PICK bearer \in Bearers \union {None} : Increment(r, bearer)
    BY <1>2 DEF Counted
  <2>2. BucketOf(r, bearer) \in Buckets
    BY DEF BucketOf, Buckets
  <2>3. usage[BucketOf(r, bearer)][minute] + 1 \in Nat
    BY <2>2
  <2> QED BY <2>1, <2>2, <2>3 DEF Increment, rows
<1>3. ASSUME NEW r \in Limited, Allow(r) PROVE TypeOK'
  BY <1>3 DEF Allow, limiter, rows
<1>4. ASSUME NEW r \in Guarded, NEW k \in Issuers, PresentKey(r, k)
      PROVE  TypeOK'
  BY <1>4 DEF PresentKey, limiter, rows
<1>5. ASSUME NEW r \in Guarded, FindKey(r) PROVE TypeOK'
  BY <1>5 DEF FindKey, limiter, rows
<1>6. ASSUME NEW r \in Guarded, FindTenant(r) PROVE TypeOK'
  BY <1>6 DEF FindTenant, limiter, rows
<1>7. ASSUME NEW r \in Panels, NEW l \in Logins, PresentToken(r, l)
      PROVE  TypeOK'
  BY <1>7, Kinds DEF PresentToken, limiter, rows
<1>8. ASSUME NEW r \in Registers, SaveTenant(r) PROVE TypeOK'
  BY <1>8, Kinds DEF SaveTenant, limiter
<1>9. ASSUME NEW r \in Issuers, NEW from \in {"issue", "handle"}, Issue(r, from),
             who[r] \in tenants
      PROVE  TypeOK'
  BY <1>9 DEF Issue, TenantOf, limiter
<1>10. ASSUME NEW r \in Revokes, NEW k \in Issuers, Revoke(r, k) PROVE TypeOK'
  BY <1>10 DEF Revoke, Revocable, limiter
<1>11. ASSUME NEW r \in Creates, NEW e \in Emails, CreateUser(r, e) PROVE TypeOK'
  BY <1>11 DEF CreateUser, limiter
<1>12. ASSUME NEW r \in Logins, NEW u \in Creates, Login(r, u) PROVE TypeOK'
  BY <1>12, Kinds DEF Login, limiter, rows
<1>13. CASE OtherStep
  BY <1>13 DEF OtherStep, Serve, Fail, TokenExpires, MinuteEnds, limiter, rows, Minutes
<1>14. ASSUME NEW r \in Registers, Issue(r, "issue") PROVE who[r] \in tenants
  <2>1. at[r] = "issue"  BY <1>14 DEF Issue, Finish, Broken, Goto
  <2> QED BY <2>1, Kinds DEF WhoInv
<1>15. ASSUME NEW r \in Rotates, Issue(r, "handle") PROVE who[r] \in tenants
  <2>1. at[r] = "handle"  BY <1>15 DEF Issue, Finish, Broken, Goto
  <2> QED BY <2>1, Kinds DEF WhoInv
<1> QED BY <1>1, <1>2, <1>3, <1>4, <1>5, <1>6, <1>7, <1>8, <1>9, <1>10, <1>11, <1>12, <1>13,
           <1>14, <1>15, Kinds DEF Next, Counted, OtherStep

-----------------------------------------------------------------------------
(* What no step undoes. *)

Over == {"answered", "refused", "failed"}

LEMMA OverStays ==
  ASSUME TypeOK, Next
  PROVE  \A q \in Requests : at[q] \in Over => at'[q] = at[q]
<1> USE Kinds
<1>1. CASE GuardStep \/ AccountStep
  BY <1>1, Motions DEF GuardStep, AccountStep, Moved, Ended, Over
<1>2. CASE \/ \E r \in Limited : Counted(r) \/ Allow(r)
           \/ IssueStep
           \/ \E r \in Revokes, k \in Issuers : Revoke(r, k)
  <2>1. ASSUME NEW r \in Issuers, NEW from \in {"issue", "handle"}, Issue(r, from)
        PROVE  Ended(r, from) /\ from \notin Over
    BY <2>1, Motions DEF Over
  <2> QED BY <1>2, <2>1, Motions DEF IssueStep, Moved, Ended, Over
<1>3. CASE \/ \E r \in Calls \union Panels : Serve(r)
           \/ \E r \in Requests : Fail(r)
  BY <1>3, Motions DEF Moved, Over
<1>4. CASE UNCHANGED at
  BY <1>4
<1> QED BY <1>1, <1>2, <1>3, <1>4
        DEF Next, Counted, GuardStep, IssueStep, AccountStep, TokenExpires, MinuteEnds

LEMMA IssuedOnce ==
  ASSUME TypeOK, KeyInv, NEW r \in Issuers, NEW from \in {"issue", "handle"}, Issue(r, from)
  PROVE  keys[r] = "none" /\ keys' = [keys EXCEPT ![r] = "live"]
<1>1. Ended(r, from)
  BY Motions
<1> QED BY <1>1 DEF Moved, Ended, KeyInv, TypeOK, Issue

LEMMA RowsStay ==
  ASSUME TypeOK, KeyInv, Next
  PROVE  /\ \A k \in Issuers : /\ keys[k] = "revoked" => keys'[k] = "revoked"
                               /\ keys[k] # "none" => keys'[k] # "none"
         /\ tenants \subseteq tenants' /\ expired \subseteq expired'
<1> USE DEF limiter, rows
<1>1. ASSUME NEW r \in Issuers, NEW from \in {"issue", "handle"}, Issue(r, from)
      PROVE  /\ \A k \in Issuers : /\ keys[k] = "revoked" => keys'[k] = "revoked"
                                   /\ keys[k] # "none" => keys'[k] # "none"
             /\ UNCHANGED <<tenants, expired>>
  <2>1. UNCHANGED <<tenants, expired>>  BY <1>1 DEF Issue
  <2> QED BY <1>1, <2>1, IssuedOnce DEF TypeOK
<1>2. CASE \/ \E r \in Limited : Counted(r) \/ Allow(r)
           \/ GuardStep \/ AccountStep \/ OtherStep
           \/ \E r \in Registers : SaveTenant(r)
  BY <1>2 DEF Counted, Increment, Allow, GuardStep, PresentKey, FindKey, FindTenant, PresentToken,
              AccountStep, CreateUser, Login, OtherStep, Serve, Fail, TokenExpires, MinuteEnds,
              SaveTenant
<1>3. CASE \E r \in Revokes, k \in Issuers : Revoke(r, k)
  BY <1>3 DEF Revoke, TypeOK
<1> QED BY <1>1, <1>2, <1>3, Kinds DEF Next, Counted, GuardStep, AccountStep, OtherStep

LEMMA CredStays ==
  ASSUME TypeOK, Next
  PROVE  \A r \in Guarded : at[r] # "start" => cred'[r] = cred[r]
<1> USE Kinds DEF limiter, rows
<1>1. ASSUME NEW r \in Guarded, NEW k \in Issuers, PresentKey(r, k)
      PROVE  \A q \in Guarded : at[q] # "start" => cred'[q] = cred[q]
  BY <1>1 DEF PresentKey, Goto, TypeOK
<1>2. ASSUME NEW r \in Panels, NEW l \in Logins, PresentToken(r, l)
      PROVE  \A q \in Guarded : at[q] # "start" => cred'[q] = cred[q]
  BY <1>2 DEF PresentToken, Goto, TypeOK
<1>3. CASE UNCHANGED cred
  BY <1>3
<1> QED BY <1>1, <1>2, <1>3
        DEF Next, Counted, Increment, Allow, FindKey, FindTenant, SaveTenant, Issue, Revoke,
            CreateUser,
            Login, Serve, Fail, TokenExpires, MinuteEnds

-----------------------------------------------------------------------------
(* The rate limit. *)

\* The other steps count nothing, and let only counted requests through.
LEMMA CountKept ==
  ASSUME TypeOK, Next, \A r \in Limited : ~Counted(r)
  PROVE  /\ UNCHANGED <<usage, bucket, window, count>>
         /\ \A r \in Limited : /\ at'[r] = "start" <=> at[r] = "start"
                               /\ at'[r] \in Handled => at[r] \in Handled \/ count[r] <= Limit
<1> USE Kinds
<1>1. UNCHANGED <<usage, bucket, window, count>>
  BY DEF Next, Counted, Allow, PresentKey, FindKey, FindTenant, PresentToken, SaveTenant, Issue,
         Revoke, CreateUser, Login, Serve, Fail, TokenExpires, MinuteEnds, limiter
<1> DEFINE Only == \A r \in Limited :
                     /\ at'[r] = "start" <=> at[r] = "start"
                     /\ at'[r] \in Handled => at[r] \in Handled \/ count[r] <= Limit
<1>2. ASSUME NEW r \in Guarded, \A q \in Requests \ {r} : at'[q] = at[q]
      PROVE  Only
  BY <1>2
<1>3. ASSUME NEW r \in Limited, Allow(r) PROVE Only
  BY <1>3, Motions DEF Moved, Handled
<1>4. ASSUME NEW r \in Limited, NEW from \in {"handle", "issue"}, NEW to \in Places \ {"start"},
             Moved(r, from, to)
      PROVE  Only
  BY <1>4 DEF Moved, Handled
<1>5. ASSUME NEW r \in Requests, Fail(r) PROVE Only
  BY <1>5, Motions DEF Moved, Handled
<1>6. CASE GuardStep
  BY <1>1, <1>2, <1>6, Motions DEF GuardStep, Moved
<1>7. CASE AccountStep
  <2>1. ASSUME NEW r \in Creates, NEW e \in Emails, CreateUser(r, e) PROVE Only
    BY <1>2, <2>1, Motions DEF Moved, Ended
  <2>2. ASSUME NEW r \in Logins, NEW u \in Creates, Login(r, u) PROVE Only
    <3>1. "answered" \in Places \ {"start"} /\ "refused" \in Places \ {"start"}
      BY DEF Places
    <3> QED BY <1>4, <2>2, <3>1, Motions
  <2> QED BY <1>1, <1>7, <2>1, <2>2 DEF AccountStep
<1>8. CASE IssueStep
  <2>1. ASSUME NEW r \in Rotates, Issue(r, "handle") PROVE Only
    BY <1>2, <2>1, Motions DEF Moved, Ended
  <2>2. ASSUME NEW r \in Registers, SaveTenant(r) \/ Issue(r, "issue") PROVE Only
    <3>1. "issue" \in Places \ {"start"} /\ "answered" \in Places \ {"start"}
          /\ "failed" \in Places \ {"start"}
      BY DEF Places
    <3> QED BY <1>4, <2>2, <3>1, Motions DEF Ended
  <2> QED BY <1>1, <1>8, <2>1, <2>2 DEF IssueStep
<1>9. CASE \/ \E r \in Revokes, k \in Issuers : Revoke(r, k)
           \/ \E r \in Calls \union Panels : Serve(r)
  BY <1>1, <1>2, <1>9, Motions DEF Moved, Ended
<1>10. CASE UNCHANGED at
  BY <1>1, <1>10
<1> QED BY <1>1, <1>3, <1>5, <1>6, <1>7, <1>8, <1>9, <1>10
        DEF Next, Counted, GuardStep, IssueStep, AccountStep, TokenExpires, MinuteEnds

LEMMA CountInductive ==
  ASSUME TypeOK, CountInv, [Next]_vars
  PROVE  CountInv'
<1>1. CASE UNCHANGED vars
  BY <1>1 DEF vars, limiter, CountInv
<1>2. ASSUME NEW r \in Limited, Counted(r) PROVE CountInv'
  <2>1. Moved(r, "start", "counted") /\ r \in Requests
    BY <1>2, Motions, Kinds
  <2>2. PICK bearer \in Bearers \union {None} : Increment(r, bearer)
    BY <1>2 DEF Counted
  <2> DEFINE b == BucketOf(r, bearer)
             n == usage[b][minute] + 1
  <2>3. b \in Buckets /\ minute \in Minutes
    BY AccessAssumption DEF TypeOK, BucketOf, Buckets
  <2>4. n \in Nat \ {0} /\ n = usage[b][minute] + 1
    BY <2>3 DEF TypeOK
  <2>5. /\ usage' = [usage EXCEPT ![b][minute] = n]
        /\ count'[r] = n /\ window'[r] = minute /\ bucket'[r] = b
    BY <2>2 DEF Increment, TypeOK
  <2>6. \A q \in Limited \ {r} : /\ count'[q] = count[q] /\ window'[q] = window[q]
                                 /\ bucket'[q] = bucket[q]
    BY <2>2 DEF Increment, TypeOK
  <2>7. at'[r] = "counted" /\ \A q \in Limited \ {r} : at'[q] = at[q]
    BY <2>1, Kinds DEF Moved
  <2>8. \A q \in Limited : window[q] \in Minutes /\ count[q] \in Nat
    BY DEF TypeOK
  <2> HIDE DEF b, n
  <2>9. \A d \in Buckets, m \in Minutes :
          /\ usage[d][m] \in Nat
          /\ usage'[d][m] = IF d = b /\ m = minute THEN n ELSE usage[d][m]
    BY <2>3, <2>4, <2>5 DEF TypeOK
  <2>10. usage'[b][minute] = n
    BY <2>3, <2>9
  <2>11. \A q \in Limited \ {r} : count[q] > 0 =>
           /\ bucket[q] \in Buckets /\ count[q] <= usage'[bucket[q]][window[q]]
           /\ bucket[q] = b /\ window[q] = minute => count[q] < n
    BY <2>3, <2>4, <2>8, <2>9 DEF CountInv
  <2>12. ASSUME NEW q \in Limited
         PROVE  /\ at'[q] = "start" => count'[q] = 0
                /\ at'[q] # "start" => /\ bucket'[q] \in Buckets /\ 0 < count'[q]
                                       /\ count'[q] <= usage'[bucket'[q]][window'[q]]
                /\ at'[q] \in Handled => count'[q] <= Limit
    <3>1. CASE q = r
      BY <2>3, <2>4, <2>5, <2>7, <2>10, <3>1 DEF Handled
    <3>2. CASE q # r
      BY <2>6, <2>7, <2>11, <3>2 DEF CountInv
    <3> QED BY <3>1, <3>2
  <2>13. ASSUME NEW p \in Limited, NEW q \in Limited, q # p, count'[p] > 0,
                bucket'[q] = bucket'[p], window'[q] = window'[p]
         PROVE  count'[q] # count'[p]
    <3>1. CASE q = r
      BY <2>4, <2>5, <2>6, <2>8, <2>11, <2>13, <3>1
    <3>2. CASE p = r
      BY <2>4, <2>5, <2>6, <2>8, <2>11, <2>13, <3>2
    <3>3. CASE q # r /\ p # r
      BY <2>6, <2>13, <3>3 DEF CountInv
    <3> QED BY <3>1, <3>2, <3>3
  <2> QED BY <2>12, <2>13 DEF CountInv
<1>3. CASE Next /\ \A r \in Limited : ~ Counted(r)
  <2>1. /\ UNCHANGED <<usage, bucket, window, count>>
        /\ \A r \in Limited : /\ at'[r] = "start" <=> at[r] = "start"
                              /\ at'[r] \in Handled => at[r] \in Handled \/ count[r] <= Limit
    BY <1>3, CountKept
  <2> QED BY <2>1 DEF CountInv
<1> QED BY <1>1, <1>2, <1>3

LEMMA Bounded ==
  ASSUME TypeOK, CountInv
  PROVE  LimitHeld
<1> SUFFICES ASSUME NEW b \in Buckets, NEW m \in Minutes
             PROVE  Cardinality({r \in Limited :
                      /\ bucket[r] = b /\ window[r] = m
                      /\ at[r] \in {"handle", "issue", "answered"}}) <= Limit
  BY DEF LimitHeld
<1> DEFINE S == {r \in Limited : /\ bucket[r] = b /\ window[r] = m
                                 /\ at[r] \in {"handle", "issue", "answered"}}
           f == [r \in S |-> count[r]]
<1>1. \A r \in S : count[r] \in 1..Limit
  BY AccessAssumption DEF CountInv, TypeOK, Handled
<1>2. \A r, q \in S : f[r] = f[q] => r = q
  BY <1>1 DEF CountInv
<1>3. f \in Injection(S, 1..Limit)
  BY <1>1, <1>2 DEF Injection, IsInjective
<1>4. IsFiniteSet(1..Limit) /\ Cardinality(1..Limit) = Limit
  BY AccessAssumption, FS_Interval
<1>5. Cardinality(S) <= Cardinality(1..Limit)
  <2> HIDE DEF S, f
  <2> QED BY <1>3, <1>4, FS_Injection
<1> QED BY <1>4, <1>5

-----------------------------------------------------------------------------
(* The tenant a request acts for. *)

LEMMA WhoInductive ==
  ASSUME TypeOK, WhoInv, KeyInv, [Next]_vars
  PROVE  WhoInv'
<1> USE Kinds DEF TypeOK, WhoInv, limiter, rows
<1>1. CASE UNCHANGED vars
  BY <1>1 DEF vars
\* Requests that were counted or looked up have nobody to act for yet.
<1>2. ASSUME UNCHANGED <<who, mail, tenants>>,
             \A r \in Registers : at'[r] \in {"issue", "answered"}
               => at[r] \in {"issue", "answered"},
             \A r \in Guarded : at'[r] \in {"handle", "answered"}
               => at[r] \in {"handle", "answered"},
             \A l \in Logins : at'[l] = "answered" => at[l] = "answered"
      PROVE  WhoInv'
  BY <1>2
<1>3. ASSUME NEW r \in Limited, Counted(r) \/ Allow(r) PROVE WhoInv'
  <2>1. \E to \in {"counted", "handle", "refused"} :
          Moved(r, "start", to) \/ Moved(r, "counted", to)
    BY <1>3, Motions
  <2> QED BY <1>2, <1>3, <2>1 DEF Moved, Counted, Increment, Allow
<1>4. ASSUME NEW r \in Guarded, \/ \E k \in Issuers : PresentKey(r, k)
                                \/ FindKey(r)
                                \/ r \in Panels /\ \E l \in Logins : PresentToken(r, l)
      PROVE  WhoInv'
  <2>1. \E to \in {"lookup", "tenant", "refused"} :
          Moved(r, "start", to) \/ Moved(r, "lookup", to)
    BY <1>4, Motions
  <2> QED BY <1>2, <1>4, <2>1 DEF Moved, PresentKey, FindKey, PresentToken
<1>5. ASSUME NEW r \in Guarded, FindTenant(r) PROVE WhoInv'
  <2>1. \/ Claimed(r) \in tenants /\ Moved(r, "tenant", "handle") /\ who' = [who EXCEPT ![r] = Claimed(r)]
        \/ Moved(r, "tenant", "refused") /\ who' = who
    BY <1>5, Motions DEF FindTenant
  <2>2. UNCHANGED <<mail, tenants>>
    BY <1>5 DEF FindTenant
  <2>3. CASE Moved(r, "tenant", "refused") /\ who' = who
    BY <1>2, <2>2, <2>3 DEF Moved
  <2>4. ASSUME NEW t \in tenants, Moved(r, "tenant", "handle"), who' = [who EXCEPT ![r] = t]
        PROVE  WhoInv'
    BY <2>2, <2>4 DEF Moved
  <2> QED BY <2>1, <2>3, <2>4
<1>6. ASSUME NEW r \in Registers, SaveTenant(r) PROVE WhoInv'
  <2>1. Moved(r, "handle", "issue")
    BY <1>6, Motions
  <2> QED BY <1>6, <2>1 DEF Moved, SaveTenant
<1>7. ASSUME NEW r \in Issuers, NEW from \in {"issue", "handle"}, Issue(r, from),
             r \in Registers => from = "issue", r \in Rotates => from = "handle"
      PROVE  WhoInv'
  <2>1. Ended(r, from)
    BY <1>7, Motions
  <2>2. r \in Registers \/ r \in Rotates
    BY DEF Issuers
  <2> QED BY <1>2, <1>7, <2>1, <2>2 DEF Moved, Ended, Issue
<1>8. ASSUME NEW r \in Revokes, NEW k \in Issuers, Revoke(r, k) PROVE WhoInv'
  <2>1. Ended(r, "handle") \/ Moved(r, "handle", "refused")
    BY <1>8, Motions
  <2> QED BY <1>2, <1>8, <2>1 DEF Moved, Ended, Revoke
<1>9. ASSUME NEW r \in Creates, NEW e \in Emails, CreateUser(r, e) PROVE WhoInv'
  <2>1. Ended(r, "handle")
    BY <1>9, Motions DEF Ended
  <2>2. who[r] # None
    BY <2>1 DEF Ended, Moved
  <2>3. UNCHANGED <<who, tenants>> /\ mail' = [mail EXCEPT ![r] = e]
    BY <1>9 DEF CreateUser
  <2> QED BY <2>1, <2>2, <2>3 DEF Moved, Ended
<1>10. ASSUME NEW r \in Logins, NEW u \in Creates, Login(r, u) PROVE WhoInv'
  <2>1. \/ Moved(r, "handle", "answered") /\ who' = [who EXCEPT ![r] = who[u]]
        \/ Moved(r, "handle", "refused") /\ who' = who
    BY <1>10, Motions DEF Login, verifyPassword
  <2>2. mail[u] # None /\ mail' = [mail EXCEPT ![r] = mail[u]] /\ UNCHANGED tenants
    BY <1>10 DEF Login
  <2>3. who[u] \in tenants
    BY <2>2
  <2>4. r \in Requests /\ r \notin Guarded /\ r \notin Registers /\ r \notin Creates
    OBVIOUS
  <2>5. /\ \A q \in Requests \ {r} : who'[q] = who[q] /\ at'[q] = at[q]
        /\ \A q \in Creates : mail'[q] = mail[q]
    BY <2>1, <2>2, <2>4 DEF Moved
  <2>6. who'[r] \in tenants \union {None} /\ (at'[r] = "answered" => who'[r] # None)
    BY <2>1, <2>3, <2>4 DEF Moved
  <2> QED BY <2>2, <2>4, <2>5, <2>6
<1>11. CASE OtherStep
  <2>1. UNCHANGED <<who, mail, tenants>>
    BY <1>11 DEF OtherStep, Serve, Fail, TokenExpires, MinuteEnds
  <2>2. ASSUME NEW r \in Calls \union Panels, Serve(r) PROVE WhoInv'
    <3>1. Moved(r, "handle", "answered")
      BY <2>2, Motions
    <3> QED BY <1>2, <2>1, <3>1 DEF Moved
  <2>3. ASSUME NEW r \in Requests, Fail(r) PROVE WhoInv'
    <3>1. \E from \in Places : Moved(r, from, "failed")
      BY <2>3, Motions
    <3> QED BY <1>2, <2>1, <3>1 DEF Moved
  <2>4. CASE UNCHANGED at
    BY <1>2, <2>1, <2>4
  <2> QED BY <1>11, <2>2, <2>3, <2>4 DEF OtherStep, TokenExpires, MinuteEnds
<1> QED BY <1>1, <1>3, <1>4, <1>5, <1>6, <1>7, <1>8, <1>9, <1>10, <1>11 DEF Next, Counted, OtherStep

-----------------------------------------------------------------------------
(* Keys. *)

LEMMA KeyInductive ==
  ASSUME TypeOK, KeyInv, [Next]_vars
  PROVE  KeyInv'
<1> USE Kinds
<1>1. CASE UNCHANGED vars
  BY <1>1 DEF vars, limiter, rows, KeyInv
\* What a guard has in hand stays good.
<1>2. ASSUME Next, NEW r \in Guarded, at[r] \in {"lookup", "tenant"}
      PROVE  /\ cred'[r] = cred[r] /\ cred[r] \in Issuers \union Logins
             /\ at'[cred[r]] = "answered"
             /\ at[r] = "lookup" => cred[r] \in Issuers
  BY <1>2, OverStays, CredStays DEF KeyInv, Over, Limited
<1>3. ASSUME Next, UNCHANGED keys,
             \A k \in Issuers : at'[k] = "answered" => at[k] = "answered",
             \A r \in Guarded : at'[r] \in {"lookup", "tenant"} => at'[r] = at[r]
      PROVE  KeyInv'
  BY <1>2, <1>3, OverStays DEF KeyInv, Over
<1>4. ASSUME Next, NEW r \in Limited, Counted(r) \/ Allow(r) PROVE KeyInv'
  <2>1. \E to \in {"counted", "handle", "refused"} :
          Moved(r, "start", to) \/ Moved(r, "counted", to)
    BY <1>4, Motions DEF TypeOK
  <2> QED BY <1>3, <1>4, <2>1 DEF Moved, Counted, Increment, Allow, rows
<1>5. ASSUME Next, NEW r \in Guarded, NEW k \in Issuers, PresentKey(r, k) PROVE KeyInv'
  <2>1. Moved(r, "start", "lookup")
    BY <1>5, Motions
  <2>2. UNCHANGED keys /\ cred' = [cred EXCEPT ![r] = k] /\ at[k] = "answered"
    BY <1>5 DEF PresentKey, rows
  <2>3. cred'[r] = k /\ \A q \in Guarded \ {r} : cred'[q] = cred[q]
    BY <2>2 DEF TypeOK
  <2>4. at'[k] = "answered" /\ k \in Issuers
    BY <1>5, <2>1, <2>2, Kinds DEF Moved
  <2> QED BY <1>2, <1>5, <2>1, <2>2, <2>3, <2>4, OverStays DEF KeyInv, Moved, TypeOK
<1>6. ASSUME Next, NEW r \in Guarded, FindKey(r) PROVE KeyInv'
  <2>1. Moved(r, "lookup", "tenant") \/ Moved(r, "lookup", "refused")
    BY <1>6, Motions
  <2>2. UNCHANGED keys
    BY <1>6 DEF FindKey, rows
  <2> QED BY <1>2, <1>6, <2>1, <2>2, OverStays DEF KeyInv, Moved
<1>7. ASSUME Next, NEW r \in Guarded, FindTenant(r) PROVE KeyInv'
  <2>1. Moved(r, "tenant", "handle") \/ Moved(r, "tenant", "refused")
    BY <1>7, Motions
  <2> QED BY <1>3, <1>7, <2>1 DEF FindTenant, rows, Moved
<1>8. ASSUME Next, NEW r \in Panels, NEW l \in Logins, PresentToken(r, l) PROVE KeyInv'
  <2>1. Moved(r, "start", "refused") \/ Moved(r, "start", "tenant")
    BY <1>8, Motions
  <2>2. UNCHANGED keys /\ cred' = [cred EXCEPT ![r] = l] /\ at[l] = "answered"
    BY <1>8 DEF PresentToken, rows
  <2> QED BY <1>2, <1>8, <2>1, <2>2, OverStays DEF KeyInv, Moved, TypeOK
<1>9. ASSUME Next, NEW r \in Registers, SaveTenant(r) PROVE KeyInv'
  <2>1. Moved(r, "handle", "issue")
    BY <1>9, Motions
  <2> QED BY <1>3, <1>9, <2>1 DEF Moved, SaveTenant
<1>10. ASSUME Next, NEW r \in Issuers, NEW from \in {"issue", "handle"}, Issue(r, from)
       PROVE  KeyInv'
  <2>1. Ended(r, from) /\ keys' = [keys EXCEPT ![r] = "live"]
    BY <1>10, Motions, IssuedOnce
  <2> QED BY <1>2, <1>10, <2>1, OverStays DEF KeyInv, Moved, Ended, TypeOK
<1>11. ASSUME Next, NEW r \in Revokes, NEW k \in Issuers, Revoke(r, k) PROVE KeyInv'
  <2>1. Ended(r, "handle") \/ Moved(r, "handle", "refused")
    BY <1>11, Motions
  <2>2. \A i \in Issuers : keys'[i] = "none" <=> keys[i] = "none"
    BY <1>11 DEF Revoke, Revocable, TypeOK
  <2>3. \A i \in Issuers : at'[i] = at[i]
    BY <2>1 DEF Moved, Ended, Issuers
  <2>4. \A q \in Guarded : at'[q] \in {"lookup", "tenant"} => at'[q] = at[q]
    BY <2>1 DEF Moved, Ended
  <2> QED BY <1>2, <1>11, <2>2, <2>3, <2>4 DEF KeyInv
<1>12. ASSUME Next, NEW r \in Creates \union Logins \union Calls \union Panels, NEW to \in Places,
              Moved(r, "handle", to), to \in Over, UNCHANGED keys
       PROVE  KeyInv'
  BY <1>3, <1>12 DEF Moved, Over, Issuers
<1>13. CASE AccountStep /\ Next
  BY <1>12, <1>13, Motions DEF AccountStep, CreateUser, Login, rows, Ended, Over, Places
<1>14. CASE OtherStep /\ Next
  <2>1. UNCHANGED keys
    BY <1>14 DEF OtherStep, Serve, Fail, TokenExpires, MinuteEnds, rows
  <2>2. ASSUME NEW r \in Requests, Fail(r) PROVE KeyInv'
    <3>1. \E from \in Places : Moved(r, from, "failed")
      BY <2>2, Motions
    <3> QED BY <1>3, <1>14, <2>1, <3>1 DEF Moved
  <2>3. ASSUME NEW r \in Calls \union Panels, Serve(r) PROVE KeyInv'
    BY <1>12, <1>14, <2>1, <2>3, Motions DEF Over, Places
  <2>4. CASE UNCHANGED at
    BY <1>3, <1>14, <2>1, <2>4
  <2> QED BY <1>14, <2>2, <2>3, <2>4 DEF OtherStep, TokenExpires, MinuteEnds
<1> QED BY <1>1, <1>4, <1>5, <1>6, <1>7, <1>8, <1>9, <1>10, <1>11, <1>13, <1>14
        DEF Next, Counted, AccountStep, OtherStep

\* Only its own guard turns such a request away.
LEMMA TurnedAway ==
  ASSUME TypeOK, Next, NEW r \in Guarded \ Revokes, at'[r] = "refused", at[r] # "refused"
  PROVE  \/ FindKey(r) \/ FindTenant(r)
         \/ \E l \in Logins : PresentToken(r, l) /\ l \in expired
<1> USE Kinds
<1> DEFINE Turned == \/ FindKey(r) \/ FindTenant(r)
                     \/ \E l \in Logins : PresentToken(r, l) /\ l \in expired
<1>1. ASSUME NEW q \in Requests \ {r}, \A p \in Requests \ {q} : at'[p] = at[p] PROVE FALSE
  BY <1>1
<1>2. ASSUME NEW q \in Guarded, NEW k \in Issuers, PresentKey(q, k) PROVE FALSE
  BY <1>1, <1>2, Motions DEF Moved
<1>3. ASSUME NEW q \in Guarded, FindKey(q) \/ FindTenant(q) PROVE Turned
  <2>1. \E from \in Places, to \in Places : Moved(q, from, to)
    BY <1>3, Motions DEF Places
  <2> QED BY <1>1, <1>3, <2>1 DEF Moved
<1>4. ASSUME NEW q \in Panels, NEW l \in Logins, PresentToken(q, l) PROVE Turned
  <2>1. \/ l \in expired /\ Moved(q, "start", "refused")
        \/ l \notin expired /\ Moved(q, "start", "tenant")
    BY <1>4, Motions
  <2> QED BY <1>1, <1>4, <2>1 DEF Moved
<1>5. ASSUME NEW q \in Limited, Counted(q) \/ Allow(q) PROVE FALSE
  BY <1>1, <1>5, Motions DEF Moved
<1>6. ASSUME NEW q \in Registers, SaveTenant(q) PROVE FALSE
  BY <1>1, <1>6, Motions DEF Moved
<1>7. ASSUME NEW q \in Issuers, NEW from, Issue(q, from) PROVE FALSE
  BY <1>1, <1>7, Motions DEF Moved, Ended
<1>8. ASSUME NEW q \in Revokes, NEW k \in Issuers, Revoke(q, k) PROVE FALSE
  BY <1>1, <1>8, Motions DEF Moved, Ended
<1>9. ASSUME NEW q \in Creates, NEW e \in Emails, CreateUser(q, e) PROVE FALSE
  BY <1>1, <1>9, Motions DEF Moved, Ended
<1>10. ASSUME NEW q \in Logins, NEW u \in Creates, Login(q, u) PROVE FALSE
  BY <1>1, <1>10, Motions DEF Moved
<1>11. ASSUME NEW q \in Calls \union Panels, Serve(q) PROVE FALSE
  BY <1>1, <1>11, Motions DEF Moved
<1>12. ASSUME NEW q \in Requests, Fail(q) PROVE FALSE
  <2>1. \E from \in Places : Moved(q, from, "failed")
    BY <1>12, Motions
  <2> QED BY <1>1, <2>1 DEF Moved
<1>13. CASE UNCHANGED at
  BY <1>13
<1> HIDE DEF Turned
<1>14. Turned
  BY <1>2, <1>3, <1>4, <1>5, <1>6, <1>7, <1>8, <1>9, <1>10, <1>11, <1>12, <1>13
  DEF Next, Counted, TokenExpires, MinuteEnds
<1> QED BY <1>14 DEF Turned

\* The tenant of a key or token that was answered is there to be found.
LEMMA TenantFound ==
  ASSUME TypeOK, WhoInv, KeyInv, NEW r \in Guarded, at[r] = "tenant"
  PROVE  Claimed(r) \in tenants
<1>1. cred[r] \in Issuers \union Logins /\ at[cred[r]] = "answered"
  BY DEF KeyInv
<1>2. CASE cred[r] \in Issuers
  BY <1>1, <1>2 DEF KeyInv, TypeOK, Claimed
<1>3. CASE cred[r] \in Logins
  <2>1. cred[r] \notin Issuers
    BY <1>3, Kinds
  <2> QED BY <1>1, <1>3, <2>1, Kinds DEF WhoInv, Claimed
<1> QED BY <1>1, <1>2, <1>3

LEMMA WorksInductive ==
  ASSUME TypeOK, WhoInv, KeyInv, KeyWorks, [Next]_vars
  PROVE  KeyWorks'
<1> USE Kinds
<1>1. CASE UNCHANGED vars
  BY <1>1 DEF vars, limiter, rows, KeyWorks
<1>2. CASE Next
  <2> SUFFICES ASSUME NEW r \in Guarded \ Revokes, at'[r] = "refused"
               PROVE  IF cred'[r] \in Issuers THEN keys'[cred'[r]] = "revoked"
                      ELSE cred'[r] \in expired'
    BY DEF KeyWorks
  <2>1. CASE at[r] = "refused"
    BY <1>2, <2>1, CredStays, RowsStay DEF KeyWorks
  <2>2. CASE FindKey(r)
    <3>1. Moved(r, "lookup", "refused") /\ keys[cred[r]] # "live" /\ UNCHANGED <<cred, keys>>
      BY <2>2, Motions DEF FindKey, rows, Moved
    <3>2. cred[r] \in Issuers /\ keys[cred[r]] # "none"
      BY <3>1 DEF KeyInv, Moved
    <3> QED BY <3>1, <3>2 DEF TypeOK
  <2>3. CASE FindTenant(r)
    <3>1. Moved(r, "tenant", "refused") /\ Claimed(r) \notin tenants
      BY <2>3, Motions DEF Moved
    <3> QED BY <3>1, TenantFound DEF Moved
  <2>4. ASSUME NEW l \in Logins, PresentToken(r, l), l \in expired
        PROVE  cred'[r] \notin Issuers /\ cred'[r] \in expired'
    BY <2>4 DEF PresentToken, TypeOK
  <2> QED BY <1>2, <2>1, <2>2, <2>3, <2>4, TurnedAway
<1> QED BY <1>1, <1>2

-----------------------------------------------------------------------------
(* Late requests. *)

LEMMA LateInductive ==
  ASSUME TypeOK, KeyInv, LateInv, [Next]_vars
  PROVE  LateInv'
<1> USE Kinds
<1>1. CASE UNCHANGED vars
  BY <1>1 DEF vars, limiter, rows, LateInv
\* A late request that moves, moves out.
<1>2. ASSUME Next, NEW r \in late, at'[r] = at[r] \/ at'[r] \in {"refused", "failed"}
      PROVE  /\ at'[r] \in {"lookup", "refused", "failed"}
             /\ at'[r] = "lookup" => keys'[cred'[r]] = "revoked"
  <2>1. r \in Guarded
    BY DEF TypeOK
  <2>2. at[r] = "lookup" => cred[r] \in Issuers
    BY <2>1 DEF KeyInv
  <2> QED BY <1>2, <2>1, <2>2, CredStays, RowsStay DEF LateInv
<1>3. ASSUME Next, UNCHANGED late,
             \A r \in Guarded : at[r] \in {"lookup", "refused", "failed"} =>
               \/ at'[r] = at[r] \/ at'[r] \in {"refused", "failed"}
               \/ at[r] = "lookup" /\ keys[cred[r]] = "live"
      PROVE  LateInv'
  BY <1>2, <1>3 DEF LateInv, TypeOK
<1>4. ASSUME NEW r \in Requests, NEW from \in Places, NEW to \in Places, Moved(r, from, to),
             from \in Places \ {"lookup", "refused", "failed"} \/ to \in {"refused", "failed"}
      PROVE  \A q \in Guarded : at[q] \in {"lookup", "refused", "failed"} =>
               \/ at'[q] = at[q] \/ at'[q] \in {"refused", "failed"}
               \/ at[q] = "lookup" /\ keys[cred[q]] = "live"
  BY <1>4 DEF Moved
<1>5. {"start", "counted", "tenant", "handle", "issue"} \subseteq Places \ {"lookup", "refused",
    "failed"}
      /\ {"counted", "lookup", "tenant", "handle", "issue", "answered", "refused", "failed"}
           \subseteq Places
  BY DEF Places
<1>6. ASSUME Next, NEW r \in Guarded, NEW k \in Issuers, PresentKey(r, k) PROVE LateInv'
  <2>1. Moved(r, "start", "lookup") /\ r \notin late
    BY <1>6, Motions DEF Moved, LateInv
  <2>2. cred' = [cred EXCEPT ![r] = k] /\ UNCHANGED keys
        /\ late' = IF keys[k] = "revoked" THEN late \union {r} ELSE late
    BY <1>6 DEF PresentKey, rows
  <2>3. ASSUME NEW q \in late, q # r PROVE at'[q] = at[q]
    BY <2>1, <2>3 DEF Moved, TypeOK
  <2>4. ASSUME r \in late' PROVE at'[r] = "lookup" /\ keys'[cred'[r]] = "revoked"
    BY <2>1, <2>2, <2>4 DEF Moved, TypeOK
  <2> QED BY <1>2, <1>6, <2>1, <2>2, <2>3, <2>4 DEF LateInv
<1>7. ASSUME Next, NEW r \in Panels, NEW l \in Logins, PresentToken(r, l) PROVE LateInv'
  <2>1. /\ \/ l \in expired /\ Moved(r, "start", "refused")
           \/ l \notin expired /\ Moved(r, "start", "tenant")
        /\ r \notin late
    BY <1>7, Motions DEF Moved, LateInv
  <2>2. late' = IF l \in expired THEN late \union {r} ELSE late
    BY <1>7 DEF PresentToken
  <2>3. ASSUME NEW q \in late, q # r PROVE at'[q] = at[q]
    BY <2>1, <2>3 DEF Moved, TypeOK
  <2> QED BY <1>2, <1>7, <2>1, <2>2, <2>3 DEF LateInv, Moved
<1>8. ASSUME Next, NEW r \in Guarded, FindKey(r) PROVE LateInv'
  <2>1. \/ keys[cred[r]] = "live" /\ Moved(r, "lookup", "tenant")
        \/ Moved(r, "lookup", "refused")
    BY <1>8, Motions
  <2>2. UNCHANGED late
    BY <1>8 DEF FindKey
  <2> QED BY <1>3, <1>8, <2>1, <2>2 DEF Moved
<1>9. CASE Next /\ UNCHANGED at /\ UNCHANGED late
  BY <1>3, <1>9
<1>10. ASSUME Next, NEW r \in Limited, Counted(r) \/ Allow(r) PROVE LateInv'
  BY <1>3, <1>4, <1>5, <1>10, Motions DEF Counted, Increment, Allow
<1>11. ASSUME Next, NEW r \in Guarded, FindTenant(r) PROVE LateInv'
  BY <1>3, <1>4, <1>5, <1>11, Motions DEF FindTenant
<1>12. ASSUME Next, NEW r \in Issuers, NEW from \in {"issue", "handle"},
              (SaveTenant(r) /\ r \in Registers) \/ Issue(r, from)
       PROVE  LateInv'
  BY <1>3, <1>4, <1>5, <1>12, Motions DEF SaveTenant, Issue, Ended
<1>13. ASSUME Next, NEW r \in Revokes, NEW k \in Issuers, Revoke(r, k) PROVE LateInv'
  BY <1>3, <1>4, <1>5, <1>13, Motions DEF Revoke, Ended
<1>14. ASSUME Next, NEW r \in Creates, NEW e \in Emails, CreateUser(r, e) PROVE LateInv'
  BY <1>3, <1>4, <1>5, <1>14, Motions DEF CreateUser, Ended
<1>15. ASSUME Next, NEW r \in Logins, NEW u \in Creates, Login(r, u) PROVE LateInv'
  BY <1>3, <1>4, <1>5, <1>15, Motions DEF Login
<1>16. ASSUME Next, NEW r \in Requests, (r \in Calls \union Panels /\ Serve(r)) \/ Fail(r)
       PROVE  LateInv'
  BY <1>3, <1>4, <1>5, <1>16, Motions DEF Serve, Fail
<1> QED BY <1>1, <1>6, <1>7, <1>8, <1>9, <1>10, <1>11, <1>12, <1>13, <1>14, <1>15, <1>16
        DEF Next, Counted, TokenExpires, MinuteEnds

-----------------------------------------------------------------------------
(* Accounts and emails. *)

\* The steps that are neither of accounts nor of guards leave them alone.
LEMMA AccountKept ==
  ASSUME TypeOK, AccountInv, Next,
         ~(\E r \in Creates, e \in Emails : CreateUser(r, e)),
         ~(\E r \in Logins, u \in Creates : Login(r, u))
  PROVE  /\ UNCHANGED <<users, mail>>
         /\ \A r \in Requests : at[r] \in Over => who'[r] = who[r]
         /\ \A r \in Creates \union Logins : at'[r] = "answered" => at[r] = "answered"
<1> USE Kinds DEF limiter, rows
<1>1. UNCHANGED <<users, mail>>
  BY DEF Next, Counted, Increment, Allow, PresentKey, FindKey, FindTenant, PresentToken,
      SaveTenant, Issue,
         Revoke, Serve, Fail, TokenExpires, MinuteEnds
<1>2. \A q \in Requests : at[q] \in Over => who'[q] = who[q]
  <2>1. ASSUME NEW r \in Guarded, FindTenant(r)
        PROVE  \A q \in Requests : at[q] \in Over => who'[q] = who[q]
    BY <2>1 DEF FindTenant, Goto, Over, TypeOK
  <2>2. ASSUME NEW r \in Registers, SaveTenant(r)
        PROVE  \A q \in Requests : at[q] \in Over => who'[q] = who[q]
    BY <2>2 DEF SaveTenant, Goto, Over, TypeOK
  <2>3. CASE UNCHANGED who
    BY <2>3
  <2> QED BY <2>1, <2>2, <2>3
          DEF Next, Counted, Increment, Allow, PresentKey, FindKey, PresentToken, Issue, Revoke,
              Serve,
              Fail, TokenExpires, MinuteEnds
<1> DEFINE Only == \A q \in Creates \union Logins : at'[q] = "answered" => at[q] = "answered"
<1>3. ASSUME NEW r \in Requests \ (Creates \union Logins),
             \A q \in Requests \ {r} : at'[q] = at[q]
      PROVE  Only
  BY <1>3
<1>4. ASSUME NEW r \in Requests, NEW from, NEW to, Moved(r, from, to), to # "answered" PROVE Only
  BY <1>4 DEF Moved
<1>5. ASSUME NEW r \in Issuers, NEW from, Issue(r, from) PROVE Only
  <2>1. r \notin Creates \union Logins  BY DEF Issuers
  <2> QED BY <1>3, <1>5, <2>1, Motions DEF Moved, Ended
<1>6. ASSUME NEW r \in Revokes, NEW k \in Issuers, Revoke(r, k) PROVE Only
  BY <1>3, <1>6, Motions DEF Moved, Ended
<1>7. ASSUME NEW r \in Calls \union Panels, Serve(r) PROVE Only
  BY <1>3, <1>7, Motions DEF Moved
<1>8. ASSUME NEW r \in Requests,
             \/ r \in Limited /\ (Counted(r) \/ Allow(r))
             \/ r \in Registers /\ SaveTenant(r)
             \/ Fail(r)
      PROVE  Only
  BY <1>4, <1>8, Motions
<1>9. CASE GuardStep
  BY <1>1, <1>2, <1>4, <1>9, Motions DEF GuardStep
<1>10. CASE UNCHANGED at
  BY <1>1, <1>2, <1>10
<1> HIDE DEF Only
<1>11. CASE Only
  BY <1>1, <1>2, <1>11 DEF Only
<1> QED BY <1>5, <1>6, <1>7, <1>8, <1>9, <1>10, <1>11
        DEF Next, Counted, GuardStep, TokenExpires, MinuteEnds

LEMMA AccountInductive ==
  ASSUME TypeOK, WhoInv, AccountInv, [Next]_vars
  PROVE  AccountInv'
<1> USE Kinds
<1>1. CASE UNCHANGED vars
  BY <1>1 DEF vars, limiter, rows, AccountInv
<1>2. ASSUME NEW r \in Creates, NEW e \in Emails, CreateUser(r, e) PROVE AccountInv'
  <2>1. Ended(r, "handle") /\ (users[e] # None => Moved(r, "handle", "failed"))
    BY <1>2, Motions DEF Ended
  <2>2. /\ mail' = [mail EXCEPT ![r] = e] /\ UNCHANGED who
        /\ \/ users[e] = None /\ users' = [users EXCEPT ![e] = r]
           \/ users[e] # None /\ users' = users
    BY <1>2 DEF CreateUser, Unused
  <2>3. mail[r] = None /\ at[r] = "handle" /\ at'[r] \in {"answered", "failed"}
    BY <2>1 DEF AccountInv, Moved, Ended, TypeOK
  <2>4. \A q \in Requests \ {r} : at'[q] = at[q]
    BY <2>1 DEF Moved, Ended
  <2>5. \A a \in Emails : /\ users[a] # None => users'[a] = users[a] /\ users[a] # r
                          /\ users'[a] # None => users'[a] = users[a] \/ (a = e /\ users'[a] = r)
    BY <2>2, <2>3 DEF AccountInv, TypeOK
  <2>6. \A q \in Creates \union Logins : q # r => mail'[q] = mail[q]
    BY <2>2 DEF TypeOK
  <2>7. mail'[r] = e
    BY <2>2 DEF TypeOK
  <2>8. \A u \in Creates : mail'[u] # None => at'[u] \in {"answered", "failed"}
    BY <2>3, <2>4, <2>6 DEF AccountInv
  <2>9. \A a \in Emails : users'[a] # None => mail'[users'[a]] = a
    BY <2>5, <2>6, <2>7 DEF AccountInv, TypeOK
  <2>10. \A u \in Creates : at'[u] = "answered" => mail'[u] # None /\ users'[mail'[u]] = u
    <3>1. at'[r] = "answered" => users'[e] = r
      BY <2>1, <2>2, <2>3 DEF Moved, TypeOK
    <3>2. ASSUME NEW u \in Creates, u # r, at'[u] = "answered"
          PROVE  mail'[u] # None /\ users'[mail'[u]] = u
      <4>1. mail'[u] = mail[u] /\ mail[u] \in Emails /\ users[mail[u]] = u
        BY <2>4, <2>6, <3>2 DEF AccountInv, TypeOK
      <4> QED BY <2>5, <4>1
    <3> QED BY <2>7, <3>1, <3>2
  <2>11. ASSUME NEW l \in Logins, at'[l] = "answered"
         PROVE  mail'[l] # None /\ users'[mail'[l]] # None /\ who'[l] = who'[users'[mail'[l]]]
    <3>1. l # r /\ mail'[l] = mail[l] /\ mail[l] \in Emails /\ users[mail[l]] # None
          /\ who[l] = who[users[mail[l]]]
      BY <2>4, <2>6, <2>11 DEF AccountInv, TypeOK
    <3>2. users'[mail[l]] = users[mail[l]]
      BY <2>5, <3>1
    <3> QED BY <2>2, <3>1, <3>2
  <2> QED BY <2>8, <2>9, <2>10, <2>11 DEF AccountInv
<1>3. ASSUME NEW r \in Logins, NEW u \in Creates, Login(r, u) PROVE AccountInv'
  <2>1. \/ users[mail[u]] = u /\ Moved(r, "handle", "answered") /\ who' = [who EXCEPT ![r] = who[u]]
        \/ Moved(r, "handle", "refused") /\ who' = who
    BY <1>3, Motions DEF Login, verifyPassword
  <2>2. mail[u] # None /\ mail' = [mail EXCEPT ![r] = mail[u]] /\ UNCHANGED users
    BY <1>3 DEF Login, rows
  <2>3. mail[u] \in Emails
    BY <2>2 DEF TypeOK
  <2> QED BY <2>1, <2>2, <2>3 DEF AccountInv, Moved, TypeOK
<1>4. CASE /\ Next
           /\ ~(\E r \in Creates, e \in Emails : CreateUser(r, e))
           /\ ~(\E r \in Logins, u \in Creates : Login(r, u))
  <2>1. /\ UNCHANGED <<users, mail>>
        /\ \A r \in Requests : at[r] \in Over => at'[r] = at[r] /\ who'[r] = who[r]
        /\ \A r \in Creates \union Logins : at'[r] = "answered" => at[r] = "answered"
    BY <1>4, AccountKept, OverStays
  <2> QED BY <2>1 DEF AccountInv, Over, TypeOK
<1> QED BY <1>1, <1>2, <1>3, <1>4

-----------------------------------------------------------------------------
LEMMA Invariance == Spec => []IInv
<1>1. IInv /\ [Next]_vars => IInv'
  BY TypeInductive, CountInductive, WhoInductive, KeyInductive, WorksInductive, LateInductive,
     AccountInductive DEF IInv
<1> QED BY <1>1, InitIInv, PTL DEF Spec

\* Every row, counter and place is of its kind, and an API key that exists is of
\* a tenant that is saved (tenant.service.ts:24-39).
THEOREM TypeCorrect == Spec => []TypeOK
<1>1. IInv => TypeOK  BY DEF IInv
<1> QED BY <1>1, Invariance, PTL

\* However many registrations and logins are counted at once, and whatever bearer
\* strings they come with, no more than the limit are handled in a minute under
\* one counter (rate-limit.guard.ts:19-23, rate-limiter.ts:12-18).
THEOREM RateLimited == Spec => []LimitHeld
<1>1. IInv => LimitHeld  BY Bounded DEF IInv
<1> QED BY <1>1, Invariance, PTL

\* A key revoked, or a token expired, before a request came opens nothing
\* (api-key.service.ts:45-50, dashboard-auth.guard.ts:25-48).
THEOREM TooLate == Spec => []LateIsRefused
<1>1. IInv => LateIsRefused  BY DEF IInv, LateInv, LateIsRefused
<1> QED BY <1>1, Invariance, PTL

\* A key or a token that was answered is never refused but for its revocation or
\* its expiry: its row and its tenant were there before the answer
\* (tenant.service.ts:24-39).
THEOREM AnsweredWorks == Spec => []KeyWorks
<1>1. IInv => KeyWorks  BY DEF IInv
<1> QED BY <1>1, Invariance, PTL

\* A session token is of the tenant that was answered the account with its email
\* (dashboard-user.entity.ts:7, dashboard-auth.service.ts).
THEOREM EmailOwned == Spec => []OneTenantPerEmail
<1>1. IInv => OneTenantPerEmail
  BY DEF IInv, AccountInv, OneTenantPerEmail
<1> QED BY <1>1, Invariance, PTL
=============================================================================
