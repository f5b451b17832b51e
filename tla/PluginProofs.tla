------------------------------ MODULE PluginProofs ------------------------------
(***************************************************************************)
(* One token, one verification, however many clicks, forms and failures.   *)
(***************************************************************************)
EXTENDS Plugin, TLAPS

\* A request that got past its token: its row was returned to this request.
Past(c) == api[c] = "taken" \/ c \in jobs

\* Before its request is sent a handler means nothing to the API; the form it
\* belongs to does not change afterwards.
RequestInv ==
  \A c \in Clicks : /\ at[c] \in {"idle", "prompt", "capture"} => api[c] = "none" /\ c \notin jobs
                    /\ api[c] \in {"none", "sent"} => c \notin jobs
                    /\ api[c] = "ok" => c \in jobs

\* The row of a token is returned to one request.
OnceInv == \A b, c \in Clicks : Past(b) /\ Past(c) /\ of[b] = of[c] => b = c

Inv == TypeOK /\ RequestInv /\ OnceInv

-----------------------------------------------------------------------------
LEMMA InitInv == Init => Inv /\ ToldTruly
<1> SUFFICES ASSUME Init PROVE Inv /\ ToldTruly
  OBVIOUS
<1> USE PluginAssumption DEF Init, Mounts
<1>1. consentGiven \in BOOLEAN
  BY Zenon
<1>2. TypeOK
  BY <1>1 DEF TypeOK
<1>3. RequestInv /\ OnceInv /\ ToldTruly
  BY DEF RequestInv, OnceInv, Past, ToldTruly
<1> QED BY <1>2, <1>3 DEF Inv

\* Steps of the widget that send nothing: the API and the forms clicked in stay
\* as they are, and no handler goes back.
Quiet ==
  /\ UNCHANGED <<of, server>>
  /\ \A c \in Clicks : /\ at'[c] = at[c] \/ at'[c] \in {"capture", "done"}
                       /\ at'[c] = "capture" => at[c] \in {"prompt", "capture"}

LEMMA QuietInv == ASSUME Inv, Quiet PROVE RequestInv' /\ OnceInv'
<1>1. RequestInv'
  BY DEF Inv, Quiet, server, RequestInv
<1>2. OnceInv'
  BY DEF Inv, Quiet, server, OnceInv, Past
<1> QED BY <1>1, <1>2

LEMMA FormInv == ASSUME Inv, Mount \/ Toggle PROVE Inv'
<1> USE PluginAssumption DEF Inv, Mounts, form, server
<1>1. consentGiven' \in BOOLEAN
  BY Zenon DEF Mount, Toggle
<1>2. /\ mount' \in Mounts /\ page' \in {"form", "sent", "failed"}
      /\ UNCHANGED <<at, of, tracks, token, api, jobs>>
  BY DEF Mount, Toggle, TypeOK
<1> QED BY <1>1, <1>2 DEF TypeOK, RequestInv, OnceInv, Past

LEMMA WidgetInv ==
  ASSUME Inv, NEW c \in Clicks,
         CameraOpens(c) \/ CameraDenied(c) \/ Throws(c) \/ Answered(c)
  PROVE  Inv'
<1> USE PluginAssumption DEF Inv, Mounts, form, server
<1>1. UNCHANGED form
  BY Zenon DEF CameraOpens, CameraDenied, Throws, Answered
<1>2. Quiet
  BY DEF Quiet, CameraOpens, CameraDenied, Throws, Answered, Finally, Goto, TypeOK
<1>3. page' \in {"form", "sent", "failed"} /\ tracks' \subseteq Clicks
      /\ at' \in [Clicks -> {"idle", "prompt", "capture", "fetch", "done"}]
  BY DEF CameraOpens, CameraDenied, Throws, Answered, Finally, Goto, Message, TypeOK
<1>4. consentGiven' \in BOOLEAN
  BY <1>1, Zenon DEF TypeOK
<1> QED BY <1>1, <1>2, <1>3, <1>4, QuietInv DEF Quiet, TypeOK

\* A handler that is clicked has no request yet.
LEMMA ClickInv == ASSUME Inv, NEW c \in Clicks, Click(c) PROVE Inv'
<1> USE PluginAssumption DEF Inv, Mounts, form, server
<1>1. at[c] = "idle" /\ at' = [at EXCEPT ![c] = "prompt"] /\ of' = [of EXCEPT ![c] = mount]
      /\ UNCHANGED <<mount, consentGiven, page, tracks, token, api, jobs>>
  BY DEF Click, Goto
<1>2. ~ Past(c)
  BY <1>1 DEF Past, RequestInv
<1>3. TypeOK'
  BY <1>1, <1>2 DEF TypeOK, Past
<1>4. RequestInv'
  BY <1>1 DEF RequestInv, TypeOK
<1>5. OnceInv'
  BY <1>1, <1>2 DEF OnceInv, Past, TypeOK
<1> QED BY <1>3, <1>4, <1>5

LEMMA SendInv == ASSUME Inv, NEW c \in Clicks, Send(c) PROVE Inv'
<1> USE PluginAssumption DEF Inv, Mounts, form
<1>1. at[c] = "capture" /\ at' = [at EXCEPT ![c] = "fetch"] /\ api' = [api EXCEPT ![c] = "sent"]
      /\ UNCHANGED <<mount, consentGiven, page, of, tracks, token, jobs>>
  BY DEF Send, Goto
<1>2. TypeOK'
  BY <1>1 DEF TypeOK
<1>3. RequestInv'
  BY <1>1 DEF RequestInv, TypeOK
<1>4. OnceInv'
  BY <1>1 DEF OnceInv, Past, TypeOK
<1> QED BY <1>2, <1>3, <1>4

LEMMA ExpiresInv == ASSUME Inv, NEW m \in Mounts, Expires(m) PROVE Inv'
<1> USE PluginAssumption DEF Inv, form
<1>1. TypeOK'
  BY DEF Expires, TypeOK
<1>2. RequestInv' /\ OnceInv'
  BY DEF Expires, RequestInv, OnceInv, Past
<1> QED BY <1>1, <1>2

\* Only the request that finds the row gets past the token, and no other had.
LEMMA ConsumeInv == ASSUME Inv, NEW c \in Clicks, Consume(c) PROVE Inv'
<1> USE PluginAssumption DEF Inv, form
<1>1. /\ api[c] = "sent" /\ of[c] \in Mounts
      /\ api' = [api EXCEPT ![c] = IF token[of[c]] = "live" THEN "taken" ELSE "refused"]
      /\ token' = [token EXCEPT ![of[c]] = "gone"]
      /\ UNCHANGED <<mount, consentGiven, page, at, of, tracks, jobs>>
  BY DEF Consume, TypeOK
<1>2. TypeOK'
  BY <1>1 DEF TypeOK
<1>3. RequestInv'
  BY <1>1 DEF RequestInv, TypeOK
<1>4. OnceInv'
  <2>1. ASSUME token[of[c]] = "live", NEW b \in Clicks, Past(b) PROVE of[b] # of[c]
    BY <2>1 DEF TypeOK, Past
  <2> QED BY <1>1, <2>1 DEF OnceInv, Past, TypeOK
<1> QED BY <1>2, <1>3, <1>4

\* The other steps of the API: nobody gets past a token by them.
LEMMA ServerInv ==
  ASSUME Inv, NEW c \in Clicks, TooMany(c) \/ Enqueue(c) \/ ServerFails(c) PROVE Inv'
<1> USE PluginAssumption DEF Inv, form
<1>1. /\ api[c] \in {"sent", "taken"} /\ of[c] \in Mounts
      /\ \E answer \in {"ok", "refused"} : api' = [api EXCEPT ![c] = answer]
      /\ api'[c] = "ok" => api[c] = "taken" /\ c \in jobs'
      /\ token' \in {token, [token EXCEPT ![of[c]] = "gone"]}
      /\ jobs' = jobs \/ (api[c] = "taken" /\ jobs' = jobs \union {c})
      /\ UNCHANGED <<mount, consentGiven, page, at, of, tracks>>
  BY DEF TooMany, Enqueue, ServerFails, TypeOK
<1>2. \A b \in Clicks : Past(b)' => Past(b)
  BY <1>1 DEF Past, TypeOK
<1>3. TypeOK'
  BY <1>1, <1>2 DEF TypeOK, Past
<1>4. RequestInv'
  BY <1>1 DEF RequestInv, TypeOK
<1>5. OnceInv'
  BY <1>1, <1>2 DEF OnceInv
<1> QED BY <1>3, <1>4, <1>5

LEMMA NextInv == Inv /\ [Next]_vars => Inv'
<1> SUFFICES ASSUME Inv, [Next]_vars PROVE Inv'
  OBVIOUS
<1>1. CASE UNCHANGED vars
  BY <1>1 DEF vars, Inv, TypeOK, RequestInv, OnceInv, Past
<1>2. CASE Mount \/ Toggle
  BY <1>2, FormInv
<1>3. ASSUME NEW m \in Mounts, Expires(m) PROVE Inv'
  BY <1>3, ExpiresInv
<1>4. ASSUME NEW c \in Clicks,
             \/ Click(c) \/ CameraOpens(c) \/ CameraDenied(c) \/ Send(c) \/ Throws(c) \/ Answered(c)
             \/ TooMany(c) \/ Consume(c) \/ Enqueue(c) \/ ServerFails(c)
      PROVE  Inv'
  BY <1>4, WidgetInv, ClickInv, SendInv, ConsumeInv, ServerInv
<1> QED BY <1>1, <1>2, <1>3, <1>4 DEF Next

\* The type invariant holds for any number of clicks and forms.
THEOREM TypeCorrect == Spec => []TypeOK
<1>1. Inv => TypeOK
  BY DEF Inv
<1> QED BY <1>1, InitInv, NextInv, PTL DEF Spec

\* Of all handlers that carry one session token at most one starts a
\* verification.
THEOREM StartedOnce == Spec => []OneVerification
<1>1. Inv => OneVerification
  BY DEF Inv, TypeOK, OnceInv, Past, OneVerification
<1> QED BY <1>1, InitInv, NextInv, PTL DEF Spec

-----------------------------------------------------------------------------
\* An answer that was shown stays the answer of a handler that is over.
LEMMA ToldStep == Inv /\ ToldTruly /\ [Next]_vars => ToldTruly'
<1> SUFFICES ASSUME Inv, ToldTruly, [Next]_vars PROVE ToldTruly'
  OBVIOUS
<1> USE DEF form, server
<1>1. ASSUME NEW c \in Clicks, Answered(c) PROVE ToldTruly'
  <2>1. at'[c] = "done" /\ api' = api /\ jobs' = jobs /\ page' = Message(c)
        /\ api[c] \in {"ok", "refused"} /\ (api[c] = "ok" => c \in jobs)
    BY <1>1 DEF Answered, Finally, Goto, Inv, TypeOK, RequestInv
  <2>2. CASE api[c] = "ok"
    BY <2>1, <2>2 DEF ToldTruly, Message
  <2>3. CASE api[c] = "refused"
    BY <2>1, <2>3 DEF ToldTruly, Message
  <2> QED BY <2>1, <2>2, <2>3
<1>2. CASE Mount
  BY <1>2 DEF Mount, ToldTruly
<1>3. ASSUME page' = page,
             \A c \in Clicks : at[c] = "done" => at'[c] = "done",
             \A c \in Clicks : api[c] \in {"ok", "refused"} => api'[c] = api[c],
             jobs \subseteq jobs'
      PROVE  ToldTruly'
  BY <1>3 DEF ToldTruly, Inv, TypeOK
<1>4. ASSUME [Next]_vars, ~ Mount, \A c \in Clicks : ~ Answered(c)
      PROVE  /\ page' = page /\ jobs \subseteq jobs'
             /\ \A c \in Clicks : at[c] = "done" => at'[c] = "done"
             /\ \A c \in Clicks : api[c] \in {"ok", "refused"} => api'[c] = api[c]
  <2>1. CASE UNCHANGED vars
    BY <2>1 DEF vars
  <2>2. CASE Toggle \/ \E m \in Mounts : Expires(m)
    BY <2>2 DEF Toggle, Expires
  <2>3. ASSUME NEW c \in Clicks,
               Click(c) \/ CameraOpens(c) \/ CameraDenied(c) \/ Throws(c)
        PROVE  page' = page /\ api' = api /\ jobs' = jobs
               /\ \A b \in Clicks : at[b] = "done" => at'[b] = "done"
    BY <2>3 DEF Click, CameraOpens, CameraDenied, Throws, Finally, Goto, Inv, TypeOK
  <2>4. ASSUME NEW c \in Clicks, Send(c)
        PROVE  page' = page /\ jobs' = jobs
               /\ (\A b \in Clicks : at[b] = "done" => at'[b] = "done")
               /\ \A b \in Clicks : api[b] \in {"ok", "refused"} => api'[b] = api[b]
    BY <2>4 DEF Send, Goto, Inv, TypeOK, RequestInv
  <2>5. ASSUME NEW c \in Clicks, TooMany(c) \/ Consume(c) \/ Enqueue(c) \/ ServerFails(c)
        PROVE  page' = page /\ at' = at /\ jobs \subseteq jobs'
               /\ \A b \in Clicks : api[b] \in {"ok", "refused"} => api'[b] = api[b]
    BY <2>5 DEF TooMany, Consume, Enqueue, ServerFails, Inv, TypeOK
  <2> QED BY <1>4, <2>1, <2>2, <2>3, <2>4, <2>5 DEF Next
<1> QED BY <1>1, <1>2, <1>3, <1>4

\* What the container says is true, whichever handler wrote it last.
THEOREM Truthful == Spec => []ToldTruly
<1> QED BY InitInv, NextInv, ToldStep, PTL DEF Spec
=============================================================================
