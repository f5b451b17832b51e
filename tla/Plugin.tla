-------------------------------- MODULE Plugin --------------------------------
(***************************************************************************)
(* The widget in the end user's browser.                                   *)
(*                                                                         *)
(* mountEcaVerify draws a form with a consent box and a button into a      *)
(* container of the tenant's page, for one session token.  Every click on  *)
(* the button runs its own handler: it opens the camera, takes and         *)
(* encrypts a frame, sends it to POST /verify and replaces what the        *)
(* container shows by a message.  The button stays enabled while a handler *)
(* runs and after one that threw, so handlers overlap and repeat with the  *)
(* same single-use token.  The page may mount the widget again with a new  *)
(* token; the handlers of the old form go on.  The API goes on with a      *)
(* request whatever becomes of the handler that sent it.  What follows the *)
(* enqueue is VerificationPipeline.                                        *)
(***************************************************************************)
EXTENDS Naturals, FiniteSets

CONSTANTS
  Clicks,      \* clicks on the button, each with its handler and its request
  MaxMounts    \* bound of the run: the page mounts the widget so often

Mounts == 1..MaxMounts

ASSUME PluginAssumption == IsFiniteSet(Clicks) /\ MaxMounts \in Nat \ {0}

VARIABLES
  mount,          \* the mount whose form was drawn last
  consentGiven,   \* its state.consentGiven, which is box.checked and not btn.disabled
  page,           \* what the container shows: the form or one of the messages
  at,             \* the step each handler waits in
  of,             \* the mount it was clicked in
  tracks,         \* handlers whose camera tracks are live
  token,          \* the session row of each mount's token: live, expired or gone
  api,            \* where the API stands with the request of each handler
  jobs            \* requests whose job was enqueued

vars == <<mount, consentGiven, page, at, of, tracks, token, api, jobs>>
form == <<mount, consentGiven>>
server == <<token, api, jobs>>

Init ==
  /\ mount = 1
  /\ consentGiven = FALSE
  /\ page = "form"
  /\ at = [c \in Clicks |-> "idle"]
  /\ of = [c \in Clicks |-> 1]
  /\ tracks = {}
  /\ token = [m \in Mounts |-> "live"]
  /\ api = [c \in Clicks |-> "none"]
  /\ jobs = {}

Goto(c, from, to) == at[c] = from /\ at' = [at EXCEPT ![c] = to]

-----------------------------------------------------------------------------
(* The widget. *)

\* mountEcaVerify, again: a new form, closed over a state of its own.
Mount ==
  /\ mount < MaxMounts
  /\ mount' = mount + 1
  /\ consentGiven' = FALSE
  /\ page' = "form"
  /\ UNCHANGED <<at, of, tracks, server>>

canActivateCamera == consentGiven

\* The box is ticked or unticked.
Toggle ==
  /\ page = "form"
  /\ consentGiven' = ~ consentGiven
  /\ UNCHANGED <<mount, page, at, of, tracks, server>>

\* A click; the browser asks for the camera.
Click(c) ==
  /\ page = "form" /\ canActivateCamera
  /\ Goto(c, "idle", "prompt")
  /\ of' = [of EXCEPT ![c] = mount]
  /\ UNCHANGED <<form, page, tracks, server>>

\* getUserMedia resolves, whatever has become of the box since the click.
CameraOpens(c) ==
  /\ Goto(c, "prompt", "capture")
  /\ tracks' = tracks \union {c}
  /\ UNCHANGED <<form, page, of, server>>

\* It rejects: the handler ends before its try.
CameraDenied(c) ==
  /\ Goto(c, "prompt", "done")
  /\ UNCHANGED <<form, page, of, tracks, server>>

\* captureFrame and encryptWithWebCrypto are over and the request is sent.
Send(c) ==
  /\ Goto(c, "capture", "fetch")
  /\ api' = [api EXCEPT ![c] = "sent"]
  /\ UNCHANGED <<form, page, of, tracks, token, jobs>>

\* finally: the tracks are stopped however the handler leaves its try.
Finally(c, from) == Goto(c, from, "done") /\ tracks' = tracks \ {c}

\* Something in the try throws: no frame, no key, no network.  A request may be
\* under way, or even answered, when fetch rejects.
StaysOpen(c) ==   \* mutant: the tracks are stopped at the end of the try only
  /\ Goto(c, "capture", "done") \/ Goto(c, "fetch", "done")
  /\ UNCHANGED <<form, page, of, tracks, server>>
Throws(c) ==
  /\ Finally(c, "capture") \/ Finally(c, "fetch")
  /\ UNCHANGED <<form, page, of, server>>

\* The answer arrives and its message replaces whatever the container shows.
AnyAnswer(c) == "sent"   \* mutant: fetch resolves, whatever the status
Message(c) == IF api[c] = "ok" THEN "sent" ELSE "failed"
Answered(c) ==
  /\ api[c] \in {"ok", "refused"}
  /\ page' = Message(c)
  /\ Finally(c, "fetch")
  /\ UNCHANGED <<form, of, server>>

-----------------------------------------------------------------------------
(* POST /verify, for the request of each handler. *)

\* SESSION_TTL passes.
Expires(m) ==
  /\ token[m] = "live"
  /\ token' = [token EXCEPT ![m] = "expired"]
  /\ UNCHANGED <<form, page, at, of, tracks, api, jobs>>

\* The rate limit refuses the request before the token is looked at.
TooMany(c) ==
  /\ api[c] = "sent"
  /\ api' = [api EXCEPT ![c] = "refused"]
  /\ UNCHANGED <<form, page, at, of, tracks, token, jobs>>

\* consume_session deletes and returns the row in one statement; a row that is
\* too old is used up and refused.
StillThere(c) ==   \* mutant: the row is read, and deleted by a later statement
  /\ api[c] = "sent"
  /\ api' = [api EXCEPT ![c] = IF token[of[c]] = "live" THEN "taken" ELSE "refused"]
  /\ token' \in {token, [token EXCEPT ![of[c]] = "gone"]}
  /\ UNCHANGED <<form, page, at, of, tracks, jobs>>
NoRowNoMatter(c) ==   \* mutant: only the age is looked at, a token without a row passes
  /\ api[c] = "sent"
  /\ api' = [api EXCEPT ![c] = IF token[of[c]] # "expired" THEN "taken" ELSE "refused"]
  /\ token' = [token EXCEPT ![of[c]] = "gone"]
  /\ UNCHANGED <<form, page, at, of, tracks, jobs>>
Consume(c) ==
  /\ api[c] = "sent"
  /\ api' = [api EXCEPT ![c] = IF token[of[c]] = "live" THEN "taken" ELSE "refused"]
  /\ token' = [token EXCEPT ![of[c]] = "gone"]
  /\ UNCHANGED <<form, page, at, of, tracks, jobs>>

\* The frame is stored and the job enqueued.
Enqueue(c) ==
  /\ api[c] = "taken"
  /\ api' = [api EXCEPT ![c] = "ok"]
  /\ jobs' = jobs \union {c}
  /\ UNCHANGED <<form, page, at, of, tracks, token>>

\* Postgres, the store or Redis fails under the request, with its effect or
\* without, and the answer is a 500.
ServerFails(c) ==
  /\ api' = [api EXCEPT ![c] = "refused"]
  /\ \/ api[c] \in {"sent", "taken"} /\ UNCHANGED <<token, jobs>>
     \/ api[c] = "sent" /\ token' = [token EXCEPT ![of[c]] = "gone"] /\ UNCHANGED jobs
     \/ api[c] = "taken" /\ jobs' = jobs \union {c} /\ UNCHANGED token
  /\ UNCHANGED <<form, page, at, of, tracks>>

-----------------------------------------------------------------------------
Next ==
  \/ Mount \/ Toggle
  \/ \E m \in Mounts : Expires(m)
  \/ \E c \in Clicks :
       \/ Click(c) \/ CameraOpens(c) \/ CameraDenied(c) \/ Send(c)
       \/ Throws(c) \/ Answered(c)
       \/ TooMany(c) \/ Consume(c) \/ Enqueue(c) \/ ServerFails(c)

Spec == Init /\ [][Next]_vars

\* The camera delivers a frame or fails, and a fetch is answered or given up.
\* The user need not answer the prompt, and the API need not answer.
Fairness ==
  \A c \in Clicks : WF_vars(Send(c) \/ Throws(c)) /\ WF_vars(Answered(c) \/ Throws(c))

FairSpec == Spec /\ Fairness

-----------------------------------------------------------------------------
\* Type invariant; whoever got past a token used it up.
TypeOK ==
  /\ mount \in Mounts
  /\ consentGiven \in BOOLEAN
  /\ page \in {"form", "sent", "failed"}
  /\ at \in [Clicks -> {"idle", "prompt", "capture", "fetch", "done"}]
  /\ of \in [Clicks -> Mounts]
  /\ tracks \subseteq Clicks
  /\ token \in [Mounts -> {"live", "expired", "gone"}]
  /\ api \in [Clicks -> {"none", "sent", "taken", "ok", "refused"}]
  /\ jobs \subseteq Clicks
  /\ \A c \in Clicks : api[c] = "taken" \/ c \in jobs => token[of[c]] = "gone"

\* "single-use session_token" (verification.controller.ts:36): however often
\* the button is pressed, and though a handler that heard nothing is repeated
\* while its request may still be on its way, a token starts one verification.
OneVerification == \A b, c \in jobs : of[b] = of[c] => b = c

\* What the container says is true of a form it showed, also when a handler of
\* an earlier form has the last word: "enviada" that a verification was started,
\* "Falha" that the API refused a request, which after a repeated click or a
\* failure behind the enqueue does not mean that none was (index.ts:164-166).
ToldTruly ==
  /\ page = "sent" => \E c \in jobs : at[c] = "done" /\ api[c] = "ok"
  /\ page = "failed" => \E c \in Clicks : at[c] = "done" /\ api[c] = "refused"

\* A camera that was switched on is switched off again, whichever of the steps
\* of the handler fails (index.ts:154-169).
CameraGoesOff == \A c \in Clicks : c \in tracks ~> c \notin tracks
=============================================================================
