---------------------------- MODULE DevicePages -----------------------------
(***************************************************************************)
(* What one phone does to the device itself: the controls of Settings.jsx  *)
(* that act at once, the update page (Update.jsx) and the overlay that     *)
(* asks for the PIN (PinGate.jsx), with the server's check of cookies and  *)
(* PINs (auth.py).  The limiter of attempts (rate_limiter.py), whose clock *)
(* is in RateLimiter, forgets its count here at any time.  The pages share *)
(* the app, the cookie and the overlay; other phones may change the PIN    *)
(* and the device at any time.                                             *)
(*                                                                         *)
(* A PIN is abstracted to its length; the cookie either fits the present   *)
(* PIN or does not.  A control is one value of the device (SSH, HTTPS, the *)
(* time zone).  Every request is sent, handled, and answered or lost.      *)
(* Left out: toasts, the simulated progress bar, and the rollback button,  *)
(* whose route the server does not have.                                   *)
(***************************************************************************)
EXTENDS Naturals, FiniteSets

CONSTANTS
  Control,    \* the controls of the instance
  MaxTries,   \* MaxTries[n]: attempts allowed by the limiter for length n
  MaxAsked    \* bound: overlapping requests for a time zone

ASSUME DeviceAssumption ==
  /\ Control \subseteq {"ssh", "https", "timezone"}
  /\ MaxTries \in [{4, 6} -> Nat \ {0}]
  /\ MaxAsked \in Nat

VARIABLES
  pinLen,      \* digits of ACCESS_PIN
  lenSetting,  \* PIN_LENGTH
  tries,       \* tries[n]: count of the limiter for length n in its window
  cookie,      \* the phone's cookie fits ACCESS_PIN
  gate,        \* pinRequired
  gateLen,     \* pinLength of the overlay, read once when the app starts
  verify,      \* the verification under way
  locked,      \* the overlay is locked and counts down
  dismissing,  \* dismissTimer is pending
  page,        \* the page that is mounted
  check,       \* the check for an update under way
  offer,       \* updateInfo.available
  installing,  \* installing
  step,        \* activeStep + 1
  failedStep,  \* errorStep >= 0
  apply,       \* the installation under way
  timer,       \* the timer of the VERIFY step is pending
  rebooting,   \* the boot animation is shown
  event,       \* update:rebooting is on its way
  applied,     \* history: the server has installed an update
  dropped,     \* history: an installation has met needs_pin
  real,        \* real[c]: what control c is set to on the device
  shown,       \* shown[c]: what the page shows
  asked,       \* asked[c]: requests under way that set c
  looked,      \* looked[c]: the status request made on mount
  doubt        \* history: c was set behind the page's back, or its
               \* answers were lost, untrue or out of order

serverVars == <<pinLen, lenSetting, tries>>
gateVars == <<page, gate, gateLen, verify, locked, dismissing>>
updateVars == <<check, offer, installing, step, failedStep, apply, timer,
                rebooting, event, applied, dropped>>
controlVars == <<real, shown, asked, looked, doubt>>
vars == <<serverVars, cookie, gateVars, updateVars, controlVars>>

Length == {4, 6}
Setting == {"a", "b"}
Asked == [want : Setting, at : {"sent", "ok", "fault", "needs_pin"}]
Reply == {"idle", "sent", "ok", "fault", "needs_pin"}

Init ==
  /\ lenSetting \in Length /\ pinLen = lenSetting
  /\ tries = [n \in Length |-> 0]
  /\ cookie \in BOOLEAN
  /\ gate = FALSE /\ gateLen = lenSetting
  /\ verify = "idle" /\ locked = FALSE /\ dismissing = FALSE
  /\ check = "idle" /\ apply = "idle"
  /\ offer = FALSE /\ installing = FALSE /\ step = 0 /\ failedStep = FALSE
  /\ timer = FALSE /\ rebooting = FALSE /\ event = FALSE
  /\ applied = FALSE /\ dropped = FALSE
  /\ real \in [Control -> Setting]
  /\ page = "update"
  /\ shown = [c \in Control |-> "a"]
  /\ asked = [c \in Control |-> {}]
  /\ looked = [c \in Control |-> "idle"]
  /\ doubt = [c \in Control |-> TRUE]

-----------------------------------------------------------------------------
(* The server's side of the PIN.                                           *)

(* A request is let through with a cookie that fits.                       *)
Outcome(results) == IF cookie THEN results ELSE {"needs_pin"}

(* PIN LENGTH is saved by a phone; the PIN stays as it is.                 *)
SaveLength ==
  /\ lenSetting' \in Length \ {lenSetting}
  /\ UNCHANGED <<pinLen, tries, cookie, gateVars,
                 updateVars, controlVars>>

(* REGENERATE, on this phone or another: every cookie is void, and a PIN   *)
(* that has been typed is no longer right.                                 *)
RegeneratePin ==
  /\ pinLen' = lenSetting
  /\ cookie' = FALSE
  /\ verify' = IF verify = "right" THEN "wrong" ELSE verify
  /\ UNCHANGED <<lenSetting, tries, gate, gateLen, locked,
                 dismissing, page, updateVars, controlVars>>

(* The window of a limiter has passed.                                     *)
WindowEnds(n) ==
  /\ tries[n] > 0
  /\ tries' = [tries EXCEPT ![n] = 0]
  /\ UNCHANGED <<pinLen, lenSetting, cookie, gateVars, updateVars,
                 controlVars>>

-----------------------------------------------------------------------------
(* The overlay.                                                            *)

(* authedFetch(): the overlay is shown; the request is stashed and, when   *)
(* the PIN has been given, thrown away.                                    *)
NeedsPin(reply) == gate' = (gate \/ reply = "needs_pin")

(* handleVerify(): only as many digits as the overlay asks for.            *)
VerifyClicked ==
  /\ gate /\ ~locked /\ verify = "idle"
  /\ verify' \in {"wrong"} \cup (IF gateLen = pinLen THEN {"right"} ELSE {})
  /\ UNCHANGED <<serverVars, cookie, gate, gateLen, locked, dismissing,
                 page, updateVars, controlVars>>

(* RateLimiter.check() has counted n + 1 and compares with max_attempts.   *)
Limited(n) == tries[n] + 1 > MaxTries[n]

(* RateLimiter.reset()                                                     *)
Reset(n) == [tries EXCEPT ![n] = 0]

(* verify_pin(): the limiter for the length in the settings, then the PIN; *)
(* success resets the count and sets the cookie.                           *)
VerifyHandled ==
  LET n == lenSetting
      count == IF tries[n] > MaxTries[n] THEN tries[n] ELSE tries[n] + 1
  IN /\ verify \in {"right", "wrong"}
     /\ \/ /\ Limited(n)
           /\ verify' = "limited"
           /\ tries' = [tries EXCEPT ![n] = count]
           /\ UNCHANGED cookie
        \/ /\ ~Limited(n) /\ verify = "right"
           /\ verify' = "ok"
           /\ cookie' = TRUE
           /\ tries' = Reset(n)
        \/ /\ ~Limited(n) /\ verify = "wrong"
           /\ verify' = "denied"
           /\ tries' = [tries EXCEPT ![n] = count]
           /\ UNCHANGED cookie
     /\ UNCHANGED <<pinLen, lenSetting, gate, gateLen, locked, dismissing,
                    page, updateVars, controlVars>>

(* The answer, or the network's failure.                                   *)
VerifyAnswered ==
  /\ verify # "idle"
  /\ verify' = "idle"
  /\ \/ /\ verify = "ok"
        /\ dismissing' = TRUE /\ UNCHANGED locked
     \/ /\ verify = "limited"
        /\ locked' = TRUE /\ UNCHANGED dismissing
     \/ UNCHANGED <<locked, dismissing>>
  /\ UNCHANGED <<serverVars, cookie, gate, gateLen, page, updateVars,
                 controlVars>>

(* The timer of 600 ms closes the overlay, whoever asked for it since.     *)
Dismiss ==
  /\ dismissing
  /\ dismissing' = FALSE
  /\ gate' = FALSE
  /\ UNCHANGED <<serverVars, cookie, page, gateLen, verify, locked,
                 updateVars, controlVars>>

(* The countdown has reached its end.                                      *)
Unlock ==
  /\ locked
  /\ locked' = FALSE
  /\ UNCHANGED <<serverVars, cookie, gate, gateLen, verify, dismissing,
                 page, updateVars, controlVars>>

-----------------------------------------------------------------------------
(* The update page.                                                        *)

(* setErrorStep(-1)                                                        *)
FaultAtStart == FALSE

(* CHECK FOR UPDATES without an offer, RETRY after a fault.                *)
CheckClicked ==
  /\ page = "update" /\ ~gate /\ ~installing /\ check = "idle"
  /\ ~offer \/ failedStep
  /\ check' = "sent"
  /\ offer' = FALSE /\ failedStep' = FaultAtStart /\ step' = 0
  /\ UNCHANGED <<serverVars, cookie, gateVars, installing, apply,
                 timer, rebooting, event, applied, dropped, controlVars>>

CheckHandled ==
  /\ check = "sent"
  /\ check' \in Outcome({"ok", "fault"})
  /\ UNCHANGED <<serverVars, cookie, gateVars, offer, installing,
                 step, failedStep, apply, timer, rebooting, event, applied,
                 dropped, controlVars>>

(* The answer says whether there is an update; needs_pin just returns.     *)
CheckAnswered ==
  /\ check \notin {"idle", "sent"}
  /\ check' = "idle"
  /\ NeedsPin(check)
  /\ offer' \in (IF check = "ok" THEN BOOLEAN ELSE {FALSE})
  /\ UNCHANGED <<serverVars, cookie, page, gateLen, verify, locked, dismissing,
                 installing, step, failedStep, apply, timer, rebooting,
                 event, applied, dropped, controlVars>>

(* handleInstall(), also after a fault.                                    *)
InstallClicked ==
  /\ offer /\ ~installing /\ ~gate
  /\ installing' = TRUE
  /\ step' = 1 /\ failedStep' = FaultAtStart
  /\ apply' = "sent"
  /\ UNCHANGED <<serverVars, cookie, gateVars, check, offer, timer,
                 rebooting, event, applied, dropped, controlVars>>

(* POST /api/update/apply: on success the event goes out before the answer *)
(* does, and the device reboots 5 s later.                                 *)
ApplyHandled ==
  /\ apply = "sent"
  /\ apply' \in Outcome({"ok", "fault"})
  /\ event' = (event \/ apply' = "ok")
  /\ applied' = (applied \/ apply' = "ok")
  /\ UNCHANGED <<serverVars, cookie, gateVars, check, offer,
                 installing, step, failedStep, timer, rebooting, dropped,
                 controlVars>>

\* Mutant: the catch block forgets setInstalling(false).
InstallingAfterStill(reply) == TRUE

(* The catch block gives the buttons back; needs_pin returns before it.    *)
InstallingAfter(reply) == reply # "fault"

ApplyAnswered ==
  /\ apply \notin {"idle", "sent"}
  /\ apply' = "idle"
  /\ NeedsPin(apply)
  /\ installing' = InstallingAfter(apply)
  /\ failedStep' = (apply = "fault")
  /\ step' = IF apply = "ok" THEN 2 ELSE step
  /\ timer' = (apply = "ok")
  /\ dropped' = (dropped \/ apply = "needs_pin")
  /\ UNCHANGED <<serverVars, cookie, page, gateLen, verify, locked, dismissing,
                 check, offer, rebooting, event, applied, controlVars>>

(* The VERIFY step, 1 s after the answer, whatever is shown by then.       *)
VerifyStep ==
  /\ timer
  /\ timer' = FALSE
  /\ step' = 3
  /\ UNCHANGED <<serverVars, cookie, gateVars, check, offer,
                 installing, failedStep, apply, rebooting, event, applied,
                 dropped, controlVars>>

(* update:rebooting reaches the page, or was sent while its stream was     *)
(* down.                                                                   *)
Rebooting ==
  /\ event
  /\ event' = FALSE
  /\ \/ rebooting' = TRUE /\ step' = 4
     \/ UNCHANGED <<rebooting, step>>
  /\ UNCHANGED <<serverVars, cookie, gateVars, check, offer,
                 installing, failedStep, apply, timer, applied, dropped,
                 controlVars>>

(* The user goes to the other page.  The page that is left forgets itself, *)
(* and what it was waiting for is ignored.  The overlay belongs to the app.*)
Leave ==
  /\ ~gate
  /\ page' = IF page = "update" THEN "settings" ELSE "update"
  /\ check' = "idle" /\ apply' = "idle" /\ timer' = FALSE
  /\ offer' = FALSE /\ installing' = FALSE /\ step' = 0 /\ failedStep' = FALSE
  /\ rebooting' = FALSE /\ event' = FALSE
  /\ applied' = FALSE /\ dropped' = FALSE
  /\ looked' = [c \in Control |-> IF page' = "settings" THEN "asked" ELSE "idle"]
  /\ shown' = [c \in Control |-> "a"]
  /\ asked' = [c \in Control |-> {}]
  /\ doubt' = [c \in Control |-> page' = "update"]
  /\ UNCHANGED <<serverVars, cookie, gate, gateLen, verify, locked, dismissing, real>>

-----------------------------------------------------------------------------
(* The controls of the settings page.                                      *)
pinVars == <<serverVars, cookie, gateVars>>

(* loadSshStatus(), loadHttpsStatus(), loadTimezone(): read on the device, *)
(* and then shown or failed.  A status that cannot be read is answered as  *)
(* off, a zone as UTC.                                                     *)
Look(c) ==
  /\ looked[c] = "asked"
  /\ \E answer \in {real[c], "a"} :
       /\ looked' = [looked EXCEPT ![c] = answer]
       /\ doubt' = [doubt EXCEPT ![c] = @ \/ answer # real[c]]
  /\ UNCHANGED <<pinVars, updateVars, real, shown, asked>>

LookAnswered(c) ==
  /\ looked[c] \in Setting
  /\ looked' = [looked EXCEPT ![c] = "idle"]
  /\ \/ shown' = [shown EXCEPT ![c] = looked[c]] /\ UNCHANGED doubt
     \/ doubt' = [doubt EXCEPT ![c] = TRUE] /\ UNCHANGED shown
  /\ UNCHANGED <<pinVars, updateVars, real, asked>>

(* Another phone sets the control, or a request that this page has given   *)
(* up is handled after all; nothing tells the page, which may yet have to  *)
(* look.                                                                   *)
SetElsewhere(c) ==
  /\ \E v \in Setting \ {real[c]} : real' = [real EXCEPT ![c] = v]
  /\ doubt' = [doubt EXCEPT ![c] = @ \/ looked[c] # "asked" \/ asked[c] # {}]
  /\ UNCHANGED <<pinVars, updateVars, shown, asked, looked>>

(* handleSshToggle() and handleHttpsToggle() ask for the opposite of what  *)
(* is shown, one at a time; the list of time zones stays enabled.          *)
Ask(c) ==
  /\ page = "settings" /\ ~gate
  /\ Cardinality(asked[c]) < (IF c = "timezone" THEN MaxAsked ELSE 1)
  /\ \E v \in Setting \ {shown[c]} :
       asked' = [asked EXCEPT ![c] = @ \cup {[want |-> v, at |-> "sent"]}]
  /\ doubt' = [doubt EXCEPT ![c] = @ \/ asked[c] # {} \/ looked[c] # "idle"]
  /\ UNCHANGED <<pinVars, updateVars, real, shown, looked>>

(* The device is set, cannot be set, or the PIN is missing.  A command     *)
(* that fails or times out may have set it all the same.                   *)
Set(c) ==
  \E r \in asked[c], result \in Outcome({"ok", "fault"}), done \in BOOLEAN :
    /\ r.at = "sent"
    /\ (result = "ok" => done) /\ (result = "needs_pin" => ~done)
    /\ real' = IF done THEN [real EXCEPT ![c] = r.want] ELSE real
    /\ asked' = [asked EXCEPT ![c] = (@ \ {r}) \cup {[r EXCEPT !.at = result]}]
    /\ doubt' = [doubt EXCEPT ![c] = @ \/ (done /\ result = "fault")]
    /\ UNCHANGED <<pinVars, updateVars, shown, looked>>

\* Mutant: the value is shown although the device could not be set.
ShownAfterAlways(c, r) == r.want

(* setSshEnabled() and its like, if res.ok                                 *)
ShownAfter(c, r) == IF r.at = "ok" THEN r.want ELSE shown[c]

(* A request without the PIN gets its fault reported like any other.       *)
SetAnswered(c) ==
  \E r \in asked[c] :
    /\ r.at # "sent"
    /\ shown' = [shown EXCEPT ![c] = ShownAfter(c, r)]
    /\ asked' = [asked EXCEPT ![c] = @ \ {r}]
    /\ UNCHANGED <<pinVars, updateVars, real, looked, doubt>>

(* NETWORK FAULT or TIMEOUT: the device has been set all the same, or may  *)
(* still be, by SetElsewhere.                                              *)
SetLost(c) ==
  \E r \in asked[c] :
    /\ asked' = [asked EXCEPT ![c] = @ \ {r}]
    /\ doubt' = [doubt EXCEPT ![c] = @ \/ r.at = "ok"]
    /\ UNCHANGED <<pinVars, updateVars, real, shown, looked>>

-----------------------------------------------------------------------------
Next ==
  \/ SaveLength \/ RegeneratePin \/ \E n \in Length : WindowEnds(n)
  \/ VerifyClicked \/ VerifyHandled \/ VerifyAnswered \/ Dismiss \/ Unlock
  \/ CheckClicked \/ CheckHandled \/ CheckAnswered
  \/ InstallClicked \/ ApplyHandled \/ ApplyAnswered \/ VerifyStep
  \/ Rebooting \/ Leave
  \/ \E c \in Control :
       \/ Look(c) \/ LookAnswered(c) \/ SetElsewhere(c)
       \/ Ask(c) \/ Set(c) \/ SetAnswered(c) \/ SetLost(c)

Spec == Init /\ [][Next]_vars

-----------------------------------------------------------------------------
TypeOK ==
  /\ pinLen \in Length /\ lenSetting \in Length /\ gateLen \in Length
  /\ \A n \in Length : tries[n] \in 0..(MaxTries[n] + 1)
  /\ verify \in {"idle", "right", "wrong", "limited", "ok", "denied"}
  /\ page \in {"update", "settings"}
  /\ {cookie, gate, locked, dismissing} \subseteq BOOLEAN
  /\ check \in Reply /\ apply \in Reply
  /\ {offer, installing, failedStep, timer, rebooting, event} \subseteq BOOLEAN
  /\ {applied, dropped} \subseteq BOOLEAN /\ step \in 0..4
  /\ failedStep => step > 0
  /\ real \in [Control -> Setting] /\ shown \in [Control -> Setting]
  /\ asked \in [Control -> SUBSET Asked]
  /\ looked \in [Control -> {"idle", "asked"} \cup Setting]
  /\ doubt \in [Control -> BOOLEAN]

(* A page that says it installs is waiting for the server, or the server   *)
(* has installed the update, except that an installation stopped by the    *)
(* PIN overlay stays on the page for ever (see the README).                *)
InstallEnds ==
  installing /\ apply = "idle" /\ ~rebooting => applied \/ dropped

(* A control that no request is out for shows the state of the device,     *)
(* unless it was set behind the page's back, its answers were lost or      *)
(* untrue, or its requests overlapped.                                     *)
ShownIsReal ==
  \A c \in Control : looked[c] = "idle" /\ asked[c] = {} /\ ~doubt[c] =>
    shown[c] = real[c]
=============================================================================
