------------------------- MODULE DevicePages_proofs -------------------------
(***************************************************************************)
(* The installation, the controls and the types of the pages, for any      *)
(* limits and any number of overlapping requests.                          *)
(***************************************************************************)
EXTENDS DevicePages, TLAPS

(* The limiter counts, for the length that is in the settings.             *)
Counted == tries \in [Length -> Nat] /\ lenSetting \in Length

(* An answer that is on its way and says ok has installed the update.      *)
Installs ==
  /\ apply \in Reply
  /\ apply = "ok" => applied
  /\ InstallEnds

(* One request of a control, of which there is no doubt: until the device  *)
(* is set the page shows its state, then the request names it.             *)
Names(c, r) ==
  IF r.at = "ok" THEN real[c] = r.want ELSE shown[c] = real[c]

(* A control without doubt has one request under way at most, which either *)
(* reads or sets it.                                                       *)
Shows(c) ==
  ~doubt[c] =>
    \/ looked[c] = "idle" /\ asked[c] = {} /\ shown[c] = real[c]
    \/ looked[c] = "asked" /\ asked[c] = {}
    \/ looked[c] = real[c] /\ asked[c] = {}
    \/ looked[c] = "idle" /\ \E r \in Asked : asked[c] = {r} /\ Names(c, r)

ControlTypes ==
  /\ real \in [Control -> Setting] /\ shown \in [Control -> Setting]
  /\ asked \in [Control -> SUBSET Asked]
  /\ looked \in [Control -> {"idle", "asked"} \cup Setting]
  /\ doubt \in [Control -> BOOLEAN]

Controls == ControlTypes /\ \A c \in Control : Shows(c)

IInv == Counted /\ Installs /\ Controls

-----------------------------------------------------------------------------
(* No step makes anything else of the count.                               *)
LEMMA CountedNext == Counted /\ [Next]_vars => Counted'
<1> SUFFICES ASSUME Counted, [Next]_vars PROVE Counted'
  OBVIOUS
<1> USE DeviceAssumption DEF Counted, Length
<1>1. ASSUME NEW n \in Length, WindowEnds(n) PROVE Counted'
  BY <1>1 DEF WindowEnds
<1>2. CASE VerifyHandled
  <2> DEFINE n == lenSetting
             count == IF tries[n] > MaxTries[n] THEN tries[n] ELSE tries[n] + 1
  <2>1. CASE tries' = [tries EXCEPT ![n] = count]
    BY <1>2, <2>1 DEF VerifyHandled
  <2>2. CASE tries' = Reset(n)
    BY <1>2, <2>2 DEF VerifyHandled, Reset
  <2> QED
    BY <1>2, <2>1, <2>2 DEF VerifyHandled
<1>3. CASE SaveLength
  BY <1>3 DEF SaveLength
<1>4. CASE \/ RegeneratePin \/ VerifyClicked \/ VerifyAnswered \/ Dismiss \/ Unlock
           \/ CheckClicked \/ CheckHandled \/ CheckAnswered
           \/ InstallClicked \/ ApplyHandled \/ ApplyAnswered \/ VerifyStep
           \/ Rebooting \/ Leave
  BY <1>4 DEF RegeneratePin, VerifyClicked, VerifyAnswered, Dismiss, Unlock,
     CheckClicked, CheckHandled, CheckAnswered, InstallClicked, ApplyHandled,
     ApplyAnswered, VerifyStep, Rebooting, Leave, serverVars
<1>5. ASSUME NEW c \in Control,
             \/ Look(c) \/ LookAnswered(c) \/ SetElsewhere(c)
             \/ Ask(c) \/ Set(c) \/ SetAnswered(c) \/ SetLost(c)
      PROVE  Counted'
  BY <1>5 DEF Look, LookAnswered, SetElsewhere, Ask, Set, SetAnswered, SetLost, pinVars, serverVars
<1>6. CASE UNCHANGED vars
  BY <1>6 DEF vars, serverVars
<1> QED
  BY <1>1, <1>2, <1>3, <1>4, <1>5, <1>6 DEF Next

(* The page stops installing when it is answered anything but ok or        *)
(* needs_pin, and ok is answered only after the update was installed.      *)
LEMMA InstallsNext == Installs /\ [Next]_vars => Installs'
<1> SUFFICES ASSUME Installs, [Next]_vars PROVE Installs'
  OBVIOUS
<1> USE DEF Installs, InstallEnds, Reply
<1>1. CASE InstallClicked
  BY <1>1 DEF InstallClicked
<1>2. CASE ApplyHandled
  BY <1>2 DEF ApplyHandled, Outcome
<1>3. CASE ApplyAnswered
  <2>1. apply' = "idle" /\ rebooting' = rebooting /\ applied' = applied
    BY <1>3 DEF ApplyAnswered
  <2>2. apply \in {"ok", "fault", "needs_pin"}
    BY <1>3 DEF ApplyAnswered
  <2>3. CASE apply = "ok"
    BY <2>1, <2>3
  <2>4. CASE apply = "fault"
    <3>1. installing' = FALSE
      BY <1>3, <2>4 DEF ApplyAnswered, InstallingAfter
    <3> QED
      BY <2>1, <3>1
  <2>5. CASE apply = "needs_pin"
    <3>1. dropped' = (dropped \/ apply = "needs_pin")
      BY <1>3, Zenon DEF ApplyAnswered
    <3>2. dropped' = TRUE
      BY <2>5, <3>1
    <3> QED
      BY <2>1, <3>2
  <2> QED
    BY <2>2, <2>3, <2>4, <2>5
<1>4. CASE Rebooting
  <2>1. UNCHANGED <<apply, installing, applied, dropped>>
    BY <1>4 DEF Rebooting
  <2>2. rebooting' \/ rebooting' = rebooting
    BY <1>4, Zenon DEF Rebooting
  <2> QED
    BY <2>1, <2>2, Zenon
<1>5. CASE Leave
  BY <1>5 DEF Leave
<1>6. CASE VerifyStep \/ CheckClicked \/ CheckHandled \/ CheckAnswered
  <2>1. UNCHANGED <<apply, installing, applied, dropped, rebooting>>
    BY <1>6, Zenon DEF VerifyStep, CheckClicked, CheckHandled, CheckAnswered
  <2> QED
    BY <2>1, Zenon
<1>7. CASE \/ SaveLength \/ RegeneratePin \/ \E n \in Length : WindowEnds(n)
           \/ VerifyClicked \/ VerifyHandled \/ VerifyAnswered \/ Dismiss \/ Unlock
  BY <1>7 DEF SaveLength, RegeneratePin, WindowEnds, VerifyClicked, VerifyHandled,
     VerifyAnswered, Dismiss, Unlock, updateVars
<1>8. ASSUME NEW c \in Control,
             \/ Look(c) \/ LookAnswered(c) \/ SetElsewhere(c)
             \/ Ask(c) \/ Set(c) \/ SetAnswered(c) \/ SetLost(c)
      PROVE  Installs'
  BY <1>8 DEF Look, LookAnswered, SetElsewhere, Ask, Set, SetAnswered, SetLost, updateVars
<1>9. CASE UNCHANGED vars
  BY <1>9 DEF vars, updateVars
<1> QED
  BY <1>1, <1>2, <1>3, <1>4, <1>5, <1>6, <1>7, <1>8, <1>9 DEF Next

-----------------------------------------------------------------------------
(* A step of one control leaves the others alone.                          *)
LEMMA ControlStep ==
  ASSUME ControlTypes, NEW c \in Control,
         \/ Look(c) \/ LookAnswered(c) \/ SetElsewhere(c)
         \/ Ask(c) \/ Set(c) \/ SetAnswered(c) \/ SetLost(c)
  PROVE  /\ ControlTypes'
         /\ \A d \in Control \ {c} :
              /\ real'[d] = real[d] /\ shown'[d] = shown[d] /\ asked'[d] = asked[d]
              /\ looked'[d] = looked[d] /\ doubt'[d] = doubt[d]
<1> USE DEF ControlTypes, Setting
<1>1. CASE Look(c)
  <2>1. doubt' \in [Control -> BOOLEAN]
    BY <1>1 DEF Look
  <2> QED
    BY <1>1, <2>1 DEF Look
<1>2. CASE LookAnswered(c)
  BY <1>2 DEF LookAnswered
<1>7. CASE SetElsewhere(c)
  <2>1. doubt' \in [Control -> BOOLEAN]
    BY <1>7 DEF SetElsewhere
  <2> QED
    BY <1>7, <2>1 DEF SetElsewhere
<1>3. CASE Ask(c)
  <2>1. \A v \in Setting : [want |-> v, at |-> "sent"] \in Asked
    BY DEF Asked
  <2> QED
    BY <1>3, <2>1 DEF Ask
<1>4. CASE Set(c)
  <2>1. PICK r \in asked[c], result \in Outcome({"ok", "fault"}), done \in BOOLEAN :
          /\ real' = IF done THEN [real EXCEPT ![c] = r.want] ELSE real
          /\ asked' = [asked EXCEPT ![c] = (@ \ {r}) \cup {[r EXCEPT !.at = result]}]
          /\ doubt' = [doubt EXCEPT ![c] = @ \/ (done /\ result = "fault")]
          /\ UNCHANGED <<shown, looked>>
    BY <1>4 DEF Set
  <2>2. r \in Asked /\ r.want \in Setting
    BY DEF Asked
  <2>3. [r EXCEPT !.at = result] \in Asked
    BY <2>2 DEF Asked, Outcome
  <2>4. doubt' \in [Control -> BOOLEAN]
    BY <2>1
  <2> QED
    BY <2>1, <2>2, <2>3, <2>4
<1>5. CASE SetAnswered(c)
  BY <1>5 DEF SetAnswered, ShownAfter, Asked
<1>6. CASE SetLost(c)
  BY <1>6 DEF SetLost
<1> QED
  BY <1>1, <1>2, <1>3, <1>4, <1>5, <1>6, <1>7

(* What a control shows follows from the one request it has under way, or  *)
(* there is doubt.                                                         *)
LEMMA ShowsNext ==
  ASSUME ControlTypes, NEW c \in Control, Shows(c),
         \/ Look(c) \/ LookAnswered(c) \/ SetElsewhere(c)
         \/ Ask(c) \/ Set(c) \/ SetAnswered(c) \/ SetLost(c)
  PROVE  Shows(c)'
<1> USE DEF ControlTypes, Setting, Shows, Names
<1>1. CASE Look(c)
  <2> SUFFICES ASSUME ~doubt'[c] PROVE Shows(c)'
    OBVIOUS
  <2>1. PICK answer \in {real[c], "a"} :
          /\ looked' = [looked EXCEPT ![c] = answer]
          /\ doubt' = [doubt EXCEPT ![c] = @ \/ answer # real[c]]
    BY <1>1 DEF Look
  <2>2. ~doubt[c] /\ answer = real[c]
    BY <2>1
  <2>3. looked[c] = "asked" /\ UNCHANGED <<real, asked>>
    BY <1>1 DEF Look
  <2> QED
    BY <2>1, <2>2, <2>3
<1>2. CASE LookAnswered(c)
  BY <1>2 DEF LookAnswered
<1>7. CASE SetElsewhere(c)
  <2> SUFFICES ASSUME ~doubt'[c] PROVE Shows(c)'
    OBVIOUS
  <2>1. looked[c] = "asked" /\ asked[c] = {} /\ UNCHANGED <<asked, looked>>
    BY <1>7 DEF SetElsewhere
  <2> QED
    BY <2>1
<1>3. CASE Ask(c)
  <2> SUFFICES ASSUME ~doubt'[c] PROVE Shows(c)'
    OBVIOUS
  <2>1. ~doubt[c] /\ asked[c] = {} /\ looked[c] = "idle" /\ shown[c] = real[c]
    BY <1>3 DEF Ask
  <2>2. PICK v \in Setting : asked' = [asked EXCEPT ![c] = {[want |-> v, at |-> "sent"]}]
    BY <1>3, <2>1 DEF Ask
  <2>3. [want |-> v, at |-> "sent"] \in Asked
    BY DEF Asked
  <2>4. UNCHANGED <<real, shown, looked>>
    BY <1>3 DEF Ask
  <2> QED
    BY <2>1, <2>2, <2>3, <2>4
<1>4. CASE Set(c)
  <2> SUFFICES ASSUME ~doubt'[c] PROVE Shows(c)'
    OBVIOUS
  <2>1. PICK r \in asked[c], result \in Outcome({"ok", "fault"}), done \in BOOLEAN :
          /\ r.at = "sent"
          /\ (result = "ok" => done) /\ (result = "needs_pin" => ~done)
          /\ real' = IF done THEN [real EXCEPT ![c] = r.want] ELSE real
          /\ asked' = [asked EXCEPT ![c] = (@ \ {r}) \cup {[r EXCEPT !.at = result]}]
          /\ doubt' = [doubt EXCEPT ![c] = @ \/ (done /\ result = "fault")]
          /\ UNCHANGED <<shown, looked>>
    BY <1>4 DEF Set
  <2>0. ~doubt[c] /\ ~(done /\ result = "fault")
    BY <2>1
  <2>2. r \in Asked /\ asked[c] = {r} /\ looked[c] = "idle" /\ shown[c] = real[c]
    BY <2>0, <2>1
  <2> DEFINE s == [r EXCEPT !.at = result]
  <2>3. s \in Asked /\ s.at = result /\ s.want = r.want
    BY <2>2 DEF Asked, Outcome
  <2>4. asked'[c] = {s}
    BY <2>1, <2>2
  <2>6. done <=> result = "ok"
    BY <2>0, <2>1 DEF Outcome
  <2>5. IF result = "ok" THEN real'[c] = r.want ELSE real'[c] = shown'[c]
    BY <2>1, <2>2, <2>6
  <2> HIDE DEF s
  <2> QED
    BY <2>1, <2>2, <2>3, <2>4, <2>5
<1>5. CASE SetAnswered(c)
  <2> SUFFICES ASSUME ~doubt'[c] PROVE Shows(c)'
    OBVIOUS
  <2>1. PICK r \in asked[c] :
          /\ r.at # "sent"
          /\ shown' = [shown EXCEPT ![c] = ShownAfter(c, r)]
          /\ asked' = [asked EXCEPT ![c] = @ \ {r}]
          /\ UNCHANGED <<real, looked, doubt>>
    BY <1>5 DEF SetAnswered
  <2>2. asked[c] = {r} /\ looked[c] = "idle" /\ Names(c, r)
    BY <2>1
  <2> QED
    BY <2>1, <2>2 DEF ShownAfter
<1>6. CASE SetLost(c)
  <2> SUFFICES ASSUME ~doubt'[c] PROVE Shows(c)'
    OBVIOUS
  <2>1. PICK r \in asked[c] :
          /\ asked' = [asked EXCEPT ![c] = @ \ {r}]
          /\ doubt' = [doubt EXCEPT ![c] = @ \/ r.at = "ok"]
          /\ UNCHANGED <<real, shown, looked>>
    BY <1>6 DEF SetLost
  <2>2. ~doubt[c] /\ r.at # "ok"
    BY <2>1
  <2>3. asked[c] = {r} /\ looked[c] = "idle" /\ Names(c, r)
    BY <2>1, <2>2
  <2> QED
    BY <2>1, <2>2, <2>3
<1> QED
  BY <1>1, <1>2, <1>3, <1>4, <1>5, <1>6, <1>7

(* The overlay and the update page leave the controls alone, except that   *)
(* the page that is opened reads them anew.                                *)
LEMMA ControlsNext == Controls /\ [Next]_vars => Controls'
<1> SUFFICES ASSUME Controls, [Next]_vars PROVE Controls'
  OBVIOUS
<1>1. ASSUME NEW c \in Control,
             \/ Look(c) \/ LookAnswered(c) \/ SetElsewhere(c)
             \/ Ask(c) \/ Set(c) \/ SetAnswered(c) \/ SetLost(c)
      PROVE  Controls'
  <2>1. ControlTypes' /\ Shows(c)'
    BY <1>1, ControlStep, ShowsNext DEF Controls
  <2>2. \A d \in Control \ {c} : Shows(d)'
    BY <1>1, ControlStep DEF Controls, Shows, Names
  <2> QED
    BY <2>1, <2>2 DEF Controls
<1>2. CASE Leave
  <2>1. ControlTypes'
    <3>1. doubt' \in [Control -> BOOLEAN]
      BY <1>2 DEF Leave
    <3> QED
      BY <1>2, <3>1 DEF Leave, Controls, ControlTypes, Setting
  <2>2. \A c \in Control : Shows(c)'
    BY <1>2 DEF Leave, Shows
  <2> QED
    BY <2>1, <2>2 DEF Controls
<1>3. CASE UNCHANGED controlVars
  BY <1>3 DEF controlVars, Controls, ControlTypes, Shows, Names
<1>4. \/ Leave \/ UNCHANGED controlVars
      \/ \E c \in Control :
           \/ Look(c) \/ LookAnswered(c) \/ SetElsewhere(c)
           \/ Ask(c) \/ Set(c) \/ SetAnswered(c) \/ SetLost(c)
  BY DEF Next, vars, SaveLength, RegeneratePin, WindowEnds, VerifyClicked,
     VerifyHandled, VerifyAnswered, Dismiss, Unlock, CheckClicked, CheckHandled,
     CheckAnswered, InstallClicked, ApplyHandled, ApplyAnswered, VerifyStep, Rebooting
<1> QED
  BY <1>1, <1>2, <1>3, <1>4

-----------------------------------------------------------------------------
(* The inductive invariant holds in every reachable state.                 *)
THEOREM Invariance == Spec => []IInv
<1>1. Init => IInv
  <2> SUFFICES ASSUME Init PROVE IInv
    OBVIOUS
  <2>1. Counted
    BY DeviceAssumption DEF Init, Counted, Length
  <2>2. Installs
    BY DEF Init, Installs, InstallEnds, Reply
  <2>3. Controls
    BY DEF Init, Controls, ControlTypes, Shows, Setting
  <2> QED
    BY <2>1, <2>2, <2>3 DEF IInv
<1>2. IInv /\ [Next]_vars => IInv'
  BY CountedNext, InstallsNext, ControlsNext DEF IInv
<1> QED
  BY <1>1, <1>2, PTL DEF Spec

(* A page that says it installs waits for the server, or the update has    *)
(* been installed, or the overlay has stopped it.                          *)
THEOREM InstallationEnds == Spec => []InstallEnds
<1>1. IInv => InstallEnds
  BY DEF IInv, Installs
<1> QED
  BY <1>1, Invariance, PTL

(* A control that no request is out for shows the state of the device, for *)
(* any number of controls and of overlapping requests.                     *)
THEOREM ShowsDevice == Spec => []ShownIsReal
<1>1. IInv => ShownIsReal
  BY DEF IInv, Controls, ControlTypes, Shows, ShownIsReal, Setting
<1> QED
  BY <1>1, Invariance, PTL

-----------------------------------------------------------------------------
(* The limiter never counts more than one attempt past its limit.          *)
PinTypes ==
  /\ pinLen \in Length /\ gateLen \in Length
  /\ \A n \in Length : tries[n] <= MaxTries[n] + 1
  /\ verify \in {"idle", "right", "wrong", "limited", "ok", "denied"}
  /\ page \in {"update", "settings"}
  /\ cookie \in BOOLEAN /\ gate \in BOOLEAN /\ locked \in BOOLEAN /\ dismissing \in BOOLEAN

(* What the update page says and asks for.                                 *)
UpdateTypes ==
  /\ check \in Reply /\ apply \in Reply /\ step \in 0..4
  /\ offer \in BOOLEAN /\ installing \in BOOLEAN /\ failedStep \in BOOLEAN
  /\ timer \in BOOLEAN /\ rebooting \in BOOLEAN /\ event \in BOOLEAN
  /\ applied \in BOOLEAN /\ dropped \in BOOLEAN
  /\ failedStep => step > 0
  /\ apply # "idle" => installing /\ step > 0

-----------------------------------------------------------------------------
(* The overlay and the limiter keep their types.                           *)
LEMMA PinTypesNext == Counted /\ PinTypes /\ [Next]_vars => PinTypes'
<1> SUFFICES ASSUME Counted, PinTypes, [Next]_vars PROVE PinTypes'
  OBVIOUS
<1> USE DEF PinTypes
<1>0. lenSetting \in Length /\ tries \in [Length -> Nat] /\ MaxTries \in [Length -> Nat \ {0}]
  BY DeviceAssumption DEF Counted, Length
<1>1. ASSUME NEW reply, NeedsPin(reply) PROVE gate' \in BOOLEAN
  <2>1. gate' = (gate \/ reply = "needs_pin")
    BY <1>1, Zenon DEF NeedsPin
  <2> QED
    BY <2>1
<1>2. CASE SaveLength
  BY <1>2 DEF SaveLength, gateVars
<1>3. CASE RegeneratePin
  BY <1>0, <1>3 DEF RegeneratePin
<1>4. ASSUME NEW n \in Length, WindowEnds(n) PROVE PinTypes'
  BY <1>0, <1>4 DEF WindowEnds, gateVars
<1>5. CASE VerifyClicked \/ VerifyAnswered \/ Dismiss \/ Unlock
  BY <1>5 DEF VerifyClicked, VerifyAnswered, Dismiss, Unlock, serverVars
<1>6. CASE VerifyHandled
  <2> DEFINE n == lenSetting
             count == IF tries[n] > MaxTries[n] THEN tries[n] ELSE tries[n] + 1
  <2>1. tries' = [tries EXCEPT ![n] = count] \/ tries' = [tries EXCEPT ![n] = 0]
    BY <1>6 DEF VerifyHandled, Reset
  <2>2. \A m \in Length : tries'[m] <= MaxTries[m] + 1
    <3>1. \A m \in Length : tries[m] \in Nat /\ MaxTries[m] \in Nat
      BY <1>0
    <3> QED
      BY <1>0, <2>1, <3>1
  <2>3. cookie' \in BOOLEAN
    BY <1>6 DEF VerifyHandled
  <2>4. verify' \in {"limited", "ok", "denied"}
    BY <1>6 DEF VerifyHandled
  <2>5. UNCHANGED <<pinLen, gate, gateLen, locked, dismissing, page>>
    BY <1>6 DEF VerifyHandled
  <2> QED
    BY <2>2, <2>3, <2>4, <2>5
<1>7. CASE CheckAnswered
  <2>1. gate' \in BOOLEAN
    BY <1>1, <1>7 DEF CheckAnswered
  <2> QED
    BY <1>7, <2>1 DEF CheckAnswered, serverVars
<1>8. CASE ApplyAnswered
  <2>1. gate' \in BOOLEAN
    BY <1>1, <1>8 DEF ApplyAnswered
  <2> QED
    BY <1>8, <2>1 DEF ApplyAnswered, serverVars
<1>9. CASE Leave
  BY <1>9 DEF Leave, serverVars
<1>10. CASE CheckClicked \/ CheckHandled \/ InstallClicked \/ ApplyHandled \/ VerifyStep
             \/ Rebooting
  BY <1>10 DEF CheckClicked, CheckHandled, InstallClicked, ApplyHandled, VerifyStep,
     Rebooting, serverVars, gateVars
<1>11. ASSUME NEW c \in Control,
              \/ Look(c) \/ LookAnswered(c) \/ SetElsewhere(c)
              \/ Ask(c) \/ Set(c) \/ SetAnswered(c) \/ SetLost(c)
       PROVE  PinTypes'
  BY <1>11 DEF Look, LookAnswered, SetElsewhere, Ask, Set, SetAnswered, SetLost, pinVars, serverVars, gateVars
<1>12. CASE UNCHANGED vars
  BY <1>12 DEF vars, serverVars, gateVars
<1> QED
  BY <1>2, <1>3, <1>4, <1>5, <1>6, <1>7, <1>8, <1>9, <1>10, <1>11, <1>12 DEF Next

(* So does the update page.                                                *)
LEMMA UpdateTypesNext == UpdateTypes /\ [Next]_vars => UpdateTypes'
<1> SUFFICES ASSUME UpdateTypes, [Next]_vars PROVE UpdateTypes'
  OBVIOUS
<1> USE DEF UpdateTypes, Reply
<1>1. CASE CheckClicked
  <2>1. offer' \in BOOLEAN /\ failedStep' \in BOOLEAN
    BY <1>1, Zenon DEF CheckClicked, FaultAtStart
  <2> QED
    BY <1>1, <2>1 DEF CheckClicked, FaultAtStart
<1>2. CASE CheckHandled
  BY <1>2 DEF CheckHandled, Outcome
<1>3. CASE CheckAnswered
  BY <1>3 DEF CheckAnswered
<1>4. CASE InstallClicked
  <2>1. installing' \in BOOLEAN /\ failedStep' \in BOOLEAN
    BY <1>4, Zenon DEF InstallClicked, FaultAtStart
  <2> QED
    BY <1>4, <2>1 DEF InstallClicked, FaultAtStart
<1>5. CASE ApplyHandled
  <2>1. /\ event' = (event \/ apply' = "ok") /\ applied' = (applied \/ apply' = "ok")
        /\ apply' \in Outcome({"ok", "fault"})
    BY <1>5, Zenon DEF ApplyHandled
  <2>2. event' \in BOOLEAN /\ applied' \in BOOLEAN
    BY <2>1, Zenon
  <2>3. UNCHANGED <<check, offer, installing, step, failedStep, timer, rebooting, dropped>>
    BY <1>5 DEF ApplyHandled
  <2>4. apply # "idle"
    BY <1>5 DEF ApplyHandled
  <2>5. installing /\ step > 0
    BY <2>4
  <2> QED
    BY <2>1, <2>2, <2>3, <2>5 DEF Outcome
<1>6. CASE ApplyAnswered
  <2>1. /\ installing' = (apply # "fault") /\ failedStep' = (apply = "fault")
        /\ timer' = (apply = "ok") /\ dropped' = (dropped \/ apply = "needs_pin")
    BY <1>6, Zenon DEF ApplyAnswered, InstallingAfter
  <2>2. {installing', failedStep', timer', dropped'} \subseteq BOOLEAN
    BY <2>1
  <2>3. /\ apply' = "idle" /\ step' \in {2, step}
        /\ UNCHANGED <<check, offer, rebooting, event, applied>>
    BY <1>6 DEF ApplyAnswered
  <2>4. apply # "idle"
    BY <1>6 DEF ApplyAnswered
  <2>5. step > 0
    BY <2>4
  <2> QED
    BY <2>2, <2>3, <2>5
<1>7. CASE VerifyStep
  <2>1. timer' \in BOOLEAN
    BY <1>7, Zenon DEF VerifyStep
  <2> QED
    BY <1>7, <2>1 DEF VerifyStep
<1>8. CASE Rebooting
  <2>1. event' \in BOOLEAN /\ rebooting' \in BOOLEAN
    BY <1>8, Zenon DEF Rebooting
  <2> QED
    BY <1>8, <2>1 DEF Rebooting
<1>9. CASE Leave
  <2>1. /\ timer' \in BOOLEAN /\ offer' \in BOOLEAN /\ installing' \in BOOLEAN
        /\ failedStep' \in BOOLEAN /\ rebooting' \in BOOLEAN /\ event' \in BOOLEAN
        /\ applied' \in BOOLEAN /\ dropped' \in BOOLEAN
    BY <1>9, Zenon DEF Leave
  <2> QED
    BY <1>9, <2>1 DEF Leave
<1>10. CASE \/ SaveLength \/ RegeneratePin \/ \E n \in Length : WindowEnds(n)
            \/ VerifyClicked \/ VerifyHandled \/ VerifyAnswered \/ Dismiss \/ Unlock
  BY <1>10 DEF SaveLength, RegeneratePin, WindowEnds, VerifyClicked, VerifyHandled,
     VerifyAnswered, Dismiss, Unlock, updateVars
<1>11. ASSUME NEW c \in Control,
              \/ Look(c) \/ LookAnswered(c) \/ SetElsewhere(c)
              \/ Ask(c) \/ Set(c) \/ SetAnswered(c) \/ SetLost(c)
       PROVE  UpdateTypes'
  BY <1>11 DEF Look, LookAnswered, SetElsewhere, Ask, Set, SetAnswered, SetLost, updateVars
<1>12. CASE UNCHANGED vars
  BY <1>12 DEF vars, updateVars
<1> QED
  BY <1>1, <1>2, <1>3, <1>4, <1>5, <1>6, <1>7, <1>8, <1>9, <1>10, <1>11, <1>12 DEF Next

(* Every variable keeps to its type, and the limiter to one attempt past   *)
(* its limit, whatever is pressed and answered in which order.             *)
THEOREM DeviceTypes == Spec => []TypeOK
<1>1. Init => PinTypes /\ UpdateTypes
  <2> SUFFICES ASSUME Init PROVE PinTypes /\ UpdateTypes
    OBVIOUS
  <2>1. PinTypes
    <3>1. gate \in BOOLEAN /\ locked \in BOOLEAN /\ dismissing \in BOOLEAN
      BY Zenon DEF Init
    <3> QED
      BY <3>1, DeviceAssumption DEF Init, PinTypes, Length
  <2>2. UpdateTypes
    <3>1. /\ timer \in BOOLEAN /\ offer \in BOOLEAN /\ installing \in BOOLEAN
          /\ failedStep \in BOOLEAN /\ rebooting \in BOOLEAN /\ event \in BOOLEAN
          /\ applied \in BOOLEAN /\ dropped \in BOOLEAN
      BY Zenon DEF Init
    <3> QED
      BY <3>1 DEF Init, UpdateTypes, Reply
  <2> QED
    BY <2>1, <2>2
<1>2. IInv /\ PinTypes /\ UpdateTypes /\ [Next]_vars => PinTypes' /\ UpdateTypes'
  BY PinTypesNext, UpdateTypesNext DEF IInv
<1>3. IInv /\ PinTypes /\ UpdateTypes => TypeOK
  BY DEF IInv, Counted, Controls, ControlTypes, PinTypes, UpdateTypes, TypeOK
<1> QED
  BY <1>1, <1>2, <1>3, Invariance, PTL DEF Spec
=============================================================================
