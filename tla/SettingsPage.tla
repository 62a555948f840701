---------------------------- MODULE SettingsPage ----------------------------
(***************************************************************************)
(* The settings page (Settings.jsx), open on several phones, with the part *)
(* of the server it talks to (api.py, config.py).  Every phone keeps a     *)
(* copy of the settings and the set of keys its user has edited, and saves *)
(* just those keys; the server merges them under config._lock.             *)
(*                                                                         *)
(* A setting's value is abstracted to two legal ones, "a" and "b", and to  *)
(* "bad", which stands for what a control lets through and the server      *)
(* refuses.  A request that fails is lost before the server handles it or  *)
(* loses its answer; after 15 s without an answer the phone counts it as   *)
(* failed and looks at no answer any more, but the server may handle it    *)
(* all the same, later than anything the phone sends next.                 *)
(* Left out: what is only shown, and the browser-local switches (theme,    *)
(* CRT, audio, map).  The buttons that act at once are in DevicePages.     *)
(***************************************************************************)
EXTENDS Naturals, FiniteSets

(* The keys each section of the page edits.                                *)
DisplayKeys == {"photo_duration", "transition_mode", "transition_type",
  "transition_duration_ms", "photo_order", "kenburns_intensity",
  "max_video_duration"}
ScheduleKeys == {"hdmi_schedule_enabled", "hdmi_on_time", "hdmi_off_time",
  "schedule_days"}
SecurityKeys == {"pin_length"}
SystemKeys == {"auto_update_enabled", "max_upload_mb"}

(* A switch that the page saves like a setting: the server acts on it and  *)
(* stores nothing.                                                         *)
ActionKeys == {"display_on"}

(* Settings of the server that no section edits.                           *)
OtherKeys == {"shuffle", "qr_display_seconds", "auto_resize_max"}

CONSTANTS
  Phone,     \* phones that have the page open
  Key,       \* the settings of the instance
  MaxCalls,  \* bound: requests under way, given up or not, of all phones
  MaxLate    \* bound: saves given up that the server has yet to handle

ASSUME SettingsAssumption ==
  /\ Key \subseteq DisplayKeys \cup ScheduleKeys \cup SecurityKeys
                   \cup SystemKeys \cup ActionKeys \cup OtherKeys
  /\ MaxCalls \in Nat /\ MaxLate \in Nat

VARIABLES
  stored,    \* the settings in .env, and whether the TV is on
  settings,  \* settings[p]: the phone's copy, Empty until the first answer
  dirty,     \* dirty[p]: keys edited since the last save
  load,      \* load[p]: the GET under way, see Call
  save,      \* save[p]: the POST under way; saving is (save[p] # Idle)
  late,      \* saves the phones have given up and the server may handle,
             \* with what their user had picked
  failed,    \* failed[p]: the last load failed, only RETRY is shown
  choice,    \* history: choice[p][k], the user's choice not yet confirmed
  mixed      \* history: edits of p overlapped a save or a load

vars == <<stored, settings, dirty, load, save, late, failed, choice, mixed>>

None == "none"
NoChoice == [k \in Key |-> None]
Legal == {"a", "b"}
Value == Legal \cup {"bad"}
Settings == [Key -> Value]
Partial == UNION {[K -> Value] : K \in SUBSET Key}

(* A request is "sent", "kept" or "refused" by the server, and "answered"; *)
(* its body is what is sent and then what is answered.                     *)
Call == [at : {"idle", "sent", "kept", "refused", "answered"}, body : Partial]
Empty == [k \in {} |-> None]
Idle == [at |-> "idle", body |-> Empty]
Asking == [at |-> "sent", body |-> Empty]
Abandoned == [body : Partial, meant : [Key -> Value \cup {None}], mixed : BOOLEAN]

Init ==
  /\ stored \in [Key -> {"a"}]
  /\ settings = [p \in Phone |-> Empty]
  /\ dirty = [p \in Phone |-> {}]
  /\ load = [p \in Phone |-> Asking]
  /\ save = [p \in Phone |-> Idle]
  /\ late = {}
  /\ failed = [p \in Phone |-> FALSE]
  /\ choice = [p \in Phone |-> NoChoice]
  /\ mixed = [p \in Phone |-> FALSE]

-----------------------------------------------------------------------------
(* Requests under way: those of the phones in Q, and those given up.       *)
Calls(Q) == Cardinality({p \in Q : load[p] # Idle})
              + Cardinality({p \in Q : save[p] # Idle}) + Cardinality(late)

(* loadSettings(), called on mount, by RETRY and after an import.          *)
LoadSettings(p) ==
  /\ load' = [load EXCEPT ![p] = Asking]
  /\ failed' = [failed EXCEPT ![p] = FALSE]

Retry(p) ==
  /\ failed[p] /\ load[p] = Idle /\ Calls(Phone) < MaxCalls
  /\ LoadSettings(p)
  /\ UNCHANGED <<stored, settings, dirty, save, late, choice, mixed>>

(* _current_settings() does not mention a switch, and the page shows what  *)
(* is not mentioned as on.                                                 *)
Reported == [k \in Key |-> IF k \in ActionKeys THEN "a" ELSE stored[k]]

(* GET /api/settings: what is in the configuration now.                    *)
LoadHandled(p) ==
  /\ load[p].at = "sent"
  /\ load' = [load EXCEPT ![p] = [at |-> "answered", body |-> Reported]]
  /\ UNCHANGED <<stored, settings, dirty, save, late, failed, choice, mixed>>

(* The answer replaces the copy, edits included; dirty is left alone.      *)
LoadAnswered(p) ==
  /\ load[p].at = "answered"
  /\ settings' = [settings EXCEPT ![p] = load[p].body]
  /\ load' = [load EXCEPT ![p] = Idle]
  /\ mixed' = [mixed EXCEPT ![p] = @ \/ dirty[p] # {} \/ save[p] # Idle]
  /\ choice' = [choice EXCEPT ![p] = IF mixed'[p] THEN NoChoice ELSE @]
  /\ UNCHANGED <<stored, dirty, save, late, failed>>

LoadFails(p) ==
  /\ load[p] # Idle
  /\ load' = [load EXCEPT ![p] = Idle]
  /\ failed' = [failed EXCEPT ![p] = TRUE]
  /\ UNCHANGED <<stored, settings, dirty, save, late, choice, mixed>>

(* The form is on the page.                                                *)
Open(p) == settings[p] # Empty /\ ~failed[p]

(* Controls inside a disclosure: the transition only for the mode "single" *)
(* ("a"), times and days only while the schedule is on ("a").              *)
Governor(k) ==
  CASE k = "transition_type" -> "transition_mode"
    [] k \in ScheduleKeys \ {"hdmi_schedule_enabled"} -> "hdmi_schedule_enabled"
    [] OTHER -> None
Offered(p, k) ==
  k \notin OtherKeys /\ (Governor(k) \in Key => settings[p][Governor(k)] = "a")

(* Most controls yield legal values only.  A time may be cleared and a     *)
(* limit be negative.  The days come as the text "0,1,..." and leave as a  *)
(* list, whose text form the server's pattern refuses, whatever is picked; *)
(* taking a day out of the text throws, and nothing changes.               *)
Picked(k) ==
  CASE k = "schedule_days" -> {"bad"}
    [] k \in {"hdmi_on_time", "hdmi_off_time", "max_upload_mb"} -> Value
    [] OTHER -> Legal

(* update()                                                                *)
Edit(p, k, v) ==
  /\ Open(p) /\ Offered(p, k)
  /\ v \in Picked(k) /\ v # settings[p][k]
  /\ settings' = [settings EXCEPT ![p][k] = v]
  /\ dirty' = [dirty EXCEPT ![p] = @ \cup {k}]
  /\ mixed' = [mixed EXCEPT ![p] = @ \/ save[p] # Idle \/ load[p] # Idle]
  /\ choice' = [choice EXCEPT ![p] =
                  IF mixed'[p] THEN NoChoice ELSE [@ EXCEPT ![k] = v]]
  /\ UNCHANGED <<stored, load, save, late, failed>>

\* Mutant: the whole copy is sent.
ChangedAll(p) == settings[p]

(* const changed: the edited keys with their present values.               *)
Changed(p) == [k \in dirty[p] |-> settings[p][k]]

\* Mutant: the keys count as saved as soon as they are sent.
StillDirtyNot(p) == {}

(* setDirty({}) comes with the answer, not with the request.               *)
StillDirty(p) == dirty[p]

(* save(); the button is disabled without edits and while it saves.        *)
SaveClicked(p) ==
  /\ Open(p) /\ dirty[p] # {} /\ save[p] = Idle /\ Calls(Phone) < MaxCalls
  /\ save' = [save EXCEPT ![p] = [at |-> "sent", body |-> Changed(p)]]
  /\ dirty' = [dirty EXCEPT ![p] = StillDirty(p)]
  /\ UNCHANGED <<stored, settings, load, late, failed, choice, mixed>>

(* _validate_settings()                                                    *)
Valid(body) == \A k \in DOMAIN body : body[k] # "bad"

(* The TV is switched; config.save() and config.reload().                  *)
Merged(body) == [k \in Key |-> IF k \in DOMAIN body THEN body[k] ELSE stored[k]]

(* update_settings(): all of the request, or nothing of it.                *)
Effect(body) == IF Valid(body) THEN Merged(body) ELSE stored

(* A request of nothing but switches is acted on and then refused, because *)
(* no setting is left in it.                                               *)
Verdict(body) ==
  IF Valid(body) /\ ~(DOMAIN body \subseteq ActionKeys) THEN "kept" ELSE "refused"

SaveHandled(p) ==
  /\ save[p].at = "sent"
  /\ stored' = Effect(save[p].body)
  /\ save' = [save EXCEPT ![p].at = Verdict(save[p].body)]
  /\ UNCHANGED <<settings, dirty, load, late, failed, choice, mixed>>

(* The answer holds _current_settings(), read after the configuration lock *)
(* was given up: saves of other phones may have come in between.           *)
SaveReported(p) ==
  /\ save[p].at = "kept"
  /\ save' = [save EXCEPT ![p] = [at |-> "answered", body |-> Reported]]
  /\ UNCHANGED <<stored, settings, dirty, load, late, failed, choice, mixed>>

(* setSettings(body.settings); setDirty({})                                *)
SaveAnswered(p) ==
  /\ save[p].at = "answered"
  /\ settings' = [settings EXCEPT ![p] = save[p].body]
  /\ dirty' = [dirty EXCEPT ![p] = {}]
  /\ choice' = [choice EXCEPT ![p] = NoChoice]
  /\ save' = [save EXCEPT ![p] = Idle]
  /\ UNCHANGED <<stored, load, late, failed, mixed>>

(* A refusal returns before setDirty({}), and an exception jumps over it.  *)
KeptAfterFault(p) == dirty[p]

(* Mutant: all that the phone shows is on its way.                         *)
GivesUpAll(p) ==
  late' \in {late} \cup
    (IF save[p].at = "sent" /\ Cardinality(late) < MaxLate
     THEN {late \cup {[body |-> settings[p], meant |-> choice[p],
                       mixed |-> mixed[p]]}}
     ELSE {})

(* What the phone no longer waits for is lost, or still on its way to the  *)
(* server.                                                                 *)
GivesUp(p) ==
  late' \in {late} \cup
    (IF save[p].at = "sent" /\ Cardinality(late) < MaxLate
     THEN {late \cup {[body |-> save[p].body, meant |-> choice[p],
                       mixed |-> mixed[p]]}}
     ELSE {})

(* SAVE FAULT or NETWORK FAULT: the edits stay, for another attempt.       *)
SaveFails(p) ==
  /\ save[p] # Idle
  /\ save' = [save EXCEPT ![p] = Idle]
  /\ GivesUp(p)
  /\ dirty' = [dirty EXCEPT ![p] = KeptAfterFault(p)]
  /\ UNCHANGED <<stored, settings, load, failed, choice, mixed>>

(* A save that was given up is handled after all; nobody hears the answer. *)
LateHandled(call) ==
  /\ late' = late \ {call}
  /\ stored' = Effect(call.body)
  /\ UNCHANGED <<settings, dirty, load, save, failed, choice, mixed>>

(* IMPORT SETTINGS: a file of legal values is merged, and loaded again.    *)
Import(p) ==
  /\ Open(p) /\ load[p] = Idle /\ Calls(Phone) < MaxCalls
  /\ \E k \in Key \ ActionKeys, v \in Legal : stored' = [stored EXCEPT ![k] = v]
  /\ LoadSettings(p)
  /\ UNCHANGED <<settings, dirty, save, late, choice, mixed>>

(* The page is left for another, or reloaded after REBOOT, and comes back. *)
(* What it was waiting for is ignored.                                     *)
Leave(p) ==
  /\ Calls(Phone \ {p}) < MaxCalls
  /\ settings' = [settings EXCEPT ![p] = Empty]
  /\ dirty' = [dirty EXCEPT ![p] = {}]
  /\ load' = [load EXCEPT ![p] = Asking]
  /\ save' = [save EXCEPT ![p] = Idle]
  /\ GivesUp(p)
  /\ failed' = [failed EXCEPT ![p] = FALSE]
  /\ choice' = [choice EXCEPT ![p] = NoChoice]
  /\ mixed' = [mixed EXCEPT ![p] = FALSE]
  /\ UNCHANGED stored

-----------------------------------------------------------------------------
PhoneStep(p) ==
  \/ Retry(p) \/ LoadHandled(p) \/ LoadAnswered(p) \/ LoadFails(p)
  \/ \E k \in Key, v \in Value : Edit(p, k, v)
  \/ SaveClicked(p) \/ SaveHandled(p) \/ SaveReported(p)
  \/ SaveAnswered(p) \/ SaveFails(p)
  \/ Import(p) \/ Leave(p)

Next ==
  \/ \E p \in Phone : PhoneStep(p)
  \/ \E call \in late : LateHandled(call)

Spec == Init /\ [][Next]_vars

-----------------------------------------------------------------------------
TypeOK ==
  /\ stored \in [Key -> Legal]
  /\ settings \in [Phone -> Settings \cup {Empty}]
  /\ dirty \in [Phone -> SUBSET Key]
  /\ load \in [Phone -> Call]
  /\ save \in [Phone -> Call]
  /\ late \subseteq Abandoned
  /\ failed \in [Phone -> BOOLEAN] /\ mixed \in [Phone -> BOOLEAN]
  /\ choice \in [Phone -> [Key -> Value \cup {None}]]

(* Two phones do not undo each other's settings: a save, refused or not,   *)
(* changes a setting only to what its own user picked for that key, never  *)
(* to a copy that has gone stale since.  (A phone whose edits overlapped a *)
(* save or a load has lost track of them: see the README.)                 *)
SavesOnlyChoices ==
  [][\A p \in Phone, k \in Key :
       save[p].at = "sent" /\ save'[p].at \in {"kept", "refused"} /\ ~mixed[p]
         /\ stored'[k] # stored[k] =>
       stored'[k] = choice[p][k]]_vars

(* A save that is handled after its phone gave it up may bring back what   *)
(* its user has changed since, but no more than that: it changes a setting *)
(* only to what the user had picked for that key when it was given up.     *)
LateSavesAsMeant ==
  [][\A call \in late \ late', k \in Key :
       ~call.mixed /\ stored'[k] # stored[k] => stored'[k] = call.meant[k]]_vars

(* What the user has edited and no answer has confirmed stays on the page, *)
(* marked for the next save, through refusals, lost requests and answers.  *)
NoEditForgotten ==
  \A p \in Phone : ~mixed[p] =>
    \A k \in Key : choice[p][k] # None =>
      k \in dirty[p] /\ settings[p][k] = choice[p][k]
=============================================================================
