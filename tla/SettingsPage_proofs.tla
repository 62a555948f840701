------------------------- MODULE SettingsPage_proofs ------------------------
(***************************************************************************)
(* What the user edits and what a save changes, for every set of phones    *)
(* and settings.                                                           *)
(***************************************************************************)
EXTENDS SettingsPage, TLAPS

(* Answers bring whole settings; the page's copy is one of them, edited.   *)
Whole ==
  \A p \in Phone :
    /\ load[p].at = "answered" => load[p].body \in Settings
    /\ save[p].at = "answered" => save[p].body \in Settings

(* As long as no edit has overlapped a request, the marked keys are those  *)
(* the user has picked a value for, and the copy has that value.           *)
Marked ==
  \A p \in Phone : ~mixed[p] =>
    /\ \A k \in dirty[p] : settings[p][k] = choice[p][k]
    /\ \A k \in Key : choice[p][k] # None => k \in dirty[p]

(* A save that the server has not handled yet still says what is marked.   *)
Current ==
  \A p \in Phone : ~mixed[p] /\ save[p].at = "sent" =>
    \A k \in DOMAIN save[p].body :
      k \in dirty[p] /\ save[p].body[k] = settings[p][k]

(* A save that was given up says what its user had picked.                 *)
Meant ==
  \A call \in late : ~call.mixed =>
    \A k \in DOMAIN call.body : call.body[k] = call.meant[k]

IInv == TypeOK /\ Whole /\ Marked /\ Current /\ Meant

-----------------------------------------------------------------------------
(* Settings in part, and the bodies made of them.                          *)
LEMMA PartialBodies ==
  /\ \A K \in SUBSET Key : [K -> Value] \subseteq Partial
  /\ \A body \in Partial : DOMAIN body \subseteq Key /\ body \in [DOMAIN body -> Value]
  /\ Settings \subseteq Partial /\ Empty \in Partial
  /\ Idle \in Call /\ Asking \in Call
<1>1. \A K \in SUBSET Key : [K -> Value] \subseteq Partial
  BY DEF Partial
<1>2. \A body \in Partial : DOMAIN body \subseteq Key /\ body \in [DOMAIN body -> Value]
  BY DEF Partial
<1>3. Settings \subseteq Partial
  BY <1>1 DEF Settings
<1>4. Empty \in Partial
  <2>1. Empty \in [{} -> Value]
    BY DEF Empty
  <2> QED
    BY <2>1, <1>1
<1> QED
  BY <1>1, <1>2, <1>3, <1>4 DEF Idle, Asking, Call

(* A stored value is legal because the server has validated it.            *)
LEMMA MergedType ==
  ASSUME TypeOK, NEW body \in Partial, Valid(body)
  PROVE  Merged(body) \in [Key -> Legal]
<1>1. \A k \in DOMAIN body : body[k] \in Legal
  BY PartialBodies DEF Valid, Value
<1> QED
  BY <1>1 DEF Merged, TypeOK

(* So is what a request leaves behind, stored or refused.                  *)
LEMMA EffectType ==
  ASSUME TypeOK, NEW body \in Partial
  PROVE  Effect(body) \in [Key -> Legal]
BY MergedType DEF Effect, TypeOK

(* What a request changes, it names.                                       *)
LEMMA EffectNamed ==
  ASSUME TypeOK, NEW body \in Partial, NEW k \in Key, Effect(body)[k] # stored[k]
  PROVE  k \in DOMAIN body /\ Effect(body)[k] = body[k]
BY DEF Effect, Merged, TypeOK

(* A request that has been handled keeps its body.                         *)
LEMMA JudgedCall ==
  ASSUME NEW call \in Call, NEW at \in {"kept", "refused"}
  PROVE  /\ [call EXCEPT !.at = at] \in Call
         /\ [call EXCEPT !.at = at].at = at
BY DEF Call

(* What the server answers is a whole set of settings.                     *)
LEMMA ReportedWhole == TypeOK => Reported \in Settings
BY DEF TypeOK, Reported, Settings, Value, Legal

(* A save that is given up goes on as it was sent.                         *)
LEMMA GivenUp ==
  ASSUME TypeOK, NEW p \in Phone, GivesUp(p), NEW call \in late' \ late
  PROVE  /\ save[p].at = "sent"
         /\ call = [body |-> save[p].body, meant |-> choice[p], mixed |-> mixed[p]]
         /\ call \in Abandoned
<1>1. /\ save[p].at = "sent"
      /\ call = [body |-> save[p].body, meant |-> choice[p], mixed |-> mixed[p]]
  BY DEF GivesUp
<1>2. save[p].body \in Partial
  BY DEF TypeOK, Call
<1> QED
  BY <1>1, <1>2 DEF TypeOK, Abandoned

(* The page begins with nothing edited and its settings on their way.      *)
LEMMA Start == Init => IInv
<1> SUFFICES ASSUME Init PROVE IInv
  OBVIOUS
<1>1. TypeOK
  BY PartialBodies DEF Init, TypeOK, Legal, NoChoice
<1>2. Whole /\ Current
  BY DEF Init, Whole, Current, Asking, Idle
<1>3. Marked /\ Meant
  BY DEF Init, Marked, Meant, NoChoice
<1> QED
  BY <1>1, <1>2, <1>3 DEF IInv

-----------------------------------------------------------------------------
(* Every step of a phone keeps the types.                                  *)
LEMMA TypeNext ==
  ASSUME TypeOK, Whole, NEW p \in Phone
  PROVE  PhoneStep(p) => TypeOK'
<1> USE PartialBodies DEF TypeOK
<1>1. ASSUME Retry(p) PROVE TypeOK'
  BY <1>1 DEF Retry, LoadSettings
<1>2. ASSUME LoadHandled(p) PROVE TypeOK'
  <2>1. [at |-> "answered", body |-> Reported] \in Call
    BY ReportedWhole DEF Call
  <2> QED
    BY <1>2, <2>1 DEF LoadHandled
<1>3. ASSUME LoadAnswered(p) PROVE TypeOK'
  <2>1. NoChoice \in [Key -> Value \cup {None}]
    BY DEF NoChoice
  <2>2. load[p].body \in Settings
    BY <1>3 DEF LoadAnswered, Whole
  <2>3. mixed' \in [Phone -> BOOLEAN]
    BY <1>3 DEF LoadAnswered
  <2> QED
    BY <1>3, <2>1, <2>2, <2>3 DEF LoadAnswered
<1>4. ASSUME LoadFails(p) PROVE TypeOK'
  BY <1>4 DEF LoadFails
<1>5. ASSUME NEW k \in Key, NEW v \in Value, Edit(p, k, v) PROVE TypeOK'
  <2>1. NoChoice \in [Key -> Value \cup {None}]
    BY DEF NoChoice
  <2>2. settings[p] \in Settings
    BY <1>5 DEF Edit, Open
  <2>3. settings' \in [Phone -> Settings \cup {Empty}]
    BY <1>5, <2>2 DEF Edit, Settings
  <2>4. mixed' \in [Phone -> BOOLEAN]
    BY <1>5 DEF Edit
  <2>5. [choice[p] EXCEPT ![k] = v] \in [Key -> Value \cup {None}]
    OBVIOUS
  <2>6. choice' \in [Phone -> [Key -> Value \cup {None}]]
    BY <1>5, <2>1, <2>5 DEF Edit
  <2> QED
    BY <1>5, <2>3, <2>4, <2>6 DEF Edit
<1>6. ASSUME SaveClicked(p) PROVE TypeOK'
  <2>1. settings[p] \in [Key -> Value]
    BY <1>6 DEF SaveClicked, Open, Settings
  <2>2. Changed(p) \in [dirty[p] -> Value]
    BY <2>1 DEF Changed
  <2>3. [at |-> "sent", body |-> Changed(p)] \in Call
    BY <2>2 DEF Call
  <2> QED
    BY <1>6, <2>3 DEF SaveClicked, StillDirty
<1>7. ASSUME SaveHandled(p) PROVE TypeOK'
  <2>1. save[p].body \in Partial
    BY DEF Call
  <2>2. stored' \in [Key -> Legal]
    BY <1>7, <2>1, EffectType DEF SaveHandled
  <2>3. PICK at \in {"kept", "refused"} :
          save' = [save EXCEPT ![p] = [save[p] EXCEPT !.at = at]]
    BY <1>7 DEF SaveHandled, Verdict
  <2>4. [save[p] EXCEPT !.at = at] \in Call
    BY JudgedCall
  <2>5. save' \in [Phone -> Call]
    BY <2>3, <2>4
  <2> QED
    BY <1>7, <2>2, <2>5 DEF SaveHandled
<1>8. ASSUME SaveReported(p) PROVE TypeOK'
  <2>1. [at |-> "answered", body |-> Reported] \in Call
    BY ReportedWhole DEF Call
  <2> QED
    BY <1>8, <2>1 DEF SaveReported
<1>9. ASSUME SaveAnswered(p) PROVE TypeOK'
  BY <1>9 DEF SaveAnswered, Whole, NoChoice
<1>10. ASSUME SaveFails(p) PROVE TypeOK'
  <2>1. late' \subseteq Abandoned
    BY <1>10, GivenUp DEF SaveFails
  <2> QED
    BY <1>10, <2>1 DEF SaveFails, KeptAfterFault
<1>11. ASSUME Import(p) PROVE TypeOK'
  BY <1>11 DEF Import, LoadSettings
<1>12. ASSUME Leave(p) PROVE TypeOK'
  <2>1. late' \subseteq Abandoned
    BY <1>12, GivenUp DEF Leave
  <2> QED
    BY <1>12, <2>1 DEF Leave, NoChoice
<1> QED
  BY <1>1, <1>2, <1>3, <1>4, <1>5, <1>6, <1>7, <1>8, <1>9, <1>10, <1>11, <1>12
  DEF PhoneStep

(* So does a save that is handled late.                                    *)
LEMMA LateTypes ==
  ASSUME TypeOK, NEW call \in late, LateHandled(call)
  PROVE  TypeOK'
<1>1. call.body \in Partial
  BY DEF TypeOK, Abandoned
<1>2. stored' \in [Key -> Legal]
  BY <1>1, EffectType DEF LateHandled
<1> QED
  BY <1>2 DEF LateHandled, TypeOK

(* A request is answered with the settings the server has then.            *)
LEMMA WholeNext ==
  ASSUME TypeOK, Whole, [Next]_vars
  PROVE  Whole'
<1> USE ReportedWhole DEF TypeOK, Whole
<1>1. ASSUME NEW p \in Phone, Retry(p) \/ LoadAnswered(p) \/ LoadFails(p) \/ Import(p)
      PROVE  Whole'
  <2>1. load' = [load EXCEPT ![p] = Asking] \/ load' = [load EXCEPT ![p] = Idle]
    BY <1>1 DEF Retry, LoadAnswered, LoadFails, Import, LoadSettings
  <2>2. save' = save
    BY <1>1 DEF Retry, LoadAnswered, LoadFails, Import, LoadSettings
  <2>3. load'[p].at # "answered" /\ \A q \in Phone \ {p} : load'[q] = load[q]
    BY <2>1 DEF Asking, Idle
  <2> QED
    BY <2>2, <2>3
<1>2. ASSUME NEW p \in Phone, LoadHandled(p) PROVE Whole'
  BY <1>2 DEF LoadHandled
<1>3. ASSUME NEW p \in Phone, SaveClicked(p) \/ SaveAnswered(p) \/ SaveFails(p)
      PROVE  Whole'
  BY <1>3 DEF SaveClicked, SaveAnswered, SaveFails, Idle
<1>4. ASSUME NEW p \in Phone, SaveHandled(p) PROVE Whole'
  <2>1. save'[p].at # "answered"
    BY <1>4, JudgedCall DEF SaveHandled, Verdict
  <2>2. load' = load /\ \A q \in Phone \ {p} : save'[q] = save[q]
    BY <1>4 DEF SaveHandled
  <2> QED
    BY <2>1, <2>2
<1>5. ASSUME NEW p \in Phone, SaveReported(p) PROVE Whole'
  BY <1>5 DEF SaveReported
<1>6. ASSUME NEW p \in Phone, Leave(p) PROVE Whole'
  BY <1>6 DEF Leave, Asking, Idle
<1>7. ASSUME NEW p \in Phone, NEW k \in Key, NEW v \in Value, Edit(p, k, v)
      PROVE  Whole'
  BY <1>7 DEF Edit
<1>8. CASE UNCHANGED vars
  BY <1>8 DEF vars
<1>9. ASSUME NEW call \in late, LateHandled(call) PROVE Whole'
  BY <1>9 DEF LateHandled
<1> QED
  BY <1>1, <1>2, <1>3, <1>4, <1>5, <1>6, <1>7, <1>8, <1>9 DEF Next, PhoneStep

-----------------------------------------------------------------------------
(* The step of one phone touches no other.                                 *)
LEMMA OthersStay ==
  ASSUME TypeOK, NEW p \in Phone, NEW q \in Phone \ {p}, PhoneStep(p)
  PROVE  /\ settings'[q] = settings[q] /\ dirty'[q] = dirty[q]
         /\ save'[q] = save[q] /\ mixed'[q] = mixed[q] /\ choice'[q] = choice[q]
BY DEF TypeOK, PhoneStep, Retry, LoadHandled, LoadAnswered, LoadFails, Edit,
   SaveClicked, SaveHandled, SaveReported, SaveAnswered, SaveFails, Import, Leave,
   LoadSettings

(* Marked and Current of one phone, which its own steps must keep.         *)
Kept(p) ==
  ~mixed[p] =>
    /\ \A k \in dirty[p] : settings[p][k] = choice[p][k]
    /\ \A k \in Key : choice[p][k] # None => k \in dirty[p]
    /\ save[p].at = "sent" =>
         \A k \in DOMAIN save[p].body :
           k \in dirty[p] /\ save[p].body[k] = settings[p][k]

(* A request for the settings is no edit; its answer is one, unless there  *)
(* is nothing to lose.                                                     *)
LEMMA LoadsKeep ==
  ASSUME TypeOK, NEW p \in Phone, Kept(p),
         Retry(p) \/ LoadHandled(p) \/ LoadAnswered(p) \/ LoadFails(p) \/ Import(p)
  PROVE  Kept(p)'
<1> USE DEF TypeOK, Kept
<1>1. CASE LoadAnswered(p)
  <2> SUFFICES ASSUME ~mixed'[p] PROVE Kept(p)'
    OBVIOUS
  <2>1. mixed'[p] = (mixed[p] \/ dirty[p] # {} \/ save[p] # Idle)
    BY <1>1 DEF LoadAnswered
  <2>2. ~mixed[p] /\ dirty[p] = {} /\ save[p] = Idle
    BY <2>1
  <2>3. dirty'[p] = {} /\ save'[p].at = "idle" /\ choice'[p] = choice[p]
    BY <1>1, <2>2 DEF LoadAnswered, Idle
  <2> QED
    BY <2>2, <2>3
<1>2. CASE Retry(p) \/ LoadHandled(p) \/ LoadFails(p) \/ Import(p)
  BY <1>2 DEF Retry, LoadHandled, LoadFails, Import, LoadSettings
<1> QED
  BY <1>1, <1>2

(* An edit is remembered as such, or overlaps a request.                   *)
LEMMA EditKeeps ==
  ASSUME TypeOK, NEW p \in Phone, Kept(p), NEW k \in Key, NEW v \in Value,
         Edit(p, k, v)
  PROVE  Kept(p)'
<1> SUFFICES ASSUME ~mixed'[p] PROVE Kept(p)'
  BY DEF Kept
<1>1. mixed'[p] = (mixed[p] \/ save[p] # Idle \/ load[p] # Idle)
  BY DEF Edit, TypeOK
<1>2. ~mixed[p] /\ save[p] = Idle
  BY <1>1
<1>3. settings'[p] = [settings[p] EXCEPT ![k] = v] /\ settings[p] \in [Key -> Value]
  BY DEF Edit, Open, TypeOK, Settings
<1>4. choice'[p] = [choice[p] EXCEPT ![k] = v] /\ choice[p] \in [Key -> Value \cup {None}]
  BY DEF Edit, TypeOK
<1>5. dirty'[p] = dirty[p] \cup {k} /\ dirty[p] \subseteq Key
  BY DEF Edit, TypeOK
<1>6. save'[p].at = "idle"
  BY <1>2 DEF Edit, Idle
<1> QED
  BY <1>2, <1>3, <1>4, <1>5, <1>6 DEF Kept

(* What is sent is what is marked; only the answer takes the marks away.   *)
LEMMA SavesKeep ==
  ASSUME TypeOK, NEW p \in Phone, Kept(p),
         SaveClicked(p) \/ SaveHandled(p) \/ SaveReported(p) \/ SaveAnswered(p)
           \/ SaveFails(p) \/ Leave(p)
  PROVE  Kept(p)'
<1> USE DEF TypeOK, Kept
<1>1. CASE SaveClicked(p)
  BY <1>1 DEF SaveClicked, StillDirty, Changed
<1>2. CASE SaveHandled(p)
  <2>1. save'[p].at # "sent"
    BY <1>2, JudgedCall DEF SaveHandled, Verdict
  <2> QED
    BY <1>2, <2>1 DEF SaveHandled
<1>3. CASE SaveReported(p)
  BY <1>3 DEF SaveReported
<1>4. CASE SaveAnswered(p) \/ Leave(p)
  BY <1>4 DEF SaveAnswered, Leave, NoChoice, Idle
<1>5. CASE SaveFails(p)
  BY <1>5 DEF SaveFails, KeptAfterFault, Idle
<1> QED
  BY <1>1, <1>2, <1>3, <1>4, <1>5

(* A save is given up as it was sent, and as its user still means it.      *)
LEMMA MeantKept ==
  ASSUME IInv, NEW p \in Phone, PhoneStep(p)
  PROVE  Meant'
<1>1. CASE SaveFails(p) \/ Leave(p)
  <2>1. GivesUp(p)
    BY <1>1 DEF SaveFails, Leave
  <2> SUFFICES ASSUME NEW call \in late', ~call.mixed, NEW k \in DOMAIN call.body
               PROVE  call.body[k] = call.meant[k]
    BY DEF Meant
  <2>2. CASE call \in late
    BY <2>2 DEF IInv, Meant
  <2>3. CASE call \notin late
    BY <2>1, <2>3, GivenUp DEF IInv, Current, Marked
  <2> QED
    BY <2>2, <2>3
<1>2. CASE ~(SaveFails(p) \/ Leave(p))
  <2>1. late' = late
    BY <1>2 DEF PhoneStep, Retry, LoadHandled, LoadAnswered, LoadFails, Edit,
       SaveClicked, SaveHandled, SaveReported, SaveAnswered, Import
  <2> QED
    BY <2>1 DEF IInv, Meant
<1> QED
  BY <1>1, <1>2

-----------------------------------------------------------------------------
(* The inductive invariant is kept by every step.                          *)
LEMMA Step == IInv /\ [Next]_vars => IInv'
<1> SUFFICES ASSUME IInv, [Next]_vars PROVE IInv'
  OBVIOUS
<1>1. Whole'
  BY WholeNext DEF IInv
<1>2. CASE UNCHANGED vars
  BY <1>2 DEF vars, IInv, TypeOK, Whole, Marked, Current, Meant
<1>3. ASSUME NEW p \in Phone, PhoneStep(p) PROVE IInv'
  <2>1. TypeOK'
    BY <1>3, TypeNext DEF IInv
  <2>2. Meant'
    BY <1>3, MeantKept
  <2>3. Kept(p)'
    <3>1. Kept(p)
      BY DEF IInv, Marked, Current, Kept
    <3> QED
      BY <1>3, <3>1, LoadsKeep, EditKeeps, SavesKeep DEF IInv, PhoneStep
  <2>4. \A q \in Phone \ {p} : Kept(q)'
    <3>1. \A q \in Phone \ {p} : Kept(q)
      BY DEF IInv, Marked, Current, Kept
    <3> QED
      BY <1>3, <3>1, OthersStay DEF IInv, Kept
  <2> QED
    BY <1>1, <2>1, <2>2, <2>3, <2>4 DEF IInv, Marked, Current, Kept
<1>4. ASSUME NEW call \in late, LateHandled(call) PROVE IInv'
  BY <1>1, <1>4, LateTypes DEF IInv, LateHandled, Marked, Current, Meant
<1> QED
  BY <1>2, <1>3, <1>4 DEF Next

(* The inductive invariant holds in every reachable state.                 *)
THEOREM Invariance == Spec => []IInv
BY Start, Step, PTL DEF Spec

(* Type correctness of the page and the server.                            *)
THEOREM TypeCorrect == Spec => []TypeOK
<1>1. IInv => TypeOK
  BY DEF IInv
<1> QED
  BY <1>1, Invariance, PTL

(* What the user has edited stays on the page, marked, until an answer     *)
(* confirms it.                                                            *)
THEOREM EditsStay == Spec => []NoEditForgotten
<1>1. IInv => NoEditForgotten
  BY DEF IInv, Marked, NoEditForgotten
<1> QED
  BY <1>1, Invariance, PTL

(* No phone undoes another's settings: what a save changes, its own user   *)
(* has picked.                                                             *)
THEOREM ChoicesSaved == Spec => SavesOnlyChoices
<1> DEFINE Chosen ==
      \A p \in Phone, k \in Key :
        save[p].at = "sent" /\ save'[p].at \in {"kept", "refused"} /\ ~mixed[p]
          /\ stored'[k] # stored[k] =>
        stored'[k] = choice[p][k]
<1>1. IInv /\ [Next]_vars => [Chosen]_vars
  <2> SUFFICES ASSUME IInv, Next, NEW p \in Phone, NEW k \in Key,
                      save[p].at = "sent", save'[p].at \in {"kept", "refused"},
                      ~mixed[p], stored'[k] # stored[k]
               PROVE  stored'[k] = choice[p][k]
    OBVIOUS
  <2>1. PICK q \in Phone : PhoneStep(q)
    BY DEF Next, LateHandled
  <2>2. q = p
    BY <2>1, OthersStay DEF IInv
  <2>3. stored' = Effect(save[p].body)
    BY <2>1, <2>2 DEF PhoneStep, IInv, TypeOK, Retry, LoadHandled, LoadAnswered,
       LoadFails, Edit, SaveClicked, SaveHandled, SaveReported, SaveAnswered,
       SaveFails, Import, Leave, LoadSettings, Idle
  <2>4. save[p].body \in Partial
    BY DEF IInv, TypeOK, Call
  <2>5. k \in DOMAIN save[p].body /\ stored'[k] = save[p].body[k]
    BY <2>3, <2>4, EffectNamed DEF IInv
  <2> QED
    BY <2>5 DEF IInv, Current, Marked
<1> QED
  BY <1>1, Invariance, PTL DEF Spec, SavesOnlyChoices

(* Nor does a save that is handled after its phone gave it up, however     *)
(* late: what it changes, its user had picked by then.                     *)
THEOREM LateSavesMeant == Spec => LateSavesAsMeant
<1> DEFINE AsMeant ==
      \A call \in late \ late', k \in Key :
        ~call.mixed /\ stored'[k] # stored[k] => stored'[k] = call.meant[k]
<1>1. IInv /\ [Next]_vars => [AsMeant]_vars
  <2> SUFFICES ASSUME IInv, Next, NEW call \in late \ late', NEW k \in Key,
                      ~call.mixed, stored'[k] # stored[k]
               PROVE  stored'[k] = call.meant[k]
    OBVIOUS
  <2>1. ASSUME NEW p \in Phone, PhoneStep(p) PROVE FALSE
    BY <2>1 DEF PhoneStep, GivesUp, Retry, LoadHandled, LoadAnswered,
       LoadFails, Edit, SaveClicked, SaveHandled, SaveReported, SaveAnswered,
       SaveFails, Import, Leave, LoadSettings
  <2>2. LateHandled(call)
    BY <2>1 DEF Next, LateHandled
  <2>3. call.body \in Partial
    BY DEF IInv, TypeOK, Abandoned
  <2>4. k \in DOMAIN call.body /\ stored'[k] = call.body[k]
    BY <2>2, <2>3, EffectNamed DEF IInv, LateHandled
  <2> QED
    BY <2>4 DEF IInv, Meant
<1> QED
  BY <1>1, Invariance, PTL DEF Spec, LateSavesAsMeant
=============================================================================
