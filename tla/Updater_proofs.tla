--------------------------- MODULE Updater_proofs ---------------------------
(* Theorems about Updater, for any releases, faults and power losses.      *)
EXTENDS Updater, TLAPS

(* Updates run one at a time and after the health check of their boot,     *)
(* unless one was hasty.                                                   *)
Alone ==
  \A u \in Updaters :
    pc[u] # "idle" =>
      /\ health = "done"
      /\ \A v \in Updaters : pc[v] # "idle" => v = u

(* Until its checkout an update runs on the proven release and has saved   *)
(* that, step by step.                                                     *)
SavedSteps == {"fetch", "stop", "checkout"}
Saves ==
  \A u \in Updaters :
    /\ pc[u] \in {"tag", "sig"} \cup SavedSteps => head = proven /\ current[u] = proven
    /\ pc[u] \in {"sig"} \cup SavedSteps => rollbackTag = proven
    /\ pc[u] \in SavedSteps => rollbackSig = proven

(* The rollback files never name anything but the proven release: old      *)
(* files are dropped when a new release is confirmed.                      *)
FilesAgree == rollbackTag \in {NoTag, proven} /\ rollbackSig \in {NoTag, proven}

(* So does a health check in progress, and it reboots into that release.   *)
CheckAgrees ==
  /\ health \in Trapped => prev = proven
  /\ health = "reboot" => head = proven \/ spent

(* What holds as long as no update was hasty.                              *)
Clean ==
  /\ Alone
  /\ proven # Untested => Saves /\ FilesAgree /\ CheckAgrees
  /\ WayBack

(* The invariant that is preserved by every step.                          *)
IInv == TypeOK /\ (~hasty => Clean)

-----------------------------------------------------------------------------
USE DEF Goto, Step, SavedSteps, UpdateSteps, HealthSteps, Trapped, NoTag, Untested,
        treeVars, fileVars, updateVars, healthVars, historyVars

(* The installed release is one.                                           *)
LEMMA Installed == 1 \in Release
BY UpdaterAssumption DEF Release

(* A release starts or fails to start.                                     *)
LEMMA StartedType ==
  ASSUME NEW tree PROVE Started(tree) \subseteq {"up", "stopped", "failing"}
BY DEF Started

(* An interrupted checkout leaves a tree of the type of trees.             *)
LEMMA TornType ==
  ASSUME TypeOK
  PROVE /\ TornByRollBack \subseteq Release \cup {Untested}
        /\ TornByUpdates \subseteq Release \cup {Untested}
        /\ \A u \in Updaters : TornBy(u) \subseteq Release \cup {Untested}
<1>1. TornByRollBack \subseteq Release \cup {Untested}
  BY DEF TornByRollBack, Torn, TypeOK
<1>2. ASSUME NEW u \in Updaters PROVE TornBy(u) \subseteq Release \cup {Untested}
  BY DEF TornBy, Torn, TypeOK
<1> QED
  BY <1>1, <1>2 DEF TornByUpdates

LEMMA LeftType ==
  ASSUME NEW trees, trees \subseteq Release \cup {Untested}, LeftWith(trees), TypeOK
  PROVE head' \in Release \cup {Untested} /\ edited' \in BOOLEAN
BY DEF LeftWith, TypeOK

(* Every step of apply_update belongs to one of these.                     *)
LEMMA UpdateCases ==
  ASSUME NEW u \in Updaters, UpdateWork(u)
  PROVE \/ SaveTag(u) \/ SaveSig(u) \/ Fetch(u) \/ StopService(u)
        \/ Checkout(u) \/ CheckoutFails(u) \/ PostUpdate(u) \/ WriteVersion(u)
        \/ RebootAfter(u)
BY DEF UpdateWork

-----------------------------------------------------------------------------
(* Type correctness.                                                       *)

LEMMA RebootType == ASSUME TypeOK, Reboot PROVE TypeOK'
<1>1. head' \in Release \cup {Untested} /\ edited' \in BOOLEAN
  BY TornType, LeftType DEF Reboot, Booted
<1>2. web' \in {"up", "stopped", "failing"}
  BY StartedType DEF Reboot, Booted
<1>3. /\ pc' \in [Updaters -> UpdateSteps] /\ health' \in HealthSteps
      /\ current' \in [Updaters -> Release \cup {NoTag}]
      /\ target' \in [Updaters -> Release \cup {NoTag}]
  BY DEF Reboot, Booted
<1>4. spent' \in BOOLEAN
  BY DEF Reboot, TypeOK, CutShort
<1>5. {rollbackTag', rollbackSig', prev'} \subseteq Release \cup {NoTag}
  BY DEF Reboot, Booted, DropRollback, TypeOK
<1> QED
  BY <1>1, <1>2, <1>3, <1>4, <1>5 DEF Reboot, Booted, TypeOK

(* The start of an update.                                                 *)
LEMMA UpdateBeginType ==
  ASSUME TypeOK, NEW u \in Updaters, UpdateBegin(u) PROVE TypeOK'
<1>1. PICK v \in CurrentVersion : \E r \in Wanted(u, v) :
        /\ current' = [current EXCEPT ![u] = v]
        /\ target' = [target EXCEPT ![u] = r]
  BY DEF UpdateBegin
<1>2. v \in Release /\ Wanted(u, v) \subseteq Release
  BY DEF CurrentVersion, Wanted, Newer, TypeOK
<1>3. /\ current' \in [Updaters -> Release \cup {NoTag}]
      /\ target' \in [Updaters -> Release \cup {NoTag}]
  BY <1>1, <1>2 DEF TypeOK
<1>4. hasty' \in BOOLEAN
  BY DEF UpdateBegin
<1> QED
  BY <1>3, <1>4 DEF UpdateBegin, TypeOK

(* A step of an update.                                                    *)
LEMMA UpdateWorkType ==
  ASSUME TypeOK, NEW u \in Updaters, UpdateWork(u) PROVE TypeOK'
<1>1. CASE SaveTag(u) \/ SaveSig(u)
  BY <1>1 DEF SaveTag, SaveSig, SavedTag, TypeOK
<1>3. CASE Fetch(u)
  BY <1>3 DEF Fetch, Return, TypeOK
<1>4. CASE StopService(u)
  <2>1. head' \in Release \cup {Untested} /\ edited' \in BOOLEAN
    BY <1>4, TornType, LeftType DEF StopService, TypeOK
  <2> QED
    BY <1>4, <2>1 DEF StopService, TypeOK
<1>5. CASE Checkout(u)
  BY <1>5 DEF Checkout, TypeOK
<1>6. CASE CheckoutFails(u)
  <2>1. head' \in Release \cup {Untested} /\ edited' \in BOOLEAN
    BY <1>6, TornType, LeftType DEF CheckoutFails
  <2> QED
    BY <1>6, <2>1 DEF CheckoutFails, Return, TypeOK
<1>7. CASE PostUpdate(u)
  BY <1>7, StartedType DEF PostUpdate, TypeOK
<1>8. CASE WriteVersion(u)
  BY <1>8 DEF WriteVersion, TypeOK
<1>9. CASE RebootAfter(u)
  BY <1>9, RebootType DEF RebootAfter, Return, TypeOK
<1> QED
  BY <1>1, <1>3, <1>4, <1>5, <1>6, <1>7, <1>8, <1>9, UpdateCases

(* A step of the health check, or its early end.                           *)
LEMMA HealthType ==
  ASSUME TypeOK, HealthWork \/ HealthCut PROVE TypeOK'
<1>1. CASE HealthBegin
  BY <1>1 DEF HealthBegin, DropRollback, TypeOK
<1>2. CASE HealthPasses
  <2>1. hasty' \in BOOLEAN
    BY <1>2 DEF HealthPasses, TypeOK
  <2> QED
    BY <1>2, <2>1 DEF HealthPasses, DropRollback, TypeOK
<1>3. CASE HealthFails
  BY <1>3 DEF HealthFails, TypeOK
<1>4. CASE RollBack
  BY <1>4 DEF RollBack, TypeOK
<1>5. CASE RollBackReboots
  BY <1>5, RebootType DEF RollBackReboots
<1>6. CASE HealthCut
  <2>1. head' \in Release \cup {Untested} /\ edited' \in BOOLEAN
    BY <1>6, TornType, LeftType DEF HealthCut
  <2> QED
    BY <1>6, <2>1 DEF HealthCut, CutShort, DropRollback, TypeOK
<1> QED
  BY <1>1, <1>2, <1>3, <1>4, <1>5, <1>6 DEF HealthWork, HealthGoesOn

(* The early ends of an update.                                            *)
LEMMA OtherType ==
  ASSUME TypeOK, NEW u \in Updaters, SaveFails(u) \/ UpdateKilled(u) PROVE TypeOK'
<1>1. CASE SaveFails(u)
  BY <1>1 DEF SaveFails, Return, TypeOK
<1>2. CASE UpdateKilled(u)
  <2>1. head' \in Release \cup {Untested} /\ edited' \in BOOLEAN
    BY <1>2, TornType, LeftType DEF UpdateKilled
  <2> QED
    BY <1>2, <2>1 DEF UpdateKilled, Return, TypeOK
<1> QED
  BY <1>1, <1>2

(* A power loss.                                                           *)
LEMMA PowerLossType == ASSUME TypeOK, PowerLoss PROVE TypeOK'
<1>1. head' \in Release \cup {Untested} /\ edited' \in BOOLEAN
  BY TornType, LeftType DEF PowerLoss, Booted
<1>2. web' \in {"up", "stopped", "failing"}
  BY StartedType DEF PowerLoss, Booted
<1>3. /\ pc' \in [Updaters -> UpdateSteps] /\ health' \in HealthSteps
      /\ current' \in [Updaters -> Release \cup {NoTag}]
      /\ target' \in [Updaters -> Release \cup {NoTag}]
  BY DEF PowerLoss, Booted
<1>4. losses' \in 0..MaxLosses
  BY UpdaterAssumption DEF PowerLoss, TypeOK
<1> QED
  BY <1>1, <1>2, <1>3, <1>4 DEF PowerLoss, Booted, TypeOK

(* The initial states.                                                     *)
LEMMA InitType == ASSUME Init PROVE TypeOK
<1>1. /\ head \in Release \cup {Untested} /\ proven \in Release \cup {Untested}
      /\ {rollbackTag, rollbackSig, prev} \subseteq Release \cup {NoTag}
  BY Installed DEF Init
<1>2. edited \in BOOLEAN /\ spent \in BOOLEAN /\ hasty \in BOOLEAN
  BY DEF Init
<1>3. web \in {"up", "stopped", "failing"} /\ health \in HealthSteps
  BY DEF Init
<1>4. /\ pc \in [Updaters -> UpdateSteps]
      /\ current \in [Updaters -> Release \cup {NoTag}]
      /\ target \in [Updaters -> Release \cup {NoTag}]
  BY Installed DEF Init
<1>5. losses \in 0..MaxLosses
  BY UpdaterAssumption DEF Init
<1> QED
  BY <1>1, <1>2, <1>3, <1>4, <1>5 DEF TypeOK

(* Every variable keeps its type.                                          *)
THEOREM TypeCorrect == Spec => []TypeOK
<1>1. Init => TypeOK
  BY InitType
<1>2. TypeOK /\ [Next]_vars => TypeOK'
  <2>1. ASSUME TypeOK, Next PROVE TypeOK'
    BY <2>1, UpdateBeginType, UpdateWorkType, OtherType, HealthType, RebootType, PowerLossType
       DEF Next, HealthWork, UserReboots, StartLimitHit
  <2>2. ASSUME TypeOK, UNCHANGED vars PROVE TypeOK'
    BY <2>2 DEF vars, TypeOK
  <2> QED
    BY <2>1, <2>2
<1> QED
  BY <1>1, <1>2, PTL DEF Spec

-----------------------------------------------------------------------------
(* The way back.                                                           *)

(* What an interrupted checkout can leave: the tree as it was, one that a  *)
(* roll-back was about to leave, or one an update has saved a way back     *)
(* from.                                                                   *)
LEMMA LeftTrees ==
  ASSUME TypeOK, Clean, proven # Untested, NEW tree \in TornByRollBack \cup TornByUpdates
  PROVE \/ tree = head
        \/ health = "rollback" /\ head # proven
        \/ /\ health \notin Trapped
           /\ rollbackTag = proven /\ rollbackSig = proven
<1>1. CASE tree \in TornByRollBack
  BY <1>1 DEF TornByRollBack, Torn, Clean, CheckAgrees
<1>2. CASE tree \in TornByUpdates
  <2>1. PICK u \in Updaters : tree \in TornBy(u)
    BY <1>2 DEF TornByUpdates
  <2>2. CASE pc[u] = "checkout"
    BY <2>1, <2>2 DEF Clean, Alone, Saves
  <2>3. CASE pc[u] # "checkout"
    BY <2>1, <2>3 DEF TornBy
  <2> QED
    BY <2>2, <2>3
<1> QED
  BY <1>1, <1>2

(* Right after a boot only the rollback files matter.                      *)
LEMMA BootedReady ==
  ASSUME TypeOK, Clean, Booted, WayBack', proven' = proven,
         proven # Untested => FilesAgree'
  PROVE Clean'
<1>1. Alone' /\ Saves' /\ CheckAgrees'
  BY DEF Booted, Alone, Saves, CheckAgrees
<1> QED
  BY <1>1 DEF Clean

(* An orderly reboot: the EXIT trap drops the files, and that is recorded. *)
LEMMA RebootReady == ASSUME TypeOK, Clean, Reboot PROVE Clean'
<1>1. proven # Untested => FilesAgree'
  BY DEF Reboot, DropRollback, Clean, FilesAgree
<1>2. WayBack'
  <2> SUFFICES ASSUME head' # proven, ~spent', proven # Untested
               PROVE rollbackTag' = proven /\ rollbackSig' = proven
    BY DEF WayBack, Reboot
  <2>1. head' \in TornByRollBack \cup TornByUpdates
    BY DEF Reboot, Booted, LeftWith
  <2>2. CASE health \in Trapped
    <3>1. ~spent /\ ~CutShort
      BY <2>2 DEF Reboot
    <3> QED
      BY <2>1, <2>2, <3>1, LeftTrees DEF CutShort, Clean, CheckAgrees
  <2>3. CASE health \notin Trapped
    <3>1. UNCHANGED <<rollbackTag, rollbackSig, spent>>
      BY <2>3 DEF Reboot
    <3> QED
      BY <2>1, <2>3, <3>1, LeftTrees DEF Clean, WayBack
  <2> QED
    BY <2>2, <2>3
<1> QED
  BY <1>1, <1>2, BootedReady DEF Reboot

(* A power loss drops nothing.                                             *)
LEMMA PowerLossReady == ASSUME TypeOK, Clean, PowerLoss PROVE Clean'
<1>1. proven # Untested => FilesAgree'
  BY DEF PowerLoss, Clean, FilesAgree
<1>2. WayBack'
  <2> SUFFICES ASSUME head' # proven, ~spent, proven # Untested
               PROVE rollbackTag = proven /\ rollbackSig = proven
    BY DEF WayBack, PowerLoss
  <2>1. head' \in TornByRollBack \cup TornByUpdates
    BY DEF PowerLoss, Booted, LeftWith
  <2> QED
    BY <2>1, LeftTrees DEF Clean, WayBack
<1> QED
  BY <1>1, <1>2, BootedReady DEF PowerLoss

-----------------------------------------------------------------------------
(* The steps of an update.                                                 *)

(* A step that u takes, or a clean abort of u, keeps updates apart.        *)
LEMMA AloneStep ==
  ASSUME TypeOK, Alone, NEW u \in Updaters, pc[u] # "idle", UNCHANGED health,
         NEW step, pc' = [pc EXCEPT ![u] = step]
  PROVE Alone' /\ \A v \in Updaters : v # u => pc'[v] = "idle"
BY DEF Alone, TypeOK

(* An update starts on the proven release, with no other at work.          *)
LEMMA UpdateBeginReady ==
  ASSUME TypeOK, Clean, NEW u \in Updaters, UpdateBegin(u), ~hasty' PROVE Clean'
<1>1. Judged
  BY DEF UpdateBegin
<1>2. Alone'
  BY <1>1 DEF UpdateBegin, Judged, Alone, Clean, TypeOK
<1>3. proven # Untested => Saves'
  <2> SUFFICES ASSUME proven # Untested PROVE Saves'
    OBVIOUS
  <2>1. current'[u] = proven'
    BY <1>1 DEF UpdateBegin, Judged, CurrentVersion, Clean, TypeOK
  <2>2. pc'[u] = "tag" /\ \A v \in Updaters : v # u => pc'[v] = "idle"
    BY <1>1 DEF UpdateBegin, Judged, Clean, TypeOK
  <2>3. head' = proven'
    BY <1>1 DEF UpdateBegin, Judged
  <2>4. ASSUME NEW v \in Updaters
        PROVE /\ pc'[v] \in {"tag", "sig"} \cup SavedSteps => v = u
              /\ pc'[v] \notin {"sig"} \cup SavedSteps
    BY <2>2
  <2> QED
    BY <2>1, <2>3, <2>4 DEF Saves
<1>4. UNCHANGED <<head, rollbackTag, rollbackSig, health, prev, proven, spent>>
  BY DEF UpdateBegin
<1> QED
  BY <1>2, <1>3, <1>4
     DEF Clean, FilesAgree, CheckAgrees, WayBack

(* What is left to show of a step of u that leaves the health check alone. *)
LEMMA UpdateStepReady ==
  ASSUME TypeOK, Clean, NEW u \in Updaters, pc[u] # "idle",
         NEW step, pc' = [pc EXCEPT ![u] = step],
         UNCHANGED <<health, prev, proven, spent>>,
         WayBack',
         proven # Untested =>
           /\ FilesAgree'
           /\ step \in {"tag", "sig"} \cup SavedSteps =>
                head' = proven /\ current'[u] = proven
           /\ step \in {"sig"} \cup SavedSteps => rollbackTag' = proven
           /\ step \in SavedSteps => rollbackSig' = proven
  PROVE Clean'
<1>1. Alone' /\ \A v \in Updaters : v # u => pc'[v] = "idle"
  BY AloneStep DEF Clean
<1>2. pc'[u] = step
  BY DEF Clean, TypeOK
<1>3. proven # Untested => Saves'
  BY <1>1, <1>2 DEF Saves
<1>4. proven # Untested => CheckAgrees'
  BY DEF Clean, Alone, CheckAgrees
<1> QED
  BY <1>1, <1>3, <1>4 DEF Clean

(* Every step of an update.                                                *)
LEMMA UpdateWorkReady ==
  ASSUME TypeOK, Clean, NEW u \in Updaters, UpdateWork(u) PROVE Clean'
<1>2. CASE SaveTag(u)
  BY <1>2, UpdateStepReady DEF SaveTag, SavedTag, Clean, Saves, FilesAgree, WayBack
<1>3. CASE SaveSig(u)
  BY <1>3, UpdateStepReady DEF SaveSig, SavedTag, Clean, Saves, FilesAgree, WayBack
<1>5. CASE Fetch(u)
  BY <1>5, UpdateStepReady DEF Fetch, Return, Clean, Saves, FilesAgree, WayBack
<1>6. CASE StopService(u)
  <2>1. \A v \in Updaters : v # u => pc[v] = "idle"
    BY <1>6 DEF StopService, Clean, Alone
  <2>2. pc' = [pc EXCEPT ![u] = "checkout"] /\ pc[u] = "stop"
    BY <1>6, <2>1 DEF StopService, TypeOK
  <2>3. TornByUpdates \subseteq {head}
    BY <2>1, <2>2 DEF TornByUpdates, TornBy
  <2>4. head' = head
    BY <1>6, <2>3 DEF StopService, LeftWith
  <2>5. current'[u] = current[u] /\ UNCHANGED <<rollbackTag, rollbackSig, health, prev, proven, spent>>
    BY <1>6 DEF StopService, TypeOK
  <2> QED
    BY <2>2, <2>4, <2>5, UpdateStepReady DEF Clean, Saves, FilesAgree, WayBack
<1>7. CASE Checkout(u)
  BY <1>7, UpdateStepReady DEF Checkout, Clean, Saves, FilesAgree, WayBack
<1>8. CASE CheckoutFails(u)
  BY <1>8, UpdateStepReady DEF CheckoutFails, Return, Clean, Saves, FilesAgree, WayBack
<1>9. CASE PostUpdate(u) \/ WriteVersion(u)
  BY <1>9, UpdateStepReady DEF PostUpdate, WriteVersion, Clean, FilesAgree, WayBack
<1>10. CASE RebootAfter(u)
  BY <1>10, UpdateStepReady, RebootReady
     DEF RebootAfter, Return, Clean, FilesAgree, WayBack
<1> QED
  BY <1>2, <1>3, <1>5, <1>6, <1>7, <1>8, <1>9, <1>10, UpdateCases

(* The early ends of an update keep the files.                             *)
LEMMA OtherReady ==
  ASSUME TypeOK, Clean, NEW u \in Updaters, SaveFails(u) \/ UpdateKilled(u) PROVE Clean'
<1>2. CASE SaveFails(u)
  <2>1. pc[u] \in {"tag", "sig"} /\ pc' = [pc EXCEPT ![u] = "idle"]
    BY <1>2 DEF SaveFails, Return
  <2>2. UNCHANGED <<head, rollbackTag, rollbackSig, health, prev, proven, spent>>
    BY <1>2 DEF SaveFails, Return
  <2> QED
    BY <2>1, <2>2, UpdateStepReady DEF Clean, FilesAgree, WayBack
<1>3. CASE UpdateKilled(u)
  <2>1. WayBack'
    <3> SUFFICES ASSUME head' # proven, ~spent, proven # Untested
                 PROVE rollbackTag = proven /\ rollbackSig = proven
      BY <1>3 DEF WayBack, UpdateKilled, Return
    <3>1. head' \in TornByUpdates
      BY <1>3 DEF UpdateKilled, LeftWith, TornByUpdates
    <3> QED
      BY <3>1, LeftTrees DEF Clean, WayBack
  <2> QED
    BY <1>3, <2>1, UpdateStepReady DEF UpdateKilled, Return, Clean, FilesAgree
<1> QED
  BY <1>2, <1>3

-----------------------------------------------------------------------------
(* The steps of the health check.                                          *)

(* While a health check is at work no update is.                           *)
LEMMA CheckedAlone ==
  ASSUME TypeOK, Clean, health # "done", UNCHANGED pc
  PROVE (\A u \in Updaters : pc[u] = "idle") /\ Alone' /\ Saves'
BY DEF Clean, Alone, Saves

(* A tree that passes its health check is as good as the first: unless an  *)
(* update is under way, nothing before matters any more.                   *)
LEMMA PassesReady ==
  ASSUME TypeOK, ~hasty => Clean, HealthPasses, ~hasty' PROVE Clean'
<1>1. \A u \in Updaters : pc[u] = "idle"
  BY DEF HealthPasses, Clean, Alone
<1>2. Alone' /\ Saves'
  BY <1>1 DEF HealthPasses, Alone, Saves
<1>3. FilesAgree' /\ CheckAgrees' /\ WayBack'
  BY DEF HealthPasses, DropRollback, FilesAgree, CheckAgrees, WayBack
<1> QED
  BY <1>2, <1>3 DEF Clean

(* Every other step of the health check, and its early end.                *)
LEMMA HealthReady ==
  ASSUME TypeOK, Clean,
         HealthBegin \/ HealthFails \/ RollBack \/ RollBackReboots \/ HealthCut
  PROVE Clean'
<1>2. CASE HealthBegin
  BY <1>2, CheckedAlone
     DEF HealthBegin, DropRollback, Clean, FilesAgree, CheckAgrees, WayBack
<1>4. CASE HealthFails
  BY <1>4, CheckedAlone DEF HealthFails, Clean, FilesAgree, CheckAgrees, WayBack
<1>5. CASE RollBack
  BY <1>5, CheckedAlone DEF RollBack, Clean, FilesAgree, CheckAgrees, WayBack
<1>6. CASE RollBackReboots
  BY <1>6, RebootReady DEF RollBackReboots
<1>7. CASE HealthCut
  <2>1. WayBack'
    <3> SUFFICES ASSUME head' # proven, ~spent', proven # Untested
                 PROVE FALSE
      BY <1>7 DEF WayBack, HealthCut
    <3>1. ~spent /\ ~CutShort /\ head' \in TornByRollBack /\ health \in Trapped
      BY <1>7 DEF HealthCut, LeftWith
    <3> QED
      BY <3>1, LeftTrees DEF CutShort, Clean, CheckAgrees
  <2> QED
    BY <1>7, <2>1, CheckedAlone
       DEF HealthCut, DropRollback, Clean, FilesAgree, CheckAgrees
<1> QED
  BY <1>2, <1>4, <1>5, <1>6, <1>7

-----------------------------------------------------------------------------
(* The history variable: what is hasty stays so until a tree passes.       *)
LEMMA HastyKept ==
  ASSUME Next, ~hasty', ~HealthPasses
  PROVE ~hasty
<1>1. ASSUME NEW u \in Updaters,
             UpdateBegin(u) \/ UpdateWork(u) \/ SaveFails(u) \/ UpdateKilled(u)
      PROVE hasty' \/ ~hasty
  <2>1. CASE UpdateWork(u)
    BY <2>1, UpdateCases
       DEF SaveTag, SaveSig, Fetch, StopService, Checkout, CheckoutFails, PostUpdate,
           WriteVersion, RebootAfter, Return, Reboot
  <2>2. CASE UpdateBegin(u) \/ SaveFails(u) \/ UpdateKilled(u)
    BY <2>2 DEF UpdateBegin, SaveFails, UpdateKilled, Return
  <2> QED
    BY <1>1, <2>1, <2>2
<1>2. CASE HealthWork \/ HealthCut
  BY <1>2 DEF HealthWork, HealthGoesOn, HealthBegin, HealthFails, RollBack,
              RollBackReboots, Reboot, HealthCut
<1>3. CASE UserReboots \/ StartLimitHit \/ PowerLoss
  BY <1>3 DEF UserReboots, StartLimitHit, PowerLoss, Reboot
<1> QED
  BY <1>1, <1>2, <1>3 DEF Next

(* The invariant holds.                                                    *)
THEOREM Invariance == Spec => []IInv
<1>1. Init => IInv
  BY InitType DEF Init, IInv, Clean, Alone, Saves, FilesAgree, CheckAgrees, WayBack
<1>2. ASSUME IInv, [Next]_vars, TypeOK' PROVE IInv'
  <2>1. CASE UNCHANGED vars
    BY <1>2, <2>1 DEF vars, IInv, Clean, Alone, Saves, FilesAgree, CheckAgrees, WayBack
  <2>2. ASSUME Next, ~hasty' PROVE Clean'
    <3>1. CASE HealthPasses
      BY <1>2, <2>2, <3>1, PassesReady DEF IInv
    <3>2. CASE ~HealthPasses
      <4>1. TypeOK /\ Clean
        BY <1>2, <2>2, <3>2, HastyKept DEF IInv
      <4> QED
        BY <2>2, <3>2, <4>1, UpdateBeginReady, UpdateWorkReady, OtherReady, HealthReady,
           RebootReady, PowerLossReady
           DEF Next, HealthWork, HealthGoesOn, UserReboots, StartLimitHit
    <3> QED
      BY <3>1, <3>2
  <2> QED
    BY <1>2, <2>1, <2>2 DEF IInv
<1> QED
  BY <1>1, <1>2, TypeCorrect, PTL DEF Spec

(* Wherever power fails, a checkout is cut short or a call fails, a tree   *)
(* that no health check has passed comes with a signed way back, once      *)
(* updates began only after the health check of their boot.                *)
THEOREM WayBackReady == Spec => []RollbackReady
<1>1. IInv => RollbackReady
  BY DEF IInv, Clean, RollbackReady
<1> QED
  BY <1>1, Invariance, PTL

(* A roll-back goes to the release that was the last to pass.              *)
THEOREM RollsBackRight == Spec => RollsBackToProven
<1>1. IInv => (RollBack /\ ~hasty /\ proven # Untested => head' \in {proven, Untested})
  BY DEF IInv, Clean, CheckAgrees, RollBack
<1> QED
  BY <1>1, Invariance, PTL DEF RollsBackToProven
=============================================================================
