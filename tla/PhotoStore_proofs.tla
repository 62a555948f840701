-------------------------- MODULE PhotoStore_proofs --------------------------
(* Theorems about PhotoStore, for any threads, names, permits and faults.  *)
EXTENDS PhotoStore, FiniteSetTheorems, TLAPS

(* A thread on a step that works on one file works on a real name.         *)
NameKnown ==
  \A t \in Thread :
    pc[t] \in OwningSteps \cup {"insert", "hide", "unlink", "restore"} => name[t] \in Name

(* While t stores n, the row of n exists and only a delete handler can     *)
(* have made it visible.                                                   *)
OwnedRow ==
  \A t \in Thread :
    pc[t] \in OwningSteps =>
      /\ rows[name[t]] # "absent"
      /\ rows[name[t]] # "shown" \/ name[t] \in touched

(* The existence test of UploadPick still holds at the INSERT, unless the  *)
(* INSERT is going to fail.                                                *)
StillFree ==
  \A t \in Thread :
    pc[t] = "insert" => media[name[t]] = "none" \/ rows[name[t]] # "absent"

(* From the rename on the file holds what was uploaded, or a delete        *)
(* handler took it; after verification what was uploaded is good.          *)
Verifying == {"stat", "verify"}
Processing == {"process", "rework", "rewrite", "finish"}
StoredWhole ==
  \A t \in Thread :
    /\ pc[t] \in Verifying \cup Processing =>
         \/ media[name[t]] = content[t]
         \/ media[name[t]] = "none" /\ name[t] \in touched
    /\ pc[t] \in Processing => content[t] = "good"

(* The invariant that is preserved by every step.                          *)
FileInv ==
  /\ NameKnown
  /\ OneWriter
  /\ OwnedRow
  /\ StillFree
  /\ DestinationIsFree
  /\ StoredWhole
  /\ ShownIsWhole

IInv == TypeOK /\ SemaphoreAccounted /\ FileInv

-----------------------------------------------------------------------------
(* What every proof below expands: control steps and derived sets.         *)
USE DEF Goto, Step, Return, NextFile, SetRow, dataVars, threadVars,
        Owns, OwningSteps, UploadSteps, Steps, Verifying, Processing,
        Quarantined, RowState, Content, FileState, Shown, Listed

(* A step belongs to one of the six groups of handlers.                    *)
LEMMA NextCases ==
  ASSUME Next
  PROVE \/ \E t \in Thread : UploadBegin(t) \/ Received(t) \/ UploadWork(t)
        \/ \E t \in Thread : DeleteWork(t) \/ \E n \in Name : DeleteBegin(t, n)
        \/ \E t \in Thread : SweepBegin(t) \/ SweepWork(t)
        \/ \E t \in Thread : BatchWork(t) \/ \E S \in SUBSET Listed : BatchBegin(t, S)
        \/ \E n \in Name : Quarantine(n)
        \/ \E S \in SUBSET {n \in Name : rows[n] \in Quarantined} : Reboot(S)
BY Zenon DEF Next, Request, Work

-----------------------------------------------------------------------------
(* The semaphore.                                                          *)

LEMMA UploadingFinite ==
  /\ IsFiniteSet(Uploading) /\ Cardinality(Uploading) \in Nat
  /\ IsFiniteSet(Uploading') /\ Cardinality(Uploading') \in Nat
<1>1. Uploading \subseteq Thread /\ Uploading' \subseteq Thread
  BY DEF Uploading
<1> QED
  BY <1>1, StoreAssumption, FS_Subset, FS_CardinalityType

(* A step that leaves the permits and the set of uploading threads alone.  *)
LEMMA SemaphoreKept ==
  ASSUME SemaphoreAccounted, permits' = permits, Uploading' = Uploading
  PROVE SemaphoreAccounted'
BY DEF SemaphoreAccounted

LEMMA SemaphoreTaken ==
  ASSUME TypeOK, SemaphoreAccounted, NEW t \in Thread, UploadBegin(t)
  PROVE SemaphoreAccounted'
<1>1. t \notin Uploading /\ Uploading' = Uploading \cup {t}
  BY DEF TypeOK, Uploading, UploadBegin
<1>2. Cardinality(Uploading') = Cardinality(Uploading) + 1
  BY <1>1, UploadingFinite, FS_AddElement
<1>3. permits' = permits - 1 /\ permits \in Nat /\ Permits \in Nat
  BY StoreAssumption DEF UploadBegin, TypeOK
<1> QED
  BY <1>2, <1>3, UploadingFinite DEF SemaphoreAccounted

LEMMA SemaphoreReleased ==
  ASSUME TypeOK, SemaphoreAccounted, NEW t \in Thread,
         pc[t] \in UploadSteps, ReleasePermit(t), Return(t)
  PROVE SemaphoreAccounted'
<1>1. t \in Uploading /\ Uploading' = Uploading \ {t}
  BY DEF TypeOK, Uploading
<1>2. Cardinality(Uploading') = Cardinality(Uploading) - 1
  BY <1>1, UploadingFinite, FS_RemoveElement
<1>3. permits' = permits + 1 /\ permits \in Nat /\ Permits \in Nat
  BY StoreAssumption DEF ReleasePermit, TypeOK
<1> QED
  BY <1>2, <1>3, UploadingFinite DEF SemaphoreAccounted

LEMMA SemaphoreUploadStep ==
  ASSUME TypeOK, SemaphoreAccounted, NEW t \in Thread, Received(t) \/ UploadWork(t)
  PROVE SemaphoreAccounted'
<1>1. CASE UploadEnd(t) \/ UploadRefused(t)
  BY <1>1, SemaphoreReleased DEF UploadEnd, UploadRefused
<1>8. CASE UploadReceive(t)
  BY <1>8, SemaphoreKept DEF UploadReceive, TypeOK, Uploading
<1>2. CASE UploadStat(t)
  <2>1. CASE media[name[t]] # "none"
    BY <1>2, <2>1, SemaphoreKept DEF UploadStat, TypeOK, Uploading
  <2>2. CASE media[name[t]] = "none"
    BY <1>2, <2>2, SemaphoreReleased DEF UploadStat
  <2> QED
    BY <2>1, <2>2
<1>7. CASE UploadWriteFails(t) \/ UploadReject(t)
  <2>1. pc[t] \in UploadSteps /\ RejectRow(t)
    BY <1>7 DEF UploadWriteFails, UploadReject
  <2>2. CASE NextFile(t)
    BY <2>1, <2>2, SemaphoreKept DEF TypeOK, Uploading
  <2>3. CASE ReleasePermit(t) /\ Return(t)
    BY <2>1, <2>3, SemaphoreReleased
  <2> QED
    BY <2>1, <2>2, <2>3 DEF RejectRow
<1>3. CASE UploadPick(t) \/ UploadInsert(t) \/ UploadSave(t) \/ UploadInstall(t)
  BY <1>3, SemaphoreKept
     DEF UploadPick, UploadInsert, UploadSave, UploadInstall, TypeOK, Uploading
<1>4. CASE UploadVerify(t)
  BY <1>4, SemaphoreKept DEF UploadVerify, TypeOK, Uploading
<1>5. CASE UploadProcess(t) \/ UploadLoad(t) \/ UploadRewrite(t)
  BY <1>5, SemaphoreKept
     DEF UploadProcess, UploadLoad, UploadRewrite, TypeOK, Uploading
<1>6. CASE UploadProcessFails(t) \/ UploadPublish(t)
  BY <1>6, SemaphoreKept DEF UploadProcessFails, UploadPublish, TypeOK, Uploading
<1> QED
  BY <1>1, <1>2, <1>3, <1>4, <1>5, <1>6, <1>7, <1>8 DEF UploadWork, Received

LEMMA SemaphoreStep ==
  ASSUME TypeOK, SemaphoreAccounted, [Next]_vars
  PROVE SemaphoreAccounted'
<1>1. CASE \E t \in Thread : UploadBegin(t) \/ Received(t) \/ UploadWork(t)
  BY <1>1, SemaphoreTaken, SemaphoreUploadStep
<1>2. CASE \E t \in Thread : DeleteWork(t) \/ \E n \in Name : DeleteBegin(t, n)
  BY <1>2, SemaphoreKept
     DEF DeleteWork, DeleteBegin, DeleteHide, DeleteUnlink, DeleteRestore, TypeOK, Uploading
<1>3. CASE \E t \in Thread : SweepBegin(t) \/ SweepWork(t)
  BY <1>3, SemaphoreKept
     DEF SweepWork, SweepBegin, SweepFile, SweepRecord, TypeOK, Uploading
<1>4. CASE \E t \in Thread : BatchWork(t) \/ \E S \in SUBSET Listed : BatchBegin(t, S)
  BY <1>4, SemaphoreKept DEF BatchWork, BatchBegin, BatchRow, BatchEnd, TypeOK, Uploading
<1>5. CASE \E n \in Name : Quarantine(n)
  BY <1>5, SemaphoreKept DEF Quarantine, Uploading
<1>6. ASSUME NEW S \in SUBSET {n \in Name : rows[n] \in Quarantined}, Reboot(S)
      PROVE SemaphoreAccounted'
  <2>1. Uploading' = {} /\ permits' = Permits
    BY <1>6 DEF Reboot, Uploading
  <2> QED
    BY <2>1, FS_EmptySet, StoreAssumption DEF SemaphoreAccounted
<1>7. CASE UNCHANGED vars
  BY <1>7, SemaphoreKept DEF vars, Uploading
<1> QED
  BY <1>1, <1>2, <1>3, <1>4, <1>5, <1>6, <1>7, NextCases

-----------------------------------------------------------------------------
(* Types.  That permits stays at or below its initial value is what the    *)
(* accounting of the semaphore says, so it is used here.                   *)

LEMMA PermitsBounded ==
  ASSUME SemaphoreAccounted', permits' \in Nat
  PROVE permits' \in 0..Permits
BY UploadingFinite, StoreAssumption DEF SemaphoreAccounted

LEMMA TypeUploadStep ==
  ASSUME TypeOK, NameKnown, SemaphoreAccounted',
         NEW t \in Thread, UploadBegin(t) \/ Received(t) \/ UploadWork(t)
  PROVE TypeOK'
<1>1. CASE UploadBegin(t)
  BY <1>1, PermitsBounded, StoreAssumption DEF UploadBegin, TypeOK
<1>8. CASE UploadReceive(t)
  BY <1>8, StoreAssumption DEF UploadReceive, TypeOK
<1>2. CASE \/ UploadEnd(t) \/ UploadRefused(t) \/ UploadStat(t)
           \/ UploadWriteFails(t) \/ UploadReject(t)
  <2>1. permits + 1 \in Nat
    BY StoreAssumption DEF TypeOK
  <2>2. CASE UploadEnd(t) \/ UploadRefused(t) \/ UploadStat(t)
    BY <2>1, <2>2, PermitsBounded, StoreAssumption
       DEF UploadEnd, UploadRefused, UploadStat, ReleasePermit, TypeOK
  <2>3. CASE UploadWriteFails(t)
    BY <2>1, <2>3, PermitsBounded, StoreAssumption
       DEF UploadWriteFails, RejectRow, ReleasePermit, NameKnown, TypeOK
  <2>4. CASE UploadReject(t)
    BY <2>1, <2>4, PermitsBounded, StoreAssumption
       DEF UploadReject, RejectRow, ReleasePermit, NameKnown, TypeOK
  <2> QED
    BY <1>2, <2>2, <2>3, <2>4
<1>3. CASE UploadPick(t)
  BY <1>3, StoreAssumption DEF UploadPick, Destination, TypeOK
<1>4. CASE UploadInsert(t) \/ UploadSave(t) \/ UploadInstall(t)
  BY <1>4 DEF UploadInsert, UploadSave, UploadInstall, NameKnown, TypeOK
<1>5. CASE UploadVerify(t) \/ UploadProcess(t)
  BY <1>5 DEF UploadVerify, UploadProcess, NameKnown, TypeOK
<1>6. CASE UploadLoad(t) \/ UploadRewrite(t)
  BY <1>6 DEF UploadLoad, UploadRewrite, NameKnown, TypeOK
<1>7. CASE UploadProcessFails(t) \/ UploadPublish(t)
  BY <1>7 DEF UploadProcessFails, UploadPublish, NameKnown, TypeOK
<1> QED
  BY <1>1, <1>2, <1>3, <1>4, <1>5, <1>6, <1>7, <1>8 DEF UploadWork, Received

LEMMA TypeDeleteStep ==
  ASSUME TypeOK, NameKnown, NEW t \in Thread,
         DeleteWork(t) \/ \E n \in Name : DeleteBegin(t, n)
  PROVE TypeOK'
<1>1. CASE \E n \in Name : DeleteBegin(t, n)
  BY <1>1 DEF DeleteBegin, TypeOK
<1>2. CASE DeleteHide(t) \/ DeleteRestore(t)
  BY <1>2, StoreAssumption DEF DeleteHide, DeleteRestore, NameKnown, TypeOK
<1>3. CASE DeleteUnlink(t)
  BY <1>3, StoreAssumption DEF DeleteUnlink, NameKnown, TypeOK
<1> QED
  BY <1>1, <1>2, <1>3 DEF DeleteWork

LEMMA TypeBulkStep ==
  ASSUME TypeOK, NEW t \in Thread,
         \/ SweepBegin(t) \/ SweepWork(t)
         \/ BatchWork(t) \/ \E S \in SUBSET Listed : BatchBegin(t, S)
  PROVE TypeOK'
<1>1. CASE SweepBegin(t)
  BY <1>1 DEF SweepBegin, TypeOK
<1>2. CASE \E n \in Name : SweepFile(t, n)
  BY <1>2 DEF SweepFile, TypeOK
<1>3. CASE SweepRecord(t)
  BY <1>3, StoreAssumption DEF SweepRecord, TypeOK
<1>4. CASE \E S \in SUBSET Listed : BatchBegin(t, S)
  BY <1>4 DEF BatchBegin, TypeOK
<1>5. CASE \E n \in Name : BatchRow(t, n)
  BY <1>5 DEF BatchRow, TypeOK
<1>6. CASE BatchEnd(t)
  BY <1>6, StoreAssumption DEF BatchEnd, TypeOK
<1> QED
  BY <1>1, <1>2, <1>3, <1>4, <1>5, <1>6 DEF SweepWork, BatchWork

LEMMA TypeStep ==
  ASSUME TypeOK, NameKnown, SemaphoreAccounted', [Next]_vars
  PROVE TypeOK'
<1>1. CASE \E t \in Thread : UploadBegin(t) \/ Received(t) \/ UploadWork(t)
  BY <1>1, TypeUploadStep
<1>2. CASE \E t \in Thread : DeleteWork(t) \/ \E n \in Name : DeleteBegin(t, n)
  BY <1>2, TypeDeleteStep
<1>3. CASE \E t \in Thread : SweepBegin(t) \/ SweepWork(t)
  BY <1>3, TypeBulkStep
<1>4. CASE \E t \in Thread : BatchWork(t) \/ \E S \in SUBSET Listed : BatchBegin(t, S)
  BY <1>4, TypeBulkStep
<1>5. CASE \E n \in Name : Quarantine(n)
  BY <1>5 DEF Quarantine, TypeOK
<1>6. CASE \E S \in SUBSET {n \in Name : rows[n] \in Quarantined} : Reboot(S)
  BY <1>6, StoreAssumption DEF Reboot, SurvivingTmp, TypeOK
<1>7. CASE UNCHANGED vars
  BY <1>7 DEF vars, TypeOK
<1> QED
  BY <1>1, <1>2, <1>3, <1>4, <1>5, <1>6, <1>7, NextCases

-----------------------------------------------------------------------------
(* Rows and files.  Each action is one step; the conjuncts of FileInv are  *)
(* few and lean on one another, so a step proves them together.            *)
USE DEF FileInv, NameKnown, OneWriter, OwnedRow, StillFree, DestinationIsFree,
        StoredWhole, ShownIsWhole

LEMMA FilesUploadStep ==
  ASSUME TypeOK, FileInv, NEW t \in Thread, UploadBegin(t) \/ Received(t) \/ UploadWork(t)
  PROVE FileInv'
<1>1. CASE UploadBegin(t)
  BY <1>1 DEF UploadBegin, TypeOK
<1>2. CASE UploadReceive(t) \/ UploadRefused(t) \/ UploadEnd(t)
  BY <1>2 DEF UploadReceive, UploadRefused, UploadEnd, TypeOK
<1>3. CASE UploadPick(t)
  BY <1>3, StoreAssumption DEF UploadPick, Destination, TypeOK
<1>4. CASE UploadInsert(t)
  BY <1>4 DEF UploadInsert, NameFree, TypeOK
<1>5. CASE UploadSave(t)
  BY <1>5 DEF UploadSave, TypeOK
<1>6. CASE UploadInstall(t)
  BY <1>6 DEF UploadInstall, TypeOK
<1>7. CASE UploadWriteFails(t)
  BY <1>7 DEF UploadWriteFails, RejectRow, TypeOK
<1>8. CASE UploadStat(t)
  BY <1>8 DEF UploadStat, TypeOK
<1>9. CASE UploadVerify(t)
  BY <1>9 DEF UploadVerify, Verified, TypeOK
<1>10. CASE UploadReject(t)
  <2>1. (NameKnown /\ OneWriter /\ OwnedRow)'
    BY <1>10 DEF UploadReject, RejectRow, TypeOK
  <2>2. (StillFree /\ DestinationIsFree)'
    BY <1>10 DEF UploadReject, RejectRow, TypeOK
  <2>3. (StoredWhole /\ ShownIsWhole)'
    BY <1>10 DEF UploadReject, RejectRow, TypeOK
  <2> QED
    BY <2>1, <2>2, <2>3 DEF FileInv
<1>11. CASE UploadProcess(t)
  BY <1>11 DEF UploadProcess, TypeOK
<1>12. CASE UploadLoad(t)
  BY <1>12 DEF UploadLoad, TypeOK
<1>13. CASE UploadRewrite(t)
  BY <1>13 DEF UploadRewrite, TypeOK
<1>14. CASE UploadProcessFails(t)
  BY <1>14 DEF UploadProcessFails, TypeOK
<1>15. CASE UploadPublish(t)
  BY <1>15 DEF UploadPublish, TypeOK
<1> QED
  BY <1>1, <1>2, <1>3, <1>4, <1>5, <1>6, <1>7, <1>8, <1>9, <1>10, <1>11, <1>12,
     <1>13, <1>14, <1>15 DEF UploadWork, Received

LEMMA FilesDeleteStep ==
  ASSUME TypeOK, FileInv, NEW t \in Thread,
         DeleteWork(t) \/ \E n \in Name : DeleteBegin(t, n)
  PROVE FileInv'
<1>1. CASE \E n \in Name : DeleteBegin(t, n)
  BY <1>1 DEF DeleteBegin, TypeOK
<1>2. CASE DeleteHide(t)
  BY <1>2 DEF DeleteHide, TypeOK
<1>3. CASE DeleteUnlink(t)
  <2>1. CASE UNCHANGED media
    BY <1>3, <2>1 DEF DeleteUnlink, TypeOK
  <2>2. CASE /\ media' = [media EXCEPT ![name[t]] = "none"]
             /\ touched' = touched \cup {name[t]} /\ Return(t)
    <3> USE <1>3, <2>2 DEF DeleteUnlink, TypeOK
    <3>1. OneWriter' /\ NameKnown' /\ OwnedRow' /\ StillFree' /\ DestinationIsFree'
      OBVIOUS
    <3>2. ShownIsWhole'
      OBVIOUS
    <3>3. StoredWhole'
      OBVIOUS
    <3> QED
      BY <3>1, <3>2, <3>3
  <2> QED
    BY <1>3, <2>1, <2>2 DEF DeleteUnlink
<1>4. CASE DeleteRestore(t)
  BY <1>4 DEF DeleteRestore, TypeOK
<1> QED
  BY <1>1, <1>2, <1>3, <1>4 DEF DeleteWork

LEMMA FilesSweepStep ==
  ASSUME TypeOK, FileInv, NEW t \in Thread, SweepBegin(t) \/ SweepWork(t)
  PROVE FileInv'
<1>1. CASE SweepBegin(t)
  BY <1>1 DEF SweepBegin, TypeOK
<1>2. CASE \E n \in Name : SweepFile(t, n)
  BY <1>2 DEF SweepFile, TypeOK
<1>3. CASE SweepRecord(t)
  BY <1>3 DEF SweepRecord, TypeOK
<1> QED
  BY <1>1, <1>2, <1>3 DEF SweepWork

LEMMA FilesBatchStep ==
  ASSUME TypeOK, FileInv, NEW t \in Thread,
         BatchWork(t) \/ \E S \in SUBSET Listed : BatchBegin(t, S)
  PROVE FileInv'
<1>1. CASE \E S \in SUBSET Listed : BatchBegin(t, S)
  BY <1>1 DEF BatchBegin, TypeOK
<1>2. CASE \E n \in Name : BatchRow(t, n)
  BY <1>2 DEF BatchRow, TypeOK
<1>3. CASE BatchEnd(t)
  BY <1>3 DEF BatchEnd, TypeOK
<1> QED
  BY <1>1, <1>2, <1>3 DEF BatchWork

LEMMA FilesStep ==
  ASSUME TypeOK, FileInv, [Next]_vars
  PROVE FileInv'
<1>1. CASE \E n \in Name : Quarantine(n)
  BY <1>1 DEF Quarantine, TypeOK
<1>2. CASE \E S \in SUBSET {n \in Name : rows[n] \in Quarantined} : Reboot(S)
  BY <1>2 DEF Reboot, SurvivingTmp, TypeOK
<1>3. CASE UNCHANGED vars
  BY <1>3 DEF vars
<1> HIDE DEF FileInv
<1> QED
  BY <1>1, <1>2, <1>3, NextCases, FilesUploadStep, FilesDeleteStep,
     FilesSweepStep, FilesBatchStep

HIDE DEF FileInv, NameKnown, OneWriter, OwnedRow, StillFree, DestinationIsFree,
         StoredWhole, ShownIsWhole

-----------------------------------------------------------------------------
LEMMA InitInv == Init => IInv
<1> SUFFICES ASSUME Init PROVE IInv
  OBVIOUS
<1>1. TypeOK
  BY StoreAssumption DEF Init, TypeOK
<1>2. SemaphoreAccounted
  <2>1. Uploading = {}
    BY DEF Init, Uploading
  <2> QED
    BY <2>1, FS_EmptySet, StoreAssumption DEF Init, SemaphoreAccounted
<1>3. FileInv
  BY DEF Init, FileInv, NameKnown, OneWriter, OwnedRow, StillFree,
         DestinationIsFree, StoredWhole, ShownIsWhole
<1> QED
  BY <1>1, <1>2, <1>3 DEF IInv

LEMMA NextInv == IInv /\ [Next]_vars => IInv'
<1> SUFFICES ASSUME IInv, [Next]_vars PROVE IInv'
  OBVIOUS
<1>1. SemaphoreAccounted'
  BY SemaphoreStep DEF IInv
<1>2. TypeOK'
  BY <1>1, TypeStep DEF IInv, FileInv
<1>3. FileInv'
  BY FilesStep DEF IInv
<1> QED
  BY <1>1, <1>2, <1>3 DEF IInv

(* The strengthened invariant holds in every reachable state.              *)
THEOREM Invariance == Spec => []IInv
BY InitInv, NextInv, PTL DEF Spec

(* Every variable keeps its type; the semaphore stays within its range.    *)
THEOREM TypeCorrect == Spec => []TypeOK
<1>1. IInv => TypeOK
  BY DEF IInv
<1> QED
  BY <1>1, Invariance, PTL

(* Every request that took a permit gives it back exactly once.            *)
THEOREM SemaphoreSafe == Spec => []SemaphoreAccounted
<1>1. IInv => SemaphoreAccounted
  BY DEF IInv
<1> QED
  BY <1>1, Invariance, PTL

(* Two requests never store the same file at the same time.                *)
THEOREM WritersExclude == Spec => []OneWriter
<1>1. IInv => OneWriter
  BY DEF IInv, FileInv
<1> QED
  BY <1>1, Invariance, PTL

(* An upload never overwrites a file that was in the library.              *)
THEOREM NothingOverwritten == Spec => []DestinationIsFree
<1>1. IInv => DestinationIsFree
  BY DEF IInv, FileInv
<1> QED
  BY <1>1, Invariance, PTL

(* Failures, corrupt files, name clashes and restarts never let a photo be *)
(* shown whose file is not complete and verified.                          *)
THEOREM ShownWhole == Spec => []ShownIsWhole
<1>1. IInv => ShownIsWhole
  BY DEF IInv, FileInv
<1> QED
  BY <1>1, Invariance, PTL

-----------------------------------------------------------------------------
(* Temporary files.  Only the thread that is about to rename n.tmp matters *)
(* for n, so the invariant is inductive with nothing but the types.        *)

LEMMA TmpUploadStep ==
  ASSUME "unlink" \notin Faults, TypeOK, TmpIsOwned,
         NEW t \in Thread, UploadBegin(t) \/ Received(t) \/ UploadWork(t)
  PROVE TmpIsOwned'
<1> USE DEF TmpIsOwned
<1>1. CASE \/ UploadBegin(t) \/ UploadReceive(t) \/ UploadRefused(t)
           \/ UploadEnd(t) \/ UploadPick(t) \/ UploadInsert(t)
  BY <1>1 DEF UploadBegin, UploadReceive, UploadRefused, UploadEnd, UploadPick, UploadInsert, TypeOK
<1>2. CASE UploadSave(t) \/ UploadLoad(t)
  BY <1>2 DEF UploadSave, UploadLoad, TypeOK
<1>3. CASE UploadInstall(t) \/ UploadRewrite(t)
  BY <1>3 DEF UploadInstall, UploadRewrite, TypeOK
<1>4. CASE UploadWriteFails(t)
  BY <1>4 DEF UploadWriteFails, RejectRow, TypeOK
<1>5. CASE UploadStat(t) \/ UploadVerify(t) \/ UploadReject(t)
  BY <1>5 DEF UploadStat, UploadVerify, UploadReject, RejectRow, TypeOK
<1>6. CASE UploadProcess(t) \/ UploadProcessFails(t) \/ UploadPublish(t)
  BY <1>6 DEF UploadProcess, UploadProcessFails, UploadPublish, TypeOK
<1> QED
  BY <1>1, <1>2, <1>3, <1>4, <1>5, <1>6 DEF UploadWork, Received

LEMMA TmpStep ==
  ASSUME "unlink" \notin Faults, TypeOK, TmpIsOwned, [Next]_vars
  PROVE TmpIsOwned'
<1>1. CASE \E t \in Thread : UploadBegin(t) \/ Received(t) \/ UploadWork(t)
  BY <1>1, TmpUploadStep
<1>2. CASE \E t \in Thread : DeleteWork(t) \/ \E n \in Name : DeleteBegin(t, n)
  BY <1>2 DEF DeleteWork, DeleteBegin, DeleteHide, DeleteUnlink, DeleteRestore,
              TypeOK, TmpIsOwned
<1>3. CASE \E t \in Thread : SweepBegin(t) \/ SweepWork(t)
  BY <1>3 DEF SweepWork, SweepBegin, SweepFile, SweepRecord, TypeOK, TmpIsOwned
<1>4. CASE \E t \in Thread : BatchWork(t) \/ \E S \in SUBSET Listed : BatchBegin(t, S)
  BY <1>4 DEF BatchWork, BatchBegin, BatchRow, BatchEnd, TypeOK, TmpIsOwned
<1>5. CASE \E n \in Name : Quarantine(n)
  BY <1>5 DEF Quarantine, TmpIsOwned
<1>6. CASE \E S \in SUBSET {n \in Name : rows[n] \in Quarantined} : Reboot(S)
  BY <1>6 DEF Reboot, SurvivingTmp, TmpIsOwned
<1>7. CASE UNCHANGED vars
  BY <1>7 DEF vars, TmpIsOwned
<1> QED
  BY <1>1, <1>2, <1>3, <1>4, <1>5, <1>6, <1>7, NextCases

(* Unless removing a file fails, a temporary file exists only while the    *)
(* upload that writes it is about to rename it.                            *)
THEOREM NoLeftovers ==
  ASSUME "unlink" \notin Faults
  PROVE Spec => []TmpIsOwned
<1>1. Init => TmpIsOwned
  BY DEF Init, TmpIsOwned
<1>2. TypeOK /\ TmpIsOwned /\ [Next]_vars => TmpIsOwned'
  BY TmpStep
<1> QED
  BY <1>1, <1>2, TypeCorrect, PTL DEF Spec

-----------------------------------------------------------------------------
(* The store implements PhotoLibrary as long as POST /delete is not used.  *)

(* What a row is while no delete handler runs: pending as long as a thread *)
(* stores its file, and long published when a bulk handler hides it.       *)
LibraryInv ==
  /\ OneWriter
  /\ \A t \in Thread :
       /\ pc[t] \notin {"hide", "unlink", "restore"}
       /\ pc[t] \in OwningSteps => name[t] \in Name /\ rows[name[t]] = "uploading"
       /\ pc[t] = "insert" => name[t] \in Name
       /\ pc[t] = "batch" => \A n \in todo[t] : rows[n] \in {"shown", "rejected", "deleted"}

USE DEF LibraryInv, OneWriter

LEMMA LibraryUploadStep ==
  ASSUME TypeOK, LibraryInv, NEW t \in Thread, UploadBegin(t) \/ Received(t) \/ UploadWork(t)
  PROVE LibraryInv'
<1>1. CASE \/ UploadBegin(t) \/ UploadReceive(t) \/ UploadRefused(t)
           \/ UploadEnd(t) \/ UploadStat(t)
  BY <1>1 DEF UploadBegin, UploadReceive, UploadRefused, UploadEnd, UploadStat, TypeOK
<1>2. CASE UploadPick(t)
  BY <1>2, StoreAssumption DEF UploadPick, Destination, TypeOK
<1>3. CASE UploadInsert(t)
  BY <1>3 DEF UploadInsert, NameFree, TypeOK
<1>4. CASE UploadSave(t) \/ UploadInstall(t) \/ UploadWriteFails(t)
  BY <1>4 DEF UploadSave, UploadInstall, UploadWriteFails, RejectRow, TypeOK
<1>5. CASE UploadVerify(t) \/ UploadProcess(t) \/ UploadProcessFails(t)
  BY <1>5 DEF UploadVerify, UploadProcess, UploadProcessFails, TypeOK
<1>6. CASE UploadLoad(t) \/ UploadRewrite(t)
  BY <1>6 DEF UploadLoad, UploadRewrite, TypeOK
<1>7. CASE UploadReject(t) \/ UploadPublish(t)
  BY <1>7 DEF UploadReject, RejectRow, UploadPublish, TypeOK
<1> QED
  BY <1>1, <1>2, <1>3, <1>4, <1>5, <1>6, <1>7 DEF UploadWork, Received

LEMMA LibraryBulkStep ==
  ASSUME TypeOK, LibraryInv, NEW t \in Thread,
         \/ SweepBegin(t) \/ SweepWork(t)
         \/ BatchWork(t) \/ \E S \in SUBSET Listed : BatchBegin(t, S)
  PROVE LibraryInv'
<1>1. CASE SweepBegin(t)
  BY <1>1 DEF SweepBegin, TypeOK
<1>2. CASE \E n \in Name : SweepFile(t, n)
  BY <1>2 DEF SweepFile, TypeOK
<1>3. CASE SweepRecord(t)
  BY <1>3 DEF SweepRecord, TypeOK
<1>4. CASE \E S \in SUBSET Listed : BatchBegin(t, S)
  BY <1>4 DEF BatchBegin, TypeOK
<1>5. CASE \E n \in Name : BatchRow(t, n)
  BY <1>5 DEF BatchRow, TypeOK
<1>6. CASE BatchEnd(t)
  BY <1>6 DEF BatchEnd, TypeOK
<1> QED
  BY <1>1, <1>2, <1>3, <1>4, <1>5, <1>6 DEF SweepWork, BatchWork

LEMMA LibraryInvStep ==
  ASSUME "delete" \notin Operations, TypeOK, LibraryInv, [Next]_vars
  PROVE LibraryInv'
<1>1. CASE \E t \in Thread : DeleteWork(t) \/ \E n \in Name : DeleteBegin(t, n)
  BY <1>1 DEF DeleteWork, DeleteBegin, DeleteHide, DeleteUnlink, DeleteRestore
<1>2. CASE \E n \in Name : Quarantine(n)
  BY <1>2 DEF Quarantine, TypeOK
<1>3. CASE \E S \in SUBSET {n \in Name : rows[n] \in Quarantined} : Reboot(S)
  BY <1>3 DEF Reboot, TypeOK
<1>4. CASE UNCHANGED vars
  BY <1>4 DEF vars
<1> HIDE DEF LibraryInv
<1> QED
  BY <1>1, <1>2, <1>3, <1>4, NextCases, LibraryUploadStep, LibraryBulkStep

USE DEF Library!Begin, Library!Publish, Library!Fail, Library!Withdraw,
        Library!Forget, Library!Set, LibraryStatus

LEMMA LibraryUploadMaps ==
  ASSUME TypeOK, LibraryInv, NEW t \in Thread, UploadBegin(t) \/ Received(t) \/ UploadWork(t)
  PROVE \/ \E n \in Name : Library!Begin(n) \/ Library!Publish(n) \/ Library!Fail(n)
        \/ UNCHANGED rows
<1>1. CASE UploadInsert(t)
  BY <1>1 DEF UploadInsert, NameFree, TypeOK
<1>2. CASE UploadWriteFails(t) \/ UploadReject(t)
  <2>1. pc[t] \in OwningSteps /\ (SetRow(name[t], "rejected") \/ UNCHANGED rows)
    BY <1>2 DEF UploadWriteFails, UploadReject, RejectRow
  <2>2. CASE SetRow(name[t], "rejected")
    <3>1. Library!Fail(name[t])
      BY <2>1, <2>2 DEF TypeOK
    <3> QED
      BY <2>1, <3>1
  <2> QED
    BY <2>1, <2>2
<1>3. CASE UploadPublish(t)
  <2>1. pc[t] \in OwningSteps /\ SetRow(name[t], "shown")
    BY <1>3 DEF UploadPublish
  <2>2. Library!Publish(name[t])
    BY <2>1 DEF TypeOK
  <2> QED
    BY <2>1, <2>2
<1>4. CASE \/ UploadBegin(t) \/ UploadReceive(t) \/ UploadRefused(t) \/ UploadEnd(t) \/ UploadPick(t) \/ UploadSave(t)
           \/ UploadInstall(t) \/ UploadStat(t) \/ UploadVerify(t)
  BY <1>4 DEF UploadBegin, UploadReceive, UploadRefused, UploadEnd, UploadPick, UploadSave, UploadInstall,
              UploadStat, UploadVerify
<1>5. CASE \/ UploadProcess(t) \/ UploadLoad(t) \/ UploadRewrite(t)
           \/ UploadProcessFails(t)
  BY <1>5 DEF UploadProcess, UploadLoad, UploadRewrite, UploadProcessFails
<1> QED
  BY <1>1, <1>2, <1>3, <1>4, <1>5 DEF UploadWork, Received

(* Hiding a row that is shown withdraws it; hiding it again is a stutter.  *)
LEMMA LibraryHideMaps ==
  ASSUME TypeOK, NEW n \in Name, NEW state \in {"rejected", "deleted"},
         rows[n] \in {"shown", "rejected", "deleted"}, SetRow(n, state)
  PROVE \/ Library!Withdraw({n})
        \/ UNCHANGED LibraryStatus
BY DEF TypeOK

LEMMA LibraryBulkMaps ==
  ASSUME TypeOK, LibraryInv, NEW t \in Thread,
         \/ SweepBegin(t) \/ SweepWork(t)
         \/ BatchWork(t) \/ \E S \in SUBSET Listed : BatchBegin(t, S)
  PROVE (\E S \in SUBSET Name : Library!Withdraw(S)) \/ UNCHANGED LibraryStatus
<1>1. CASE SweepRecord(t)
  <2>1. CASE UNCHANGED rows
    BY <2>1
  <2>2. CASE rows' = [n \in Name |-> IF n \in gone[t] \cap Shown THEN "deleted" ELSE rows[n]]
    <3>1. Library!Withdraw(gone[t] \cap Shown) /\ gone[t] \cap Shown \in SUBSET Name
      BY <2>2 DEF TypeOK
    <3> HIDE DEF Library!Withdraw, LibraryStatus
    <3> QED
      BY <3>1
  <2> QED
    BY <1>1, <2>1, <2>2 DEF SweepRecord
<1>2. ASSUME NEW n \in Name, BatchRow(t, n)
      PROVE (\E S \in SUBSET Name : Library!Withdraw(S)) \/ UNCHANGED LibraryStatus
  <2>1. /\ SetRow(n, "deleted") \/ UNCHANGED rows
        /\ rows[n] \in {"shown", "rejected", "deleted"}
    BY <1>2 DEF BatchRow
  <2>2. UNCHANGED rows => UNCHANGED LibraryStatus
    OBVIOUS
  <2> HIDE DEF SetRow, Library!Withdraw, LibraryStatus, LibraryInv
  <2>3. Library!Withdraw({n}) \/ UNCHANGED LibraryStatus
    BY <2>1, <2>2, LibraryHideMaps
  <2> QED
    BY <2>3
<1>3. CASE \/ SweepBegin(t) \/ \E n \in Name : SweepFile(t, n)
           \/ BatchEnd(t) \/ \E S \in SUBSET Listed : BatchBegin(t, S)
  BY <1>3 DEF SweepBegin, SweepFile, BatchEnd, BatchBegin
<1> HIDE DEF Library!Withdraw, LibraryStatus, LibraryInv
<1> QED
  BY <1>1, <1>2, <1>3 DEF SweepWork, BatchWork

LEMMA LibraryStep ==
  ASSUME "delete" \notin Operations, TypeOK, LibraryInv, [Next]_vars
  PROVE [Library!Next]_LibraryStatus
<1> USE DEF Library!Next
<1> HIDE DEF Library!Begin, Library!Publish, Library!Fail, Library!Withdraw, Library!Forget
<1>1. CASE \E t \in Thread : UploadBegin(t) \/ Received(t) \/ UploadWork(t)
  <2>1. CASE UNCHANGED rows
    BY <2>1
  <2> QED
    BY <1>1, <2>1, LibraryUploadMaps
<1>2. CASE \E t \in Thread : DeleteWork(t) \/ \E n \in Name : DeleteBegin(t, n)
  BY <1>2 DEF DeleteWork, DeleteBegin, DeleteHide, DeleteUnlink, DeleteRestore
<1>3. CASE \E t \in Thread : SweepBegin(t) \/ SweepWork(t)
  BY <1>3, LibraryBulkMaps
<1>4. CASE \E t \in Thread : BatchWork(t) \/ \E S \in SUBSET Listed : BatchBegin(t, S)
  BY <1>4, LibraryBulkMaps
<1>5. ASSUME NEW n \in Name, Quarantine(n) PROVE [Library!Next]_LibraryStatus
  <2>1. SetRow(n, "rejected") /\ rows[n] \in {"shown", "rejected", "deleted"}
    BY <1>5 DEF Quarantine
  <2>2. Library!Withdraw({n}) \/ UNCHANGED LibraryStatus
    BY <2>1, LibraryHideMaps
  <2> QED
    BY <2>2
<1>6. ASSUME NEW S \in SUBSET {n \in Name : rows[n] \in Quarantined}, Reboot(S)
      PROVE [Library!Next]_LibraryStatus
  <2>1. Library!Forget(S)
    BY <1>6 DEF Reboot, TypeOK, Library!Forget
  <2> QED
    BY <2>1
<1>7. CASE UNCHANGED vars
  BY <1>7 DEF vars
<1> QED
  BY <1>1, <1>2, <1>3, <1>4, <1>5, <1>6, <1>7, NextCases

HIDE DEF LibraryInv

(* A photo is published at most once, by the upload that stored it, and    *)
(* never comes back once withdrawn: without POST /delete the photo store   *)
(* implements PhotoLibrary.                                                *)
THEOREM LibraryImplemented ==
  ASSUME "delete" \notin Operations
  PROVE Spec => LibraryRefined
<1>1. Init => LibraryInv /\ Library!Init
  BY DEF Init, LibraryInv, Library!Init
<1>2. TypeOK /\ LibraryInv /\ [Next]_vars => LibraryInv'
  BY LibraryInvStep
<1>3. TypeOK /\ LibraryInv /\ [Next]_vars => [Library!Next]_LibraryStatus
  BY LibraryStep
<1> QED
  BY <1>1, <1>2, <1>3, TypeCorrect, PTL DEF Spec, LibraryRefined, Library!Spec
=============================================================================
