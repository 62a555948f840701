----------------------------- MODULE PhotoStore -----------------------------
(***************************************************************************)
(* The photo library: the rows of the photos table (modules/db.py) and the *)
(* files of the media directory, changed by concurrent request handlers    *)
(* of web_upload.py and api.py and by restarts of the server.              *)
(*                                                                         *)
(* SQLite serialises writers (_write_lock), so one db.* call is one step;  *)
(* a file system call is one step; other handlers may run between any two  *)
(* steps of a handler.  A row is keyed by its file name: the column is     *)
(* UNIQUE and rows are removed only at start-up, so while the server runs  *)
(* a row id and its file name denote the same row.                         *)
(*                                                                         *)
(* The events the handlers send (sse.notify) belong to module SSEHub.      *)
(* Left out: thumbnails, the GPS cache, the hidden and favourite flags.    *)
(***************************************************************************)
EXTENDS Naturals, FiniteSets

CONSTANTS
  Thread,      \* request threads of the one gunicorn worker
  Name,        \* file names
  Fresh,       \* the names a uuid suffix can produce; no client sends one
  NoName,      \* the name of a thread that works on no single file
  Permits,     \* initial value of _upload_semaphore
  MaxFiles,    \* bound: files in one upload request
  Operations,  \* which requests and events this instance contains
  Faults       \* which calls may fail in this instance

Requests == {"upload", "delete", "deleteAll", "batch", "quarantine", "reboot"}
FaultKinds == {"write", "rename", "unlink", "process", "db"}

ASSUME StoreAssumption ==
  /\ IsFiniteSet(Thread)
  /\ Fresh \subseteq Name
  /\ NoName \notin Name
  /\ Permits \in Nat \ {0}
  /\ MaxFiles \in Nat \ {0}
  /\ Operations \subseteq Requests
  /\ Faults \subseteq FaultKinds

VARIABLES
  rows,     \* rows[n]: the photos row of n, see RowState
  media,    \* media[n]: what MEDIA_DIR/n holds
  tmp,      \* the names whose MEDIA_DIR/n.tmp exists
  permits,  \* value of _upload_semaphore
  pc,       \* pc[t]: the next step of t's handler
  name,     \* name[t]: the file t works on
  content,  \* content[t]: the bytes t is storing
  left,     \* left[t]: files of t's upload request still to come
  todo,     \* todo[t]: files or ids t's handler still has to visit
  gone,     \* gone[t]: deleted_filenames of t's delete-all
  touched   \* history: rows on whose file a delete handler has acted

dataVars == <<rows, media, tmp, touched>>
threadVars == <<pc, name, content, left, todo, gone>>
vars == <<dataVars, permits, threadVars>>

-----------------------------------------------------------------------------
(* A row is served unless it is quarantined; the three quarantined states  *)
(* are told apart by quarantine_reason.                                    *)
Quarantined == {"uploading", "rejected", "deleted"}
RowState == {"absent", "shown"} \cup Quarantined
Content == {"good", "corrupt"}
FileState == {"none"} \cup Content

UploadSteps == {"receive", "next", "insert", "save", "install", "stat", "verify",
                "reject", "process", "rework", "rewrite", "finish"}
Steps == {"idle", "hide", "unlink", "restore", "sweep", "batch"} \cup UploadSteps

(* t has inserted the row of n and has not yet left it.                    *)
OwningSteps == UploadSteps \ {"receive", "next", "insert"}
Owns(t, n) == pc[t] \in OwningSteps /\ name[t] = n
Shown == {n \in Name : rows[n] = "shown"}

Init ==
  /\ rows = [n \in Name |-> "absent"]
  /\ media = [n \in Name |-> "none"]
  /\ tmp = {}
  /\ touched = {}
  /\ permits = Permits
  /\ pc = [t \in Thread |-> "idle"]
  /\ name = [t \in Thread |-> NoName]
  /\ content = [t \in Thread |-> "good"]
  /\ left = [t \in Thread |-> 0]
  /\ todo = [t \in Thread |-> {}]
  /\ gone = [t \in Thread |-> {}]

-----------------------------------------------------------------------------
(* Pieces of the handlers.                                                 *)

Goto(t, step) == pc' = [pc EXCEPT ![t] = step]

Step(t, from, to) ==
  /\ pc[t] = from
  /\ Goto(t, to)
  /\ UNCHANGED <<permits, name, content, left, todo, gone>>

(* The handler returns: its locals are gone.                               *)
Return(t) ==
  /\ Goto(t, "idle")
  /\ name' = [name EXCEPT ![t] = NoName]
  /\ content' = [content EXCEPT ![t] = "good"]
  /\ left' = [left EXCEPT ![t] = 0]
  /\ todo' = [todo EXCEPT ![t] = {}]
  /\ gone' = [gone EXCEPT ![t] = {}]

(* The upload loop goes on to the next file of the request.                *)
NextFile(t) ==
  /\ Goto(t, "next")
  /\ name' = [name EXCEPT ![t] = NoName]
  /\ content' = [content EXCEPT ![t] = "good"]
  /\ UNCHANGED <<permits, left, todo, gone>>

(* UPDATE photos SET quarantined = ...: a missing row stays missing.       *)
SetRow(n, state) ==
  rows' = [rows EXCEPT ![n] = IF @ = "absent" THEN "absent" ELSE state]

(* The rows whose ids a client can hold: every row that was ever shown, by *)
(* now perhaps hidden, and no row that is still being stored.              *)
Listed == {n \in Name : rows[n] \in {"shown", "rejected", "deleted"}}

-----------------------------------------------------------------------------
(* POST /upload.                                                           *)

(* upload(): one permit of the semaphore for the whole request; without    *)
(* one the answer is 429 and nothing changes.                              *)
UploadBegin(t) ==
  /\ "upload" \in Operations
  /\ pc[t] = "idle"
  /\ permits > 0
  /\ permits' = permits - 1
  /\ Goto(t, "receive")
  /\ UNCHANGED <<dataVars, name, content, left, todo, gone>>

\* Mutant: the semaphore is not released in a finally clause.
ReleasePermitNot(t) == permits' = permits

\* Mutant: an early return releases the permit before finally does.
ReleasePermitTwice(t) == permits' = permits + 2

(* The finally clause of upload().                                         *)
ReleasePermit(t) == permits' = permits + 1

(* request.files in _do_upload() reads the body, with the permit held and  *)
(* for as long as the client takes to send it: request_timeout() does      *)
(* nothing outside the main thread.                                        *)
UploadReceive(t) ==
  /\ pc[t] = "receive"
  /\ Goto(t, "next")
  /\ \E k \in 1..MaxFiles : left' = [left EXCEPT ![t] = k]
  /\ UNCHANGED <<dataVars, permits, name, content, todo, gone>>

(* The client is gone, the request has no files, the disk is nearly full   *)
(* or the user cannot be created.                                          *)
UploadRefused(t) ==
  /\ pc[t] = "receive"
  /\ ReleasePermit(t)
  /\ Return(t)
  /\ UNCHANGED dataVars

(* The loop ends, after the last file or because the disk is nearly full.  *)
UploadEnd(t) ==
  /\ pc[t] = "next"
  /\ ReleasePermit(t)
  /\ Return(t)
  /\ UNCHANGED dataVars

\* Mutant: dest.exists() is not tested.
DestinationAnyway(n) == {n}

(* dest, for a file that arrives under name n: the name itself unless a    *)
(* file of that name exists, else the name with a new uuid suffix.         *)
Destination(n) ==
  IF media[n] = "none"
  THEN {n}
  ELSE {g \in Fresh : rows[g] = "absent" /\ media[g] = "none"}

UploadPick(t) ==
  /\ pc[t] = "next"
  /\ left[t] > 0
  /\ \E n \in Name \ Fresh : \E d \in Destination(n) : name' = [name EXCEPT ![t] = d]
  /\ \E c \in Content : content' = [content EXCEPT ![t] = c]
  /\ left' = [left EXCEPT ![t] = @ - 1]
  /\ Goto(t, "insert")
  /\ UNCHANGED <<dataVars, permits, todo, gone>>

\* Mutant: an INSERT OR REPLACE takes over the row of another upload.
NameFreeOrHidden(n) == rows[n] # "shown"

(* photos.filename is UNIQUE: the INSERT succeeds only for a new name.     *)
NameFree(n) == rows[n] = "absent"

(* insert_photo(quarantined=True); the file is skipped when the table has  *)
(* the name already or the call fails.                                     *)
UploadInsert(t) ==
  /\ pc[t] = "insert"
  /\ \/ /\ NameFree(name[t])
        /\ rows' = [rows EXCEPT ![name[t]] = "uploading"]
        /\ touched' = touched \ {name[t]}
        /\ Step(t, "insert", "save")
     \/ /\ ~NameFree(name[t]) \/ "db" \in Faults
        /\ NextFile(t)
        /\ UNCHANGED <<rows, touched>>
  /\ UNCHANGED <<media, tmp>>

(* f.save(tmp_dest) and fsync.                                             *)
UploadSave(t) ==
  /\ Step(t, "save", "install")
  /\ tmp' = tmp \cup {name[t]}
  /\ UNCHANGED <<rows, media, touched>>

(* os.replace(tmp_dest, dest).                                             *)
UploadInstall(t) ==
  /\ Step(t, "install", "stat")
  /\ tmp' = tmp \ {name[t]}
  /\ media' = [media EXCEPT ![name[t]] = content[t]]
  /\ UNCHANGED <<rows, touched>>

(* update_photo_quarantine(True, reason).  Nothing catches its failure: it *)
(* ends the request, and the row stays "upload in progress".               *)
RejectRow(t) ==
  \/ SetRow(name[t], "rejected") /\ NextFile(t)
  \/ "db" \in Faults /\ ReleasePermit(t) /\ Return(t) /\ UNCHANGED rows

(* Saving or replacing failed: the temporary file is removed (which may    *)
(* fail too) and the row stays quarantined, "file write failed".           *)
UploadWriteFails(t) ==
  /\ "write" \in Faults
  /\ pc[t] \in {"save", "install"}
  /\ \/ tmp' = tmp \ {name[t]}
     \/ "unlink" \in Faults /\ UNCHANGED tmp
  /\ RejectRow(t)
  /\ UNCHANGED <<media, touched>>

(* dest.stat() in the log line stands outside every try: when the file has *)
(* gone the request dies there, and only the permit is given back.         *)
UploadStat(t) ==
  /\ pc[t] = "stat"
  /\ IF media[name[t]] # "none"
     THEN Step(t, "stat", "verify")
     ELSE ReleasePermit(t) /\ Return(t)
  /\ UNCHANGED dataVars

\* Mutant: the image is not verified before it is processed.
VerifiedAlways(file) == TRUE

(* PILImage.open(dest).verify().  A video is not verified: "corrupt" is an  *)
(* image that verify() rejects, and any video counts as "good".            *)
Verified(file) == file = "good"

(* A file that fails verification, or is gone, is renamed into quarantine/ *)
(* (which may fail) before its row is marked.                              *)
UploadVerify(t) ==
  /\ pc[t] = "verify"
  /\ \/ /\ Verified(media[name[t]])
        /\ Step(t, "verify", "process")
        /\ UNCHANGED media
     \/ /\ ~Verified(media[name[t]])
        /\ Step(t, "verify", "reject")
        /\ \/ media' = [media EXCEPT ![name[t]] = "none"]
           \/ "rename" \in Faults /\ UNCHANGED media
  /\ UNCHANGED <<rows, tmp, touched>>

(* "corrupt image" or "processing failed"                                  *)
UploadReject(t) ==
  /\ pc[t] = "reject"
  /\ RejectRow(t)
  /\ UNCHANGED <<media, tmp, touched>>

(* dest.stat() at the head of the processing block: its failure is caught. *)
UploadProcess(t) ==
  /\ pc[t] = "process"
  /\ Step(t, "process", IF media[name[t]] = "none" THEN "reject" ELSE "rework")
  /\ UNCHANGED dataVars

(* fix_orientation, _auto_resize_image and strip_exif each open the file,  *)
(* write n.tmp and replace the file by it, if there is something to change;*)
(* a failure is swallowed.  The model has one such pass, which it may skip.*)
UploadLoad(t) ==
  /\ pc[t] = "rework"
  /\ media[name[t]] # "none"
  /\ Step(t, "rework", "rewrite")
  /\ tmp' = tmp \cup {name[t]}
  /\ UNCHANGED <<rows, media, touched>>

UploadRewrite(t) ==
  /\ Step(t, "rewrite", "finish")
  /\ \/ /\ tmp' = tmp \ {name[t]}
        /\ media' = [media EXCEPT ![name[t]] = content[t]]
     \/ /\ "write" \in Faults
        /\ \/ tmp' = tmp \ {name[t]}
           \/ "unlink" \in Faults /\ UNCHANGED tmp
        /\ UNCHANGED media
  /\ UNCHANGED <<rows, touched>>

UploadProcessFails(t) ==
  /\ "process" \in Faults
  /\ \E step \in {"rework", "finish"} : Step(t, step, "reject")
  /\ UNCHANGED dataVars

(* unquarantine_photo: the UPDATE tests nothing but the id.                *)
UploadPublish(t) ==
  /\ pc[t] \in {"rework", "finish"}
  /\ SetRow(name[t], "shown")
  /\ NextFile(t)
  /\ UNCHANGED <<media, tmp, touched>>

UploadWork(t) ==
  \/ UploadEnd(t) \/ UploadPick(t) \/ UploadInsert(t) \/ UploadSave(t)
  \/ UploadInstall(t) \/ UploadWriteFails(t) \/ UploadStat(t)
  \/ UploadVerify(t) \/ UploadReject(t) \/ UploadProcess(t) \/ UploadLoad(t)
  \/ UploadRewrite(t) \/ UploadProcessFails(t) \/ UploadPublish(t)

-----------------------------------------------------------------------------
(* POST /delete.                                                           *)

(* filepath.exists(), otherwise 404.                                       *)
DeleteBegin(t, n) ==
  /\ "delete" \in Operations
  /\ pc[t] = "idle"
  /\ media[n] # "none"
  /\ Goto(t, "hide")
  /\ name' = [name EXCEPT ![t] = n]
  /\ UNCHANGED <<dataVars, permits, content, left, todo, gone>>

(* get_photo_by_filename, and update_photo_quarantine(True, "deleted by    *)
(* user") if there is a row, which the handler remembers in photo_row.  An *)
(* exception ends the request.                                             *)
DeleteHide(t) ==
  /\ pc[t] = "hide"
  /\ \/ /\ SetRow(name[t], "deleted")
        /\ todo' = [todo EXCEPT ![t] = {n \in {name[t]} : rows[n] # "absent"}]
        /\ Goto(t, "unlink")
        /\ UNCHANGED <<name, content, left, gone>>
     \/ "db" \in Faults /\ Return(t) /\ UNCHANGED rows
  /\ UNCHANGED <<media, tmp, touched, permits>>

(* filepath.unlink()                                                       *)
DeleteUnlink(t) ==
  /\ pc[t] = "unlink"
  /\ \/ /\ media[name[t]] # "none"
        /\ media' = [media EXCEPT ![name[t]] = "none"]
        /\ touched' = touched \cup {name[t]}
        /\ Return(t)
        /\ UNCHANGED permits
     \/ /\ media[name[t]] = "none" \/ "unlink" \in Faults
        /\ Step(t, "unlink", "restore")
        /\ UNCHANGED <<media, touched>>
  /\ UNCHANGED <<rows, tmp>>

(* The unlink failed: the row there was before is taken out of quarantine. *)
DeleteRestore(t) ==
  /\ pc[t] = "restore"
  /\ \/ /\ rows' = [n \in Name |-> IF n \in todo[t] THEN "shown" ELSE rows[n]]
        /\ touched' = touched \cup todo[t]
     \/ "db" \in Faults /\ UNCHANGED <<rows, touched>>
  /\ Return(t)
  /\ UNCHANGED <<media, tmp, permits>>

DeleteWork(t) == DeleteHide(t) \/ DeleteUnlink(t) \/ DeleteRestore(t)

-----------------------------------------------------------------------------
(* POST /delete-all: files first, then the rows of the deleted files.      *)

(* The directory is listed once, before the first unlink.                  *)
SweepBegin(t) ==
  /\ "deleteAll" \in Operations
  /\ pc[t] = "idle"
  /\ Goto(t, "sweep")
  /\ todo' = [todo EXCEPT ![t] = {n \in Name : media[n] # "none"}]
  /\ UNCHANGED <<dataVars, permits, name, content, left, gone>>

SweepFile(t, n) ==
  /\ pc[t] = "sweep"
  /\ n \in todo[t]
  /\ todo' = [todo EXCEPT ![t] = @ \ {n}]
  /\ \/ /\ media[n] # "none"
        /\ media' = [media EXCEPT ![n] = "none"]
        /\ gone' = [gone EXCEPT ![t] = @ \cup {n}]
        /\ touched' = touched \cup {n}
     \/ /\ media[n] = "none" \/ "unlink" \in Faults
        /\ UNCHANGED <<media, gone, touched>>
  /\ UNCHANGED <<rows, tmp, permits, pc, name, content, left>>

(* bulk_quarantine_by_filenames: WHERE filename IN (...) AND quarantined = *)
(* 0.  An exception is logged and the rows stay.                           *)
SweepRecord(t) ==
  /\ pc[t] = "sweep"
  /\ todo[t] = {}
  /\ \/ rows' = [n \in Name |-> IF n \in gone[t] \cap Shown THEN "deleted" ELSE rows[n]]
     \/ "db" \in Faults /\ UNCHANGED rows
  /\ Return(t)
  /\ UNCHANGED <<media, tmp, touched, permits>>

SweepWork(t) == SweepRecord(t) \/ \E n \in Name : SweepFile(t, n)

-----------------------------------------------------------------------------
(* POST /api/photos/batch/delete and POST /api/photos/<id>/quarantine: the *)
(* row is hidden, the file stays.                                          *)

BatchBegin(t, S) ==
  /\ "batch" \in Operations
  /\ pc[t] = "idle"
  /\ S # {}
  /\ Goto(t, "batch")
  /\ todo' = [todo EXCEPT ![t] = S]
  /\ UNCHANGED <<dataVars, permits, name, content, left, gone>>

BatchRow(t, n) ==
  /\ pc[t] = "batch"
  /\ n \in todo[t]
  /\ todo' = [todo EXCEPT ![t] = @ \ {n}]
  /\ SetRow(n, "deleted") \/ ("db" \in Faults /\ UNCHANGED rows)
  /\ UNCHANGED <<media, tmp, touched, permits, pc, name, content, left, gone>>

BatchEnd(t) ==
  /\ pc[t] = "batch"
  /\ todo[t] = {}
  /\ Return(t)
  /\ UNCHANGED <<dataVars, permits>>

BatchWork(t) == BatchEnd(t) \/ \E n \in Name : BatchRow(t, n)

(* Called by the display for a photo it could not load.                    *)
Quarantine(n) ==
  /\ "quarantine" \in Operations
  /\ n \in Listed
  /\ SetRow(n, "rejected")
  /\ UNCHANGED <<media, tmp, touched, permits, threadVars>>

-----------------------------------------------------------------------------
\* Mutant: start-up leaves the temporary files of interrupted uploads.
SurvivingTmpAll == {tmp}

(* _cleanup_tmp_files: a file it cannot remove is logged and left.         *)
SurvivingTmp == IF "unlink" \in Faults THEN SUBSET tmp ELSE {{}}

(* The server process ends at any point and starts again: every handler    *)
(* and the semaphore are gone, temporary files are removed and             *)
(* prune_quarantined deletes the quarantined rows uploaded more than 30    *)
(* days ago.  The frame may have been off for any time, so the pruned rows *)
(* S are any set of quarantined rows.                                      *)
Reboot(S) ==
  /\ "reboot" \in Operations
  /\ tmp' \in SurvivingTmp
  /\ rows' = [n \in Name |-> IF n \in S THEN "absent" ELSE rows[n]]
  /\ permits' = Permits
  /\ pc' = [t \in Thread |-> "idle"]
  /\ name' = [t \in Thread |-> NoName]
  /\ content' = [t \in Thread |-> "good"]
  /\ left' = [t \in Thread |-> 0]
  /\ todo' = [t \in Thread |-> {}]
  /\ gone' = [t \in Thread |-> {}]
  /\ UNCHANGED <<media, touched>>

-----------------------------------------------------------------------------
(* Work(t): t's handler takes a step of the request it is serving.  What   *)
(* the client sends of an upload, Received(t), is not the handler's doing. *)
Received(t) == UploadReceive(t) \/ UploadRefused(t)
Work(t) == UploadWork(t) \/ DeleteWork(t) \/ SweepWork(t) \/ BatchWork(t)

Request(t) ==
  \/ UploadBegin(t)
  \/ \E n \in Name : DeleteBegin(t, n)
  \/ SweepBegin(t)
  \/ \E S \in SUBSET Listed : BatchBegin(t, S)

Next ==
  \/ \E t \in Thread : Request(t) \/ Received(t) \/ Work(t)
  \/ \E n \in Name : Quarantine(n)
  \/ \E S \in SUBSET {n \in Name : rows[n] \in Quarantined} : Reboot(S)

Spec == Init /\ [][Next]_vars

(* A request thread that has its request goes on: handlers only make       *)
(* finite calls.  No client is assumed to send what it has begun.          *)
FairSpec == Spec /\ \A t \in Thread : WF_vars(Work(t))

-----------------------------------------------------------------------------
TypeOK ==
  /\ rows \in [Name -> RowState]
  /\ media \in [Name -> FileState]
  /\ tmp \subseteq Name
  /\ touched \subseteq Name
  /\ permits \in 0..Permits
  /\ pc \in [Thread -> Steps]
  /\ name \in [Thread -> Name \cup {NoName}]
  /\ content \in [Thread -> Content]
  /\ left \in [Thread -> 0..MaxFiles]
  /\ todo \in [Thread -> SUBSET Name]
  /\ gone \in [Thread -> SUBSET Name]

(* Every path out of an upload request, the early returns and the one that *)
(* raises included, gives its permit back exactly once (web_upload.py      *)
(* upload()).                                                              *)
Uploading == {t \in Thread : pc[t] \in UploadSteps}
SemaphoreAccounted == permits + Cardinality(Uploading) = Permits

(* Two requests never store the same file at the same time, although the   *)
(* existence test, the INSERT and the rename are three separate steps: the *)
(* UNIQUE file name is the lock.                                           *)
OneWriter ==
  \A t, u \in Thread, n \in Name : Owns(t, n) /\ Owns(u, n) => t = u

(* An upload never overwrites a file: from the INSERT to os.replace the    *)
(* destination tested earlier by dest.exists() is still free.              *)
DestinationIsFree ==
  \A t \in Thread :
    pc[t] \in {"save", "install"} => media[name[t]] = "none"

(* Unless a removal fails, a temporary file exists only while the upload   *)
(* that writes it is about to rename it: no early return, failed write or  *)
(* restart leaves one behind (_do_upload, _cleanup_tmp_files).             *)
TmpIsOwned ==
  "unlink" \notin Faults =>
    \A n \in tmp : \E t \in Thread : pc[t] \in {"install", "rewrite"} /\ name[t] = n

(* "quarantined until file is safe" (_do_upload): crashes, failed writes,  *)
(* corrupt files, name clashes and pruning never let a row be shown whose  *)
(* file is not complete and verified; only the delete handlers can.        *)
ShownIsWhole ==
  \A n \in Shown : media[n] = "good" \/ n \in touched

(* The upload semaphore never runs dry for good through anything the       *)
(* handlers do: a permit becomes free, or every one of them is held for a  *)
(* client that has not sent its request yet (upload(), _do_upload()).      *)
Receiving == {t \in Thread : pc[t] = "receive"}
PermitsComeBack ==
  permits = 0 ~> (permits > 0 \/ Cardinality(Receiving) = Permits)

(* What a row means to the library.                                        *)
LibraryStatus ==
  [n \in Name |->
    CASE rows[n] = "uploading" -> "pending"
      [] rows[n] \in {"rejected", "deleted"} -> "withdrawn"
      [] OTHER -> rows[n]]

Library == INSTANCE PhotoLibrary WITH status <- LibraryStatus

(* Without POST /delete, whose error path puts a row back, the store keeps *)
(* the promise of PhotoLibrary: it publishes only what it stored, once,    *)
(* and shows nothing again that was withdrawn.                             *)
LibraryRefined == Library!Spec
=============================================================================
