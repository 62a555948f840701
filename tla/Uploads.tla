------------------------------ MODULE Uploads -------------------------------
(***************************************************************************)
(* Uploading, and keeping the list of photos (Upload.jsx with ShDropzone): *)
(* a batch sends its files one after the other, each with retries, and     *)
(* goes on when the page is left; the list is fetched again after every    *)
(* event.  Two batches can run at once, as nothing stops the second.       *)
(*                                                                         *)
(* The server keeps a file whole or refuses it (PhotoStore has the         *)
(* details).  The list, and every answer that carries it, is fresh or old: *)
(* it shows the library as it is now or as it once was.  Left out: the     *)
(* percentages, sorting and filters, the toasts, and the disk, which may   *)
(* disable the dropzone or refuse a file at any time.  ShDropzone's own    *)
(* upload, and with it the question WHO IS UPLOADING?, is never reached,   *)
(* because the page passes onBatchUpload.                                  *)
(***************************************************************************)
EXTENDS PageCalls

CONSTANTS
  Files,      \* Files[b]: how many files batch b has; its domain is a bound
  MaxRetries  \* MAX_RETRIES

ASSUME UploadsAssumption ==
  /\ MaxRetries \in Nat
  /\ DOMAIN Files \subseteq Nat \ {0}
  /\ \A b \in DOMAIN Files : Files[b] \in Nat \ {0}

Batch == DOMAIN Files

VARIABLES
  job,        \* job[b]: where handleBatchUpload is
  results,    \* results[b][i]: batch.files[i].status
  kept,       \* files the server has kept, as pairs <<b, i>>
  homeless,   \* batches whose page has been left since they started
  showing,    \* the batch that is displayed, 0 for none
  clearing,   \* batchClearTimer is pending
  progress,   \* uploadProgress # null
  loaded,     \* ~loading: the first list has come, or failed
  mounted,    \* the page is shown
  live,       \* its event stream is connected
  event,      \* photo:added, photo:deleted or sync is on its way
  photoList,  \* photos.value, "fresh" or "old"
  reads,      \* the list being fetched
  excuse      \* history: why the list may be old, see ListIsFresh

uploadVars == <<job, results, kept, homeless, showing, clearing, progress,
                loaded, mounted, live, event, photoList, reads, excuse>>
jobVars == <<job, results, kept, homeless, showing, clearing, progress>>
listVars == <<mounted, live, event, photoList, reads, excuse>>

NotStarted == [at |-> "idle", file |-> 1, attempt |-> 0]
Running(b) == job[b].at \notin {"idle", "done"}

UploadsInit ==
  /\ job = [b \in Batch |-> NotStarted]
  /\ results = [b \in Batch |-> [i \in 1..Files[b] |-> "PENDING"]]
  /\ kept = {} /\ homeless = {} /\ showing = 0
  /\ clearing = FALSE /\ progress = FALSE /\ loaded = FALSE
  /\ mounted = TRUE /\ live = TRUE /\ event = FALSE
  /\ photoList = "old" /\ excuse = FALSE
  /\ reads = Send(Quiet, [do |-> "list", at |-> "sent"])

-----------------------------------------------------------------------------
(* The list.                                                               *)

(* fetchPhotos(): always a new request.                                    *)
fetchPhotos(r) == Send(r, [do |-> "list", at |-> "sent"])

(* The library has changed: whatever showed it is old, and the event is on *)
(* its way to a page that is connected.                                    *)
LibraryChanges(r) ==
  /\ photoList' = "old"
  /\ reads' = [n \in Slot |-> IF r[n] # Idle /\ r[n].at = "fresh"
                              THEN Handled(r, n, "old")[n] ELSE r[n]]
  /\ event' = (event \/ live)
  /\ excuse' = (excuse \/ ~live)

(* Another phone uploads or deletes.                                       *)
OtherPhone ==
  /\ LibraryChanges(reads)
  /\ UNCHANGED <<jobVars, loaded, mounted, live>>

ReadHandled(n) ==
  /\ reads[n] # Idle /\ reads[n].at = "sent"
  /\ reads' = Handled(reads, n, "fresh")
  /\ UNCHANGED <<jobVars, loaded, mounted, live, event, photoList, excuse>>

(* Any answer becomes the list; an old one may overtake a fresh one.       *)
ReadAnswered(n) ==
  /\ reads[n] # Idle /\ reads[n].at \in {"fresh", "old"}
  /\ photoList' = reads[n].at
  /\ excuse' = (reads[n].at = "old" /\ (excuse \/ photoList = "fresh"))
  /\ reads' = Over(reads, n)
  /\ loaded' = TRUE
  /\ UNCHANGED <<jobVars, mounted, live, event>>

(* PHOTO FETCH FAILED: the list stays.                                     *)
ReadFails(n) ==
  /\ reads[n] # Idle
  /\ reads' = Over(reads, n)
  /\ loaded' = TRUE
  /\ excuse' = TRUE
  /\ UNCHANGED <<jobVars, mounted, live, event, photoList>>

(* Mutant: an event does not fetch while a fetch is under way.             *)
RefreshOnce(r) == IF r = Quiet THEN fetchPhotos(r) ELSE r

(* handleRefresh(), for an event.                                          *)
Refresh(r) == fetchPhotos(r)

EventArrives ==
  /\ event /\ mounted /\ live /\ Room(reads, 1)
  /\ event' = FALSE
  /\ reads' = Refresh(reads)
  /\ UNCHANGED <<jobVars, loaded, mounted, live, photoList, excuse>>

(* The user pulls the page down, or presses RETRY.                         *)
PullDown ==
  /\ mounted /\ Room(reads, 1)
  /\ reads' = fetchPhotos(reads)
  /\ UNCHANGED <<jobVars, loaded, mounted, live, event, photoList, excuse>>

(* The stream breaks or the phone is put away; it is opened again, as a    *)
(* new one that asks for nothing it has missed.                            *)
StreamDown ==
  /\ live
  /\ live' = FALSE /\ event' = FALSE
  /\ excuse' = (excuse \/ event)
  /\ UNCHANGED <<jobVars, loaded, mounted, photoList, reads>>

StreamUp ==
  /\ mounted /\ ~live
  /\ live' = TRUE
  /\ UNCHANGED <<jobVars, loaded, mounted, event, photoList, reads, excuse>>

(* The page is mounted, and left.  Its batches run on, but what they do    *)
(* with setBatch reaches no page any more.                                 *)
Mount ==
  /\ ~mounted /\ Room(reads, 1)
  /\ mounted' = TRUE /\ live' = TRUE
  /\ reads' = fetchPhotos(reads)
  /\ UNCHANGED <<jobVars, loaded, event, photoList, excuse>>

LeaveUploads ==
  /\ mounted
  /\ mounted' = FALSE /\ live' = FALSE /\ event' = FALSE
  /\ excuse' = (excuse \/ event)
  /\ homeless' = homeless \cup {b \in Batch : Running(b)}
  /\ showing' = 0 /\ clearing' = FALSE
  /\ UNCHANGED <<job, results, kept, progress, loaded, photoList, reads>>

-----------------------------------------------------------------------------
(* A batch.                                                                *)

(* Mutant: a batch displays itself, wherever it was started.               *)
DisplayedAlways(b) == b

(* setBatch() of batch b.                                                  *)
Displayed(b) == IF b \in homeless THEN showing ELSE b

(* handleFiles() and the start of handleBatchUpload().                     *)
Choose(b) ==
  /\ mounted /\ loaded
  /\ job[b].at = "idle" /\ \A c \in Batch : c < b => job[c].at # "idle"
  /\ job' = [job EXCEPT ![b].at = "sent"]
  /\ results' = [results EXCEPT ![b][1] = "UPLOADING"]
  /\ showing' = b /\ progress' = TRUE
  /\ UNCHANGED <<kept, homeless, clearing, loaded, listVars>>

(* POST /upload: kept, or refused: rate limit, disk, type, broken file.    *)
Keeps(b) ==
  /\ job[b].at = "sent"
  /\ job' = [job EXCEPT ![b].at = "kept"]
  /\ kept' = kept \cup {<<b, job[b].file>>}
  /\ LibraryChanges(reads)
  /\ UNCHANGED <<results, homeless, showing, clearing, progress, loaded,
                 mounted, live>>

Refuses(b) ==
  /\ job[b].at = "sent"
  /\ job' = [job EXCEPT ![b].at = "refused"]
  /\ UNCHANGED <<results, kept, homeless, showing, clearing, progress,
                 loaded, listVars>>

(* uploadFileWithRetry() has resolved: the next file, or the end of the    *)
(* batch, which clears the progress and lets the display go in 5 s.        *)
Finished(b, status) ==
  LET i == job[b].file
      last == i = Files[b]
  IN  /\ results' = IF last THEN [results EXCEPT ![b][i] = status]
                    ELSE [results EXCEPT ![b][i] = status,
                                         ![b][i + 1] = "UPLOADING"]
      /\ job' = [job EXCEPT ![b] = IF last THEN [@ EXCEPT !.at = "done"]
                   ELSE [at |-> "sent", file |-> i + 1, attempt |-> 0]]
      /\ progress' = ~last
      /\ showing' = Displayed(b)
      /\ clearing' = (clearing \/ (last /\ b \notin homeless))
      /\ last => Room(reads, 1)
      /\ reads' = IF last THEN fetchPhotos(reads) ELSE reads

(* A failure waits and tries again, as often as MAX_RETRIES.               *)
Retries(b) ==
  /\ job' = [job EXCEPT ![b].at = "waiting"]
  /\ UNCHANGED <<results, showing, clearing, progress, reads>>

(* Mutant: every answer completes.                                         *)
OutcomeOfLoad(b) == "COMPLETE"

(* What the answer means: only a 2xx completes.                            *)
Outcome(b) == IF job[b].at = "kept" THEN "COMPLETE" ELSE "FAULT"

(* The load event.                                                         *)
Load(b) ==
  /\ job[b].at \in {"kept", "refused"}
  /\ IF Outcome(b) = "FAULT" /\ job[b].attempt < MaxRetries
     THEN Retries(b) ELSE Finished(b, Outcome(b))
  /\ UNCHANGED <<kept, homeless, loaded, mounted, live, event, photoList,
                 excuse>>

(* The error event: the connection is lost, before or after the file was   *)
(* kept.                                                                   *)
Error(b) ==
  /\ job[b].at \in {"sent", "kept", "refused"}
  /\ IF job[b].attempt < MaxRetries
     THEN Retries(b) ELSE Finished(b, "FAULT")
  /\ UNCHANGED <<kept, homeless, loaded, mounted, live, event, photoList,
                 excuse>>

(* The backoff is over.                                                    *)
Again(b) ==
  /\ job[b].at = "waiting"
  /\ job' = [job EXCEPT ![b].at = "sent", ![b].attempt = @ + 1]
  /\ UNCHANGED <<results, kept, homeless, showing, clearing, progress,
                 loaded, listVars>>

(* Five seconds after the end of a batch: setBatch(null).                  *)
ClearDisplay ==
  /\ clearing
  /\ clearing' = FALSE /\ showing' = 0
  /\ UNCHANGED <<job, results, kept, homeless, progress, loaded, listVars>>

UploadsNext ==
  \/ OtherPhone \/ EventArrives \/ PullDown
  \/ StreamDown \/ StreamUp \/ Mount \/ LeaveUploads \/ ClearDisplay
  \/ \E n \in Slot : ReadHandled(n) \/ ReadAnswered(n) \/ ReadFails(n)
  \/ \E b \in Batch : Choose(b) \/ Keeps(b) \/ Refuses(b) \/ Load(b)
                        \/ Error(b) \/ Again(b)

UploadsSpec == UploadsInit /\ [][UploadsNext]_uploadVars

-----------------------------------------------------------------------------
UploadsTypeOK ==
  /\ \A f \in kept : f[1] \in Batch /\ f[2] \in 1..Files[f[1]]
  /\ \A b \in Batch :
       /\ job[b].at \in {"idle", "sent", "kept", "refused", "waiting", "done"}
       /\ job[b].file \in 1..Files[b] /\ job[b].attempt \in 0..MaxRetries
       /\ \A i \in 1..Files[b] :
            results[b][i] \in {"PENDING", "UPLOADING", "COMPLETE", "FAULT"}
  /\ homeless \subseteq Batch /\ showing \in Batch \cup {0}
  /\ {clearing, progress, loaded, mounted, live, event, excuse}
       \subseteq BOOLEAN
  /\ photoList \in {"fresh", "old"}

(* A file that is reported COMPLETE is in the library, whatever was lost   *)
(* and tried again before.                                                 *)
CompleteIsKept ==
  \A b \in Batch : \A i \in 1..Files[b] :
    results[b][i] = "COMPLETE" => <<b, i>> \in kept

(* Once no event and no request is under way, the page shows the library   *)
(* as it is, whoever changed it and whatever was being fetched then, or    *)
(* there is an excuse: an event was missed, a fetch failed, or an old      *)
(* answer came last.                                                       *)
ListIsFresh ==
  mounted /\ live /\ ~event /\ reads = Quiet
    => photoList = "fresh" \/ excuse

(* The progress and the display of a batch do not outlive the batches,     *)
(* however two of them overlap.                                            *)
NoGhostBatch ==
  /\ progress => \E b \in Batch : Running(b)
  /\ showing # 0 => clearing \/ \E b \in Batch : Running(b)
=============================================================================
