------------------------------ MODULE Display -------------------------------
(***************************************************************************)
(* Which screen the TV shows (DisplayRouter.jsx): boot, setup, welcome or  *)
(* slideshow.  It follows the events of the server over one stream         *)
(* (lib/sse.js), asks for the status when an event says too little, and    *)
(* applies each answer when it comes.  A status is abstracted to whether   *)
(* there is anything to show.  The network comes and goes at any moment,   *)
(* so any status may say that there is none: to the poll and to the boot   *)
(* that is what a request that fails is.  Left out: the PIN, the narrator, *)
(* the typing of Boot.jsx, the waits between two streams, and what the     *)
(* screens show, for which see Slideshow.                                  *)
(***************************************************************************)
EXTENDS PageCalls, Sequences

CONSTANTS
  MaxEvents,   \* bound: events on their way
  MaxHandlers  \* bound: requests that have changed something and not told

ASSUME DisplayAssumption == MaxEvents \in Nat /\ MaxHandlers \in Nat

VARIABLES
  media,         \* /api/status counts a photo or a video
  displayState,  \* displayState.value
  booting,       \* Boot.jsx: "typing", "greeting" or "done"
  bootStatus,    \* {} or what it was told, {media}
  stream,        \* "open" if the server has the TV among its clients, else
                 \* "closed"; what is on its way may arrive even then
  owed,          \* how many requests are about to send each event
  arriving,      \* events on their way to the TV
  asks,          \* requests of the router: [do, at, said]
  misled         \* history: what may have left the wrong screen, see Note

displayVars == <<media, displayState, booting, bootStatus, stream, owed,
                 arriving, asks, misled>>
bootVars == <<booting, bootStatus>>

Told == {"photo:added", "photo:deleted"}
NothingOwed == [event \in Told |-> 0]

DisplayInit ==
  /\ media \in BOOLEAN
  /\ displayState = "boot" /\ booting = "typing" /\ bootStatus = {}
  /\ stream = "closed"
  /\ owed = NothingOwed /\ arriving = <<>> /\ asks = Quiet /\ misled = "no"

(* The screen that suits what there is to show.                            *)
Screen(any) == IF any THEN "slideshow" ELSE "welcome"

(* An incident may leave the wrong screen, until the right one shows with  *)
(* nothing on its way.  "stale": an answer was out of date when it was     *)
(* applied.  "crossed": a photo:added was sent after the library had been  *)
(* emptied and the photo:deleted sent.  "other": several kinds, or the TV  *)
(* did not hear of a change, because there was no event, the event was     *)
(* lost, or the request it led to.                                         *)
Note(incident, happens) ==
  misled' = IF /\ displayState' = Screen(media')
               /\ owed' = NothingOwed /\ arriving' = <<>> /\ asks' = Quiet
            THEN "no"
            ELSE IF ~happens THEN misled
            ELSE IF misled \in {"no", incident} THEN incident ELSE "other"

-----------------------------------------------------------------------------
(* The server.  Several requests are handled at a time; each changes the   *)
(* library first, and sends its event when it is about to be done.         *)
Handling == owed["photo:added"] + owed["photo:deleted"]

Changes(m, event) ==
  /\ Handling < MaxHandlers
  /\ media' = m
  /\ owed' = [owed EXCEPT ![event] = @ + 1]
  /\ UNCHANGED <<displayState, bootVars, stream, arriving, asks, misled>>

PhotoAdded == Changes(TRUE, "photo:added")

(* A deletion leaves photos or none; it is told even if all were hidden.   *)
PhotoDeleted == \E m \in {FALSE, media} : Changes(m, "photo:deleted")

ChangesSilently(m) ==
  /\ media' = m
  /\ UNCHANGED <<displayState, bootVars, stream, arriving, asks>>
  /\ Note("other", m # media)

(* "Delete all", or the TV itself puts its last photo into quarantine:     *)
(* nothing is sent.                                                        *)
PhotosGone == media /\ UNCHANGED owed /\ ChangesSilently(FALSE)

(* The file of a deletion cannot be removed: the photo is shown again, and *)
(* nothing is sent.                                                        *)
DeletionUndone ==
  /\ owed["photo:deleted"] > 0
  /\ owed' = [owed EXCEPT !["photo:deleted"] = @ - 1]
  /\ ChangesSilently(TRUE)

(* sse.notify(): the event is queued for the stream of the TV, if open.    *)
(* Bound: those before it could all be asked about at once.                *)
Queue(event) ==
  /\ Len(arriving) < MaxEvents /\ Room(asks, Len(arriving))
  /\ arriving' = Append(arriving, event)

Notify(event) ==
  /\ owed[event] > 0
  /\ owed' = [owed EXCEPT ![event] = @ - 1]
  /\ UNCHANGED <<media, displayState, bootVars, stream, asks>>
  /\ IF stream = "open"
     THEN /\ Queue(event)
          /\ Note("crossed", /\ event = "photo:added" /\ ~media
                             /\ owed["photo:deleted"] = 0)
     ELSE UNCHANGED arriving /\ Note("other", TRUE)

(* An attempt to connect ends, as it may at any time.                      *)
WifiTold ==
  /\ stream = "open"
  /\ Queue("wifi:connected") \/ Queue("wifi:failed")
  /\ UNCHANGED <<media, displayState, bootVars, stream, owed, asks, misled>>

(* The queue of some other stream was full, so all that are left are told  *)
(* to look again.                                                          *)
Sync ==
  /\ stream = "open" /\ Queue("sync")
  /\ UNCHANGED <<media, displayState, bootVars, stream, owed, asks, misled>>

(* The queue of this one was full: what it holds still comes, but nothing  *)
(* is added, and the TV, which is not told, waits until the stream breaks. *)
Evicted ==
  /\ stream = "open" /\ arriving # <<>>
  /\ stream' = "closed"
  /\ UNCHANGED <<media, displayState, bootVars, owed, arriving, asks, misled>>

-----------------------------------------------------------------------------
(* createSSE()                                                             *)
StreamOpens ==
  /\ stream = "closed" /\ arriving = <<>>
  /\ stream' = "open"
  /\ UNCHANGED <<media, displayState, bootVars, owed, arriving, asks, misled>>

(* onerror: what was on its way is lost, and the next stream does not ask  *)
(* for it.                                                                 *)
StreamBreaks ==
  /\ stream = "open" \/ arriving # <<>>
  /\ stream' = "closed"
  /\ arriving' = <<>>
  /\ UNCHANGED <<media, displayState, bootVars, owed, asks>>
  /\ Note("other", arriving # <<>>)

-----------------------------------------------------------------------------
(* A request for the status, for one of the reasons below.                 *)
AskStatus(why) == Send(asks, [do |-> why, at |-> "sent", said |-> FALSE])

(* Mutant: photo:added is for the welcome screen only when none is asked.  *)
AfterAddedIdle == IF displayState = "welcome" /\ asks = Quiet
                  THEN "slideshow" ELSE displayState

(* An event arrives.  photo:added shows the slideshow at once, unless the  *)
(* TV is still booting; wifi:failed shows the setup screen.                *)
AfterAdded == IF displayState \in {"welcome", "setup"}
              THEN "slideshow" ELSE displayState

EventReceived ==
  LET event == Head(arriving) IN
  /\ arriving # <<>>
  /\ arriving' = Tail(arriving)
  /\ IF event = "photo:added"
     THEN displayState' = AfterAdded /\ UNCHANGED asks
     ELSE IF event = "wifi:failed"
     THEN displayState' = "setup" /\ UNCHANGED asks
     ELSE /\ Room(asks, 1)
          /\ asks' = AskStatus(event)
          /\ UNCHANGED displayState
  /\ UNCHANGED <<media, bootVars, stream, owed>>
  /\ Note("other", FALSE)

(* The timer of the setup screen, every minute.                            *)
Poll ==
  /\ displayState = "setup" /\ Room(asks, 1)
  /\ asks' = AskStatus("poll")
  /\ UNCHANGED <<media, displayState, bootVars, stream, owed, arriving,
                 misled>>

StatusHandled(n) ==
  /\ asks[n] # Idle /\ asks[n].at = "sent"
  /\ asks' = [asks EXCEPT ![n].at = "handled", ![n].said = media]
  /\ UNCHANGED <<media, displayState, bootVars, stream, owed, arriving,
                 misled>>

(* What an answer makes of the screen, depending on what it was asked for. *)
ScreenAfter(why, any) ==
  CASE why = "photo:deleted" -> IF any THEN displayState ELSE "welcome"
    [] why = "sync" -> IF any /\ displayState # "welcome"
                       THEN displayState ELSE Screen(any)
    [] why \in {"poll", "wifi:connected", "boot"} -> Screen(any)

StatusAnswered(n) ==
  /\ asks[n] # Idle /\ asks[n].at = "handled"
  /\ displayState' = ScreenAfter(asks[n].do, asks[n].said)
  /\ asks' = Over(asks, n)
  /\ UNCHANGED <<media, bootVars, stream, owed, arriving>>
  /\ Note("stale", asks[n].said # media)

(* The request fails, or tells the poll or the boot that there is no       *)
(* network: the screen stays, but the TV shows setup when it cannot boot.  *)
StatusFails(n) ==
  /\ asks[n] # Idle
  /\ displayState' = IF asks[n].do = "boot" THEN "setup" ELSE displayState
  /\ asks' = Over(asks, n)
  /\ UNCHANGED <<media, bootVars, stream, owed, arriving>>
  /\ Note("other", asks[n].do \in {"photo:deleted", "sync"})

-----------------------------------------------------------------------------
(* Boot.jsx: checkStatusAndGreet(), which succeeds or fails, and after the *)
(* greeting onComplete(), even if an event has changed the screen.         *)
Greet ==
  /\ booting = "typing" /\ displayState = "boot"
  /\ booting' = "greeting"
  /\ bootStatus' \in {{}, {media}}
  /\ UNCHANGED <<media, displayState, stream, owed, arriving, asks, misled>>

(* An event has changed the screen before: the typing is cleaned up.       *)
BootCut ==
  /\ booting = "typing" /\ displayState # "boot"
  /\ booting' = "done"
  /\ UNCHANGED <<media, displayState, bootStatus, stream, owed, arriving,
                 asks, misled>>

(* handleBootComplete(): without a status it asks again; the status may    *)
(* say that there is no network.                                           *)
BootComplete ==
  /\ booting = "greeting"
  /\ booting' = "done" /\ bootStatus' = {}
  /\ IF bootStatus = {}
     THEN /\ Room(asks, 1)
          /\ asks' = AskStatus("boot")
          /\ UNCHANGED displayState
     ELSE /\ \E any \in bootStatus : displayState' \in {"setup", Screen(any)}
          /\ UNCHANGED asks
  /\ UNCHANGED <<media, stream, owed, arriving>>
  /\ Note("stale", bootStatus # {} /\ media \notin bootStatus)

DisplayNext ==
  \/ PhotoAdded \/ PhotoDeleted \/ PhotosGone \/ DeletionUndone \/ WifiTold
  \/ \E event \in Told : Notify(event)
  \/ Sync \/ Evicted \/ StreamOpens \/ StreamBreaks
  \/ EventReceived \/ Poll \/ Greet \/ BootCut \/ BootComplete
  \/ \E n \in Slot : StatusHandled(n) \/ StatusAnswered(n) \/ StatusFails(n)

DisplaySpec == DisplayInit /\ [][DisplayNext]_displayVars

-----------------------------------------------------------------------------
DisplayTypeOK ==
  /\ media \in BOOLEAN
  /\ bootStatus \in {{}, {TRUE}, {FALSE}}
  /\ displayState \in {"boot", "setup", "welcome", "slideshow"}
  /\ booting \in {"typing", "greeting", "done"}
  /\ stream \in {"closed", "open"}
  /\ Len(arriving) <= MaxEvents
  /\ owed \in [Told -> Nat] /\ Handling <= MaxHandlers
  /\ displayState = "boot" => booting # "done" \/ Busy(asks, "boot")
  /\ misled \in {"no", "stale", "crossed", "other"}

(* Every request has sent its event, every event has arrived, every status *)
(* has been answered; the TV is neither booting nor in the setup screen.   *)
Rests ==
  /\ displayState \notin {"boot", "setup"} /\ booting = "done"
  /\ stream = "open"
  /\ owed = NothingOwed /\ arriving = <<>> /\ asks = Quiet

(* With all requests, events and answers in, the slideshow is shown if     *)
(* there is a photo and the welcome if there is none, unless there has     *)
(* been an incident since the right screen last showed.                    *)
ScreenFits == Rests /\ misled = "no" => displayState = Screen(media)
=============================================================================
