------------------------------ MODULE Slideshow ------------------------------
(***************************************************************************)
(* The slideshow of the TV page (Slideshow.jsx), from one mount of the     *)
(* component on: two stacked layers, one shown and one standing by, and a  *)
(* single-threaded event loop in which timers, media elements, answers to  *)
(* fetches and server-sent events call back in any order.                  *)
(*                                                                         *)
(* A photo is abstracted to its kind, which decides who calls advance()    *)
(* next: the timer for an image, the element's "ended" for a video.  A     *)
(* playlist is empty or has Count entries: generate_playlist repeats       *)
(* photos until the list is full.  Durations are abstracted: a callback    *)
(* that is due may come at any later time.                                 *)
(* Left out: style classes, Ken Burns, preloading, the text overlays, and  *)
(* the "connection lost" banner.                                           *)
(***************************************************************************)
EXTENDS Naturals, Sequences

CONSTANTS
  Count,       \* entries of a playlist
  Kind,        \* kinds of the photos in the library
  EmptyToo,    \* whether the server may answer with an empty playlist
  Event,       \* which server-sent events occur
  MaxPending   \* bound: fetches, cap timers or shows under way, of each sort

ASSUME SlideshowAssumption ==
  /\ Count \in Nat /\ Count > 1
  /\ Kind \subseteq {"image", "video"}
  /\ EmptyToo \in BOOLEAN
  /\ Event \subseteq {"change", "show"}
  /\ MaxPending \in Nat \ {0}

VARIABLES
  ready,          \* init() has got its playlist
  ordered,        \* s.ordered: the playlist, a sequence of kinds
  index,          \* s.index
  activeLayer,    \* s.activeLayer
  transitioning,  \* s.transitioning; s.transitionTimer is set just as long
  timer,          \* s.timer is pending
  layer,          \* layer[l]: the element in layer l, see Element
  opaque,         \* opaque[l]: style.opacity of layer l is 1
  refreshes,      \* playlists asked for by advance()
  changes,        \* playlists asked for by handlePhotoChange()
  caps,           \* pending timers that cap a video's duration
  shows,          \* pending timers of slideshow:show
  crossed         \* history: two swaps of the layers overlapped

playVars == <<ready, ordered, index>>
layerVars == <<activeLayer, layer, opaque>>
pendingVars == <<refreshes, changes, caps, shows>>
vars == <<playVars, layerVars, transitioning, timer, pendingVars, crossed>>

Layer == {"A", "B"}

(* "image" may still fail to load, "broken" has its 3 s timer pending and  *)
(* "settled" has not; "video" waits for its metadata, "playing" for its    *)
(* end, and "over" has ended or failed.                                    *)
Element == {"none", "image", "broken", "settled", "video", "playing", "over"}

Playlist == [1..Count -> Kind] \cup (IF EmptyToo THEN {<<>>} ELSE {})

Other(l) == IF l = "A" THEN "B" ELSE "A"
Standby == Other(activeLayer)

(* s.ordered[s.index] of a playlist                                        *)
At(list, i) == list[i + 1]

Init ==
  /\ ready = FALSE
  /\ ordered = <<>>
  /\ index = 0
  /\ activeLayer = "A"
  /\ transitioning = FALSE
  /\ timer = FALSE
  /\ layer = [l \in Layer |-> "none"]
  /\ opaque = [l \in Layer |-> FALSE]
  /\ refreshes = 0 /\ changes = 0 /\ caps = 0 /\ shows = 0
  /\ crossed = FALSE

-----------------------------------------------------------------------------
(* A request is sent; the bound merges further ones into those under way.  *)
Requested(n) == IF n < MaxPending THEN n + 1 ELSE n

\* Mutant: the timer is started for videos instead of images.
ResetTimerVideo(list, i) == timer' = (Len(list) > 1 /\ At(list, i) = "video")

(* resetTimer(): the pending timer is dropped; a new one is started if the *)
(* playlist is there and its current entry is an image.                    *)
ResetTimer(list, i) == timer' = (Len(list) > 1 /\ At(list, i) = "image")

\* Mutant: an interval instead of a timeout, which fires again.
DueAgain(n) == TRUE

(* One of n scheduled callbacks is due; it comes once.                     *)
Due(n) == n > 0

\* Mutant: the layer that was shown stays opaque.
SwapLayersOnly(o) ==
  /\ activeLayer' = Standby
  /\ opaque' = o

(* The layers change roles; only the one that goes has its opacity set.    *)
SwapLayers(o) ==
  /\ activeLayer' = Standby
  /\ opaque' = [o EXCEPT ![activeLayer] = FALSE]

(* advance(), called when the layers hold lay and the timer is pending or  *)
(* not (due).  The next entry goes into the standby layer, on top; the     *)
(* roles are swapped by a timer or, for the transition "none", which       *)
(* applies to images only, at once.                                        *)
Blocked == transitioning \/ Len(ordered) <= 1

Advance(lay, due) ==
  \/ /\ Blocked
     /\ layer' = lay
     /\ timer' = due
     /\ UNCHANGED <<index, transitioning, activeLayer, opaque, refreshes, crossed>>
  \/ LET next == (index + 1) % Len(ordered)
         shown == [opaque EXCEPT ![Standby] = TRUE]
     IN /\ ~Blocked
        /\ index' = next
        /\ refreshes' = IF next = 0 THEN Requested(refreshes) ELSE refreshes
        /\ layer' = [lay EXCEPT ![Standby] = At(ordered, next)]
        /\ crossed' = (shows > 0)
        /\ \/ /\ transitioning' = TRUE
              /\ opaque' = shown
              /\ timer' = due
              /\ UNCHANGED activeLayer
           \/ /\ At(ordered, index) = "image"
              /\ SwapLayers(shown)
              /\ ResetTimer(ordered, next)
              /\ UNCHANGED transitioning

-----------------------------------------------------------------------------
(* init(): retried until both fetches succeed.  It loads layer A, whatever *)
(* has happened meanwhile.                                                 *)
InitReply(list) ==
  /\ ~ready
  /\ ready' = TRUE
  /\ ordered' = list
  /\ index' = 0
  /\ IF list = <<>>
     THEN UNCHANGED <<layer, opaque, timer, crossed>>
     ELSE /\ layer' = [layer EXCEPT !["A"] = At(list, 0)]
          /\ opaque' = [opaque EXCEPT !["A"] = TRUE]
          /\ ResetTimer(list, 0)
          /\ crossed' = (crossed \/ shows > 0 \/ transitioning \/ activeLayer # "A")
  /\ UNCHANGED <<activeLayer, transitioning, pendingVars>>

(* The auto-advance timer of the current image.                            *)
TimerFires ==
  /\ timer
  /\ Advance(layer, FALSE)
  /\ UNCHANGED <<ready, ordered, changes, caps, shows>>

(* finalize()                                                              *)
TransitionEnds ==
  /\ transitioning
  /\ transitioning' = FALSE
  /\ SwapLayers(opaque)
  /\ ResetTimer(ordered, index)
  /\ UNCHANGED <<playVars, layer, pendingVars, crossed>>

(* img.onerror                                                             *)
ImageFails(l) ==
  /\ layer[l] = "image"
  /\ layer' = [layer EXCEPT ![l] = "broken"]
  /\ UNCHANGED <<playVars, activeLayer, opaque, transitioning, timer, pendingVars, crossed>>

ImageSkipped(l) ==
  /\ layer[l] = "broken"
  /\ Advance([layer EXCEPT ![l] = "settled"], timer)
  /\ UNCHANGED <<ready, ordered, changes, caps, shows>>

(* "loadedmetadata": a long video gets a timer that nothing ever clears.   *)
VideoStarts(l) ==
  /\ layer[l] = "video"
  /\ layer' = [layer EXCEPT ![l] = "playing"]
  /\ \/ caps < MaxPending /\ caps' = caps + 1
     \/ UNCHANGED caps
  /\ UNCHANGED <<playVars, activeLayer, opaque, transitioning, timer, refreshes,
                 changes, shows, crossed>>

(* "ended", or "error" before or while it plays; a layer that stands by    *)
(* plays on.                                                               *)
VideoOver(l) ==
  /\ layer[l] \in {"video", "playing"}
  /\ Advance([layer EXCEPT ![l] = "over"], timer)
  /\ UNCHANGED <<ready, ordered, changes, caps, shows>>

CapFires ==
  /\ Due(caps)
  /\ caps' = caps - 1
  /\ Advance(layer, timer)
  /\ UNCHANGED <<ready, ordered, changes, shows>>

-----------------------------------------------------------------------------
(* The answer to the fetch advance() made at the end of the playlist; an   *)
(* empty list is ignored, a failed fetch only logged.                      *)
RefreshReply(list) ==
  /\ Due(refreshes)
  /\ refreshes' = refreshes - 1
  /\ \/ list # <<>> /\ ordered' = list
     \/ UNCHANGED ordered
  /\ UNCHANGED <<ready, index, layerVars, transitioning, timer, changes, caps, shows,
                 crossed>>

(* photo:added, photo:deleted or sync: handlePhotoChange() asks for a list.*)
PhotoChange ==
  /\ "change" \in Event
  /\ changes < MaxPending
  /\ changes' = changes + 1
  /\ UNCHANGED <<playVars, layerVars, transitioning, timer, refreshes, caps,
                 shows, crossed>>

(* Its answer is dropped during a transition.                              *)
ChangeReply(list) ==
  /\ Due(changes)
  /\ changes' = changes - 1
  /\ \/ /\ ~transitioning
        /\ ordered' = list
        /\ index' = IF index >= Len(list) THEN 0 ELSE index
     \/ UNCHANGED <<ordered, index>>
  /\ UNCHANGED <<ready, layerVars, transitioning, timer, refreshes, caps,
                 shows, crossed>>

(* slideshow:show: a photo of the phone user's choice, with a swap timer   *)
(* of its own that neither sets s.transitioning nor stops s.timer.         *)
Show(kind) ==
  /\ "show" \in Event
  /\ ~transitioning
  /\ shows < MaxPending
  /\ shows' = shows + 1
  /\ layer' = [layer EXCEPT ![Standby] = kind]
  /\ opaque' = [opaque EXCEPT ![Standby] = TRUE]
  /\ crossed' = (shows > 0)
  /\ UNCHANGED <<playVars, activeLayer, transitioning, timer, refreshes, changes, caps>>

ShowEnds ==
  /\ Due(shows)
  /\ shows' = shows - 1
  /\ SwapLayers(opaque)
  /\ ResetTimer(ordered, index)
  /\ crossed' = (crossed \/ shows > 1 \/ transitioning)
  /\ UNCHANGED <<playVars, layer, transitioning, refreshes, changes, caps>>

-----------------------------------------------------------------------------
InitSome == \E list \in Playlist : InitReply(list)

Next ==
  \/ InitSome \/ TimerFires \/ TransitionEnds \/ CapFires
  \/ \E l \in Layer : ImageFails(l) \/ ImageSkipped(l) \/ VideoStarts(l) \/ VideoOver(l)
  \/ \E list \in Playlist : RefreshReply(list) \/ ChangeReply(list)
  \/ PhotoChange
  \/ \E kind \in Kind : Show(kind)
  \/ ShowEnds

Spec == Init /\ [][Next]_vars

(* init() is retried until it succeeds, and a timer that is set fires.     *)
(* Images may load or fail, and nobody need press a button.                *)
FairSpec ==
  /\ Spec
  /\ WF_vars(InitSome)
  /\ WF_vars(TimerFires)
  /\ WF_vars(TransitionEnds)

-----------------------------------------------------------------------------
TypeOK ==
  /\ ready \in BOOLEAN
  /\ ordered \in Playlist \cup {<<>>}
  /\ index \in 0..(Count - 1)
  /\ activeLayer \in Layer
  /\ transitioning \in BOOLEAN /\ timer \in BOOLEAN /\ crossed \in BOOLEAN
  /\ layer \in [Layer -> Element]
  /\ opaque \in [Layer -> BOOLEAN]
  /\ {refreshes, changes, caps, shows} \subseteq 0..MaxPending

(* "Active layer on top, standby hidden underneath" (finalize): between    *)
(* transitions the active layer, and it alone, is visible, whatever media  *)
(* callbacks, late timers and playlist answers came in between, as long as *)
(* no slideshow:show or late first playlist overlapped another swap.       *)
Quiet == ~transitioning /\ shows = 0
ActiveOnTop ==
  Quiet /\ ~crossed /\ layer # [l \in Layer |-> "none"] =>
    opaque[activeLayer] /\ ~opaque[Standby]

(* "Restart timer for images (videos advance on ended)": once it has       *)
(* photos, something is always pending that will show the next one.        *)
KeepsGoing ==
  ready /\ Len(ordered) > 1 =>
    \/ timer \/ ~Quiet \/ caps > 0
    \/ \E l \in Layer : layer[l] \in {"broken", "video", "playing"}

(* As long as the playlists hold images only and nobody picks a photo, the *)
(* library is shown round and round for ever, through failing images,      *)
(* playlists that change at any moment and fetches that fail.              *)
ImagesOnly == ready => Len(ordered) > 1 /\ \A i \in 1..Count : ordered[i] = "image"
RoundAndRound ==
  []ImagesOnly /\ [](shows = 0) => []<>(index = 0) /\ []<>(index = Count - 1)
=============================================================================
