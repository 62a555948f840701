------------------------------ MODULE Gallery -------------------------------
(***************************************************************************)
(* The pictures of the upload page: the cards of the grid (PhotoCard), the *)
(* selection and its batch delete (Upload.jsx), and the lightbox           *)
(* (Lightbox.jsx), with what the server does for them.                     *)
(*                                                                         *)
(* The list shown is whatever an answer brings, however old, so it may be  *)
(* any set of photos; what is newest is the matter of Uploads.  The menu   *)
(* of a card and the dialog of PhotoGrid never open, see LongPress.  Left  *)
(* out: favourites, adding to an album, and what is only shown.            *)
(***************************************************************************)
EXTENDS PageCalls

CONSTANT Photo   \* ids of photos, in the order of the list

ASSUME GalleryAssumption == Photo \in SUBSET (Nat \ {0}) /\ IsFiniteSet(Photo)

VARIABLES
  list,       \* photos.value
  selecting,  \* selectionMode
  selected,   \* selectedIds
  finger,     \* the press on a card, see Press
  over,       \* what lies over the grid, the lightbox or nothing
  tagsOf,     \* the photo whose tags the lightbox shows, 0 for none
  mixed,      \* history: tags came or were asked for out of order, since a
              \* fetch began with no other under way
  requests,   \* requests of this page
  agreed,     \* history: what the user told the page to delete, while a
              \* request for it is under way
  astray      \* history: a request deleted what nobody had told it to

galleryVars == <<list, selecting, selected, finger, over, tagsOf, mixed,
                 requests, agreed, astray>>

NoFinger == [card |-> 0, timer |-> FALSE, selectable |-> FALSE,
             there |-> FALSE, held |-> FALSE]
Bare == [is |-> "grid"]
Box(S, p, doomed) == [is |-> "box", in |-> S, photo |-> p, pending |-> doomed]

Touchable == over = Bare

GalleryInit ==
  /\ list = Photo /\ selecting = FALSE /\ selected = {}
  /\ finger = NoFinger /\ over = Bare
  /\ tagsOf = 0 /\ mixed = FALSE
  /\ requests = Quiet /\ agreed = {} /\ astray = FALSE

(* fetchPhotos() and the filters: the list becomes what some answer says.  *)
(* The selection is not pruned.  A card that goes takes its refs with it,  *)
(* but its timer runs on.                                                  *)
ListAnswered ==
  /\ list' \in SUBSET Photo
  /\ finger' = IF finger.card \in list' THEN finger
               ELSE IF finger.timer THEN [finger EXCEPT !.there = FALSE]
               ELSE NoFinger
  /\ UNCHANGED <<selecting, selected, over, tagsOf, mixed, requests, agreed,
                 astray>>

-----------------------------------------------------------------------------
(* The selection.                                                          *)

(* handleSelectionToggle()                                                 *)
Toggle(p) ==
  /\ selected' = (selected \ {p}) \cup ({p} \ selected)
  /\ selecting' = (selecting /\ selected' # {})

(* exitSelectionMode()                                                     *)
ExitSelection == selecting' = FALSE /\ selected' = {}

(* The X of the bar, and Escape, which closes the lightbox as well.        *)
LeaveSelection ==
  /\ selecting
  /\ ExitSelection
  /\ over' = IF over.is = "box" THEN Bare ELSE over
  /\ UNCHANGED <<list, finger, tagsOf, mixed, requests, agreed, astray>>

(* SELECT ALL, which compares numbers and not sets.                        *)
SelectAll ==
  /\ selecting /\ Touchable
  /\ IF Cardinality(selected) = Cardinality(list)
     THEN ExitSelection
     ELSE selected' = list /\ UNCHANGED selecting
  /\ UNCHANGED <<list, finger, over, tagsOf, mixed, requests, agreed,
                 astray>>

(* handleBatchDelete(): the ids are those selected now.                    *)
BatchDelete ==
  /\ selecting /\ Touchable /\ selected # {} /\ Room(requests, 1)
  /\ requests' = Send(requests, [do |-> "batch", at |-> "sent",
                                 ids |-> selected])
  /\ agreed' = agreed \cup selected
  /\ UNCHANGED <<list, selecting, selected, finger, over, tagsOf,
                 mixed, astray>>

(* Any answer with a body counts as done, "needs_pin" included.            *)
BatchAnswered(n) ==
  /\ requests[n].do = "batch" /\ requests[n].at # "sent"
  /\ requests' = Over(requests, n)
  /\ agreed' = IF Busy(requests', "batch") THEN agreed ELSE {}
  /\ ExitSelection
  /\ UNCHANGED <<list, finger, over, tagsOf, mixed, astray>>

-----------------------------------------------------------------------------
(* A card.                                                                 *)

(* startLongPress(): the timer remembers how the card was rendered; "held" *)
(* is didLongPress, which the next press on the card resets.               *)
Press(p) ==
  /\ Touchable /\ p \in list /\ finger = NoFinger
  /\ finger' = [card |-> p, timer |-> TRUE, selectable |-> selecting,
                there |-> TRUE, held |-> FALSE]
  /\ UNCHANGED <<list, selecting, selected, over, tagsOf, mixed, requests,
                 agreed, astray>>

(* After 500 ms: the selection begins.  On a card that was selectable when *)
(* it was pressed the timer should open the menu, but by then              *)
(* evt.currentTarget is null and it throws.                                *)
LongPress ==
  /\ finger.timer
  /\ finger' = IF finger.there
               THEN [finger EXCEPT !.timer = FALSE, !.held = TRUE]
               ELSE NoFinger
  /\ IF finger.selectable
     THEN UNCHANGED <<selecting, selected>>
     ELSE selecting' = TRUE /\ selected' = {finger.card}
  /\ UNCHANGED <<list, over, tagsOf, mixed, requests, agreed, astray>>

(* The finger leaves the card; no click follows.                           *)
Slide ==
  /\ finger.there
  /\ finger' = NoFinger
  /\ UNCHANGED <<list, selecting, selected, over, tagsOf, mixed,
                 requests, agreed, astray>>

(* A request for tags, on its way or waiting for its 300 ms.               *)
TagKinds == {"tags", "retag"}
Fetching == \E n \in Slot : requests[n].do \in TagKinds

(* Mutant: the tags are fetched for the photo that was shown before.       *)
FetchTagsBefore(p) ==
  /\ Room(requests, 1)
  /\ requests' = Send(requests, [do |-> "tags", at |-> "sent",
                     ids |-> {IF over.is = "box" THEN over.photo ELSE p}])
  /\ mixed' = (mixed /\ Fetching)

(* The effect of a new photo in the lightbox fetches its tags.             *)
FetchTags(p) ==
  /\ Room(requests, 1)
  /\ requests' = Send(requests, [do |-> "tags", at |-> "sent", ids |-> {p}])
  /\ mixed' = (mixed /\ Fetching)

(* The lightbox shows photo p of S.                                        *)
Show(S, p) == over' = Box(S, p, 0) /\ FetchTags(p)

(* handleClick(): a click that ends a long press is swallowed.             *)
Swallowed(press) == press.held

Click ==
  LET p == finger.card IN
  /\ finger.there
  /\ finger' = NoFinger
  /\ IF Swallowed(finger)
     THEN UNCHANGED <<selecting, selected, over, requests, mixed>>
     ELSE IF selecting
     THEN Toggle(p) /\ UNCHANGED <<over, requests, mixed>>
     ELSE Show(list, p) /\ UNCHANGED <<selecting, selected>>
  /\ UNCHANGED <<list, tagsOf, agreed, astray>>

-----------------------------------------------------------------------------
(* The server, and the lightbox.                                           *)

(* Mutant: the ids are read when the request is handled.                   *)
DoomedNow(call) == selected

(* What a request deletes: what it names.                                  *)
Doomed(call) == call.ids

(* The server handles a deletion; without a fitting cookie it refuses.     *)
DeleteHandled(n) ==
  /\ requests[n].do = "batch" /\ requests[n].at = "sent"
  /\ \E let \in BOOLEAN :
       /\ requests' = Handled(requests, n, "handled")
       /\ astray' = (astray \/ (let /\ ~(Doomed(requests[n]) \subseteq agreed)))
  /\ UNCHANGED <<list, selecting, selected, finger, over, tagsOf,
                 mixed, agreed>>

(* A result of the search is tapped: the first photo opens when the result *)
(* is not in the list.                                                     *)
OpenFound(p) ==
  /\ Touchable /\ list # {}
  /\ Show(list, IF p \in list THEN p
                ELSE CHOOSE q \in list : \A r \in list : q <= r)
  /\ UNCHANGED <<list, selecting, selected, finger, tagsOf, agreed,
                 astray>>

CloseBox ==
  /\ over.is = "box" /\ over.pending = 0
  /\ over' = Bare
  /\ UNCHANGED <<list, selecting, selected, finger, tagsOf, mixed,
                 requests, agreed, astray>>

(* The photos beside p in S.                                               *)
Beside(S, p) ==
  {q \in S \ {p} : \A r \in S : ~(p < r /\ r < q) /\ ~(q < r /\ r < p)}

(* navigate(), by swipe, arrow or key; the keys work under a dialog too.   *)
Move(q) ==
  /\ over.is = "box" /\ q \in Beside(over.in, over.photo)
  /\ over' = [over EXCEPT !.photo = q]
  /\ FetchTags(q)
  /\ UNCHANGED <<list, selecting, selected, finger, tagsOf, agreed,
                 astray>>

(* A tap on one of the similar photos, if the list of the box has it.      *)
ToDuplicate(q) ==
  /\ over.is = "box" /\ over.pending = 0 /\ q \in over.in \ {over.photo}
  /\ Show(over.in, q)
  /\ UNCHANGED <<list, selecting, selected, finger, tagsOf, agreed,
                 astray>>

(* A tag is added or removed; 300 ms later the tags of this photo are      *)
(* fetched again, whichever is shown by then.                              *)
EditTag ==
  /\ over.is = "box" /\ over.pending = 0 /\ Room(requests, 1)
  /\ requests' = Send(requests, [do |-> "retag", at |-> "waiting",
                                 ids |-> {over.photo}])
  /\ UNCHANGED <<list, selecting, selected, finger, over, tagsOf,
                 mixed, agreed, astray>>

(* It is sent behind those that have been sent meanwhile, perhaps for a    *)
(* photo that is not shown any more.                                       *)
RetagSent(n) ==
  /\ requests[n].do = "retag" /\ requests[n].at = "waiting"
  /\ requests' = Send(Over(requests, n), [requests[n] EXCEPT !.at = "sent"])
  /\ mixed' = (mixed \/ (over.is = "box" /\ over.photo \notin requests[n].ids))
  /\ UNCHANGED <<list, selecting, selected, finger, over, tagsOf, agreed,
                 astray>>

(* An answer overtakes one that was sent before it.                        *)
Overtakes(n) ==
  \E m \in Slot : /\ m < n /\ requests[m].do \in TagKinds
                  /\ requests[m].at = "sent"

(* The tags arrive, and are shown whatever photo is shown.  A first fetch  *)
(* that fails empties them, a later one leaves them.                       *)
TagsAnswered(n) ==
  /\ requests[n].do \in TagKinds /\ requests[n].at = "sent"
  /\ requests' = Over(requests, n)
  /\ mixed' = (mixed \/ Overtakes(n))
  /\ \/ tagsOf' \in requests[n].ids
     \/ tagsOf' = IF requests[n].do = "tags" THEN 0 ELSE tagsOf
  /\ UNCHANGED <<list, selecting, selected, finger, over, agreed, astray>>

(* DELETE of the lightbox, and its dialog.                                 *)
BoxDelete ==
  /\ over.is = "box" /\ over.pending = 0
  /\ over' = [over EXCEPT !.pending = over.photo]
  /\ UNCHANGED <<list, selecting, selected, finger, tagsOf, mixed,
                 requests, agreed, astray>>

BoxCancel ==
  /\ over.is = "box" /\ over.pending # 0
  /\ over' = [over EXCEPT !.pending = 0]
  /\ UNCHANGED <<list, selecting, selected, finger, tagsOf, mixed,
                 requests, agreed, astray>>

(* Its onDelete is Upload.jsx's handleDelete, which fetches the list and   *)
(* sends no request to delete.                                             *)
BoxConfirm ==
  /\ over.is = "box" /\ over.pending # 0
  /\ over' = Bare
  /\ UNCHANGED <<list, selecting, selected, finger, tagsOf, mixed,
                 requests, agreed, astray>>

(* A batch request fails: the page shows nothing and changes nothing.      *)
BatchFails(n) ==
  /\ requests[n].do = "batch"
  /\ requests' = Over(requests, n)
  /\ agreed' = IF Busy(requests', "batch") THEN agreed ELSE {}
  /\ UNCHANGED <<list, selecting, selected, finger, over, tagsOf, mixed,
                 astray>>

GalleryNext ==
  \/ ListAnswered \/ LeaveSelection \/ SelectAll \/ BatchDelete
  \/ LongPress \/ Slide \/ Click
  \/ CloseBox \/ EditTag \/ BoxDelete \/ BoxCancel \/ BoxConfirm
  \/ \E p \in Photo : Press(p) \/ OpenFound(p) \/ Move(p) \/ ToDuplicate(p)
  \/ \E n \in Slot : BatchAnswered(n) \/ BatchFails(n) \/ DeleteHandled(n)
                       \/ RetagSent(n) \/ TagsAnswered(n)

GallerySpec == GalleryInit /\ [][GalleryNext]_galleryVars

-----------------------------------------------------------------------------
GalleryTypeOK ==
  /\ {list, selected, agreed} \subseteq SUBSET Photo
  /\ {selecting, mixed, astray} \subseteq BOOLEAN
  /\ finger.card \in Photo \cup {0}
  /\ over.is \in {"grid", "box"}
  /\ over.is = "box" => over.photo \in over.in /\ over.in \subseteq Photo
  /\ tagsOf \in Photo \cup {0}
  /\ selected # {} => selecting

(* No request deletes a photo that the user did not tell the page to       *)
(* delete, whatever list and selection are shown when it is handled.       *)
OnlyAgreed == ~astray

(* However often the user swipes while tags are fetched: as long as the    *)
(* answers come in the order of the requests, and none was sent for a      *)
(* photo left before, the tags shown in the end, which a tap removes, are  *)
(* those of the photo shown.                                               *)
TagsAreOfPhoto ==
  over.is = "box" /\ ~Fetching /\ ~mixed => tagsOf \in {0, over.photo}
=============================================================================
