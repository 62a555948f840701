------------------------------- MODULE Albums -------------------------------
(***************************************************************************)
(* The albums page (Albums.jsx).  Its state outlives the page, and its     *)
(* answers are applied to whatever is shown by then.  The photos shown are *)
(* abstracted to the album they were fetched for, NoAlbum if there are     *)
(* none.  Left out: covers, counts, the filter, tags and toasts.           *)
(***************************************************************************)
EXTENDS PageCalls

CONSTANTS
  Album,      \* the albums there may be
  Smart       \* those the server computes

ASSUME AlbumsAssumption == Smart \subseteq Album

VARIABLES
  albums,              \* albums.value
  selectedAlbum,       \* selectedAlbum.value
  albumPhotos,         \* the album that albumPhotos.value is of
  albumPhotosLoading,  \* albumPhotosLoading.value
  createOpen,          \* createOpen.value
  creating,            \* creating.value
  deleteTarget,        \* deleteTarget.value
  deleting,            \* deleting.value
  albumCalls,          \* requests under way
  crossed              \* history: photos of another album were on their way
                       \* when this one was opened

albumVars == <<albums, selectedAlbum, albumPhotos, albumPhotosLoading,
               createOpen, creating, deleteTarget, deleting, albumCalls,
               crossed>>
detailVars == <<selectedAlbum, albumPhotos, albumPhotosLoading, crossed>>
createVars == <<createOpen, creating>>
deleteVars == <<deleteTarget, deleting>>

NoAlbum == "no album"

AlbumsInit ==
  /\ albums = {} /\ selectedAlbum = NoAlbum /\ albumPhotos = NoAlbum
  /\ albumPhotosLoading = FALSE /\ createOpen = FALSE /\ creating = FALSE
  /\ deleteTarget = NoAlbum /\ deleting = FALSE
  /\ albumCalls = Quiet /\ crossed = FALSE

(* fetchAlbums(): the list becomes what some answer says.                  *)
AlbumsAnswered ==
  /\ albums' \in {S \in SUBSET Album : Smart \subseteq S}
  /\ UNCHANGED <<detailVars, createVars, deleteVars, albumCalls>>

-----------------------------------------------------------------------------
(* One album.                                                              *)

(* fetchAlbumPhotos()                                                      *)
fetchAlbumPhotos(calls, a) ==
  /\ albumCalls' = Send(calls, [do |-> "photos", of |-> a])
  /\ albumPhotosLoading' = TRUE

(* A card of the grid is tapped.                                           *)
OpenAlbum(a) ==
  /\ selectedAlbum = NoAlbum /\ ~createOpen /\ a \in albums
  /\ Room(albumCalls, 1)
  /\ selectedAlbum' = a
  /\ fetchAlbumPhotos(albumCalls, a)
  /\ crossed' = (Busy(albumCalls, "photos") \/ Busy(albumCalls, "remove"))
  /\ UNCHANGED <<albums, albumPhotos, createVars, deleteVars>>

(* BACK                                                                    *)
BackToAlbums ==
  /\ selectedAlbum # NoAlbum /\ deleteTarget = NoAlbum
  /\ selectedAlbum' = NoAlbum /\ albumPhotos' = NoAlbum
  /\ UNCHANGED <<albums, albumPhotosLoading, createVars, deleteVars,
                 albumCalls, crossed>>

(* A request of kind k for photos shown in the selected album.             *)
AskFor(k) ==
  /\ selectedAlbum # NoAlbum /\ albumPhotos # NoAlbum
  /\ ~albumPhotosLoading /\ deleteTarget = NoAlbum /\ Room(albumCalls, 1)
  /\ albumCalls' = Send(albumCalls, [do |-> k, of |-> selectedAlbum])
  /\ UNCHANGED <<albums, detailVars, createVars, deleteVars>>

(* handleToggleFavorite(), and [X] of a photo, handleRemoveFromAlbum().    *)
ToggleFavorite == AskFor("favorite")
RemoveFromAlbum == selectedAlbum \notin Smart /\ AskFor("remove")

(* When photos arrive they are shown, whatever album is selected.          *)
Arrived(call) == call.of

PhotosAnswered(n) ==
  /\ albumCalls[n].do = "photos"
  /\ albumPhotos' \in {Arrived(albumCalls[n]), NoAlbum}
  /\ albumPhotosLoading' = FALSE
  /\ albumCalls' = Over(albumCalls, n)
  /\ UNCHANGED <<albums, selectedAlbum, crossed, createVars, deleteVars>>

(* After a favourite the album of now is fetched again, after a removal    *)
(* the album it was removed from.                                          *)
ChangeAnswered(n) ==
  LET calls == Over(albumCalls, n)
      a == IF albumCalls[n].do = "remove" THEN albumCalls[n].of
           ELSE selectedAlbum
  IN  /\ albumCalls[n].do \in {"favorite", "remove"}
      /\ IF a = NoAlbum
         THEN albumCalls' = calls /\ UNCHANGED albumPhotosLoading
         ELSE fetchAlbumPhotos(calls, a)
      /\ UNCHANGED <<albums, selectedAlbum, albumPhotos, crossed, createVars,
                     deleteVars>>

ChangeFails(n) ==
  /\ albumCalls[n].do \in {"favorite", "remove"}
  /\ albumCalls' = Over(albumCalls, n)
  /\ UNCHANGED <<albums, detailVars, createVars, deleteVars>>

-----------------------------------------------------------------------------
(* [DELETE] ALBUM and its dialog.                                          *)
AskDelete ==
  /\ selectedAlbum \notin Smart \cup {NoAlbum} /\ deleteTarget = NoAlbum
  /\ deleteTarget' = selectedAlbum
  /\ UNCHANGED <<albums, detailVars, createVars, deleting, albumCalls>>

CancelDelete ==
  /\ deleteTarget # NoAlbum
  /\ deleteTarget' = NoAlbum
  /\ UNCHANGED <<albums, detailVars, createVars, deleting, albumCalls>>

(* handleDeleteAlbum()                                                     *)
ConfirmDelete ==
  /\ deleteTarget # NoAlbum /\ ~deleting /\ Room(albumCalls, 1)
  /\ deleting' = TRUE
  /\ albumCalls' = Send(albumCalls, [do |-> "delete", of |-> deleteTarget])
  /\ UNCHANGED <<albums, detailVars, createVars, deleteTarget>>

(* Mutant: the dialog is left open.                                        *)
TargetKept == deleteTarget

(* It is deleted: the dialog of whatever album closes, and the page leaves *)
(* the album if it is still the one shown.                                 *)
TargetAfter == NoAlbum

DeleteAnswered(n) ==
  LET shown == selectedAlbum = albumCalls[n].of IN
  /\ albumCalls[n].do = "delete"
  /\ deleteTarget' = TargetAfter
  /\ deleting' = FALSE
  /\ selectedAlbum' = IF shown THEN NoAlbum ELSE selectedAlbum
  /\ albumPhotos' = IF shown THEN NoAlbum ELSE albumPhotos
  /\ albumCalls' = Over(albumCalls, n)
  /\ UNCHANGED <<albums, albumPhotosLoading, crossed, createVars>>

(* DELETE ALBUM FAILED: the dialog stays.                                  *)
DeleteFails(n) ==
  /\ albumCalls[n].do = "delete"
  /\ deleting' = FALSE
  /\ albumCalls' = Over(albumCalls, n)
  /\ UNCHANGED <<albums, detailVars, createVars, deleteTarget>>

-----------------------------------------------------------------------------
(* CREATE ALBUM, its overlay and handleCreateAlbum().                      *)
OpenCreate ==
  /\ selectedAlbum = NoAlbum /\ ~createOpen
  /\ createOpen' = TRUE
  /\ UNCHANGED <<albums, detailVars, creating, deleteVars, albumCalls>>

CloseCreate ==
  /\ selectedAlbum = NoAlbum /\ createOpen
  /\ createOpen' = FALSE
  /\ UNCHANGED <<albums, detailVars, creating, deleteVars, albumCalls>>

CreateAlbum ==
  /\ selectedAlbum = NoAlbum /\ createOpen /\ ~creating /\ Room(albumCalls, 1)
  /\ creating' = TRUE
  /\ albumCalls' = Send(albumCalls, [do |-> "create"])
  /\ UNCHANGED <<albums, detailVars, createOpen, deleteVars>>

(* 201 closes the overlay, anything else leaves it.                        *)
CreateAnswered(n) ==
  /\ albumCalls[n].do = "create"
  /\ createOpen' \in {FALSE, createOpen}
  /\ creating' = FALSE
  /\ albumCalls' = Over(albumCalls, n)
  /\ UNCHANGED <<albums, detailVars, deleteVars>>

AlbumsNext ==
  \/ AlbumsAnswered \/ BackToAlbums \/ ToggleFavorite \/ RemoveFromAlbum
  \/ AskDelete \/ CancelDelete \/ ConfirmDelete
  \/ OpenCreate \/ CloseCreate \/ CreateAlbum
  \/ \E a \in Album : OpenAlbum(a)
  \/ \E n \in Slot : PhotosAnswered(n) \/ ChangeAnswered(n) \/ ChangeFails(n)
                       \/ DeleteAnswered(n) \/ DeleteFails(n)
                       \/ CreateAnswered(n)

AlbumsSpec == AlbumsInit /\ [][AlbumsNext]_albumVars

-----------------------------------------------------------------------------
AlbumsTypeOK ==
  /\ albums \subseteq Album
  /\ {selectedAlbum, albumPhotos, deleteTarget} \subseteq Album \cup {NoAlbum}
  /\ {createOpen, crossed} \subseteq BOOLEAN
  /\ albumPhotosLoading => Busy(albumCalls, "photos")
  /\ creating = Busy(albumCalls, "create")
  /\ deleting = Busy(albumCalls, "delete")

(* The dialog, which names no album, is about the album shown, however old *)
(* answers have closed or replaced either; and when no photos were on      *)
(* their way as it was opened, the photos shown, which [X] removes from    *)
(* it, are its own.                                                        *)
RightAlbum ==
  /\ deleteTarget # NoAlbum => deleteTarget = selectedAlbum
  /\ selectedAlbum # NoAlbum /\ ~albumPhotosLoading /\ ~crossed
       => albumPhotos \in {selectedAlbum, NoAlbum}
=============================================================================
