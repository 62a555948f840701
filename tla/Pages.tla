------------------------------- MODULE Pages --------------------------------
(***************************************************************************)
(* The pages of the phones and of the TV, side by side.  Each page has its *)
(* own module with its own state and its own idea of the server; nothing   *)
(* in the frontend relates two of them, so a behaviour is that of one      *)
(* page, chosen at the beginning, and the states to check are the sum and  *)
(* not the product of theirs.                                              *)
(***************************************************************************)
EXTENDS Gallery, SearchModal, Uploads, Albums, Users, Display, Onboard

CONSTANT Page   \* the pages to choose from

ASSUME PagesAssumption ==
  Page \subseteq {"gallery", "search", "uploads", "albums", "users", "display",
                 "onboard"}

VARIABLE page

pagesVars == <<galleryVars, searchVars, uploadVars, albumVars, userVars,
               displayVars, wizardVars, page>>

Init ==
  /\ GalleryInit /\ SearchInit /\ UploadsInit /\ AlbumsInit /\ UsersInit
  /\ DisplayInit /\ OnboardInit
  /\ page \in Page
  /\ page # "display" => media

(* A step of the chosen page.                                              *)
Next ==
  \/ /\ page = "gallery" /\ GalleryNext
     /\ UNCHANGED <<searchVars, uploadVars, albumVars, userVars,
                    displayVars, wizardVars>>
  \/ /\ page = "search" /\ SearchNext
     /\ UNCHANGED <<galleryVars, uploadVars, albumVars, userVars,
                    displayVars, wizardVars>>
  \/ /\ page = "uploads" /\ UploadsNext
     /\ UNCHANGED <<galleryVars, searchVars, albumVars, userVars,
                    displayVars, wizardVars>>
  \/ /\ page = "albums" /\ AlbumsNext
     /\ UNCHANGED <<galleryVars, searchVars, uploadVars, userVars,
                    displayVars, wizardVars>>
  \/ /\ page = "users" /\ UsersNext
     /\ UNCHANGED <<galleryVars, searchVars, uploadVars, albumVars,
                    displayVars, wizardVars>>
  \/ /\ page = "display" /\ DisplayNext
     /\ UNCHANGED <<galleryVars, searchVars, uploadVars, albumVars,
                    userVars, wizardVars>>
  \/ /\ page = "onboard" /\ OnboardNext
     /\ UNCHANGED <<galleryVars, searchVars, uploadVars, albumVars,
                    userVars, displayVars>>

Spec == Init /\ [][Next /\ UNCHANGED page]_pagesVars

-----------------------------------------------------------------------------
(* Every page's state has its type; in a state of one page the others are  *)
(* as they began.                                                          *)
TypeOK ==
  /\ GalleryTypeOK /\ SearchTypeOK /\ UploadsTypeOK
  /\ AlbumsTypeOK /\ UsersTypeOK /\ DisplayTypeOK
  /\ OnboardTypeOK
  /\ page \in Page
=============================================================================
