---------------------------- MODULE MCSlideshow ----------------------------
(* Instances of Slideshow for TLC.                                         *)
EXTENDS Slideshow
=============================================================================
