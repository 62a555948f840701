------------------------------- MODULE MCPages ------------------------------
(* A small instance of every page: one batch of two files and one of one.  *)
EXTENDS Pages

TwoBatches == <<2, 1>>
=============================================================================
