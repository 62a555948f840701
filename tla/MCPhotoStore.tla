---------------------------- MODULE MCPhotoStore ----------------------------
(* Instances of PhotoStore for TLC.                                        *)
EXTENDS PhotoStore, TLC

CONSTANTS t1, t2, beach, beach_u1

Threads == {t1, t2}
ThreadSymmetry == Permutations(Threads)
OneName == {beach, beach_u1}
FreshNames == {beach_u1}
=============================================================================
