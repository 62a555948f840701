------------------------------ MODULE MCSSEHub ------------------------------
(* Instances of SSEHub for TLC.                                            *)
EXTENDS SSEHub

CONSTANTS n1, n2, s1, s2, tv, added

TwoNotifiers == {n1, n2}
TwoStreams == {s1, s2}
OneClient == {tv}
OneType == {added}
=============================================================================
