------------------------------ MODULE MCParts -------------------------------
(* Small instances of the parts: a limiter of two requests in two seconds, *)
(* and settings of which the file lists one from the first.                *)
EXTENDS Parts

(* Two attempts for four digits, one for six: the limits in small.         *)
FewTries == [n \in {4, 6} |-> IF n = 4 THEN 2 ELSE 1]
=============================================================================
