---------------------------- MODULE PhotoLibrary ----------------------------
(***************************************************************************)
(* What the photo library promises, without threads, files or requests: a  *)
(* photo is hidden while it is being stored, is published at most once, by *)
(* the upload that stored it, and once withdrawn never comes back under    *)
(* the same row; its name is free again only after the row was forgotten.  *)
(***************************************************************************)
CONSTANT Name

VARIABLE status

Status == {"absent", "pending", "shown", "withdrawn"}

Init == status = [n \in Name |-> "absent"]

Set(S, state) == status' = [n \in Name |-> IF n \in S THEN state ELSE status[n]]

(* An upload claims a name nobody has.                                     *)
Begin(n) == status[n] = "absent" /\ Set({n}, "pending")

Publish(n) == status[n] = "pending" /\ Set({n}, "shown")

(* The upload of n failed: the photo was never shown.                      *)
Fail(n) == status[n] = "pending" /\ Set({n}, "withdrawn")

Withdraw(S) ==
  /\ \A n \in S : status[n] = "shown"
  /\ Set(S, "withdrawn")

(* Rows of photos that are not shown may be forgotten at any time.         *)
Forget(S) ==
  /\ \A n \in S : status[n] \in {"pending", "withdrawn"}
  /\ Set(S, "absent")

Next ==
  \/ \E n \in Name : Begin(n) \/ Publish(n) \/ Fail(n)
  \/ \E S \in SUBSET Name : Withdraw(S) \/ Forget(S)

Spec == Init /\ [][Next]_status
=============================================================================
