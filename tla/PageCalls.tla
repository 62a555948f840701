----------------------------- MODULE PageCalls ------------------------------
(***************************************************************************)
(* The requests a page of the phone has under way.  fetch() and XHR answer *)
(* in any order, or never; nothing in the pages orders or cancels them.    *)
(* They are kept as they were sent, each in a slot, for any of them to be  *)
(* handled or answered next.  A call is a record: what it is ("do"), how   *)
(* far it is ("at") and what it carries.                                   *)
(***************************************************************************)
EXTENDS Naturals, FiniteSets

CONSTANT MaxCalls   \* bound: requests one page has under way

ASSUME CallsAssumption == MaxCalls \in Nat \ {0}

Slot == 1..MaxCalls
Idle == [do |-> "idle"]
Quiet == [n \in Slot |-> Idle]

(* There is room for k more requests.                                      *)
Room(calls, k) == Cardinality({n \in Slot : calls[n] = Idle}) >= k

(* A request is sent, behind the others.                                   *)
Send(calls, call) ==
  LET free == {n \in Slot : calls[n] = Idle}
  IN  [calls EXCEPT ![CHOOSE n \in free : \A m \in free : n <= m] = call]

(* It has been answered, or lost; those behind it move up.                 *)
Over(calls, n) ==
  [m \in Slot |-> IF m < n THEN calls[m]
                  ELSE IF m < MaxCalls THEN calls[m + 1] ELSE Idle]

(* The server has handled request n.                                       *)
Handled(calls, n, outcome) == [calls EXCEPT ![n].at = outcome]

(* Some request of a kind is under way.                                    *)
Busy(calls, kind) == \E n \in Slot : calls[n].do = kind
=============================================================================
