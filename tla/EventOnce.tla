------------------------------ MODULE EventOnce ------------------------------
(***************************************************************************)
(* What a contract promises the group about its events: an event is taken  *)
(* over at most once and handled at most once, whatever is sent how often  *)
(* and in whatever order, and its amount counts once, when it is handled.  *)
(***************************************************************************)
EXTENDS Naturals

CONSTANTS Nonces   \* nonces of the group events

VARIABLES
  amount,    \* amount[n]: the amount of event n
  status,    \* status[n]: what became of event n
  total      \* the amounts of all handled events

Statuses == {"new", "accepted", "handled"}

Init ==
  /\ amount \in [Nonces -> Nat]
  /\ status = [n \in Nonces |-> "new"]
  /\ total = 0

\* the event is put aside to be handled later
Accept(n) ==
  /\ status[n] = "new"
  /\ status' = [status EXCEPT ![n] = "accepted"]
  /\ UNCHANGED <<amount, total>>

Handle(n) ==
  /\ status[n] # "handled"
  /\ status' = [status EXCEPT ![n] = "handled"]
  /\ total' = total + amount[n]
  /\ UNCHANGED amount

Next == \E n \in Nonces : Accept(n) \/ Handle(n)

Spec == Init /\ [][Next]_<<amount, status, total>>
==============================================================================
