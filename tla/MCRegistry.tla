----------------------------- MODULE MCRegistry -----------------------------
(* Instances of Registry for TLC. *)
EXTENDS Registry

CONSTANTS u1, u2, p1, p2, a1, a2

Call(p) == [to |-> p, input |-> TRUE]
CutOff == [to |-> None, input |-> FALSE]
List(count, calls) == [count |-> count, calls |-> calls]

GroupEvent(u, a, amount, ref, lists) ==
  [user |-> u, asset |-> a, amount |-> amount, ref |-> ref, lists |-> lists]

\* A process may keep the first event, and the second comes with another
\* asset.  The third refers to a Storage, which may return lists of all
\* shapes: of a call to the contracts themselves, after an entry that names a
\* user; of a greedy process; of more processes than the count.
MCEvents == <<
  GroupEvent(u1, a1, 1, FALSE, {List(1, <<Call(p1), CutOff>>)}),
  GroupEvent(u2, a2, 1, FALSE, {List(0, <<>>)}),
  GroupEvent(u1, a1, 1, TRUE, {List(2, <<Call(u2), Call(System)>>),
                               List(2, <<Call(p2)>>),
                               List(1, <<Call(p1), Call(p1)>>)}) >>
=============================================================================
