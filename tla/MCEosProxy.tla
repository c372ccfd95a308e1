----------------------------- MODULE MCEosProxy -----------------------------
(***************************************************************************)
(* Instances of EosProxy.                                                  *)
(***************************************************************************)
EXTENDS EosProxy

CONSTANTS p1, p2, alice, bob, dapp, proxy, nobody

Ev(amount, single, account, dest) ==
  [amount |-> amount, single |-> single, account |-> account, dest |-> dest]

\* A transfer to an account of EOS and a call, which together exceed the supply; a
\* refund and a transfer to another user; an event of two users and one of a user
\* without an account.
MCEventLists ==
  {<<Ev(4, TRUE, alice, dapp), Ev(2, TRUE, bob, "call")>>,
   <<Ev(2, TRUE, alice, "short"), Ev(3, TRUE, alice, bob)>>,
   <<Ev(3, FALSE, alice, "self"), Ev(1, TRUE, nobody, "self")>>}
=============================================================================
