-------------------------- MODULE MCMachineLedger --------------------------
(* Instances of MachineLedger for TLC.                                      *)
EXTENDS MachineLedger, TLC

CONSTANTS btc, nft, fungible, collectible

Add == [asset |-> btc, amount |-> 1, kind |-> "add"]
Other == [asset |-> btc, amount |-> 1, kind |-> "other"]
Out(a, n) == [asset |-> a, amount |-> n, kind |-> "event"]
Evt(a, n, m) == [asset |-> a, amount |-> n, mine |-> m]

\* The process is added, and again later; two outputs are credited, one with
\* another memo lies between them.
OneStream == (fungible :> <<Add, Out(btc, 2), Other, Add, Out(btc, 1)>>)

\* One output of each kind.
TwoStreams == (fungible :> <<Add, Out(btc, 1)>> @@ collectible :> <<Out(nft, 1)>>)

\* Two payments that together take the balance, or more if an output is dropped,
\* and an event of another process; lists hold two of the three.
Payments ==
  <<Evt(btc, 1, TRUE), Evt(btc, 2, TRUE), Evt(btc, 1, FALSE)>>

NoPayments == << >>
=============================================================================
