------------------------------ MODULE MCBridge ------------------------------
(***************************************************************************)
(* Instances of Bridge: one user, snapshots of two assets.                 *)
(***************************************************************************)
EXTENDS Bridge

\* A withdrawal before a transfer; snapshots without a withdrawal; two halves of
\* one kind; a withdrawal to a chain that is not known; a single half.
MCKinds ==
  {<<"asset", "fee", "transfer">>, <<"transfer", "stranger", "plain">>,
   <<"asset", "asset", "dust">>, <<"plain", "unknown", "transfer">>,
   <<"fee", "dust", "plain">>}

\* Transfers, an order to an unknown chain and a half that are written late.
MCLate ==
  [k \in MCKinds |->
     IF k[1] \in {"transfer", "fee"} THEN {1} ELSE IF k[1] = "plain" THEN {2, 3} ELSE {}]

MCAccount == [s \in Snaps |-> IF s = 2 THEN "chain" ELSE "asset"]
MCPair == [s \in Snaps |-> 1]
=============================================================================
