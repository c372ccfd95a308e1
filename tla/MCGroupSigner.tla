--------------------------- MODULE MCGroupSigner ---------------------------
(* Instances of GroupSigner for TLC.                                        *)
EXTENDS GroupSigner, TLC

CONSTANTS n1, n2, n3, f1, a, b

\* Two members, both sign.
TwoNodes == {n1, n2}
\* Three correct members and one that is not, three of them sign.
FourNodes == {n1, n2, n3, f1}
OneFaulty == {f1}

Timestamps == (a :> 1 @@ b :> 2)

OneOutput == [n \in Honest |-> (0 :> a)]
TwoOutputs == [n \in Honest |-> (0 :> a @@ 1 :> b)]

Symmetry == Permutations({n1, n2, n3})
=============================================================================
