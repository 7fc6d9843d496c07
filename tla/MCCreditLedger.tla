--------------------------- MODULE MCCreditLedger ---------------------------
(* Instances of CreditLedger for TLC. *)
EXTENDS CreditLedger, TLC

CONSTANTS d1, c1, i1, a1, s1, s2

MCOneDeploy == {d1}
MCCharges == {c1}
MCImages == {i1}
MCActivations == {a1}

(* A deployment costs 2, anything else 1. *)
MCCost == [r \in Requests \ Activations |-> IF r \in Deploys THEN 2 ELSE 1]

MCSubRows == {s1, s2}

MCSymmetry == Permutations({s1, s2})
=============================================================================
