---------------------------- MODULE MCGeneration ----------------------------
(* Instances of Generation for TLC. *)
EXTENDS Generation

CONSTANTS g1, g2, r1

MCOne == {g1}
MCGenerations == {g1, g2, r1}
MCRemovals == {r1}
(* One request is waited for, the others are not. *)
MCWaits == {g1}
MCCost == [g \in Generations |-> IF g = r1 THEN 1 ELSE IF g = g2 THEN 3 ELSE 2]
(* fal.ai reports one of the generations twice. *)
MCDeliveries == [g \in Generations |-> IF g = g2 THEN 2 ELSE 1]

(* Most of what can go wrong goes wrong for the first: they meet only in   *)
(* the balance.                                                            *)
MCFaults ==
    ({"submit", "debit", "fetch", "timeout", "lost", "delete"} \X {g1})
        \cup {<<"answer", g2>>, <<"delete", r1>>, <<"db", r1>>}
=============================================================================
