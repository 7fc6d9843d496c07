------------------------------ MODULE MCShowcase ------------------------------
(* Instances of Showcase for TLC. *)
EXTENDS Showcase

CONSTANTS a, b, c, l1, l2, l3, o1, x1, t1, v1, k1

MCKeyOf == [r \in {l1, l2, l3} |-> IF r = l3 THEN "landingpage" ELSE "all"]
MCTarget == [w \in {x1, t1, v1} |-> IF w = t1 THEN b ELSE a]

(* Two deployments become public, one is deleted and one terminated, and   *)
(* the list is asked for under both keys; the same with faults.            *)
MCScenarios == {
    [requests |-> {a, b, l1, l2, x1}, faults |-> {}],
    [requests |-> {a, l1, l3, x1}, faults |-> {"progress", "redis"}],
    [requests |-> {b, l1, l3, t1, k1}, faults |-> {"crash"}],
    [requests |-> {a, c, l1, o1}, faults |-> {"pagespeed", "replaced", "expiry"}],
    [requests |-> {a, x1, v1, l1}, faults |-> {"domain", "pagespeed"}] }
=============================================================================
