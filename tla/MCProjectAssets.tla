--------------------------- MODULE MCProjectAssets ---------------------------
(* Instances of ProjectAssets for TLC. *)
EXTENDS ProjectAssets

CONSTANTS u1, u2, u3, d1, d2, r1, s1, w1, s2, x1, i1, i2

MCUploads == {u1, u2, u3}
MCBatch == {u2, u3}
MCTarget == [r \in {d1, d2} |-> IF r = d1 THEN u1 ELSE u2]
(* i1 is completed by the request and by the webhook, i2 by the request.   *)
MCImageOf == [c \in {s1, w1, s2} |-> IF c = s2 THEN i2 ELSE i1]

(* A batch, an upload, removals and a resume; the same on failing services *)
(* while the project is deleted; generations that end during a purge.      *)
MCScenarios == {
    [requests |-> {u1, u2, u3, d1, d2, r1}, faults |-> {}],
    [requests |-> {u1, u2, u3, d1, d2}, faults |-> {"python", "s3", "db", "delete"}],
    [requests |-> {u1, d1, r1}, faults |-> {"python", "s3", "db", "delete"}],
    [requests |-> {s1, w1, s2, x1}, faults |-> {"s3", "db"}] }
=============================================================================
