---------------------------- MODULE MCDeployment ----------------------------
(* Instances of Deployment for TLC. *)
EXTENDS Deployment, TLC

CONSTANTS d1, d2, p1, p2

MCOne == {d1}
MCTwo == {d1, d2}

(* A deployment and its redeployment. *)
MCSameProject == [d \in Deployments |-> p1]
MCTwoProjects == [d \in Deployments |-> IF d = d1 THEN p1 ELSE p2]

MCSymmetry == Permutations({d1, d2})
=============================================================================
