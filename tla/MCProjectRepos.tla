---------------------------- MODULE MCProjectRepos ----------------------------
(* Instances of ProjectRepos for TLC. *)
EXTENDS ProjectRepos

CONSTANTS p1, p2, d1, c1, own1, app1, app2, delete, link

MCPushes == {p1, p2}
MCDeploys == 1 .. 3
MCRepoName == [p \in MCPushes |-> own1]
(* The second deployment is of the same app as the first. *)
MCBotName == [k \in MCDeploys |-> IF k = 3 THEN app2 ELSE app1]

(* Deployments that replace each other, with a removal; pushes beside a    *)
(* deployment; the deletion of the project; clones.                        *)
MCScenarios == {
    [requests |-> {1, 2, d1}, faults |-> {"github", "db", "koyeb"}],
    [requests |-> {2, 3, p1}, faults |-> {"python", "github", "db", "koyeb"}],
    [requests |-> {1, p1, p2, d1}, faults |-> {"db"}],
    [requests |-> {1, 2, p1, delete}, faults |-> {"db"}],
    [requests |-> {link, p1, p2, c1}, faults |-> {"github", "db"}] }
=============================================================================
