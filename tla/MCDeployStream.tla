--------------------------- MODULE MCDeployStream ---------------------------
(* Instances of DeployStream for TLC. *)
EXTENDS DeployStream

CONSTANTS d1, p1, v1

MCOne == {d1}
MCProject == [d \in Deployments |-> p1]
MCViewers == {v1}
MCLogsOf == [v \in MCViewers |-> d1]

(* The request is made as a stream, or its logs are looked at.             *)
MCViews == {{d1}, {v1}}
=============================================================================
