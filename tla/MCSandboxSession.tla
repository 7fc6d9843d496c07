-------------------------- MODULE MCSandboxSession --------------------------
(* Instances of SandboxSession for TLC. *)
EXTENDS SandboxSession

CONSTANTS c1, c2, r1, p1, i1, i2

MCChats == {c1, c2}
MCResumes == {r1}
MCPauses == {p1}
MCEvents == 4
MCInstances == {i1, i2}
(* The first costs what the balance must show, the second more. *)
MCCost == [c \in Chats |-> IF c = c1 THEN 2 ELSE 3]

(* Two messages overlap; one message meets a resume and a pause on an      *)
(* unreliable network, or the project's deletion; the instances start      *)
(* together; the processes die.                                            *)
MCScenarios == {
    [requests |-> {c1, c2, r1}, faults |-> {"python", "ended"}],
    [requests |-> {c1, r1, p1}, faults |-> {"timeout", "lost"}],
    [requests |-> {c1, r1, p1}, faults |-> {"insert", "split", "lookup"}],
    [requests |-> {c1, r1, "delete"}, faults |-> {"insert"}],
    [requests |-> {c1, r1, p1}, faults |-> {"start", "register"}],
    [requests |-> {c1, r1}, faults |-> {"crash"}] }
=============================================================================
