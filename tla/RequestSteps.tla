---------------------------- MODULE RequestSteps -----------------------------
(***************************************************************************)
(* What the models of a project's assets, repositories and listing share:  *)
(* requests that go from step to step, between which others take theirs,   *)
(* and faults that may meet them.                                          *)
(***************************************************************************)

VARIABLES
    faults,  \* the faults of this behaviour, which never change
    req      \* where each request is

May(fault) == fault \in faults

Goto(r, from, to) == req[r] = from /\ req' = [req EXCEPT ![r] = to]
=============================================================================
