----------------------------- MODULE MCAccounts -----------------------------
(* Instances of Accounts for TLC. *)
EXTENDS Accounts

CONSTANTS l1, l2, r1, r2, r3, d1, d2, d3, c1, c2, n1, e1, e2, x1, t1, t2

MCLogins == {l1, l2}
MCRefreshes == {r1, r2, r3}
MCRedeems == {d1, d2, d3}
MCCoupons == {c1, c2}
MCCode == [d \in MCRedeems |-> IF d = d3 THEN c2 ELSE c1]
MCPlanned == {c2}
MCCreations == {n1}
MCEdits == {e1, e2}
MCRemovals == {x1}
MCAbout == [e \in MCCreations \cup MCEdits \cup MCRemovals |-> IF e = n1 THEN c2 ELSE c1]
MCTransactions == {t1, t2}
MCAward == [t \in MCTransactions |-> IF t = t1 THEN 2 ELSE 3]

(* A wallet signs in for the first time and is seen again; a user without  *)
(* a Credits row, and one with it, is given credits from all sides.        *)
MCScenarios ==
    {[account |-> "none", requests |-> {l1, l2, r1, r2, r3}],
     [account |-> "bare", requests |-> {d1, d2, d3, n1, e1, <<t1, 1>>, <<t1, 2>>}],
     [account |-> "full", requests |-> {d1, d2, e1, e2, x1, <<t1, 1>>, <<t1, 2>>, <<t2, 1>>}]}
=============================================================================
