------------------------- MODULE CreditLedgerProofs -------------------------
(***************************************************************************)
(* Safety of CreditLedger for every set of requests, costs, grants and     *)
(* bounds.  The inductive invariant adds to the properties what an open    *)
(* transaction knows: its snapshot was within the limit, no total has been *)
(* lowered since, and, while it is not stale, the usage it saw is still    *)
(* the usage of its row.  Nothing of this but the last is known of the     *)
(* free row once an image generation has written it.                       *)
(***************************************************************************)
EXTENDS CreditLedger, FiniteSetTheorems, TLAPS

(* The rows whose limit CreditService keeps. *)
Limited(row) == row = "credits" => row \notin foreign

(* What is true of the snapshot of an open transaction. *)
SnapshotOK(r) ==
    LET s == seen[r] IN
    /\ Limited(s.row) => 0 <= s.usage /\ s.usage <= s.total /\ s.total <= total[s.row]
    /\ s.usage <= charged[s.row]
    /\ s.row \notin SubRows => s.status # "DONE"
    /\ ~stale[r] => s.usage = usage[s.row]

SnapshotsOK == \A r \in Requests : Open(r) => SnapshotOK(r)

BalancesOK ==
    \A row \in Row : Limited(row) => 0 <= usage[row] /\ usage[row] <= total[row]

(* Which requests can be in which phase. *)
KindsOK ==
    \A r \in Requests :
        /\ phase[r] \in {"deducting", "charged", "refunding"} => r \in Deploys \cup Charges
        /\ phase[r] = "activating" => r \in Activations /\ seen[r].row = "topUp"
        /\ (r \in Images /\ phase[r] \in {"generated", "refunded"}) => "credits" \in foreign

IInv ==
    /\ TypeOK
    /\ KindsOK
    /\ BalancesOK
    /\ SnapshotsOK
    /\ NeverOvercharged
    /\ ExactWithoutRace
    /\ ExhaustionLeavesNoTrace

-----------------------------------------------------------------------------
(* The rows a plan may charge are rows, and none is read that is not one.  *)
LEMMA PlanRowsAreRows ==
    ASSUME TypeOK, NEW p PROVE PlanRows(p) \subseteq Row
BY DEF PlanRows, TypeOK

(* What a charge or a generation costs is a positive number. *)
LEMMA CostIsPositive ==
    ASSUME NEW r \in Requests, r \notin Activations
    PROVE  Cost[r] \in Nat /\ Cost[r] > 0
BY LedgerAssumption DEF LedgerAssumption

(* A refund never takes a usage below zero, and raises only one that an    *)
(* image generation had left negative.                                     *)
LEMMA RefundBounds ==
    ASSUME NEW s \in Snapshots, NEW c \in Nat
    PROVE  /\ UsageAfterRefund(s, c) \in Nat
           /\ s.usage >= 0 => UsageAfterRefund(s, c) <= s.usage
           /\ s.usage < 0 => UsageAfterRefund(s, c) = 0
BY DEF UsageAfterRefund, Snapshots

LEMMA InitInvariant == Init => IInv
<1> SUFFICES ASSUME Init PROVE IInv
    OBVIOUS
<1>1. /\ total \in [Row -> Nat]
      /\ rows \in SUBSET Row
    <2>1. PICK n \in Grants : total = [row \in Row |-> IF row \in rows THEN n ELSE 0]
        BY DEF Init
    <2>2. n \in Nat
        BY LedgerAssumption DEF LedgerAssumption
    <2>3. QED BY <2>1, <2>2 DEF Init, Row
<1>2. Nothing \in Snapshots
    BY DEF Nothing, Snapshots, Row
<1>3. TypeOK
    BY <1>1, <1>2 DEF Init, TypeOK, Plans, Phases, Row
<1>4. SnapshotsOK /\ KindsOK
    BY DEF Init, SnapshotsOK, Open, KindsOK
<1>5. BalancesOK /\ NeverOvercharged /\ ExactWithoutRace /\ ExhaustionLeavesNoTrace
    BY <1>1 DEF Init, BalancesOK, NeverOvercharged, ExactWithoutRace,
                ExhaustionLeavesNoTrace
<1>6. QED BY <1>3, <1>4, <1>5 DEF IInv

(* A read changes no balance; the snapshot it takes is fresh. *)
LEMMA ReadStep ==
    ASSUME IInv, NEW r \in Requests, NEW candidates \in SUBSET Row,
           NEW from, NEW open \in Phases, NEW none \in Phases,
           none \notin {"deducting", "charged", "refunding", "activating", "generated",
                        "refunded"},
           open \notin {"generated", "refunded"},
           open \in {"deducting", "charged", "refunding"} => r \in Deploys \cup Charges,
           open = "activating" => r \in Activations /\ candidates \subseteq {"topUp"},
           Read(r, candidates, from, open, none)
    PROVE  IInv'
<1> USE DEF IInv
<1>1. CASE \E row \in candidates :
             /\ seen' = [seen EXCEPT ![r] = Snapshot(row)]
             /\ stale' = [stale EXCEPT ![r] = FALSE]
             /\ phase' = [phase EXCEPT ![r] = open]
    <2> PICK row \in candidates :
             /\ seen' = [seen EXCEPT ![r] = Snapshot(row)]
             /\ stale' = [stale EXCEPT ![r] = FALSE]
             /\ phase' = [phase EXCEPT ![r] = open]
        BY <1>1
    <2>0. row \in Row
        OBVIOUS
    <2>1. Snapshot(row) \in Snapshots
        BY <2>0 DEF Snapshot, Snapshots, TypeOK
    <2>2. TypeOK'
        BY <2>1 DEF TypeOK, Read, db
    <2>3. SnapshotsOK'
        <3> SUFFICES ASSUME NEW q \in Requests, Open(q)' PROVE SnapshotOK(q)'
            BY DEF SnapshotsOK
        <3>1. CASE q = r
            <4>1. /\ seen'[q] = Snapshot(row)
                  /\ UNCHANGED <<total, usage, charged, status, foreign>>
                BY <3>1 DEF Read, db, TypeOK
            <4>2. /\ seen'[q].row = row
                  /\ seen'[q].usage = usage[row]
                  /\ seen'[q].total = total[row]
                  /\ seen'[q].status = status[row]
                BY <4>1 DEF Snapshot
            <4>3. total[row] \in Int /\ usage[row] \in Int
                BY <2>0 DEF TypeOK
            <4>4. QED
                BY <2>0, <4>1, <4>2, <4>3 DEF SnapshotOK, Limited, BalancesOK,
                       NeverOvercharged, ExhaustionLeavesNoTrace
        <3>2. CASE q # r
            BY <3>2 DEF SnapshotsOK, SnapshotOK, Open, Limited, TypeOK, Read, db
        <3>3. QED BY <3>1, <3>2
    <2>4. KindsOK'
        BY DEF KindsOK, TypeOK, Read, Snapshot
    <2>5. QED
        BY <2>2, <2>3, <2>4 DEF Read, db, BalancesOK, Limited, NeverOvercharged,
               ExactWithoutRace, ExhaustionLeavesNoTrace
<1>2. CASE /\ phase' = [phase EXCEPT ![r] = none]
           /\ UNCHANGED <<seen, stale>>
    BY <1>2 DEF Read, db, TypeOK, KindsOK, SnapshotsOK, SnapshotOK, Open, Limited,
               BalancesOK, NeverOvercharged, ExactWithoutRace, ExhaustionLeavesNoTrace
<1>3. QED BY <1>1, <1>2 DEF Read

(* An absolute write by an open transaction: it charges a and credits b on *)
(* top of what was read, and stays within the limit that was read.  Every  *)
(* other open snapshot of the row becomes stale.                           *)
LEMMA WriteStep ==
    ASSUME IInv, NEW r \in Requests, Open(r),
           NEW u \in Int, NEW a \in Nat, NEW b \in Int,
           NEW p \in {"charged", "refunded", "activated"},
           NEW row \in Row, row = seen[r].row,
           r \notin Images,
           p = "charged" => r \in Deploys \cup Charges,
           u = seen[r].usage + a - b,
           u <= charged[row] + a,
           Limited(row) => 0 <= u /\ u <= seen[r].total,
           WriteUsage(r, u),
           phase' = [phase EXCEPT ![r] = p],
           charged' = [charged EXCEPT ![row] = @ + a],
           credited' = [credited EXCEPT ![row] = @ + b],
           status' \in [Row -> {"ACTIVE", "PAUSED", "DONE"}],
           \A w \in Row \ SubRows : status'[w] # "DONE",
           foreign' \in SUBSET Row, foreign \subseteq foreign',
           chargedRow' \in [Requests -> Row], refundRow' \in [Requests -> Row],
           UNCHANGED <<plan, rows, total>>
    PROVE  IInv'
<1> USE DEF IInv
<1>1. /\ usage' = [usage EXCEPT ![row] = u]
      /\ seen' = [seen EXCEPT ![r] = Nothing]
      /\ raced' = [raced EXCEPT ![row] = @ \/ stale[r]]
      /\ stale' = [q \in Requests |->
                    stale[q] \/ (q # r /\ Open(q) /\ seen[q].row = row)]
    BY DEF WriteUsage, Outdate
<1>2. /\ SnapshotOK(r)
      /\ seen[r] \in Snapshots
      /\ seen[r].usage \in Int /\ seen[r].total \in Int
    BY DEF SnapshotsOK, TypeOK, Snapshots
<1>3. \A w \in Row : Limited(w)' => Limited(w)
    BY DEF Limited
<1>4. TypeOK'
    <2>1. Nothing \in Snapshots
        BY DEF Nothing, Snapshots, Row
    <2>2. row # "credits" => u \in Nat
        BY DEF Limited
    <2>3. charged' \in [Row -> Nat] /\ credited' \in [Row -> Int]
        BY DEF TypeOK
    <2>4. p \in Phases
        BY DEF Phases
    <2>5. QED
        BY <1>1, <2>1, <2>2, <2>3, <2>4 DEF TypeOK
<1>5. KindsOK'
    BY <1>1 DEF KindsOK, TypeOK
<1>6. BalancesOK'
    BY <1>1, <1>2, <1>3 DEF BalancesOK, SnapshotOK, TypeOK
<1>7. SnapshotsOK'
    <2> SUFFICES ASSUME NEW q \in Requests, Open(q)' PROVE SnapshotOK(q)'
        BY DEF SnapshotsOK
    <2>1. q # r
        BY DEF Open, TypeOK
    <2>2. Open(q) /\ seen'[q] = seen[q] /\ SnapshotOK(q)
        BY <2>1, <1>1 DEF Open, TypeOK, SnapshotsOK
    <2>3. seen[q] \in Snapshots /\ seen[q].row \in Row /\ seen[q].usage \in Int
        BY DEF TypeOK, Snapshots
    <2>4. charged[seen[q].row] <= charged'[seen[q].row]
        BY <2>3 DEF TypeOK
    <2>5. seen[q].usage <= charged'[seen[q].row]
        BY <2>2, <2>3, <2>4, <1>4 DEF SnapshotOK, TypeOK
    <2>6. ~stale'[q] => seen[q].usage = usage'[seen[q].row]
        BY <2>1, <2>2, <2>3, <1>1 DEF SnapshotOK, TypeOK
    <2>7. seen[q].row \notin SubRows => seen[q].status # "DONE"
        BY <2>2 DEF SnapshotOK
    <2>8. QED
        BY <1>3, <2>2, <2>3, <2>5, <2>6, <2>7 DEF SnapshotOK
<1>8. NeverOvercharged'
    BY <1>1 DEF NeverOvercharged, TypeOK
<1>9. ExactWithoutRace'
    <2> SUFFICES ASSUME NEW w \in Row, ~raced'[w]
                 PROVE  usage'[w] = charged'[w] - credited'[w]
        BY DEF ExactWithoutRace
    <2>1. CASE w = row
        <3>1. ~raced[row] /\ ~stale[r]
            BY <1>1, <2>1 DEF TypeOK
        <3>2. seen[r].usage = usage[row] /\ usage[row] = charged[row] - credited[row]
            BY <3>1, <1>2 DEF SnapshotOK, ExactWithoutRace
        <3>3. QED BY <1>1, <1>2, <2>1, <3>2 DEF TypeOK
    <2>2. CASE w # row
        BY <1>1, <2>2 DEF ExactWithoutRace, TypeOK
    <2>3. QED BY <2>1, <2>2
<1>10. ExhaustionLeavesNoTrace'
    BY DEF ExhaustionLeavesNoTrace
<1>11. QED BY <1>4, <1>5, <1>6, <1>7, <1>8, <1>9, <1>10

LEMMA CommitDeductStep ==
    ASSUME IInv, NEW r \in Requests, CommitDeduct(r)
    PROVE  IInv'
<1> USE DEF IInv
<1>1. /\ r \in Deploys \cup Charges
      /\ Open(r)
      /\ SnapshotOK(r)
    BY DEF CommitDeduct, KindsOK, Open, SnapshotsOK
<1>2. r \notin Images /\ r \notin Activations
    BY <1>1, LedgerAssumption DEF LedgerAssumption
<1>3. /\ Cost[r] \in Nat
      /\ seen[r] \in Snapshots
      /\ seen[r].row \in Row
      /\ seen[r].usage \in Int
      /\ seen[r].total \in Int
    BY <1>2, CostIsPositive DEF TypeOK, Snapshots
<1> DEFINE u == seen[r].usage + Cost[r]
           b == 0
<1>4. u \in Int /\ b \in Int /\ u = seen[r].usage + Cost[r] - b
    BY <1>3
<1>5. /\ u <= charged[seen[r].row] + Cost[r]
      /\ Limited(seen[r].row) => 0 <= u /\ u <= seen[r].total
    BY <1>1, <1>3 DEF SnapshotOK, CommitDeduct, Fits, TypeOK
<1>6. /\ WriteUsage(r, u)
      /\ phase' = [phase EXCEPT ![r] = "charged"]
      /\ charged' = [charged EXCEPT ![seen[r].row] = @ + Cost[r]]
      /\ UNCHANGED <<plan, rows, total, status, refundRow, credited, foreign>>
      /\ chargedRow' = [chargedRow EXCEPT ![r] = seen[r].row]
    BY DEF CommitDeduct, UsageAfterCharge
<1>7. /\ credited' = [credited EXCEPT ![seen[r].row] = @ + b]
      /\ chargedRow' \in [Requests -> Row]
      /\ refundRow' \in [Requests -> Row]
      /\ foreign' \in SUBSET Row
      /\ status' \in [Row -> {"ACTIVE", "PAUSED", "DONE"}]
    BY <1>3, <1>6 DEF TypeOK
<1>8. \A w \in Row \ SubRows : status'[w] # "DONE"
    BY <1>6 DEF ExhaustionLeavesNoTrace
<1> HIDE DEF u, b
<1>9. QED
    BY <1>1, <1>2, <1>3, <1>4, <1>5, <1>6, <1>7, <1>8, WriteStep

LEMMA CommitRefundStep ==
    ASSUME IInv, NEW r \in Requests, CommitRefund(r)
    PROVE  IInv'
<1> USE DEF IInv
<1>1. /\ r \in Deploys \cup Charges
      /\ Open(r)
      /\ SnapshotOK(r)
    BY DEF CommitRefund, KindsOK, Open, SnapshotsOK
<1>2. r \notin Images /\ r \notin Activations
    BY <1>1, LedgerAssumption DEF LedgerAssumption
<1>3. /\ Cost[r] \in Nat
      /\ seen[r] \in Snapshots
      /\ seen[r].row \in Row
      /\ seen[r].usage \in Int
      /\ seen[r].total \in Int
    BY <1>2, CostIsPositive DEF TypeOK, Snapshots
<1> DEFINE u == UsageAfterRefund(seen[r], Cost[r])
           b == seen[r].usage - u
<1>4. /\ u \in Nat
      /\ seen[r].usage >= 0 => u <= seen[r].usage
      /\ seen[r].usage < 0 => u = 0
    BY <1>3, RefundBounds
<1>5. /\ WriteUsage(r, u)
      /\ phase' = [phase EXCEPT ![r] = "refunded"]
      /\ credited' = [credited EXCEPT ![seen[r].row] = @ + b]
      /\ UNCHANGED <<plan, rows, total, chargedRow, charged, foreign>>
      /\ refundRow' = [refundRow EXCEPT ![r] = seen[r].row]
      /\ status' = [status EXCEPT ![seen[r].row] = StatusAfterRefund(seen[r], Cost[r])]
    BY DEF CommitRefund
<1>6. status' = status
    <2>1. StatusAfterRefund(seen[r], Cost[r]) = status[seen[r].row]
        BY <1>1 DEF StatusAfterRefund, SnapshotOK
    <2>2. QED BY <2>1, <1>3, <1>5 DEF TypeOK
<1> HIDE DEF u
<1>7. b \in Int /\ u \in Int /\ u = seen[r].usage + 0 - b
    BY <1>3, <1>4
<1>8. /\ u <= charged[seen[r].row] + 0
      /\ Limited(seen[r].row) => 0 <= u /\ u <= seen[r].total
    BY <1>1, <1>3, <1>4 DEF SnapshotOK, TypeOK
<1>9. /\ charged' = [charged EXCEPT ![seen[r].row] = @ + 0]
      /\ chargedRow' \in [Requests -> Row]
      /\ refundRow' \in [Requests -> Row]
      /\ foreign' \in SUBSET Row
      /\ status' \in [Row -> {"ACTIVE", "PAUSED", "DONE"}]
    BY <1>3, <1>5, <1>6 DEF TypeOK
<1>10. \A w \in Row \ SubRows : status'[w] # "DONE"
    BY <1>6 DEF ExhaustionLeavesNoTrace
<1> HIDE DEF b
<1>11. QED
    BY <1>1, <1>2, <1>3, <1>5, <1>7, <1>8, <1>9, <1>10, WriteStep

(* An activation writes the total it read: the limit itself. *)
LEMMA CommitActivationStep ==
    ASSUME IInv, NEW r \in Requests, CommitActivation(r)
    PROVE  IInv'
<1> USE DEF IInv
<1>1. /\ r \in Activations
      /\ seen[r].row = "topUp"
      /\ Open(r)
      /\ SnapshotOK(r)
    BY DEF CommitActivation, KindsOK, Open, SnapshotsOK
<1>2. r \notin Images /\ r \notin Deploys \cup Charges
    BY <1>1, LedgerAssumption DEF LedgerAssumption
<1>3. /\ seen[r] \in Snapshots
      /\ seen[r].row \in Row
      /\ seen[r].usage \in Int
      /\ seen[r].total \in Int
    BY DEF TypeOK, Snapshots
<1>4. CASE seen[r].total > seen[r].usage
    <2> DEFINE u == seen[r].total
               a == seen[r].total - seen[r].usage
               b == 0
    <2>1. a \in Nat /\ u \in Int /\ b \in Int /\ u = seen[r].usage + a - b
        BY <1>3, <1>4
    <2>2. /\ u <= charged[seen[r].row] + a
          /\ Limited(seen[r].row) => 0 <= u /\ u <= seen[r].total
        BY <1>1, <1>3, <1>4 DEF SnapshotOK, TypeOK
    <2>3. /\ WriteUsage(r, u)
          /\ phase' = [phase EXCEPT ![r] = "activated"]
          /\ charged' = [charged EXCEPT ![seen[r].row] = @ + a]
          /\ status' = [status EXCEPT !["topUp"] = "PAUSED"]
          /\ foreign' = foreign \cup {"topUp"}
          /\ UNCHANGED <<plan, rows, total, chargedRow, refundRow, credited>>
        BY <1>1, <1>4 DEF CommitActivation
    <2>4. /\ credited' = [credited EXCEPT ![seen[r].row] = @ + b]
          /\ chargedRow' \in [Requests -> Row]
          /\ refundRow' \in [Requests -> Row]
          /\ foreign' \in SUBSET Row
          /\ foreign \subseteq foreign'
          /\ status' \in [Row -> {"ACTIVE", "PAUSED", "DONE"}]
        BY <1>1, <1>3, <2>3 DEF TypeOK
    <2>5. \A w \in Row \ SubRows : status'[w] # "DONE"
        BY <2>3 DEF ExhaustionLeavesNoTrace, TypeOK
    <2> HIDE DEF u, a, b
    <2>6. QED
        BY <1>1, <1>2, <1>3, <2>1, <2>2, <2>3, <2>4, <2>5, WriteStep
<1>5. CASE ~(seen[r].total > seen[r].usage)
    <2>1. /\ phase' = [phase EXCEPT ![r] = "activated"]
          /\ seen' = [seen EXCEPT ![r] = Nothing]
          /\ UNCHANGED <<usage, status, charged, foreign, stale, raced, plan, rows,
                         total, chargedRow, refundRow, credited>>
        BY <1>5 DEF CommitActivation
    <2>2. TypeOK'
        BY <2>1 DEF TypeOK, Nothing, Snapshots, Row, Phases
    <2>3. SnapshotsOK' /\ KindsOK'
        BY <1>1, <1>2, <2>1 DEF SnapshotsOK, SnapshotOK, Open, Limited, KindsOK, TypeOK
    <2>4. QED
        BY <2>1, <2>2, <2>3 DEF BalancesOK, Limited, NeverOvercharged,
               ExactWithoutRace, ExhaustionLeavesNoTrace
<1>6. QED BY <1>4, <1>5

(* The atomic increments of image generation: the books of the free row    *)
(* still balance, its limit is gone.                                       *)
LEMMA ImageStep ==
    ASSUME IInv, NEW r \in Images, NEW p \in {"generated", "refunded"},
           NEW a \in Nat, NEW b \in Nat,
           usage' = [usage EXCEPT !["credits"] = @ + a - b],
           total' = [total EXCEPT !["credits"] = @ - a + b],
           charged' = [charged EXCEPT !["credits"] = @ + a],
           credited' = [credited EXCEPT !["credits"] = @ + b],
           phase' = [phase EXCEPT ![r] = p],
           foreign' = foreign \cup {"credits"},
           Outdate(r, "credits"),
           UNCHANGED <<plan, rows, status, seen, chargedRow, refundRow, raced>>
    PROVE  IInv'
<1> USE DEF IInv
<1>0. "credits" \in Row /\ r \in Requests
    BY DEF Row, Requests
<1>1. stale' = [q \in Requests |->
                 stale[q] \/ (q # r /\ Open(q) /\ seen[q].row = "credits")]
    BY DEF Outdate
<1>2. TypeOK'
    <2>1. /\ usage' \in [Row -> Int] /\ total' \in [Row -> Int]
          /\ \A row \in Row \ {"credits"} :
                usage'[row] = usage[row] /\ total'[row] = total[row]
          /\ charged' \in [Row -> Nat] /\ credited' \in [Row -> Int]
        BY <1>0 DEF TypeOK
    <2>2. stale' \in [Requests -> BOOLEAN]
        BY <1>1 DEF TypeOK
    <2>3. QED BY <1>0, <2>1, <2>2 DEF TypeOK, Phases
<1>3. KindsOK'
    BY <1>0 DEF KindsOK, TypeOK
<1>4. BalancesOK'
    BY <1>0 DEF BalancesOK, Limited, TypeOK
<1>5. SnapshotsOK'
    <2> SUFFICES ASSUME NEW q \in Requests, Open(q)' PROVE SnapshotOK(q)'
        BY DEF SnapshotsOK
    <2>1. q # r /\ Open(q) /\ SnapshotOK(q)
        BY <1>0 DEF Open, TypeOK, SnapshotsOK
    <2>2. seen[q] \in Snapshots /\ seen[q].row \in Row /\ seen[q].usage \in Int
        BY DEF TypeOK, Snapshots
    <2>3. CASE seen[q].row = "credits"
        <3>1. stale'[q]
            BY <1>1, <2>1, <2>3
        <3>2. charged'["credits"] = charged["credits"] + a /\ charged["credits"] \in Nat
            BY <1>0 DEF TypeOK
        <3>3. QED BY <2>1, <2>2, <2>3, <3>1, <3>2 DEF SnapshotOK, Limited
    <2>4. CASE seen[q].row # "credits"
        BY <1>1, <2>1, <2>2, <2>4 DEF SnapshotOK, Limited, TypeOK
    <2>5. QED BY <2>3, <2>4
<1>6. NeverOvercharged'
    BY <1>0 DEF NeverOvercharged, TypeOK
<1>7. ExactWithoutRace'
    BY <1>0 DEF ExactWithoutRace, TypeOK
<1>8. ExhaustionLeavesNoTrace'
    BY DEF ExhaustionLeavesNoTrace
<1>9. QED BY <1>2, <1>3, <1>4, <1>5, <1>6, <1>7, <1>8

(* A grant only raises a total; a status may change with it or alone, but  *)
(* no free or top-up row is marked DONE.                                   *)
LEMMA GrantStep ==
    ASSUME IInv, NEW n \in Nat, NEW row \in Row,
           rows' \in SUBSET Row,
           total' = [total EXCEPT ![row] = @ + n],
           status' \in [Row -> {"ACTIVE", "PAUSED", "DONE"}],
           \A w \in Row \ SubRows : status'[w] # "DONE",
           UNCHANGED <<plan, usage, phase, seen, history>>
    PROVE  IInv'
<1> USE DEF IInv
<1>1. UNCHANGED <<chargedRow, refundRow, charged, credited, stale, raced, foreign>>
    BY DEF history
<1>2. TypeOK'
    <2>1. /\ total' \in [Row -> Int]
          /\ \A w \in Row \ {"credits"} : total'[w] \in Nat
        BY DEF TypeOK
    <2>2. QED BY <1>1, <2>1 DEF TypeOK
<1>3. \A w \in Row : total'[w] \in Int /\ total[w] <= total'[w]
    BY DEF TypeOK
<1>4. BalancesOK'
    BY <1>1, <1>3 DEF BalancesOK, Limited, TypeOK
<1>5. SnapshotsOK'
    BY <1>1, <1>3 DEF SnapshotsOK, SnapshotOK, Open, Limited, TypeOK, Snapshots
<1>6. NeverOvercharged' /\ ExactWithoutRace' /\ KindsOK'
    BY <1>1 DEF NeverOvercharged, ExactWithoutRace, KindsOK
<1>7. ExhaustionLeavesNoTrace'
    BY DEF ExhaustionLeavesNoTrace
<1>8. QED BY <1>2, <1>4, <1>5, <1>6, <1>7

LEMMA NextInvariant == IInv /\ [Next]_vars => IInv'
<1> SUFFICES ASSUME IInv, [Next]_vars PROVE IInv'
    OBVIOUS
<1> USE DEF IInv
<1>1. ASSUME NEW r \in Requests, BeginDeduct(r) PROVE IInv'
    <2>1. PlanRows(plan) \subseteq Row BY PlanRowsAreRows
    <2>2. QED BY <1>1, <2>1, ReadStep DEF BeginDeduct, Phases
<1>2. ASSUME NEW r \in Requests, CommitDeduct(r) PROVE IInv'
    BY <1>2, CommitDeductStep
<1>3. ASSUME NEW r \in Requests, RejectDeduct(r) PROVE IInv'
    <2>1. TypeOK'
        BY <1>3 DEF RejectDeduct, TypeOK, Nothing, Snapshots, Row, Phases, db, history
    <2>2. KindsOK'
        BY <1>3 DEF RejectDeduct, KindsOK, TypeOK, db, history
    <2>3. QED
        BY <1>3, <2>1, <2>2 DEF RejectDeduct, SnapshotsOK, SnapshotOK, Open, Limited,
               TypeOK, BalancesOK, NeverOvercharged, ExactWithoutRace,
               ExhaustionLeavesNoTrace, db, history
<1>4. ASSUME NEW r \in Requests, BeginRefund(r) PROVE IInv'
    <2>1. PlanRows(plan) \subseteq Row BY PlanRowsAreRows
    <2>2. QED BY <1>4, <2>1, ReadStep DEF BeginRefund, Phases
<1>5. ASSUME NEW r \in Requests, CommitRefund(r) PROVE IInv'
    BY <1>5, CommitRefundStep
<1>6. ASSUME NEW r \in Requests, CheckImage(r) PROVE IInv'
    BY <1>6 DEF CheckImage, TypeOK, Phases, KindsOK, SnapshotsOK, SnapshotOK, Open,
           Limited, BalancesOK, NeverOvercharged, ExactWithoutRace,
           ExhaustionLeavesNoTrace, db, history
<1>7. ASSUME NEW r \in Requests, DebitImage(r) PROVE IInv'
    <2>1. r \in Images /\ Cost[r] \in Nat
        BY <1>7, CostIsPositive, LedgerAssumption DEF DebitImage, LedgerAssumption
    <2>2. "credits" \in Row
        BY DEF Row
    <2>3. /\ usage' = [usage EXCEPT !["credits"] = @ + Cost[r] - 0]
          /\ total' = [total EXCEPT !["credits"] = @ - Cost[r] + 0]
          /\ charged' = [charged EXCEPT !["credits"] = @ + Cost[r]]
          /\ credited' = [credited EXCEPT !["credits"] = @ + 0]
        <3>1. /\ usage \in [Row -> Int] /\ total \in [Row -> Int]
              /\ charged \in [Row -> Nat] /\ credited \in [Row -> Int]
            BY DEF TypeOK
        <3>2. usage' = [usage EXCEPT !["credits"] = @ + Cost[r] - 0]
            <4>1. usage["credits"] + Cost[r] - 0 = usage["credits"] + Cost[r]
                BY <2>1, <2>2, <3>1
            <4>2. QED BY <1>7, <4>1 DEF DebitImage
        <3>3. total' = [total EXCEPT !["credits"] = @ - Cost[r] + 0]
            <4>1. total["credits"] - Cost[r] + 0 = total["credits"] - Cost[r]
                BY <2>1, <2>2, <3>1
            <4>2. QED BY <1>7, <4>1 DEF DebitImage
        <3>4. charged' = [charged EXCEPT !["credits"] = @ + Cost[r]]
            BY <1>7, <2>1, <2>2, <3>1 DEF DebitImage
        <3>5. credited' = [credited EXCEPT !["credits"] = @ + 0]
            BY <1>7, <2>1, <2>2, <3>1 DEF DebitImage
        <3>6. QED BY <3>2, <3>3, <3>4, <3>5
    <2>4. QED BY <1>7, <2>1, <2>3, ImageStep DEF DebitImage
<1>8. ASSUME NEW r \in Requests, RefundImage(r) PROVE IInv'
    <2>1. r \in Images /\ Cost[r] \in Nat
        BY <1>8, CostIsPositive, LedgerAssumption DEF RefundImage, LedgerAssumption
    <2>2. "credits" \in Row
        BY DEF Row
    <2>3. /\ usage' = [usage EXCEPT !["credits"] = @ + 0 - Cost[r]]
          /\ total' = [total EXCEPT !["credits"] = @ - 0 + Cost[r]]
          /\ charged' = [charged EXCEPT !["credits"] = @ + 0]
          /\ credited' = [credited EXCEPT !["credits"] = @ + Cost[r]]
        <3>1. /\ usage \in [Row -> Int] /\ total \in [Row -> Int]
              /\ charged \in [Row -> Nat] /\ credited \in [Row -> Int]
            BY DEF TypeOK
        <3>2. usage' = [usage EXCEPT !["credits"] = @ + 0 - Cost[r]]
            <4>1. usage["credits"] + 0 - Cost[r] = usage["credits"] - Cost[r]
                BY <2>1, <2>2, <3>1
            <4>2. QED BY <1>8, <4>1 DEF RefundImage
        <3>3. total' = [total EXCEPT !["credits"] = @ - 0 + Cost[r]]
            <4>1. total["credits"] - 0 + Cost[r] = total["credits"] + Cost[r]
                BY <2>1, <2>2, <3>1
            <4>2. QED BY <1>8, <4>1 DEF RefundImage
        <3>4. charged' = [charged EXCEPT !["credits"] = @ + 0]
            BY <1>8, <2>1, <2>2, <3>1 DEF RefundImage
        <3>5. credited' = [credited EXCEPT !["credits"] = @ + Cost[r]]
            BY <1>8, <2>1, <2>2, <3>1 DEF RefundImage
        <3>6. QED BY <3>2, <3>3, <3>4, <3>5
    <2>4. foreign' = foreign \cup {"credits"}
        BY <1>8 DEF RefundImage, KindsOK
    <2>5. QED BY <1>8, <2>1, <2>3, <2>4, ImageStep DEF RefundImage
<1>9. ASSUME NEW r \in Requests, BeginActivation(r) PROVE IInv'
    BY <1>9, ReadStep DEF BeginActivation, Phases, TypeOK
<1>10. ASSUME NEW r \in Requests, CommitActivation(r) PROVE IInv'
    BY <1>10, CommitActivationStep
<1>11. ASSUME NEW n \in Grants, GrantFree(n) PROVE IInv'
    <2>1. /\ status' \in [Row -> {"ACTIVE", "PAUSED", "DONE"}]
          /\ \A w \in Row \ SubRows : status'[w] # "DONE"
        BY <1>11 DEF GrantFree, TypeOK, ExhaustionLeavesNoTrace
    <2>2. n \in Nat
        BY LedgerAssumption DEF LedgerAssumption
    <2>3. rows' \in SUBSET Row /\ "credits" \in Row
        BY <1>11 DEF GrantFree, TypeOK, Row
    <2>4. QED BY <1>11, <2>1, <2>2, <2>3, GrantStep DEF GrantFree
<1>12. ASSUME NEW n \in Grants, GrantTopUp(n) PROVE IInv'
    <2>1. /\ status' \in [Row -> {"ACTIVE", "PAUSED", "DONE"}]
          /\ \A w \in Row \ SubRows : status'[w] # "DONE"
        BY <1>12 DEF GrantTopUp, TypeOK, ExhaustionLeavesNoTrace
    <2>2. n \in Nat
        BY LedgerAssumption DEF LedgerAssumption
    <2>3. rows' \in SUBSET Row /\ "topUp" \in Row
        BY <1>12 DEF GrantTopUp, TypeOK, Row
    <2>4. QED BY <1>12, <2>1, <2>2, <2>3, GrantStep DEF GrantTopUp
<1>13. ASSUME NEW n \in Grants, NEW row \in SubRows, GrantSubscription(row, n)
       PROVE  IInv'
    <2>1. /\ status' \in [Row -> {"ACTIVE", "PAUSED", "DONE"}]
          /\ \A w \in Row \ SubRows : status'[w] # "DONE"
        BY <1>13 DEF GrantSubscription, TypeOK, ExhaustionLeavesNoTrace
    <2>2. n \in Nat
        BY LedgerAssumption DEF LedgerAssumption
    <2>3. rows' \in SUBSET Row /\ row \in Row
        BY <1>13 DEF GrantSubscription, TypeOK, Row
    <2>4. QED BY <1>13, <2>1, <2>2, <2>3, GrantStep DEF GrantSubscription
<1>14. ASSUME NEW row \in Row, SetStatus(row) PROVE IInv'
    <2>1. /\ status' \in [Row -> {"ACTIVE", "PAUSED", "DONE"}]
          /\ \A w \in Row \ SubRows : status'[w] # "DONE"
        BY <1>14 DEF SetStatus, TypeOK, ExhaustionLeavesNoTrace, Row
    <2>2. total' = [total EXCEPT ![row] = @ + 0]
        BY <1>14 DEF SetStatus, TypeOK
    <2>3. rows' \in SUBSET Row
        BY <1>14 DEF SetStatus, TypeOK
    <2>4. QED BY <1>14, <2>1, <2>2, <2>3, GrantStep DEF SetStatus
<1>15. ASSUME NEW p \in {"TOP_UP", "SUBSCRIPTION"}, SetPlan(p) PROVE IInv'
    BY <1>15 DEF SetPlan, TypeOK, Plans, KindsOK, BalancesOK, Limited, SnapshotsOK,
           SnapshotOK, Open, NeverOvercharged, ExactWithoutRace,
           ExhaustionLeavesNoTrace, history
<1>16. CASE UNCHANGED vars
    BY <1>16 DEF vars, TypeOK, KindsOK, BalancesOK, Limited, SnapshotsOK, SnapshotOK,
           Open, NeverOvercharged, ExactWithoutRace, ExhaustionLeavesNoTrace
<1>17. QED
    BY <1>1, <1>2, <1>3, <1>4, <1>5, <1>6, <1>7, <1>8, <1>9, <1>10, <1>11, <1>12,
       <1>13, <1>14, <1>15, <1>16 DEF Next

(* The inductive invariant holds in every reachable state of the ledger. *)
THEOREM Invariance == Spec => []IInv
<1>1. Init => IInv BY InitInvariant
<1>2. IInv /\ [Next]_vars => IInv' BY NextInvariant
<1>3. QED BY <1>1, <1>2, PTL DEF Spec

(* Every variable of the ledger keeps its type; in particular no top-up    *)
(* and no subscription is ever left with a negative usage or total.        *)
THEOREM TypeCorrectness == Spec => []TypeOK
<1>1. IInv => TypeOK BY DEF IInv
<1>2. QED BY <1>1, Invariance, PTL

(* However charges, refunds, activations and grants interleave, no balance *)
(* has more used than it holds (the limit checks of deductFrom...), except *)
(* the free row once an image generation has debited it.                   *)
THEOREM LimitSafety == Spec => []WithinLimit
<1>1. IInv => WithinLimit BY DEF IInv, BalancesOK, Limited, WithinLimit, TypeOK
<1>2. QED BY <1>1, Invariance, PTL

(* No interleaving of deductCredits, refundDeploymentCredits, generation   *)
(* and activation makes a user pay more than what was charged.             *)
THEOREM ChargeSafety == Spec => []NeverOvercharged
<1>1. IInv => NeverOvercharged BY DEF IInv
<1>2. QED BY <1>1, Invariance, PTL

(* The books of a row balance exactly unless a stale write reached it.     *)
THEOREM BooksBalance == Spec => []ExactWithoutRace
<1>1. IInv => ExactWithoutRace BY DEF IInv
<1>2. QED BY <1>1, Invariance, PTL

(* No charge ever leaves a free or top-up row DONE: the write is rolled    *)
(* back (credit.service.ts 453-462).                                       *)
THEOREM NoExhaustedRow == Spec => []ExhaustionLeavesNoTrace
<1>1. IInv => ExhaustionLeavesNoTrace BY DEF IInv
<1>2. QED BY <1>1, Invariance, PTL

-----------------------------------------------------------------------------
(* What still stands.  The conditions under which the usage is the sum of  *)
(* the standing charges are never regained once lost, so the sum is        *)
(* followed from step to step: a charge adds its cost, and a refund, which *)
(* found the usage that its own charge is part of, takes it off again.     *)

Units(S) == UNION {{r} \X (1 .. Cost[r]) : r \in S}

LEMMA NoUnits == IsFiniteSet(Units({})) /\ SumOfCosts({}) = 0
<1>1. Units({}) = {}
    BY DEF Units
<1>2. QED
    BY <1>1, FS_EmptySet DEF Units, SumOfCosts

(* One more charge adds its cost to the sum. *)
LEMMA OneMore ==
    ASSUME NEW S, NEW r, r \notin S, Cost[r] \in Nat, IsFiniteSet(Units(S))
    PROVE  /\ IsFiniteSet(Units(S \cup {r}))
           /\ SumOfCosts(S) \in Nat
           /\ SumOfCosts(S \cup {r}) = SumOfCosts(S) + Cost[r]
<1>0. PICK own : own = {r} \X (1 .. Cost[r])
    OBVIOUS
<1>1. Units(S \cup {r}) = Units(S) \cup own
    BY <1>0 DEF Units
<1>2. Units(S) \cap own = {}
    BY <1>0 DEF Units
<1>3. IsFiniteSet({r}) /\ Cardinality({r}) = 1
    BY FS_Singleton
<1>4. IsFiniteSet(1 .. Cost[r]) /\ Cardinality(1 .. Cost[r]) = Cost[r]
    BY FS_Interval
<1>5. IsFiniteSet(own) /\ Cardinality(own) = Cost[r]
    <2>1. IsFiniteSet(own) /\ Cardinality(own) = 1 * Cost[r]
        BY <1>0, <1>3, <1>4, FS_Product
    <2>2. QED
        BY <2>1
<1>6. /\ IsFiniteSet(Units(S) \cup own)
      /\ Cardinality(Units(S) \cup own) = Cardinality(Units(S)) + Cost[r] - Cardinality({})
    BY <1>2, <1>5, FS_Union
<1>7. Cardinality({}) = 0 /\ Cardinality(Units(S)) \in Nat
    BY FS_EmptySet, FS_CardinalityType
<1>8. SumOfCosts(S) = Cardinality(Units(S))
      /\ SumOfCosts(S \cup {r}) = Cardinality(Units(S \cup {r}))
    BY DEF SumOfCosts, Units
<1>9. Cardinality(Units(S \cup {r})) = Cardinality(Units(S)) + Cost[r]
    <2>1. Cardinality(Units(S \cup {r})) = Cardinality(Units(S)) + Cost[r] - Cardinality({})
        BY <1>1, <1>6
    <2>2. QED
        BY <1>7, <2>1
<1>10. IsFiniteSet(Units(S \cup {r}))
    BY <1>1, <1>6
<1>11. QED
    BY <1>7, <1>8, <1>9, <1>10

(* One charge less takes it off. *)
LEMMA OneLess ==
    ASSUME NEW S, NEW r \in S, Cost[r] \in Nat, IsFiniteSet(Units(S))
    PROVE  /\ IsFiniteSet(Units(S \ {r}))
           /\ SumOfCosts(S \ {r}) \in Nat
           /\ SumOfCosts(S) = SumOfCosts(S \ {r}) + Cost[r]
<1>1. Units(S \ {r}) \subseteq Units(S)
    BY DEF Units
<1>2. IsFiniteSet(Units(S \ {r}))
    BY <1>1, FS_Subset
<1>3. /\ SumOfCosts(S \ {r}) \in Nat
      /\ SumOfCosts((S \ {r}) \cup {r}) = SumOfCosts(S \ {r}) + Cost[r]
    BY <1>2, OneMore
<1>4. (S \ {r}) \cup {r} = S
    OBVIOUS
<1>5. QED
    BY <1>2, <1>3, <1>4

(* The rows of which it is said. *)
Settled(row) == row \notin foreign /\ ~raced[row] /\ RefundsStayHome(row)

StandingOK(row) ==
    /\ IsFiniteSet(Units(Standing(row)))
    /\ Settled(row) => usage[row] = SumOfCosts(Standing(row))

StandingInv == \A row \in Row : StandingOK(row)

(* A step that leaves a row's usage and its charges alone. *)
Passes(row) ==
    /\ Settled(row)' => Settled(row) /\ usage'[row] = usage[row]
    /\ Standing(row)' = Standing(row)

LEMMA PassesKeeps == ASSUME NEW row, StandingOK(row), Passes(row) PROVE StandingOK(row)'
    BY DEF StandingOK, Passes

(* No refund that crossed is undone. *)
LEMMA HomeBefore ==
    ASSUME NEW row \in Row,
           \A r \in Deploys : phase[r] = "refunded" =>
               phase'[r] = "refunded" /\ chargedRow'[r] = chargedRow[r] /\ refundRow'[r] = refundRow[r],
           RefundsStayHome(row)'
    PROVE  RefundsStayHome(row)
    BY DEF RefundsStayHome

(* A request that comes to or leaves no standing charge. *)
Charged == {"charged", "refunding", "refundFailed"}

(* A step of one request that writes no usage, or that of a row which is   *)
(* another service's from then on.                                         *)
LEMMA AsideStands ==
    ASSUME IInv, StandingInv, NEW r \in Requests,
           UNCHANGED <<chargedRow, refundRow>>,
           foreign \subseteq foreign', \A row \in Row : raced[row] => raced'[row],
           \A q \in Requests \ {r} : phase'[q] = phase[q],
           r \in Deploys \cup Charges => (phase[r] \in Charged <=> phase'[r] \in Charged),
           r \in Deploys => phase[r] # "refunded" /\ phase'[r] # "refunded",
           \A row \in Row : row \in foreign' \/ usage'[row] = usage[row]
    PROVE  StandingInv'
<1> SUFFICES ASSUME NEW row \in Row PROVE StandingOK(row)'
    BY DEF StandingInv
<1>1. Standing(row)' = Standing(row)
    BY DEF Standing, Charged, Requests
<1>2. Settled(row)' => Settled(row) /\ usage'[row] = usage[row]
    <2>1. ASSUME RefundsStayHome(row)' PROVE RefundsStayHome(row)
        BY <2>1, HomeBefore DEF Requests
    <2>2. QED
        BY <2>1 DEF Settled
<1>3. QED
    BY <1>1, <1>2, PassesKeeps DEF StandingInv, Passes

LEMMA CommitDeductStands ==
    ASSUME IInv, StandingInv, NEW r \in Requests, CommitDeduct(r)
    PROVE  StandingInv'
<1> DEFINE own == seen[r].row
<1> USE DEF IInv
<1>1. /\ r \in Deploys \cup Charges /\ phase[r] = "deducting" /\ own \in Row
      /\ Cost[r] \in Nat
    BY CostIsPositive, LedgerAssumption DEF CommitDeduct, KindsOK, TypeOK, Snapshots
<1>2. /\ phase' = [phase EXCEPT ![r] = "charged"]
      /\ chargedRow' = [chargedRow EXCEPT ![r] = own]
      /\ usage' = [usage EXCEPT ![own] = seen[r].usage + Cost[r]]
      /\ raced' = [raced EXCEPT ![own] = @ \/ stale[r]]
      /\ UNCHANGED <<refundRow, foreign>>
    BY DEF CommitDeduct, WriteUsage, UsageAfterCharge
<1>3. /\ phase'[r] = "charged" /\ \A q \in Requests \ {r} : phase'[q] = phase[q]
      /\ chargedRow'[r] = own /\ \A q \in Requests \ {r} : chargedRow'[q] = chargedRow[q]
    BY <1>2 DEF TypeOK
<1>4. ASSUME NEW row \in Row, RefundsStayHome(row)' PROVE RefundsStayHome(row)
    BY <1>1, <1>2, <1>3, <1>4, HomeBefore DEF Requests
<1> SUFFICES ASSUME NEW row \in Row PROVE StandingOK(row)'
    BY DEF StandingInv
<1>5. CASE row = own
    <2>1. Standing(row)' = Standing(row) \cup {r} /\ r \notin Standing(row)
        BY <1>1, <1>3, <1>5 DEF Standing, Requests
    <2>2. /\ IsFiniteSet(Units(Standing(row) \cup {r}))
          /\ SumOfCosts(Standing(row) \cup {r}) = SumOfCosts(Standing(row)) + Cost[r]
        BY <1>1, <2>1, OneMore DEF StandingInv, StandingOK
    <2>3. ASSUME Settled(row)' PROVE usage'[row] = SumOfCosts(Standing(row)) + Cost[r]
        <3>1. ~raced'[own] /\ raced'[own] = (raced[own] \/ stale[r])
            BY <1>1, <1>2, <1>5, <2>3 DEF Settled, TypeOK
        <3>2. ~raced[own] /\ ~stale[r]
            BY <3>1
        <3>3. Settled(row)
            BY <1>2, <1>4, <1>5, <2>3, <3>2 DEF Settled
        <3>4. seen[r].usage = usage[own]
            BY <1>1, <3>2 DEF SnapshotsOK, SnapshotOK, Open
        <3>5. usage'[own] = usage[own] + Cost[r]
            BY <1>1, <1>2, <3>4 DEF TypeOK
        <3>6. usage[row] = SumOfCosts(Standing(row))
            BY <3>3 DEF StandingInv, StandingOK
        <3>7. QED
            BY <1>5, <3>5, <3>6
    <2>4. QED
        BY <2>1, <2>2, <2>3 DEF StandingOK
<1>6. CASE row # own
    <2>1. Standing(row)' = Standing(row)
        BY <1>1, <1>3, <1>6 DEF Standing, Requests
    <2>2. usage'[row] = usage[row] /\ raced'[row] = raced[row]
        BY <1>2, <1>6 DEF TypeOK
    <2>3. Settled(row)' => Settled(row)
        BY <1>2, <1>4, <2>2 DEF Settled
    <2>4. QED
        BY <2>1, <2>2, <2>3, PassesKeeps DEF StandingInv, Passes
<1>7. QED
    BY <1>5, <1>6

LEMMA CommitRefundStands ==
    ASSUME IInv, StandingInv, NEW r \in Deploys, CommitRefund(r)
    PROVE  StandingInv'
<1> DEFINE own == seen[r].row
           home == chargedRow[r]
<1> USE DEF IInv
<1>1. /\ r \in Requests /\ r \in Deploys \cup Charges /\ phase[r] = "refunding"
      /\ own \in Row /\ home \in Row /\ Cost[r] \in Nat
    BY CostIsPositive, LedgerAssumption DEF CommitRefund, TypeOK, Snapshots, Requests
<1>2. /\ phase' = [phase EXCEPT ![r] = "refunded"]
      /\ refundRow' = [refundRow EXCEPT ![r] = own]
      /\ usage' = [usage EXCEPT ![own] = UsageAfterRefund(seen[r], Cost[r])]
      /\ raced' = [raced EXCEPT ![own] = @ \/ stale[r]]
      /\ UNCHANGED <<chargedRow, foreign>>
    BY DEF CommitRefund, WriteUsage
<1>3. /\ phase'[r] = "refunded" /\ \A q \in Requests \ {r} : phase'[q] = phase[q]
      /\ refundRow'[r] = own /\ \A q \in Requests \ {r} : refundRow'[q] = refundRow[q]
    BY <1>1, <1>2 DEF TypeOK
<1>4. ASSUME NEW row \in Row, RefundsStayHome(row)'
      PROVE  RefundsStayHome(row) /\ (home = row <=> own = row)
    <2>1. RefundsStayHome(row)
        BY <1>1, <1>2, <1>3, <1>4, HomeBefore DEF Requests
    <2>2. chargedRow'[r] = row <=> refundRow'[r] = row
        BY <1>3, <1>4 DEF RefundsStayHome
    <2>3. QED
        BY <1>2, <1>3, <2>1, <2>2
<1> SUFFICES ASSUME NEW row \in Row PROVE StandingOK(row)'
    BY DEF StandingInv
<1>5. CASE row # home
    <2>1. Standing(row)' = Standing(row)
        BY <1>1, <1>2, <1>3, <1>5 DEF Standing, Requests
    <2>2. ASSUME Settled(row)' PROVE Settled(row) /\ usage'[row] = usage[row]
        <3>1. RefundsStayHome(row) /\ own # row
            BY <1>4, <1>5, <2>2 DEF Settled
        <3>2. usage'[row] = usage[row] /\ raced'[row] = raced[row]
            BY <1>2, <3>1 DEF TypeOK
        <3>3. QED
            BY <1>2, <2>2, <3>1, <3>2 DEF Settled
    <2>3. QED
        BY <2>1, <2>2, PassesKeeps DEF StandingInv, Passes
<1>6. CASE row = home
    <2>1. Standing(row)' = Standing(row) \ {r} /\ r \in Standing(row)
        BY <1>1, <1>2, <1>3, <1>6 DEF Standing, Requests
    <2>2. /\ IsFiniteSet(Units(Standing(row) \ {r}))
          /\ SumOfCosts(Standing(row) \ {r}) \in Nat
          /\ SumOfCosts(Standing(row)) = SumOfCosts(Standing(row) \ {r}) + Cost[r]
        BY <1>1, <2>1, OneLess DEF StandingInv, StandingOK
    <2>3. ASSUME Settled(row)' PROVE usage'[row] = SumOfCosts(Standing(row) \ {r})
        <3>1. RefundsStayHome(row) /\ own = row
            BY <1>4, <1>6, <2>3 DEF Settled
        <3>2. ~raced'[own] /\ raced'[own] = (raced[own] \/ stale[r])
            BY <1>1, <1>2, <2>3, <3>1 DEF Settled, TypeOK
        <3>3. ~raced[own] /\ ~stale[r]
            BY <3>2
        <3>4. Settled(row)
            BY <1>2, <2>3, <3>1, <3>3 DEF Settled
        <3>5. seen[r].usage = usage[own]
            BY <1>1, <3>3 DEF SnapshotsOK, SnapshotOK, Open
        <3>6. usage[row] = SumOfCosts(Standing(row))
            BY <3>4 DEF StandingInv, StandingOK
        <3>7. seen[r].usage = SumOfCosts(Standing(row) \ {r}) + Cost[r]
            BY <2>2, <3>1, <3>5, <3>6
        <3>8. UsageAfterRefund(seen[r], Cost[r]) = SumOfCosts(Standing(row) \ {r})
            BY <1>1, <2>2, <3>7 DEF UsageAfterRefund
        <3>9. QED
            BY <1>2, <3>1, <3>8 DEF TypeOK
    <2>4. QED
        BY <2>1, <2>2, <2>3 DEF StandingOK
<1>7. QED
    BY <1>5, <1>6

LEMMA ReadStands ==
    ASSUME IInv, StandingInv, NEW r \in Requests, BeginDeduct(r) \/ BeginRefund(r) \/ BeginActivation(r)
    PROVE  StandingInv'
<1> USE DEF IInv
<1>1. UNCHANGED <<usage, chargedRow, refundRow, raced, foreign>>
    BY DEF BeginDeduct, BeginRefund, BeginActivation, Read, db
<1>2. \A q \in Requests \ {r} : phase'[q] = phase[q]
    BY DEF BeginDeduct, BeginRefund, BeginActivation, Read, TypeOK
<1>3. /\ r \in Deploys \cup Charges => (phase[r] \in Charged <=> phase'[r] \in Charged)
      /\ r \in Deploys => phase[r] # "refunded" /\ phase'[r] # "refunded"
    <2>1. CASE BeginDeduct(r)
        BY <2>1 DEF BeginDeduct, Read, TypeOK, Charged
    <2>2. CASE BeginRefund(r)
        BY <2>2 DEF BeginRefund, Read, TypeOK, Charged
    <2>3. CASE BeginActivation(r)
        BY <2>3, LedgerAssumption DEF BeginActivation
    <2>4. QED
        BY <2>1, <2>2, <2>3
<1>4. QED
    BY <1>1, <1>2, <1>3, AsideStands

LEMMA OtherStands ==
    ASSUME IInv, StandingInv, NEW r \in Requests,
           RejectDeduct(r) \/ CheckImage(r) \/ DebitImage(r) \/ RefundImage(r) \/ CommitActivation(r)
    PROVE  StandingInv'
<1> USE DEF IInv
<1>1. UNCHANGED <<chargedRow, refundRow>> /\ foreign \subseteq foreign'
    BY DEF RejectDeduct, CheckImage, DebitImage, RefundImage, CommitActivation, history
<1>2. \A q \in Requests \ {r} : phase'[q] = phase[q]
    BY DEF RejectDeduct, CheckImage, DebitImage, RefundImage, CommitActivation, TypeOK
<1>3. \A row \in Row : raced[row] => raced'[row]
    BY DEF RejectDeduct, CheckImage, DebitImage, RefundImage, CommitActivation, history,
       WriteUsage, TypeOK
<1>4. /\ r \in Deploys \cup Charges => (phase[r] \in Charged <=> phase'[r] \in Charged)
      /\ r \in Deploys => phase[r] # "refunded" /\ phase'[r] # "refunded"
    <2>1. CASE RejectDeduct(r)
        BY <2>1 DEF RejectDeduct, TypeOK, Charged
    <2>2. CASE CheckImage(r) \/ DebitImage(r) \/ RefundImage(r)
        BY <2>2, LedgerAssumption DEF CheckImage, DebitImage, RefundImage
    <2>3. CASE CommitActivation(r)
        BY <2>3, LedgerAssumption DEF CommitActivation, KindsOK
    <2>4. QED
        BY <2>1, <2>2, <2>3
<1>5. \A row \in Row : row \in foreign' \/ usage'[row] = usage[row]
    <2>1. CASE RejectDeduct(r) \/ CheckImage(r)
        BY <2>1 DEF RejectDeduct, CheckImage, db
    <2>2. CASE DebitImage(r)
        BY <2>2 DEF DebitImage, TypeOK
    <2>3. CASE RefundImage(r)
        <3>1. "credits" \in foreign'
            BY <2>3 DEF RefundImage, KindsOK
        <3>2. QED
            BY <2>3, <3>1 DEF RefundImage, TypeOK
    <2>4. CASE CommitActivation(r)
        <3>1. seen[r].row = "topUp"
            BY <2>4 DEF CommitActivation, KindsOK
        <3>2. QED
            BY <2>4, <3>1 DEF CommitActivation, WriteUsage, TypeOK
    <2>5. QED
        BY <2>1, <2>2, <2>3, <2>4
<1>6. QED
    BY <1>1, <1>2, <1>3, <1>4, <1>5, AsideStands

(* Only deployments are refunded by CreditService. *)
DeploysRefunded == \A r \in Requests : phase[r] = "refunding" => r \in Deploys

LEMMA RefundedStep == IInv /\ DeploysRefunded /\ [Next]_vars => DeploysRefunded'
<1> SUFFICES ASSUME IInv, DeploysRefunded, [Next]_vars, NEW q \in Requests, phase'[q] = "refunding"
             PROVE  q \in Deploys
    BY DEF DeploysRefunded
<1>1. ASSUME NEW r \in Requests, BeginDeduct(r) \/ BeginRefund(r) \/ BeginActivation(r)
      PROVE  phase[q] = "refunding" \/ (q = r /\ BeginRefund(r))
    BY <1>1 DEF BeginDeduct, BeginRefund, BeginActivation, Read, IInv, TypeOK
<1>2. ASSUME NEW r \in Requests,
             CommitDeduct(r) \/ RejectDeduct(r) \/ CommitRefund(r) \/ CheckImage(r) \/ DebitImage(r)
                \/ RefundImage(r) \/ CommitActivation(r)
      PROVE  phase[q] = "refunding"
    BY <1>2 DEF CommitDeduct, RejectDeduct, CommitRefund, CheckImage, DebitImage, RefundImage,
       CommitActivation, IInv, TypeOK
<1>3. CASE phase' = phase
    BY <1>3 DEF DeploysRefunded
<1>4. QED
    BY <1>1, <1>2, <1>3 DEF Next, DeploysRefunded, BeginRefund, GrantFree, GrantTopUp,
       GrantSubscription, SetStatus, SetPlan, vars

LEMMA StandingStep == IInv /\ DeploysRefunded /\ StandingInv /\ [Next]_vars => StandingInv'
<1> SUFFICES ASSUME IInv, DeploysRefunded, StandingInv, [Next]_vars PROVE StandingInv'
    OBVIOUS
<1>1. ASSUME NEW r \in Requests, CommitRefund(r) PROVE StandingInv'
    <2>1. r \in Deploys
        BY <1>1 DEF CommitRefund, DeploysRefunded
    <2>2. QED
        BY <1>1, <2>1, CommitRefundStands
<1>2. ASSUME UNCHANGED <<usage, phase, history>> PROVE StandingInv'
    <2>1. ASSUME NEW row \in Row PROVE Passes(row)
        BY <1>2 DEF Passes, Settled, RefundsStayHome, Standing, history
    <2>2. QED
        BY <2>1, PassesKeeps DEF StandingInv
<1>3. CASE \/ \E n \in Grants : \/ GrantFree(n)
                                \/ GrantTopUp(n)
                                \/ \E row \in SubRows : GrantSubscription(row, n)
           \/ \E row \in Row : SetStatus(row)
           \/ \E p \in {"TOP_UP", "SUBSCRIPTION"} : SetPlan(p)
           \/ UNCHANGED vars
    <2>1. UNCHANGED <<usage, phase, history>>
        BY <1>3 DEF GrantFree, GrantTopUp, GrantSubscription, SetStatus, SetPlan, vars, history
    <2>2. QED
        BY <1>2, <2>1
<1>4. QED
    BY <1>1, <1>3, CommitDeductStands, ReadStands, OtherStands DEF Next

(* The usage of a row is the sum of the charges that stand on it, for any  *)
(* costs and requests, wherever only deductCredits and                     *)
(* refundDeploymentCredits have written it, none of them from a stale      *)
(* read, and no refund has gone to or come from another plan's row.        *)
THEOREM ChargesStand == Spec => []UsageIsStandingCharges
<1>0. Init => DeploysRefunded
    BY DEF Init, DeploysRefunded
<1>1. Init => StandingInv
    <2> SUFFICES ASSUME Init, NEW row \in Row PROVE StandingOK(row)
        BY DEF StandingInv
    <2>1. Standing(row) = {} /\ usage[row] = 0
        BY DEF Init, Standing, Requests
    <2>2. QED
        BY <2>1, NoUnits DEF StandingOK
<1>2. StandingInv => UsageIsStandingCharges
    BY DEF StandingInv, StandingOK, Settled, UsageIsStandingCharges
<1>3. QED
    BY <1>0, <1>1, <1>2, Invariance, RefundedStep, StandingStep, PTL DEF Spec
=============================================================================
