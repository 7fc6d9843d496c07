---------------------------- MODULE CreditLedger ----------------------------
(***************************************************************************)
(* One user's credit balances and everything that writes their usage.      *)
(*                                                                         *)
(* CreditService (src/src/projects/services/credit.service.ts) charges and *)
(* refunds in one Prisma $transaction: it reads the user with the rows of  *)
(* its plans and later writes an ABSOLUTE creditUsage computed from what   *)
(* it read.  The database runs at its default isolation level, READ        *)
(* COMMITTED, and the read locks no row, so a transaction is two steps     *)
(* here: the read, and the write with its commit.                          *)
(*                                                                         *)
(* Two services write the same columns meanwhile.  Image generation        *)
(* decrements availableCredits and increments creditUsage of the free row  *)
(* whatever the plan; a subscription activation marks the whole top-up as  *)
(* used, from a snapshot it took first.  Redemptions, top-ups and payment  *)
(* handlers raise totals, move statuses and set users.currentPlan: those   *)
(* appear as the single statements they issue.                             *)
(***************************************************************************)
EXTENDS Integers, FiniteSets

CONSTANTS
    Deploys,     \* charges for deployments: the only ones that are refunded
    Charges,     \* charges for tools, models and sandboxes
    Images,      \* image generations
    Activations, \* subscription activations
    SubRows,     \* Subscription rows the user may come to own
    Cost,        \* what each charge or generation deducts
    Grants,      \* the amounts by which a payment or redemption adds credits
    MaxTotal     \* BOUND: no balance is raised above it

Requests == Deploys \cup Charges \cup Images \cup Activations
Row == {"credits", "topUp"} \cup SubRows

ASSUME LedgerAssumption ==
    /\ (Deploys \cup Charges) \cap (Images \cup Activations) = {}
    /\ Deploys \cap Charges = {}
    /\ Images \cap Activations = {}
    /\ Cost \in [Requests \ Activations -> Nat \ {0}]
    /\ Grants \subseteq Nat
    /\ MaxTotal \in Nat
    /\ SubRows \cap {"credits", "topUp"} = {}

Plans == {"FREE", "TOP_UP", "SUBSCRIPTION"}
Phases == {"idle", "deducting", "charged", "insufficient", "failed",
           "refunding", "refunded", "refundFailed",
           "checked", "generated", "activating", "activated"}

VARIABLES
    plan,        \* users.currentPlan
    rows,        \* the balance rows that exist
    total,       \* availableCredits / totalCredits of each row
    usage,       \* creditUsage of each row
    status,      \* status of each row
    phase,       \* where each request is
    seen,        \* what the transaction of each request has read
    \* history variables, which no action reads
    chargedRow,  \* the row a request was charged on
    refundRow,   \* the row a request was refunded on
    charged,     \* all that was ever successfully charged on each row
    credited,    \* all that refunds took off each row
    stale,       \* open requests whose row was written after they read it
    raced,       \* rows on which a stale request has committed
    foreign      \* rows whose usage another service has written

db == <<plan, rows, total, usage, status>>
history == <<chargedRow, refundRow, charged, credited, stale, raced, foreign>>
vars == <<plan, rows, total, usage, status, phase, seen,
          chargedRow, refundRow, charged, credited, stale, raced, foreign>>

Snapshots == [row : Row, usage : Int, total : Int,
              status : {"ACTIVE", "PAUSED", "DONE"}]

TypeOK ==
    /\ plan \in Plans
    /\ rows \in SUBSET Row
    /\ total \in [Row -> Int]
    /\ usage \in [Row -> Int]
    /\ \A row \in Row \ {"credits"} : total[row] \in Nat /\ usage[row] \in Nat
    /\ status \in [Row -> {"ACTIVE", "PAUSED", "DONE"}]
    /\ phase \in [Requests -> Phases]
    /\ seen \in [Requests -> Snapshots]
    /\ chargedRow \in [Requests -> Row]
    /\ refundRow \in [Requests -> Row]
    /\ charged \in [Row -> Nat]
    /\ credited \in [Row -> Int]
    /\ stale \in [Requests -> BOOLEAN]
    /\ raced \in [Row -> BOOLEAN]
    /\ foreign \in SUBSET Row

-----------------------------------------------------------------------------
(* The rows CreditService may pick for a plan.  Subscription?.[0] is the   *)
(* first of a list fetched without an order: any subscription row.         *)
PlanRows(p) ==
    rows \cap (CASE p = "FREE"         -> {"credits"}
                 [] p = "TOP_UP"       -> {"topUp"}
                 [] p = "SUBSCRIPTION" -> SubRows)

(* What one findUnique with its includes returns for a row. *)
Snapshot(row) == [row    |-> row,
                  usage  |-> usage[row],
                  total  |-> total[row],
                  status |-> status[row]]

(* A transaction's locals when it has not begun or is over. *)
Nothing == [row |-> "credits", usage |-> 0, total |-> 0, status |-> "ACTIVE"]

(* Variants with a plausible bug, which nothing below uses: the runs must  *)
(* tell them from the definitions they stand next to.                      *)
FitsBeforeCharge(s, c) == s.usage < s.total
UsageCapped(s, c) == s.total
UsageAfterRefundOffByOne(s, c) == IF s.usage > c THEN s.usage - c ELSE s.usage
UsageAfterRefundAdds(s, c) == s.usage + c

(* The limit check of the three deductFrom... methods. *)
Fits(s, c) == s.usage + c <= s.total

(* The creditUsage a charge and a refund write. *)
UsageAfterCharge(s, c) == s.usage + c
UsageAfterRefund(s, c) == IF s.usage > c THEN s.usage - c ELSE 0

(* A refund re-activates a free or top-up row found DONE when it brings it *)
(* back under its limit; subscription rows keep their status.              *)
StatusAfterRefund(s, c) ==
    IF s.row \notin SubRows /\ s.status = "DONE" /\ UsageAfterRefund(s, c) < s.total
    THEN "ACTIVE" ELSE status[s.row]

Open(r) == phase[r] \in {"deducting", "refunding", "activating"}

(* A row's usage is written: every other transaction that has read the row *)
(* and not yet written is now stale.                                       *)
Outdate(r, row) ==
    stale' = [q \in Requests |->
                 stale[q] \/ (q # r /\ Open(q) /\ seen[q].row = row)]

(* The absolute UPDATE of a request's transaction, with its commit. *)
WriteUsage(r, newUsage) ==
    LET row == seen[r].row IN
    /\ usage' = [usage EXCEPT ![row] = newUsage]
    /\ seen' = [seen EXCEPT ![r] = Nothing]
    /\ Outdate(r, row)
    /\ raced' = [raced EXCEPT ![row] = @ \/ stale[r]]

-----------------------------------------------------------------------------
Init ==
    /\ plan = "FREE"
    /\ rows \in {{}, {"credits"}}
    /\ total \in {[row \in Row |-> IF row \in rows THEN n ELSE 0] : n \in Grants}
    /\ usage = [row \in Row |-> 0]
    /\ status = [row \in Row |-> "ACTIVE"]
    /\ phase = [r \in Requests |-> "idle"]
    /\ seen = [r \in Requests |-> Nothing]
    /\ chargedRow = [r \in Requests |-> "credits"]
    /\ refundRow = [r \in Requests |-> "credits"]
    /\ charged = [row \in Row |-> 0]
    /\ credited = [row \in Row |-> 0]
    /\ stale = [r \in Requests |-> FALSE]
    /\ raced = [row \in Row |-> FALSE]
    /\ foreign = {}

(* A request reads the user with one of the given rows, or finds none. *)
Read(r, candidates, from, open, none) ==
    /\ phase[r] = from
    /\ \/ \E row \in candidates :
             /\ seen' = [seen EXCEPT ![r] = Snapshot(row)]
             /\ stale' = [stale EXCEPT ![r] = FALSE]
             /\ phase' = [phase EXCEPT ![r] = open]
       \/ /\ candidates = {}
          /\ phase' = [phase EXCEPT ![r] = none]
          /\ UNCHANGED <<seen, stale>>
    /\ UNCHANGED <<db, chargedRow, refundRow, charged, credited, raced, foreign>>

(* A charge begins by reading the row of the current plan, and throws when *)
(* there is none.                                                          *)
BeginDeduct(r) ==
    /\ r \in Deploys \cup Charges
    /\ Read(r, PlanRows(plan), "idle", "deducting", "failed")

(* The charge fits what was read: the new usage is written and committed.  *)
CommitDeduct(r) ==
    /\ phase[r] = "deducting"
    /\ Fits(seen[r], Cost[r])
    /\ WriteUsage(r, UsageAfterCharge(seen[r], Cost[r]))
    /\ phase' = [phase EXCEPT ![r] = "charged"]
    /\ chargedRow' = [chargedRow EXCEPT ![r] = seen[r].row]
    /\ charged' = [charged EXCEPT ![seen[r].row] = @ + Cost[r]]
    /\ UNCHANGED <<plan, rows, total, status, refundRow, credited, foreign>>

(* The charge does not fit: the usage is capped and the row marked DONE,   *)
(* then InsufficientCreditsError is thrown inside the transaction, which   *)
(* rolls both writes back.                                                 *)
RejectDeduct(r) ==
    /\ phase[r] = "deducting"
    /\ ~Fits(seen[r], Cost[r])
    /\ phase' = [phase EXCEPT ![r] = "insufficient"]
    /\ seen' = [seen EXCEPT ![r] = Nothing]
    /\ UNCHANGED <<db, history>>

(* A charged deployment fails before its job is queued.  The refund reads  *)
(* the user again: it goes to the plan that is current NOW.                *)
BeginRefund(r) ==
    /\ r \in Deploys
    /\ Read(r, PlanRows(plan), "charged", "refunding", "refundFailed")

CommitRefund(r) ==
    LET s == seen[r] IN
    /\ phase[r] = "refunding"
    /\ WriteUsage(r, UsageAfterRefund(s, Cost[r]))
    /\ status' = [status EXCEPT ![s.row] = StatusAfterRefund(s, Cost[r])]
    /\ phase' = [phase EXCEPT ![r] = "refunded"]
    /\ refundRow' = [refundRow EXCEPT ![r] = s.row]
    /\ credited' = [credited EXCEPT
                      ![s.row] = @ + (s.usage - UsageAfterRefund(s, Cost[r]))]
    /\ UNCHANGED <<plan, rows, total, chargedRow, charged, foreign>>

-----------------------------------------------------------------------------
(* An image generation checks availableCredits of the free row, whatever   *)
(* the plan and without looking at creditUsage.                            *)
CheckImage(r) ==
    /\ r \in Images
    /\ phase[r] = "idle"
    /\ phase' = [phase EXCEPT ![r] =
                    IF "credits" \in rows /\ total["credits"] >= Cost[r]
                    THEN "checked" ELSE "failed"]
    /\ UNCHANGED <<db, seen, history>>

(* After the job was submitted the debit checks nothing again: both        *)
(* columns move by atomic increments.                                      *)
DebitImage(r) ==
    /\ r \in Images
    /\ phase[r] = "checked"
    /\ total' = [total EXCEPT !["credits"] = @ - Cost[r]]
    /\ usage' = [usage EXCEPT !["credits"] = @ + Cost[r]]
    /\ charged' = [charged EXCEPT !["credits"] = @ + Cost[r]]
    /\ phase' = [phase EXCEPT ![r] = "generated"]
    /\ foreign' = foreign \cup {"credits"}
    /\ Outdate(r, "credits")
    /\ UNCHANGED <<plan, rows, status, seen, chargedRow, refundRow,
                   credited, raced>>

(* A failed generation is refunded by the inverse increments, by whoever   *)
(* saw it fail: the poller and each webhook delivery do so independently.  *)
RefundImage(r) ==
    /\ r \in Images
    /\ phase[r] \in {"generated", "refunded"}
    /\ total["credits"] + Cost[r] <= MaxTotal
    /\ total' = [total EXCEPT !["credits"] = @ + Cost[r]]
    /\ usage' = [usage EXCEPT !["credits"] = @ - Cost[r]]
    /\ credited' = [credited EXCEPT !["credits"] = @ + Cost[r]]
    /\ phase' = [phase EXCEPT ![r] = "refunded"]
    /\ Outdate(r, "credits")
    /\ UNCHANGED <<plan, rows, status, seen, chargedRow, refundRow, charged,
                   raced, foreign>>

-----------------------------------------------------------------------------
(* A subscription activation reads the user with the top-up row ... *)
BeginActivation(r) ==
    /\ r \in Activations
    /\ Read(r, rows \cap {"topUp"}, "idle", "activating", "activated")

(* ... and statements later, if anything was left on it, marks all of it   *)
(* as used: what was left moved to the subscription's total.               *)
CommitActivation(r) ==
    LET s == seen[r] IN
    /\ phase[r] = "activating"
    /\ phase' = [phase EXCEPT ![r] = "activated"]
    /\ IF s.total > s.usage
       THEN /\ WriteUsage(r, s.total)
            /\ status' = [status EXCEPT !["topUp"] = "PAUSED"]
            /\ charged' = [charged EXCEPT !["topUp"] = @ + (s.total - s.usage)]
            /\ foreign' = foreign \cup {"topUp"}
       ELSE /\ seen' = [seen EXCEPT ![r] = Nothing]
            /\ UNCHANGED <<usage, status, charged, foreign, stale, raced>>
    /\ UNCHANGED <<plan, rows, total, chargedRow, refundRow, credited>>

-----------------------------------------------------------------------------
(* A redemption adds credits to the free row with an atomic increment, or  *)
(* creates the row; a coupon also sets it ACTIVE.                          *)
GrantFree(n) ==
    /\ total["credits"] + n <= MaxTotal
    /\ rows' = rows \cup {"credits"}
    /\ total' = [total EXCEPT !["credits"] = @ + n]
    /\ status' \in {status, [status EXCEPT !["credits"] = "ACTIVE"]}
    /\ UNCHANGED <<plan, usage, phase, seen, history>>

(* A top-up payment upserts the top-up row with an atomic increment. *)
GrantTopUp(n) ==
    /\ total["topUp"] + n <= MaxTotal
    /\ rows' = rows \cup {"topUp"}
    /\ total' = [total EXCEPT !["topUp"] = @ + n]
    /\ status' = [status EXCEPT !["topUp"] = "ACTIVE"]
    /\ UNCHANGED <<plan, usage, phase, seen, history>>

(* A subscription row is created with its plan's credits, or a top-up is   *)
(* added to one that exists.                                               *)
GrantSubscription(row, n) ==
    /\ total[row] + n <= MaxTotal
    /\ rows' = rows \cup {row}
    /\ total' = [total EXCEPT ![row] = @ + n]
    /\ UNCHANGED <<plan, usage, status, phase, seen, history>>

(* A payment handler pauses the free credits or retires a subscription. *)
SetStatus(row) ==
    /\ row \in rows \ {"topUp"}
    /\ status' = [status EXCEPT ![row] = IF row = "credits" THEN "PAUSED" ELSE "DONE"]
    /\ UNCHANGED <<plan, rows, total, usage, phase, seen, history>>

(* The last statement of a payment handler sets the plan. *)
SetPlan(p) ==
    /\ plan # p
    /\ plan' = p
    /\ UNCHANGED <<rows, total, usage, status, phase, seen, history>>

Next ==
    \/ \E r \in Requests : \/ BeginDeduct(r)
                           \/ CommitDeduct(r)
                           \/ RejectDeduct(r)
                           \/ BeginRefund(r)
                           \/ CommitRefund(r)
                           \/ CheckImage(r)
                           \/ DebitImage(r)
                           \/ RefundImage(r)
                           \/ BeginActivation(r)
                           \/ CommitActivation(r)
    \/ \E n \in Grants : \/ GrantFree(n)
                         \/ GrantTopUp(n)
                         \/ \E row \in SubRows : GrantSubscription(row, n)
    \/ \E row \in Row : SetStatus(row)
    \/ \E p \in {"TOP_UP", "SUBSCRIPTION"} : SetPlan(p)

Spec == Init /\ [][Next]_vars
-----------------------------------------------------------------------------
(* Properties. *)

(* No sequence of charges, refunds, activations and grants, however they   *)
(* interleave, leaves a balance with more used than it holds.  The limit   *)
(* check of a charge is made against values read earlier, so this rests on *)
(* nobody lowering a total meanwhile: image generation does, taking its    *)
(* price from both columns, and the free row is exempt from its first      *)
(* debit on.                                                               *)
WithinLimit ==
    \A row \in rows : (row = "credits" => row \notin foreign) => usage[row] <= total[row]

(* A user never pays for more than what was successfully charged, moved or *)
(* generated: a stale absolute write can lose a charge but not invent one. *)
NeverOvercharged == \A row \in Row : usage[row] <= charged[row]

(* The only thing that makes a balance drift from its charges and refunds  *)
(* is a stale write: on a row where none has committed the books balance.  *)
ExactWithoutRace ==
    \A row \in Row : ~raced[row] => usage[row] = charged[row] - credited[row]

(* The deployments and other charges a user still owes for on a row. *)
Standing(row) == {r \in Deploys \cup Charges :
                     /\ chargedRow[r] = row
                     /\ phase[r] \in {"charged", "refunding", "refundFailed"}}

(* No refund crossed over to or from this row. *)
RefundsStayHome(row) ==
    \A r \in Deploys : phase[r] = "refunded" =>
        (chargedRow[r] = row <=> refundRow[r] = row)

(* What they cost together, counted credit by credit. *)
SumOfCosts(S) == Cardinality(UNION {{r} \X (1 .. Cost[r]) : r \in S})

(* On a row that only CreditService has written, with no stale write and   *)
(* no crossed refund, the usage is the sum of the charges that still       *)
(* stand: in particular every refund took its whole amount off, the clamp  *)
(* at zero never cutting one short.                                        *)
UsageIsStandingCharges ==
    \A row \in Row \ foreign : (~raced[row] /\ RefundsStayHome(row)) =>
        usage[row] = SumOfCosts(Standing(row))

(* A free or top-up row is never found DONE: the only writes of DONE, by a *)
(* charge, are rolled back with it, so the refund's re-activation branch   *)
(* never runs and an exhausted balance stays ACTIVE (credit.service.ts     *)
(* 273-280, 453-462).                                                      *)
ExhaustionLeavesNoTrace == \A row \in Row \ SubRows : status[row] # "DONE"
=============================================================================
