----------------------------- MODULE MCPayments -----------------------------
(* Instances of Payments for TLC.  The dates of BillingDates are checked    *)
(* here as well, once, over years of all kinds.                             *)
EXTENDS Payments, BillingDates, TLC

CONSTANTS a1, a2, h1, h2

MCContracts == {a1, a2}
MCTwoHandlers == {h1, h2}
(* What a charge leaves matters where a plan follows another: x402 starts  *)
(* with a full one whatever was spent.                                     *)
MCScenarios == {{"cancel", "x402"}, {"cancel", "spend"}, {"schedule", "spend"}}
MCYears == {1999, 2000, 2023, 2024, 2025, 2099, 2100}
MCBase == <<1, 2>>

MCSymmetry == Permutations({a1, a2}) \cup Permutations({h1, h2})

ASSUME MonthlyAsPromised /\ YearlyAsPromised
=============================================================================
