------------------------- MODULE DeploymentContract -------------------------
(***************************************************************************)
(* What a deployment request promises about money, whatever happens to the *)
(* deployment afterwards: it is paid once and in advance; a paid request   *)
(* is either delivered to the deploy queue or given back, never both; and  *)
(* only what was delivered is ever renewed.                                *)
(***************************************************************************)
EXTENDS Integers

CONSTANTS Deployments, Budget

VARIABLES
    purse,       \* what the user has left
    deal         \* the state of each request

Deals == {"open", "paid", "delivered", "void"}

ContractTypeOK == purse \in Nat /\ deal \in [Deployments -> Deals]

Init ==
    /\ purse = Budget
    /\ deal = [d \in Deployments |-> "open"]

Move(d, from, to) == deal[d] = from /\ deal' = [deal EXCEPT ![d] = to]

Pay(d) == purse > 0 /\ purse' = purse - 1 /\ Move(d, "open", "paid")

Deliver(d) == Move(d, "paid", "delivered") /\ UNCHANGED purse

GiveBack(d) == purse' = purse + 1 /\ Move(d, "paid", "void")

Renew(d) ==
    /\ deal[d] = "delivered"
    /\ purse > 0
    /\ purse' = purse - 1
    /\ UNCHANGED deal

Next == \E d \in Deployments : Pay(d) \/ Deliver(d) \/ GiveBack(d) \/ Renew(d)

Spec == Init /\ [][Next]_<<purse, deal>>
=============================================================================
