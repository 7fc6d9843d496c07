------------------------------ MODULE Payments ------------------------------
(***************************************************************************)
(* What one user buys: checkouts and cancellations                         *)
(* (src/src/payments/payments.service.ts); x402 subscriptions, which are   *)
(* paid in the request that buys them (src/src/payments/services/          *)
(* subscription-payment.service.ts and x402-subscription.service.ts); and  *)
(* the webhook by which Atlos reports payments                             *)
(* (src/src/payments/services/payment.webhook.service.ts).  The webhook's  *)
(* statements are single transactions, one step each; Atlos delivers a     *)
(* payment until it is acknowledged.                                       *)
(***************************************************************************)
EXTENDS Integers, FiniteSets, Sequences

CONSTANTS
    Contracts,   \* BOUND: the subscriptions that Atlos may come to bill, by their SubscriptionId
    Handlers,    \* BOUND: webhook calls at a time
    Base,        \* the credits of each tier, tiers being ordered by their number
    TopUpCredits,\* the credits of a top-up
    MaxRows,     \* BOUND: Subscription rows
    MaxPayments, \* BOUND: payments
    MaxFailures, \* BOUND: failures: a statement throws, or the process dies
    MaxSpent,    \* BOUND: what may be spent
    Scenarios    \* BOUND: what this instance lets happen in one behaviour

Happenings == {
    "cancel",    \* Atlos does not do what the webhook asks it to cancel
    "schedule",  \* the user has a subscription end with its period
    "x402",      \* the user buys a subscription by x402, once
    "spend",     \* credits are spent
    "crossing" } \* a checkout is open while another one, or a payment, is

ASSUME PaymentsAssumption ==
    /\ {"none", "x402"} \cap Contracts = {}
    /\ Base \in Seq(Nat)
    /\ TopUpCredits \in Nat
    /\ {MaxRows, MaxPayments, MaxFailures, MaxSpent} \subseteq Nat
    /\ Scenarios # {} /\ \A scenario \in Scenarios : scenario \subseteq Happenings

Tiers == DOMAIN Base

VARIABLES
    subs,        \* the user's Subscription rows, in the order of createdAt
    topUp,       \* the TopUp row, its status "none" when there is none
    free,        \* Credits.status
    currentPlan, \* users.currentPlan, "none" while there is no user
    scheduled,   \* the rows with a subscriptionCancelDate that are not cancelled yet
    buy,         \* the purchase by x402: where it is, whether it is paid, what it has read
    hook,        \* where each webhook call is and what it has read
    cancelling,  \* the row whose cancellation Atlos has confirmed, 0 if none
    spent,       \* credits charged so far
    failures,    \* failures so far
    allowed,     \* the scenario of this behaviour
    \* the payment services
    billed,      \* the contracts Atlos bills
    checkouts,   \* the rows whose checkout is still to be paid
    payments,    \* what was paid: for which contract, and whether it was acknowledged
    \* history variables, which no action reads
    granted,     \* how often each payment has been turned into credits
    forsaken     \* contracts whose row was ended while Atlos goes on billing them

rows == <<subs, topUp, free, currentPlan>>
atlos == <<billed, checkouts, payments>>
history == <<granted, forsaken>>
bounds == <<spent, failures, allowed>>
user == <<cancelling, scheduled, bounds, buy>>
vars == <<rows, hook, user, atlos, history>>

-----------------------------------------------------------------------------
Row == [plan : Tiers, ref : Contracts \cup {"none", "x402"},
        status : {"CREATED", "ACTIVE", "DONE", "CANCELLED"},
        total : Nat, usage : Nat]

Sites == {"idle", "readUser", "increment", "readDone", "upsert",
          "readTopUp", "findCreated", "findActive", "findOther", "cancelOld", "closeOld",
          "renew", "activate", "retire", "setPlan", "pauseFree", "record"}

(* A webhook call: its payment, the row it is about, another row it is to  *)
(* close, and the columns it has read.                                     *)
Call == [at : Sites, payment : Nat, sub : Nat, old : Nat,
         total : Nat, rest : Nat, full : Nat]

Idle == [at |-> "idle", payment |-> 0, sub |-> 0, old |-> 0,
         total |-> 0, rest |-> 0, full |-> 0]

(* The purchase by x402.  "library": on an EVM network, where the          *)
(* middleware of x402-express takes the money.                             *)
Open == {"verify", "settle", "send", "wallet", "find", "create"}
Over == {"served", "refused", "told", "silent"}

Purchase == [at : {"none"} \cup Open \cup Over, plan : {0} \cup Tiers,
             paid : {"no", "yes", "library"},
             unheard : BOOLEAN, \* an answer about the payment was lost, or the process died
             full : Nat, pauses : SUBSET {"free", "topUp"}]

NoPurchase == [at |-> "none", plan |-> 0, paid |-> "no", unheard |-> FALSE,
               full |-> 0, pauses |-> {}]

TypeOK ==
    /\ subs \in Seq(Row)
    /\ topUp \in [status : {"none", "ACTIVE", "PAUSED"}, total : Nat, usage : Nat]
    /\ free \in {"ACTIVE", "PAUSED"}
    /\ currentPlan \in {"none", "FREE", "TOP_UP", "SUBSCRIPTION"}
    /\ buy \in Purchase
    /\ hook \in [Handlers -> Call]
    /\ cancelling \in 0 .. Len(subs)
    /\ scheduled \subseteq DOMAIN subs
    /\ {spent, failures} \subseteq Nat
    /\ allowed \in Scenarios
    /\ billed \subseteq Contracts
    /\ checkouts \subseteq DOMAIN subs
    /\ payments \in Seq([ref : Contracts \cup {"none"}, state : {"due", "acknowledged"}])
    /\ granted \in [DOMAIN payments -> Nat]
    /\ forsaken \subseteq Contracts
    \* every call is about a payment, and the rows it has found exist
    /\ \A h \in Handlers : hook[h].at # "idle" =>
            /\ hook[h].payment \in DOMAIN payments
            /\ {hook[h].sub, hook[h].old} \subseteq 0 .. Len(subs)

Init ==
    /\ subs = <<>>
    /\ topUp = [status |-> "none", total |-> 0, usage |-> 0]
    /\ free = "ACTIVE"
    /\ allowed \in Scenarios
    /\ currentPlan \in {"FREE"} \cup (IF "x402" \in allowed THEN {"none"} ELSE {})
    /\ buy = NoPurchase
    /\ hook = [h \in Handlers |-> Idle]
    /\ cancelling = 0
    /\ scheduled = {}
    /\ spent = 0
    /\ failures = 0
    /\ billed = {}
    /\ checkouts = {}
    /\ payments = <<>>
    /\ granted = <<>>
    /\ forsaken = {}

-----------------------------------------------------------------------------
RowsIn(status) == {i \in DOMAIN subs : subs[i].status = status}

RowsOf(ref) == {i \in RowsIn("ACTIVE") : subs[i].ref = ref}

(* findFirst ... orderBy createdAt desc, 0 when there is no such row.      *)
Newest(found) ==
    IF found = {} THEN 0 ELSE CHOOSE i \in found : \A j \in found : j <= i

Left(row) == IF row.total > row.usage THEN row.total - row.usage ELSE 0

NewRow(plan, ref, status, total) ==
    [plan |-> plan, ref |-> ref, status |-> status,
     total |-> total, usage |-> 0]

SetRow(i, row) == subs' = [subs EXCEPT ![i] = row]

AddRow(row) == Len(subs) < MaxRows /\ subs' = Append(subs, row)

(* No subscription is being bought or renewed: what the user waits for     *)
(* before the next purchase, unless the instance lets them cross.          *)
NothingPending ==
    \/ "crossing" \in allowed
    \/ /\ checkouts = {}
       /\ \A p \in DOMAIN payments :
            payments[p].ref = "none" \/ payments[p].state = "acknowledged"
       /\ \A h \in Handlers :
            hook[h].at # "idle" => payments[hook[h].payment].ref = "none"

-----------------------------------------------------------------------------
(* The user: POST /payments/...                                            *)

(* What an upgrade carries over: what is left when the checkout starts.    *)
Carried(upgrade) ==
    IF upgrade THEN Left(subs[Newest(RowsIn("ACTIVE"))]) ELSE 0

CreateSubscription(plan, upgrade) ==
    /\ currentPlan # "none"
    /\ NothingPending
    /\ upgrade => /\ RowsIn("ACTIVE") # {}
                  /\ plan > subs[Newest(RowsIn("ACTIVE"))].plan
    /\ AddRow(NewRow(plan, "none", "CREATED", Base[plan] + Carried(upgrade)))
    /\ checkouts' = checkouts \cup {Len(subs) + 1}
    /\ UNCHANGED <<topUp, free, currentPlan, hook, user, billed, payments, history>>

(* cancelAtlosSubscription: the call of Atlos; when it throws nothing has  *)
(* happened.                                                               *)
BeginCancel(i) ==
    /\ cancelling = 0
    /\ i \in RowsIn("ACTIVE") /\ subs[i].ref \in Contracts
    /\ billed' = billed \ {subs[i].ref}
    /\ cancelling' = i
    /\ UNCHANGED <<rows, hook, scheduled, bounds, buy, checkouts, payments, history>>

(* Its UPDATE, which does not look at the row again.                       *)
FinishCancel ==
    /\ cancelling # 0
    /\ cancelling' = 0
    /\ \/ /\ SetRow(cancelling, [subs[cancelling] EXCEPT !.status = "CANCELLED"])
          /\ scheduled' = scheduled \ {cancelling}
          /\ UNCHANGED failures
       \/ /\ failures < MaxFailures
          /\ failures' = failures + 1
          /\ UNCHANGED <<subs, scheduled>>
    /\ UNCHANGED <<topUp, free, currentPlan, hook, spent, allowed, buy, atlos, history>>

(* cancelSubscription: a date is written on the running row, no more.      *)
ScheduleCancel(i) ==
    /\ "schedule" \in allowed
    /\ i \in RowsIn("ACTIVE") \ scheduled
    /\ scheduled' = scheduled \cup {i}
    /\ UNCHANGED <<rows, hook, cancelling, bounds, buy, atlos, history>>

SwitchBackToSubscription ==
    /\ RowsIn("ACTIVE") # {}
    /\ currentPlan' = "SUBSCRIPTION"
    /\ UNCHANGED <<subs, topUp, free, hook, user, atlos, history>>

(* The first login of the wallet.                                          *)
LogIn ==
    /\ currentPlan = "none"
    /\ currentPlan' = "FREE"
    /\ UNCHANGED <<subs, topUp, free, hook, user, atlos, history>>

(* A charge, by CreditService: on any of the subscription rows, as it has  *)
(* no order for them.                                                      *)
Spend ==
    /\ "spend" \in allowed /\ spent < MaxSpent
    /\ spent' = spent + 1
    /\ \/ /\ currentPlan = "TOP_UP"
          /\ topUp.usage < topUp.total
          /\ topUp' = [topUp EXCEPT !.usage = @ + 1]
          /\ UNCHANGED subs
       \/ /\ currentPlan = "SUBSCRIPTION"
          /\ \E i \in DOMAIN subs :
                /\ subs[i].usage < subs[i].total
                /\ SetRow(i, [subs[i] EXCEPT !.usage = @ + 1])
          /\ UNCHANGED topUp
    /\ UNCHANGED <<free, currentPlan, hook, cancelling, scheduled, failures, allowed, buy,
                   atlos, history>>

-----------------------------------------------------------------------------
(* A purchase by x402: GET or POST /x402/subscriptions/:network/...        *)

Buying(from, to) == buy.at = from /\ buy' = [buy EXCEPT !.at = to]

BuyFrame == UNCHANGED <<rows, hook, cancelling, scheduled, bounds, atlos, history>>

(* On Solana the code sees to the payment itself.  The request carries a   *)
(* signed transfer of the price; without one it is answered 402 with the   *)
(* price and nothing happens.                                              *)
StartX402(plan) ==
    /\ "x402" \in allowed /\ buy = NoPurchase
    /\ buy' = [NoPurchase EXCEPT !.at = "verify", !.plan = plan]
    /\ BuyFrame

(* On an EVM network the middleware, which has a route for every plan,     *)
(* answers 402 or finds the payment valid; then it calls the handler.      *)
StartEvm(plan) ==
    /\ "x402" \in allowed /\ buy = NoPurchase
    /\ buy' = [NoPurchase EXCEPT !.at = "wallet", !.plan = plan, !.paid = "library"]
    /\ BuyFrame

(* The handler looks for the payer's wallet in the payment and in the      *)
(* headers.  Without a valid one it answers with an error, and the library *)
(* does not take the money.                                                *)
HandleVerified ==
    /\ \/ Buying("wallet", "find")
       \/ buy.at = "wallet" /\ buy' = [NoPurchase EXCEPT !.at = "refused"]
    /\ BuyFrame

(* POST /verify at the facilitator.  Whatever is wrong, the transaction is *)
(* sent without the facilitator; only a setting that is missing refuses    *)
(* the payment at once.                                                    *)
Verify ==
    /\ \/ Buying("verify", "settle")
       \/ Buying("verify", "send")
       \/ Buying("verify", "refused")
    /\ BuyFrame

(* POST /settle: the facilitator sends the transaction.  Its answer may be *)
(* a failure, or be lost when the money has moved.                         *)
Settle ==
    /\ buy.at = "settle"
    /\ \/ buy' = [buy EXCEPT !.at = "find", !.paid = "yes"]
       \/ buy' = [buy EXCEPT !.at = "send", !.paid = "yes", !.unheard = TRUE]
       \/ buy' = [buy EXCEPT !.at = "send"]
    /\ BuyFrame

(* Variant: a confirmation that reports a failure is taken for one.        *)
SendUnchecked ==
    /\ Buying("send", "find") \/ Buying("send", "refused")
    /\ BuyFrame

(* The transaction is sent to Solana and confirmed; the chain refuses one  *)
(* that it has already.  Any error refuses the payment, one that comes     *)
(* after the money has moved too.                                          *)
SendDirect ==
    /\ buy.at = "send"
    /\ \/ /\ buy.paid = "no"
          /\ \/ buy' = [buy EXCEPT !.at = "find", !.paid = "yes"]
             \/ buy' = [buy EXCEPT !.at = "refused", !.paid = "yes", !.unheard = TRUE]
       \/ buy' = [buy EXCEPT !.at = "refused"]
    /\ BuyFrame

(* createSubscription: the payer is read, or made a user whose plan is     *)
(* SUBSCRIPTION already.                                                   *)
FindPayer ==
    /\ buy.at = "find"
    /\ IF currentPlan = "none"
       THEN /\ currentPlan' = "SUBSCRIPTION"
            /\ buy' = [buy EXCEPT !.at = "create"]
       ELSE /\ UNCHANGED currentPlan
            /\ buy' = [buy EXCEPT !.at = "create", !.full = topUp.total,
                    !.pauses = {p \in {"free"} : free = "ACTIVE"}
                          \cup {p \in {"topUp"} : topUp.status = "ACTIVE"}]
    /\ UNCHANGED <<subs, topUp, free, hook, cancelling, scheduled, bounds, atlos, history>>

(* Its transaction: any running subscription is ended without Atlos, the   *)
(* top-up as it was read is written off.                                   *)
CreateByX402 ==
    /\ buy.at = "create"
    /\ Len(subs) < MaxRows
    /\ LET added == NewRow(buy.plan, "x402", "ACTIVE", Base[buy.plan])
       IN  IF RowsIn("ACTIVE") = {}
           THEN subs' = Append(subs, added) /\ UNCHANGED forsaken
           ELSE \E i \in RowsIn("ACTIVE") :
                    /\ subs' = Append([subs EXCEPT ![i].status = "CANCELLED"], added)
                    /\ forsaken' = forsaken \cup ({subs[i].ref} \cap billed)
    /\ currentPlan' = "SUBSCRIPTION"
    /\ free' = IF "free" \in buy.pauses THEN "PAUSED" ELSE free
    /\ topUp' = IF "topUp" \in buy.pauses
                THEN [topUp EXCEPT !.usage = buy.full, !.status = "PAUSED"]
                ELSE topUp
    /\ buy' = [NoPurchase EXCEPT !.at = "served", !.paid = buy.paid, !.unheard = buy.unheard]
    /\ UNCHANGED <<hook, cancelling, scheduled, bounds, atlos, granted>>

(* A statement throws once the payment is settled: the answer tells the    *)
(* payer so and to contact support.  Or the process dies.                  *)
FailX402 ==
    /\ failures < MaxFailures
    /\ failures' = failures + 1
    /\ \/ /\ buy.at \in {"find", "create"}
          /\ buy' = [NoPurchase EXCEPT !.at = "told", !.paid = buy.paid, !.unheard = buy.unheard]
       \/ /\ buy.at \in Open
          /\ buy' = [NoPurchase EXCEPT !.at = "silent", !.paid = buy.paid, !.unheard = TRUE]
    /\ UNCHANGED <<rows, hook, cancelling, scheduled, spent, allowed, atlos, history>>

X402 ==
    \/ \E plan \in Tiers : StartX402(plan) \/ StartEvm(plan)
    \/ HandleVerified
    \/ Verify \/ Settle \/ SendDirect
    \/ FindPayer \/ CreateByX402 \/ FailX402

-----------------------------------------------------------------------------
(* Atlos                                                                   *)

Paid(ref) ==
    /\ Len(payments) < MaxPayments
    /\ payments' = Append(payments, [ref |-> ref, state |-> "due"])
    /\ granted' = Append(granted, 0)

(* The user pays a checkout; Atlos makes it a contract of its own.         *)
PayCheckout(i, ref) ==
    /\ i \in checkouts
    /\ \A p \in DOMAIN payments : payments[p].ref # ref
    /\ Paid(ref)
    /\ checkouts' = checkouts \ {i}
    /\ billed' = billed \cup {ref}
    /\ UNCHANGED <<rows, hook, user, forsaken>>

(* The next period of a contract; the last one has been acknowledged long  *)
(* ago.                                                                    *)
BillPeriod(ref) ==
    /\ ref \in billed
    /\ \A p \in DOMAIN payments : payments[p].ref = ref => payments[p].state # "due"
    /\ NothingPending
    /\ Paid(ref)
    /\ UNCHANGED <<rows, hook, user, billed, checkouts, forsaken>>

(* A top-up: the user has an invoice made, which takes a user, is shown    *)
(* what it can be paid with, and pays.                                     *)
PayTopUp ==
    /\ currentPlan # "none"
    /\ Paid("none")
    /\ UNCHANGED <<rows, hook, user, billed, checkouts, forsaken>>

(* confirmPayinCompleted is called: with a SubscriptionId it is an         *)
(* activation, without one a top-up.                                       *)
Deliver(h, p) ==
    /\ hook[h].at = "idle"
    /\ payments[p].state = "due"
    /\ \A other \in Handlers : hook[other].payment # p
    /\ hook' = [hook EXCEPT ![h] =
            [Idle EXCEPT !.at = IF payments[p].ref = "none" THEN "readUser" ELSE "readTopUp",
                         !.payment = p]]
    /\ UNCHANGED <<rows, user, atlos, history>>

-----------------------------------------------------------------------------
(* The webhook                                                             *)

Goto(h, from, to) ==
    /\ hook[h].at = from
    /\ hook' = [hook EXCEPT ![h].at = to]

RefOf(h) == payments[hook[h].payment].ref

Grant(h) == granted' = [granted EXCEPT ![hook[h].payment] = @ + 1]

Answer(h) ==
    /\ hook' = [hook EXCEPT ![h] = Idle]
    /\ payments' = [payments EXCEPT ![hook[h].payment].state = "acknowledged"]

(* Variant: the error is answered like a success.                          *)
FailSwallowed(h) ==
    /\ failures < MaxFailures
    /\ failures' = failures + 1
    /\ hook[h].at # "idle"
    /\ Answer(h)
    /\ UNCHANGED <<rows, cancelling, scheduled, spent, allowed, buy, billed, checkouts, history>>

(* A statement throws: the answer is 500.  What was written before stays.  *)
Fail(h) ==
    /\ failures < MaxFailures
    /\ failures' = failures + 1
    /\ hook[h].at # "idle"
    /\ hook' = [hook EXCEPT ![h] = Idle]
    /\ forsaken' = IF hook[h].at = "renew" THEN forsaken \cup {RefOf(h)} ELSE forsaken
    /\ UNCHANGED <<rows, cancelling, scheduled, spent, allowed, buy, atlos, granted>>

(* Top-up: handleAtlosTopUpPayment                                         *)

ReadUser(h) ==
    /\ hook[h].at = "readUser"
    /\ LET running == Newest(RowsIn("ACTIVE"))
       IN  hook' = [hook EXCEPT ![h].sub = running,
                                ![h].at = IF running = 0 THEN "readDone" ELSE "increment"]
    /\ UNCHANGED <<rows, user, atlos, history>>

IncrementSubscription(h) ==
    /\ Goto(h, "increment", "pauseFree")
    /\ subs' = [subs EXCEPT ![hook[h].sub].total = @ + TopUpCredits]
    /\ Grant(h)
    /\ UNCHANGED <<topUp, free, currentPlan, user, atlos, forsaken>>

(* What a subscription that is DONE has left comes on top.                 *)
ReadDone(h) ==
    /\ hook[h].at = "readDone"
    /\ LET done == Newest(RowsIn("DONE"))
       IN  hook' = [hook EXCEPT ![h].at = "pauseFree",
                                ![h].rest = TopUpCredits +
                                    (IF done = 0 THEN 0 ELSE Left(subs[done]))]
    /\ UNCHANGED <<rows, user, atlos, history>>

UpsertTopUp(h) ==
    /\ Goto(h, "upsert", "setPlan")
    /\ topUp' = [topUp EXCEPT !.total = @ + hook[h].rest, !.status = "ACTIVE"]
    /\ Grant(h)
    /\ UNCHANGED <<subs, free, currentPlan, user, atlos, forsaken>>

(* Subscription: handleSubscriptionActivation                              *)

ReadTopUp(h) ==
    /\ hook[h].at = "readTopUp"
    /\ hook' = [hook EXCEPT ![h].at = "findCreated",
                            ![h].rest = Left(topUp), ![h].full = topUp.total]
    /\ UNCHANGED <<rows, user, atlos, history>>

(* Variant: cancelled subscriptions are found as well.                     *)
FindCreatedOrCancelled(h) ==
    /\ hook[h].at = "findCreated"
    /\ LET created == Newest(RowsIn("CREATED") \cup RowsIn("CANCELLED"))
       IN  hook' = [hook EXCEPT ![h].at = "findActive", ![h].sub = created,
                                ![h].total = IF created = 0 THEN 0 ELSE subs[created].total]
    /\ UNCHANGED <<rows, user, atlos, history>>

(* The newest checkout, whichever contract it belongs to.                  *)
FindCreated(h) ==
    /\ hook[h].at = "findCreated"
    /\ LET created == Newest(RowsIn("CREATED"))
       IN  hook' = [hook EXCEPT ![h].at = "findActive", ![h].sub = created,
                                ![h].total = IF created = 0 THEN 0 ELSE subs[created].total]
    /\ UNCHANGED <<rows, user, atlos, history>>

(* Without a checkout it is a renewal, or nothing that is known: then the  *)
(* payment is acknowledged all the same.                                   *)
FindActive(h) ==
    /\ hook[h].at = "findActive"
    /\ LET same == Newest(RowsOf(RefOf(h)))
       IN  \/ /\ hook[h].sub # 0
              /\ Goto(h, "findActive", "findOther")
              /\ UNCHANGED payments
           \/ /\ hook[h].sub = 0 /\ same # 0
              /\ hook' = [hook EXCEPT ![h].at = "closeOld", ![h].old = same]
              /\ UNCHANGED payments
           \/ /\ hook[h].sub = 0 /\ same = 0
              /\ Answer(h)
    /\ UNCHANGED <<rows, user, billed, checkouts, history>>

(* A subscription of another tier gives way to the new one.                *)
Replaces(new, other) == new.plan # other.plan /\ new.ref # other.ref

FindOther(h) ==
    /\ hook[h].at = "findOther"
    /\ LET new == hook[h].sub
           other == Newest(RowsIn("ACTIVE") \ {new})
       IN  hook' = IF other # 0 /\ Replaces(subs[new], subs[other])
                   THEN [hook EXCEPT ![h].at = "cancelOld", ![h].old = other]
                   ELSE [hook EXCEPT ![h].at = "activate"]
    /\ UNCHANGED <<rows, user, atlos, history>>

(* Variant: the row is closed and Atlos never told.                        *)
CancelOldForgotten(h) ==
    /\ Goto(h, "cancelOld", "closeOld")
    /\ UNCHANGED <<rows, user, atlos, history>>

(* The private cancelAtlosSubscription of the webhook only logs an error.  *)
CancelOld(h) ==
    /\ Goto(h, "cancelOld", "closeOld")
    /\ LET ref == subs[hook[h].old].ref
       IN  \/ billed' = billed \ {ref} /\ UNCHANGED forsaken
           \/ /\ "cancel" \in allowed
              /\ forsaken' = forsaken \cup ({ref} \cap billed)
              /\ UNCHANGED billed
    /\ UNCHANGED <<rows, user, checkouts, payments, granted>>

(* Variant: the old row stays as it is.                                    *)
CloseOldForgotten(h) ==
    /\ Goto(h, "closeOld", IF hook[h].sub = 0 THEN "renew" ELSE "activate")
    /\ UNCHANGED <<rows, user, atlos, history>>

CloseOld(h) ==
    /\ Goto(h, "closeOld", IF hook[h].sub = 0 THEN "renew" ELSE "activate")
    /\ SetRow(hook[h].old, [subs[hook[h].old] EXCEPT !.status = "DONE"])
    /\ UNCHANGED <<topUp, free, currentPlan, user, atlos, history>>

AfterGrant(h) == IF hook[h].rest > 0 THEN "retire" ELSE "setPlan"

Renew(h) ==
    /\ Goto(h, "renew", AfterGrant(h))
    /\ LET plan == subs[hook[h].old].plan
       IN  AddRow(NewRow(plan, RefOf(h), "ACTIVE", Base[plan] + hook[h].rest))
    /\ Grant(h)
    /\ UNCHANGED <<topUp, free, currentPlan, user, atlos, forsaken>>

(* An absolute write, computed from the total read by FindCreated.         *)
Activate(h) ==
    /\ Goto(h, "activate", AfterGrant(h))
    /\ SetRow(hook[h].sub, [subs[hook[h].sub] EXCEPT !.status = "ACTIVE",
                !.total = hook[h].total + hook[h].rest, !.ref = RefOf(h)])
    /\ Grant(h)
    /\ UNCHANGED <<topUp, free, currentPlan, user, atlos, forsaken>>

(* Variant: whatever the top-up holds by now is marked used up.            *)
RetireAll(h) ==
    /\ Goto(h, "retire", "setPlan")
    /\ topUp' = [topUp EXCEPT !.usage = topUp.total, !.status = "PAUSED"]
    /\ UNCHANGED <<subs, free, currentPlan, user, atlos, history>>

(* The top-up as it was read is marked used up.                            *)
Retire(h) ==
    /\ Goto(h, "retire", "setPlan")
    /\ topUp' = [topUp EXCEPT !.usage = hook[h].full, !.status = "PAUSED"]
    /\ UNCHANGED <<subs, free, currentPlan, user, atlos, history>>

(* What both end with; what the call has read is of no use any more.       *)

SetPlan(h) ==
    /\ hook[h].at = "setPlan"
    /\ hook' = [hook EXCEPT ![h] =
            [Idle EXCEPT !.at = IF RefOf(h) = "none" THEN "record" ELSE "pauseFree",
                         !.payment = hook[h].payment]]
    /\ currentPlan' = IF RefOf(h) = "none" THEN "TOP_UP" ELSE "SUBSCRIPTION"
    /\ UNCHANGED <<subs, topUp, free, user, atlos, history>>

PauseFree(h) ==
    /\ Goto(h, "pauseFree", IF RefOf(h) = "none" /\ hook[h].sub = 0 THEN "upsert" ELSE "record")
    /\ free' = "PAUSED"
    /\ UNCHANGED <<subs, topUp, currentPlan, user, atlos, history>>

(* The invoice is recorded and looked up; being CONFIRMED already it is    *)
(* skipped.                                                                *)
Record(h) ==
    /\ hook[h].at = "record"
    /\ Answer(h)
    /\ UNCHANGED <<rows, user, billed, checkouts, history>>

-----------------------------------------------------------------------------
Webhook(h) ==
    \/ \E p \in DOMAIN payments : Deliver(h, p)
    \/ ReadUser(h) \/ IncrementSubscription(h) \/ ReadDone(h) \/ UpsertTopUp(h)
    \/ ReadTopUp(h) \/ FindCreated(h) \/ FindActive(h) \/ FindOther(h)
    \/ CancelOld(h) \/ CloseOld(h) \/ Renew(h) \/ Activate(h) \/ Retire(h)
    \/ SetPlan(h) \/ PauseFree(h) \/ Record(h)
    \/ Fail(h)

Next ==
    \/ \E plan \in Tiers, upgrade \in BOOLEAN : CreateSubscription(plan, upgrade)
    \/ \E i \in DOMAIN subs : BeginCancel(i) \/ ScheduleCancel(i)
    \/ FinishCancel
    \/ SwitchBackToSubscription
    \/ LogIn
    \/ X402
    \/ Spend
    \/ \E i \in DOMAIN subs, ref \in Contracts : PayCheckout(i, ref)
    \/ \E ref \in Contracts : BillPeriod(ref)
    \/ PayTopUp
    \/ \E h \in Handlers : Webhook(h)

Spec == Init /\ [][Next]_vars
-----------------------------------------------------------------------------
(* Properties                                                              *)

(* A subscription that is over (payment.webhook.service.ts:444, 526,       *)
(* payments.service.ts:200, x402-subscription.service.ts:143) never        *)
(* becomes usable again, whatever reads of it are still in hand.           *)
EndedIsFinal ==
    [][\A i \in DOMAIN subs : subs[i].status \in {"DONE", "CANCELLED"} =>
            subs'[i].status \in {"DONE", "CANCELLED"}]_vars

(* A contract has at most one running subscription: renewals, retries and  *)
(* repeated deliveries (payment.webhook.service.ts:422-466) replace the    *)
(* row and never add one.                                                  *)
OneRowPerContract ==
    \A ref \in Contracts : Cardinality(RowsOf(ref)) <= 1

(* A payment is acknowledged without credits (the return of                *)
(* payment.webhook.service.ts:490) only if its contract is no longer       *)
(* billed or was one that the code ended without Atlos.                    *)
PaidIsGranted ==
    \A p \in DOMAIN payments :
        payments[p].state = "acknowledged" /\ granted[p] = 0 =>
            payments[p].ref \notin billed \/ payments[p].ref \in forsaken

(* As long as Atlos bills a contract, a running subscription stands for it *)
(* or its payment is still to be dealt with, unless the code ended it      *)
(* without Atlos (payment.webhook.service.ts:513-532, payments.service.ts: *)
(* 185-207: Atlos is told first, the row is closed after).                 *)
BilledIsServed ==
    \A ref \in billed :
        \/ RowsOf(ref) # {}
        \/ \E p \in DOMAIN payments : payments[p].ref = ref /\ payments[p].state = "due"
        \/ \E h \in Handlers : hook[h].at # "idle" /\ RefOf(h) = ref
        \/ ref \in forsaken

(* What is taken off the top-up by an activation has been put on its       *)
(* subscription (payment.webhook.service.ts:469-480, 542-568), whatever    *)
(* was bought or spent since the top-up was read, unless a purchase by     *)
(* x402 (x402-subscription.service.ts:221) has meanwhile put the top-up    *)
(* back to what that purchase had read of it.                              *)
TransferCarriesAll ==
    [][\A h \in Handlers : hook[h].at = "retire" /\ hook'[h].at = "setPlan" =>
            buy.at = "served" \/ Left(topUp) - Left(topUp') <= hook[h].rest]_vars

(* No subscription bought on Solana stands without its payment having      *)
(* moved; and a payment that has moved ends with the subscription or with  *)
(* the answer that sends the payer to support (subscription-payment.       *)
(* service.ts 290-518), never with "verification failed", unless the       *)
(* facilitator's or the chain's answer was lost or the process died.       *)
X402Settles ==
    /\ (\E i \in DOMAIN subs : subs[i].ref = "x402") => buy.paid # "no"
    /\ buy.at \in Over /\ buy.paid = "yes" => buy.at \in {"served", "told"} \/ buy.unheard
=============================================================================
