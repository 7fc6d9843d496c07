--------------------------- MODULE PaymentsProofs ---------------------------
(***************************************************************************)
(* What Payments keeps for every number of contracts, webhook calls, rows, *)
(* payments and failures: subscriptions agree with what Atlos bills and    *)
(* with what was paid.                                                     *)
(*                                                                         *)
(* The argument is that one subscription at a time is being bought or      *)
(* renewed (NoCrossing: what the behaviours called "crossing" break): the  *)
(* call about it is then alone with the rows, and what it has read of them *)
(* holds until it writes.  Every other step, however it interleaves, only  *)
(* lets the rows age: they keep their contract, and end.                   *)
(*                                                                         *)
(* The second part is about the dates of BillingDates.                     *)
(***************************************************************************)
EXTENDS Payments, BillingDates, TLAPS, FiniteSetTheorems, WellFoundedInduction

Ended == {"DONE", "CANCELLED"}

TopUpSites == {"readUser", "increment", "readDone", "upsert"}
ContractSites == {"readTopUp", "findCreated", "findActive", "findOther", "cancelOld", "closeOld",
                  "renew", "activate", "retire"}
LastSites == {"setPlan", "pauseFree", "record"}

(* h is about the subscription of a contract. *)
Activating(h) == hook[h].at # "idle" /\ RefOf(h) # "none"

(* A call has found the rows it is to change, and is the only one about    *)
(* its payment, which is not acknowledged yet.                             *)
CallsOK ==
    \A h \in Handlers :
        /\ hook[h].at \in {"increment", "findOther", "cancelOld", "activate"}
              => hook[h].sub \in DOMAIN subs
        /\ hook[h].at \in {"cancelOld", "closeOld", "renew"} => hook[h].old \in DOMAIN subs
        /\ hook[h].at \in TopUpSites => RefOf(h) = "none"
        /\ hook[h].at \in ContractSites => RefOf(h) \in Contracts
        /\ hook[h].at # "idle" => payments[hook[h].payment].state = "due"
        /\ \A other \in Handlers \ {h} :
              hook[h].at # "idle" /\ hook[other].at # "idle"
                  => hook[h].payment # hook[other].payment

PInv == TypeOK /\ CallsOK /\ (buy.at \in Open => buy.plan \in Tiers)
-----------------------------------------------------------------------------
NoCrossing == \A scenario \in Scenarios : "crossing" \notin scenario

Pending(p) == payments[p].ref # "none" /\ payments[p].state = "due"
Created == RowsIn("CREATED")

(* One subscription is bought or renewed at a time. *)
OneAtATime ==
    /\ \A p, q \in DOMAIN payments : Pending(p) /\ Pending(q) => p = q
    /\ checkouts # {} => \A p \in DOMAIN payments : ~Pending(p)
    /\ checkouts \subseteq Created
    /\ \A i, j \in Created : i = j
    /\ \A i \in Created : i \in checkouts \/ \E p \in DOMAIN payments : Pending(p)

(* Contracts begin with a payment; that of a checkout has no row yet.      *)
Contracted ==
    /\ \A i \in DOMAIN subs : subs[i].ref \in Contracts
          => \E p \in DOMAIN payments : payments[p].ref = subs[i].ref
    /\ \A ref \in billed : \E p \in DOMAIN payments : payments[p].ref = ref
    /\ Created # {} => \A p \in DOMAIN payments :
          Pending(p) => \A j \in DOMAIN subs : subs[j].ref # payments[p].ref

OneRow == \A ref \in Contracts : \A i, j \in RowsOf(ref) : i = j

(* What a call has read of the rows still holds. *)
Reading(h) ==
    LET c == hook[h] IN
    /\ c.at \in {"findActive", "findOther", "cancelOld", "closeOld", "activate"} /\ c.sub # 0
          => c.sub \in Created
    /\ c.at \in {"findActive", "closeOld"} /\ c.sub = 0 => Created = {}
    /\ c.at \in {"renew", "retire"} \cup LastSites => Created = {}
    /\ c.at \in {"cancelOld", "closeOld"} => c.old \notin Created
    /\ c.at = "closeOld" /\ c.sub = 0
          => subs[c.old].ref = RefOf(h) /\ RowsOf(RefOf(h)) \subseteq {c.old}
    /\ c.at = "closeOld" /\ c.sub # 0 => subs[c.old].ref \notin billed \ forsaken
    /\ c.at = "renew" => RowsOf(RefOf(h)) = {}
    /\ c.at \in {"retire"} \cup LastSites => granted[c.payment] > 0

ReadingOK == \A h \in Handlers : Activating(h) => Reading(h)

CancellingOK ==
    cancelling # 0 => /\ cancelling \notin Created
                      /\ subs[cancelling].ref \notin billed

Served ==
    \A ref \in billed :
        \/ RowsOf(ref) # {}
        \/ Created # {} /\ \E p \in DOMAIN payments : Pending(p) /\ payments[p].ref = ref
        \/ \E h \in Handlers : hook[h].at = "renew" /\ RefOf(h) = ref
        \/ ref \in forsaken

SubscriptionInv ==
    /\ PInv /\ OneAtATime /\ Contracted /\ OneRow /\ ReadingOK /\ CancellingOK /\ Served
    /\ PaidIsGranted
-----------------------------------------------------------------------------
(* What an activation has read of the top-up has only grown since. *)
CarriesOK ==
    \A h \in Handlers :
        hook[h].at \in ContractSites \ {"readTopUp"} =>
            \/ buy.at = "served"
            \/ hook[h].full <= topUp.total /\ hook[h].full <= topUp.usage + hook[h].rest

(* The purchase by x402, in its order. *)
Bought ==
    /\ (\E i \in DOMAIN subs : subs[i].ref = "x402") => buy.at = "served" /\ buy.paid # "no"
    /\ buy.at \in {"none", "verify", "settle"} => buy.paid = "no"
    /\ buy.at = "wallet" => buy.paid = "library"
    /\ buy.at = "send" => buy.paid = "no" \/ (buy.paid = "yes" /\ buy.unheard)
    /\ buy.at \in {"find", "create", "served"} => buy.paid # "no"
    /\ buy.at \in Over /\ buy.paid = "yes" => buy.at \in {"served", "told"} \/ buy.unheard
-----------------------------------------------------------------------------
(* The newest of a set of rows exists. *)

LEMMA NoDescent == \A f \in [Nat -> Nat] : ~ \A n \in Nat : f[n + 1] < f[n]
<1> DEFINE R == OpToRel(<, Nat)
<1>1. IsWellFoundedOn(R, Nat)
    BY NatLessThanWellFounded
<1>2. \A x, y \in Nat : x < y => <<x, y>> \in R
    BY DEF OpToRel
<1> HIDE DEF R
<1>3. QED
    BY <1>1, <1>2 DEF IsWellFoundedOn

LEMMA LastExists ==
    ASSUME NEW n \in Nat, NEW T, T \subseteq 1 .. n, T # {}
    PROVE  \E x \in T : \A y \in T : y <= x
<1> DEFINE R == {r \in (1 .. n) \X (1 .. n) : r[2] < r[1]}
<1>1. IsWellFoundedOn(R, 1 .. n)
    <2> SUFFICES ASSUME NEW f \in [Nat -> 1 .. n],
                        \A k \in Nat : <<f[k + 1], f[k]>> \in R
                 PROVE  FALSE
        BY DEF IsWellFoundedOn
    <2> DEFINE g == [k \in Nat |-> n - f[k]]
    <2>1. g \in [Nat -> Nat]
        OBVIOUS
    <2>2. ASSUME NEW k \in Nat PROVE g[k + 1] < g[k]
        <3>1. f[k + 1] \in 1 .. n /\ f[k] \in 1 .. n /\ f[k] < f[k + 1]
            OBVIOUS
        <3>2. k + 1 \in Nat
            OBVIOUS
        <3> HIDE DEF R
        <3>3. QED
            BY <3>1, <3>2
    <2>3. QED
        BY <2>1, <2>2, NoDescent
<1>2. PICK x \in T : \A y \in T : ~ (<<y, x>> \in R)
    BY <1>1, WFMin
<1>3. ASSUME NEW y \in T PROVE y <= x
    <2>1. x \in 1 .. n /\ y \in 1 .. n
        OBVIOUS
    <2>2. x < y => <<y, x>> \in R
        BY <2>1
    <2> HIDE DEF R
    <2>3. QED
        BY <1>2, <2>1, <2>2
<1>4. QED
    BY <1>3

LEMMA NewestFound ==
    ASSUME NEW n \in Nat, NEW found, found \subseteq 1 .. n
    PROVE  IF found = {} THEN Newest(found) = 0 ELSE Newest(found) \in found
<1>1. CASE found = {}
    BY <1>1 DEF Newest
<1>2. CASE found # {}
    <2>1. \E i \in found : \A j \in found : j <= i
        BY <1>2, LastExists
    <2>2. QED
        BY <1>2, <2>1 DEF Newest
<1>3. QED
    BY <1>1, <1>2
-----------------------------------------------------------------------------
(* Types.  A step keeps or extends the rows and the payments, and changes  *)
(* one call at most.                                                       *)

Payment == [ref : Contracts \cup {"none"}, state : {"due", "acknowledged"}]

RowsKept == subs' \in Seq(Row) /\ Len(subs) <= Len(subs')

PaymentsKept ==
    /\ payments' \in Seq(Payment)
    /\ Len(payments) <= Len(payments')
    /\ \A p \in DOMAIN payments : payments'[p] = payments[p]

(* The call h has gone on to another place. *)
GoesOn(h) ==
    /\ hook' \in [Handlers -> Call]
    /\ \A other \in Handlers \ {h} : hook'[other] = hook[other]
    /\ hook[h].at # "idle"
    /\ hook'[h].payment = hook[h].payment
    /\ {hook'[h].sub, hook'[h].old} \subseteq 0 .. Len(subs')

(* What CallsOK asks of a place for itself. *)
RightPlace(at, sub, old, ref) ==
    /\ at \in {"increment", "findOther", "cancelOld", "activate"} => sub \in DOMAIN subs
    /\ at \in {"cancelOld", "closeOld", "renew"} => old \in DOMAIN subs
    /\ at \in TopUpSites => ref = "none"
    /\ at \in ContractSites => ref \in Contracts

CallsInRange ==
    \A h \in Handlers : hook[h].at # "idle" =>
            /\ hook[h].payment \in DOMAIN payments
            /\ {hook[h].sub, hook[h].old} \subseteq 0 .. Len(subs)

LEMMA RowSet ==
    ASSUME subs \in Seq(Row), NEW i \in DOMAIN subs, NEW row \in Row, SetRow(i, row)
    PROVE  /\ RowsKept /\ Len(subs') = Len(subs) /\ DOMAIN subs' = DOMAIN subs
           /\ subs'[i] = row
           /\ \A j \in DOMAIN subs : j # i => subs'[j] = subs[j]
BY DEF SetRow, RowsKept

LEMMA RowAdded ==
    ASSUME subs \in Seq(Row), NEW row \in Row, subs' = Append(subs, row)
    PROVE  /\ RowsKept /\ Len(subs') = Len(subs) + 1
           /\ DOMAIN subs \subseteq DOMAIN subs' /\ DOMAIN subs' = DOMAIN subs \cup {Len(subs) + 1}
           /\ subs'[Len(subs) + 1] = row
           /\ \A j \in DOMAIN subs : subs'[j] = subs[j]
BY DEF RowsKept

LEMMA RowsSame ==
    ASSUME subs \in Seq(Row), UNCHANGED subs
    PROVE  RowsKept
BY DEF RowsKept

LEMMA NewRowType ==
    ASSUME PaymentsAssumption, NEW plan \in Tiers, NEW ref \in Contracts \cup {"none", "x402"},
           NEW status \in {"CREATED", "ACTIVE", "DONE", "CANCELLED"}, NEW total \in Nat
    PROVE  NewRow(plan, ref, status, total) \in Row
BY DEF NewRow, Row

LEMMA LeftType ==
    ASSUME NEW row, row.total \in Nat, row.usage \in Nat
    PROVE  Left(row) \in Nat /\ row.total - row.usage <= Left(row)
BY DEF Left

LEMMA RowColumns ==
    ASSUME TypeOK, NEW i \in DOMAIN subs
    PROVE  /\ subs[i] \in Row /\ subs[i].plan \in Tiers
           /\ subs[i].total \in Nat /\ subs[i].usage \in Nat
           /\ subs[i].ref \in Contracts \cup {"none", "x402"}
           /\ i \in 1 .. Len(subs)
<1>1. subs \in Seq(Row)
    BY DEF TypeOK
<1>2. subs[i] \in Row /\ i \in 1 .. Len(subs)
    BY <1>1
<1>3. QED
    BY <1>2 DEF Row

LEMMA NewestRow ==
    ASSUME TypeOK, NEW found \in SUBSET DOMAIN subs
    PROVE  /\ Newest(found) \in 0 .. Len(subs)
           /\ Newest(found) = 0 <=> found = {}
           /\ Newest(found) # 0 => Newest(found) \in found
<1>1. Len(subs) \in Nat /\ found \subseteq 1 .. Len(subs)
    BY DEF TypeOK
<1>2. QED
    BY <1>1, NewestFound

(* The calls in hand stay right while rows and payments are kept.          *)
LEMMA CallsStay ==
    ASSUME TypeOK, CallsOK, UNCHANGED hook, RowsKept, PaymentsKept
    PROVE  CallsOK' /\ CallsInRange' /\ hook' \in [Handlers -> Call]
<1>1. hook \in [Handlers -> Call]
    BY DEF TypeOK
<1>2. DOMAIN subs \subseteq DOMAIN subs' /\ 0 .. Len(subs) \subseteq 0 .. Len(subs')
    BY DEF RowsKept, TypeOK
<1>3. DOMAIN payments \subseteq DOMAIN payments'
    BY DEF PaymentsKept, TypeOK
<1>4. \A h \in Handlers : hook[h].at # "idle" =>
            /\ hook[h].payment \in DOMAIN payments
            /\ {hook[h].sub, hook[h].old} \subseteq 0 .. Len(subs)
            /\ RefOf(h)' = RefOf(h)
            /\ payments'[hook[h].payment] = payments[hook[h].payment]
    BY DEF PaymentsKept, TypeOK, RefOf
<1>5. CallsInRange'
    BY <1>2, <1>3, <1>4 DEF CallsInRange
<1>6. ASSUME NEW h \in Handlers, hook[h].at # "idle"
      PROVE  RightPlace(hook[h].at, hook[h].sub, hook[h].old, RefOf(h))'
    <2>1. RightPlace(hook[h].at, hook[h].sub, hook[h].old, RefOf(h))
        BY DEF CallsOK, RightPlace
    <2>2. QED
        BY <1>2, <1>4, <1>6, <2>1 DEF RightPlace
<1>7. CallsOK'
    BY <1>4, <1>6 DEF CallsOK, RightPlace, TopUpSites, ContractSites
<1>8. QED
    BY <1>1, <1>5, <1>7

(* A call that goes on stays right if its next place is.                   *)
LEMMA CallGoesOn ==
    ASSUME TypeOK, CallsOK, NEW h \in Handlers, GoesOn(h), RowsKept, UNCHANGED payments,
           RightPlace(hook'[h].at, hook'[h].sub, hook'[h].old, RefOf(h))
    PROVE  CallsOK' /\ CallsInRange'
<1>1. hook \in [Handlers -> Call] /\ hook' \in [Handlers -> Call]
    BY DEF TypeOK, GoesOn
<1>2. DOMAIN subs \subseteq DOMAIN subs' /\ 0 .. Len(subs) \subseteq 0 .. Len(subs')
    BY DEF RowsKept, TypeOK
<1>3. \A o \in Handlers : hook[o].at # "idle" =>
            /\ hook[o].payment \in DOMAIN payments
            /\ {hook[o].sub, hook[o].old} \subseteq 0 .. Len(subs)
    BY DEF TypeOK
<1>4. \A o \in Handlers : hook'[o].payment = hook[o].payment
    BY DEF GoesOn
<1>5. \A o \in Handlers : RefOf(o)' = RefOf(o)
    BY <1>4 DEF RefOf
<1>6. CallsInRange'
    BY <1>2, <1>3, <1>4 DEF CallsInRange, GoesOn
<1>7. ASSUME NEW o \in Handlers, hook'[o].at # "idle"
      PROVE  RightPlace(hook[o].at, hook[o].sub, hook[o].old, RefOf(o))'
    <2>1. CASE o = h
        BY <1>2, <1>5, <2>1 DEF RightPlace
    <2>2. CASE o # h
        <3>1. hook'[o] = hook[o]
            BY <2>2 DEF GoesOn
        <3>2. RightPlace(hook[o].at, hook[o].sub, hook[o].old, RefOf(o))
            BY DEF CallsOK, RightPlace
        <3>3. QED
            BY <1>2, <1>5, <3>1, <3>2 DEF RightPlace
    <2>3. QED
        BY <2>1, <2>2
<1>8. \A o \in Handlers : hook'[o].at # "idle" => hook[o].at # "idle"
    BY DEF GoesOn
<1>9. CallsOK'
    BY <1>4, <1>7, <1>8 DEF CallsOK, RightPlace, TopUpSites, ContractSites
<1>10. QED
    BY <1>6, <1>9

(* A call that is answered, or has failed, is over.                        *)
LEMMA CallEnds ==
    ASSUME TypeOK, CallsOK, NEW h \in Handlers, hook[h].at # "idle",
           hook' = [hook EXCEPT ![h] = Idle], UNCHANGED subs,
           UNCHANGED payments
             \/ payments' = [payments EXCEPT ![hook[h].payment].state = "acknowledged"]
    PROVE  /\ CallsOK' /\ CallsInRange' /\ hook' \in [Handlers -> Call]
           /\ payments' \in Seq(Payment) /\ DOMAIN payments' = DOMAIN payments
           /\ \A p \in DOMAIN payments :
                 /\ payments'[p].ref = payments[p].ref
                 /\ p # hook[h].payment => payments'[p] = payments[p]
           /\ \A o \in Handlers \ {h} : hook'[o] = hook[o]
           /\ hook'[h] = Idle
<1>1. hook \in [Handlers -> Call] /\ Idle \in Call
    BY DEF TypeOK, Idle, Call, Sites
<1>2. hook'[h] = Idle /\ \A o \in Handlers \ {h} : hook'[o] = hook[o]
    BY <1>1
<1>3. hook' \in [Handlers -> Call]
    BY <1>1
<1>4. \A o \in Handlers : hook[o].at # "idle" =>
            /\ hook[o].payment \in DOMAIN payments
            /\ {hook[o].sub, hook[o].old} \subseteq 0 .. Len(subs)
    BY DEF TypeOK
<1>5. /\ payments' \in Seq(Payment) /\ DOMAIN payments' = DOMAIN payments
      /\ \A p \in DOMAIN payments :
            /\ payments'[p].ref = payments[p].ref
            /\ p # hook[h].payment => payments'[p] = payments[p]
    <2>1. payments \in Seq(Payment) /\ hook[h].payment \in DOMAIN payments
        BY <1>4 DEF TypeOK, Payment
    <2>2. CASE UNCHANGED payments
        BY <2>1, <2>2
    <2>3. CASE payments' = [payments EXCEPT ![hook[h].payment].state = "acknowledged"]
        <3> DEFINE q == hook[h].payment
                   new == [payments[q] EXCEPT !.state = "acknowledged"]
        <3>1. payments[q] \in Payment
            BY <2>1
        <3>2. new \in Payment /\ new.ref = payments[q].ref
            BY <3>1 DEF Payment
        <3>3. payments' = [payments EXCEPT ![q] = new]
            BY <2>3
        <3> HIDE DEF new
        <3>4. QED
            BY <2>1, <3>2, <3>3
    <2>4. QED
        BY <2>2, <2>3
<1>6. \A o \in Handlers : hook'[o].at # "idle" =>
            o # h /\ hook'[o] = hook[o] /\ hook[o].at # "idle"
    BY <1>2 DEF Idle
<1>7. CallsInRange'
    BY <1>4, <1>5, <1>6 DEF CallsInRange
<1>8. ASSUME NEW o \in Handlers, hook'[o].at # "idle"
      PROVE  /\ RightPlace(hook[o].at, hook[o].sub, hook[o].old, RefOf(o))'
             /\ payments'[hook'[o].payment].state = "due"
    <2>1. o # h /\ hook'[o] = hook[o] /\ hook[o].at # "idle"
        BY <1>6, <1>8
    <2>2. hook[o].payment # hook[h].payment /\ payments[hook[o].payment].state = "due"
        BY <2>1 DEF CallsOK
    <2>3. RightPlace(hook[o].at, hook[o].sub, hook[o].old, RefOf(o))
        BY DEF CallsOK, RightPlace
    <2>4. payments'[hook[o].payment] = payments[hook[o].payment]
        BY <1>4, <1>5, <2>1, <2>2
    <2>5. QED
        BY <2>1, <2>2, <2>3, <2>4 DEF RightPlace, RefOf
<1>9. CallsOK'
    BY <1>6, <1>8 DEF CallsOK, RightPlace, TopUpSites, ContractSites
<1>10. QED
    BY <1>2, <1>3, <1>5, <1>7, <1>9
-----------------------------------------------------------------------------
UserOK ==
    /\ topUp \in [status : {"none", "ACTIVE", "PAUSED"}, total : Nat, usage : Nat]
    /\ free \in {"ACTIVE", "PAUSED"}
    /\ currentPlan \in {"none", "FREE", "TOP_UP", "SUBSCRIPTION"}
    /\ buy \in Purchase /\ (buy.at \in Open => buy.plan \in Tiers)
    /\ {spent, failures} \subseteq Nat
    /\ allowed \in Scenarios

RowsOK ==
    /\ subs \in Seq(Row)
    /\ cancelling \in 0 .. Len(subs)
    /\ scheduled \subseteq DOMAIN subs
    /\ checkouts \subseteq DOMAIN subs

AtlosOK ==
    /\ billed \subseteq Contracts
    /\ payments \in Seq(Payment)
    /\ granted \in [DOMAIN payments -> Nat]
    /\ forsaken \subseteq Contracts

HookOK == hook \in [Handlers -> Call] /\ CallsInRange /\ CallsOK

LEMMA Parts == PInv <=> UserOK /\ RowsOK /\ AtlosOK /\ HookOK
BY DEF PInv, TypeOK, UserOK, RowsOK, AtlosOK, HookOK, CallsInRange, Payment

LEMMA PartsNext == PInv' <=> UserOK' /\ RowsOK' /\ AtlosOK' /\ HookOK'
BY DEF PInv, TypeOK, UserOK, RowsOK, AtlosOK, HookOK, CallsInRange, Payment

LEMMA UserStays ==
    ASSUME UserOK, UNCHANGED <<topUp, free, currentPlan, buy, bounds>>
    PROVE  UserOK'
BY DEF UserOK, bounds

LEMMA RowsStay ==
    ASSUME RowsOK, RowsKept, UNCHANGED <<cancelling, scheduled, checkouts>>
    PROVE  RowsOK'
BY DEF RowsOK, RowsKept

LEMMA AtlosStays ==
    ASSUME AtlosOK, UNCHANGED <<billed, payments, history>>
    PROVE  AtlosOK'
BY DEF AtlosOK, history

LEMMA PaymentsSame ==
    ASSUME PInv, UNCHANGED payments
    PROVE  PaymentsKept
BY Parts DEF AtlosOK, PaymentsKept

(* A payment is added. *)
LEMMA PaidKeeps ==
    ASSUME PInv, NEW ref \in Contracts \cup {"none"}, Paid(ref)
    PROVE  /\ PaymentsKept /\ granted' \in [DOMAIN payments' -> Nat]
           /\ DOMAIN payments' = DOMAIN payments \cup {Len(payments) + 1}
           /\ Len(payments) + 1 \notin DOMAIN payments
           /\ payments'[Len(payments) + 1] = [ref |-> ref, state |-> "due"]
           /\ \A p \in DOMAIN payments : granted'[p] = granted[p]
<1>1. payments \in Seq(Payment) /\ granted \in [1 .. Len(payments) -> Nat]
    BY Parts DEF AtlosOK
<1>2. [ref |-> ref, state |-> "due"] \in Payment
    BY DEF Payment
<1>3. granted \in Seq(Nat) /\ Len(granted) = Len(payments)
    BY <1>1
<1>4. granted' \in Seq(Nat) /\ Len(granted') = Len(payments) + 1
    BY <1>3 DEF Paid
<1>5. payments' = Append(payments, [ref |-> ref, state |-> "due"]) /\ granted' = Append(granted, 0)
    BY DEF Paid
<1>6. /\ payments' \in Seq(Payment) /\ Len(payments') = Len(payments) + 1
      /\ \A p \in DOMAIN payments : payments'[p] = payments[p]
      /\ payments'[Len(payments) + 1] = [ref |-> ref, state |-> "due"]
    BY <1>1, <1>2, <1>5
<1>7. \A p \in DOMAIN payments : granted'[p] = granted[p]
    BY <1>1, <1>3, <1>5
<1>8. granted' \in [1 .. (Len(payments) + 1) -> Nat]
    BY <1>4
<1>9. DOMAIN payments' = 1 .. (Len(payments) + 1)
    BY <1>6
<1>10. QED
    BY <1>1, <1>6, <1>7, <1>8, <1>9 DEF PaymentsKept

(* Only the user's own columns change. *)
LEMMA OnlyUser ==
    ASSUME PInv, UNCHANGED <<hook, payments, billed, forsaken, granted>>, UserOK', RowsOK', RowsKept
    PROVE  PInv'
<1>1. PaymentsKept
    BY PaymentsSame
<1>2. HookOK'
    BY <1>1, CallsStay DEF PInv, HookOK
<1>3. AtlosOK'
    BY Parts DEF AtlosOK
<1>4. QED
    BY <1>2, <1>3, PartsNext

LEMMA InitTypes == PaymentsAssumption /\ Init => PInv
<1> SUFFICES ASSUME PaymentsAssumption, Init PROVE PInv
    OBVIOUS
<1>1. NoPurchase \in Purchase /\ NoPurchase.at = "none" /\ Idle \in Call /\ Idle.at = "idle"
    BY DEF NoPurchase, Purchase, Open, Over, Idle, Call, Sites
<1>2. UserOK
    BY <1>1 DEF Init, UserOK, Open
<1>3. RowsOK
    BY DEF Init, RowsOK
<1>4. AtlosOK
    <2>1. payments = <<>> /\ granted = <<>> /\ billed = {} /\ forsaken = {}
        BY DEF Init
    <2>2. granted \in [DOMAIN payments -> Nat]
        BY <2>1
    <2>3. QED
        BY <2>1, <2>2 DEF AtlosOK
<1>5. HookOK
    BY <1>1 DEF Init, HookOK, CallsInRange, CallsOK, TopUpSites, ContractSites
<1>6. QED
    BY <1>2, <1>3, <1>4, <1>5, Parts
-----------------------------------------------------------------------------
(* Every step keeps the types. *)

LEMMA UserTypes ==
    ASSUME PaymentsAssumption, PInv,
           \/ \E plan \in Tiers, upgrade \in BOOLEAN : CreateSubscription(plan, upgrade)
           \/ \E i \in DOMAIN subs : ScheduleCancel(i)
           \/ FinishCancel \/ SwitchBackToSubscription \/ LogIn \/ Spend
    PROVE  PInv'
<1>0. UserOK /\ RowsOK /\ AtlosOK /\ TypeOK
    BY Parts DEF PInv
<1>1. ASSUME NEW plan \in Tiers, NEW upgrade \in BOOLEAN, CreateSubscription(plan, upgrade)
      PROVE  PInv'
    <2>1. Carried(upgrade) \in Nat
        <3>1. RowsIn("ACTIVE") \in SUBSET DOMAIN subs
            BY DEF RowsIn
        <3>2. upgrade => Newest(RowsIn("ACTIVE")) \in DOMAIN subs
            BY <1>0, <1>1, <3>1, NewestRow DEF CreateSubscription
        <3>3. QED
            BY <1>0, <3>2, RowColumns, LeftType DEF Carried
    <2>2. Base[plan] + Carried(upgrade) \in Nat
        BY <2>1 DEF PaymentsAssumption, Tiers
    <2>3. NewRow(plan, "none", "CREATED", Base[plan] + Carried(upgrade)) \in Row
        BY <2>2, NewRowType
    <2>4. /\ RowsKept /\ Len(subs') = Len(subs) + 1
          /\ DOMAIN subs' = DOMAIN subs \cup {Len(subs) + 1}
        BY <1>0, <1>1, <2>3, RowAdded DEF CreateSubscription, AddRow, RowsOK
    <2>5. UserOK'
        BY <1>0, <1>1, UserStays DEF CreateSubscription, user
    <2>6. RowsOK'
        BY <1>0, <1>1, <2>4 DEF CreateSubscription, RowsOK, RowsKept, user
    <2>7. QED
        BY <1>1, <2>4, <2>5, <2>6, OnlyUser DEF CreateSubscription, history
<1>2. ASSUME NEW i \in DOMAIN subs, ScheduleCancel(i) PROVE PInv'
    <2>1. RowsKept
        BY <1>0, <1>2, RowsSame DEF ScheduleCancel, rows, RowsOK
    <2>2. UserOK'
        BY <1>0, <1>2, UserStays DEF ScheduleCancel, rows
    <2>3. RowsOK'
        BY <1>0, <1>2 DEF ScheduleCancel, rows, RowsOK, RowsIn, atlos
    <2>4. QED
        BY <1>2, <2>1, <2>2, <2>3, OnlyUser DEF ScheduleCancel, history, atlos
<1>3. CASE FinishCancel
    <2>1. cancelling \in DOMAIN subs
        BY <1>0, <1>3 DEF FinishCancel, RowsOK
    <2>2. RowsKept /\ DOMAIN subs' = DOMAIN subs
        <3> DEFINE new == [subs[cancelling] EXCEPT !.status = "CANCELLED"]
        <3>1. subs[cancelling] \in Row
            BY <1>0, <2>1 DEF RowsOK
        <3>2. new \in Row
            BY <3>1 DEF Row
        <3>3. SetRow(cancelling, new) \/ UNCHANGED subs
            BY <1>3 DEF FinishCancel
        <3> HIDE DEF new
        <3>4. QED
            BY <1>0, <2>1, <3>2, <3>3, RowSet, RowsSame DEF RowsOK
    <2>3. UserOK'
        BY <1>0, <1>3 DEF FinishCancel, UserOK
    <2>4. RowsOK'
        BY <1>0, <1>3, <2>2 DEF FinishCancel, RowsOK, RowsKept, atlos
    <2>5. QED
        BY <1>3, <2>2, <2>3, <2>4, OnlyUser DEF FinishCancel, history, atlos
<1>4. CASE SwitchBackToSubscription \/ LogIn
    <2>1. RowsKept
        BY <1>0, <1>4, RowsSame DEF SwitchBackToSubscription, LogIn, RowsOK
    <2>2. UserOK'
        BY <1>0, <1>4 DEF SwitchBackToSubscription, LogIn, UserOK, user, bounds
    <2>3. RowsOK'
        BY <1>0, <1>4, <2>1, RowsStay DEF SwitchBackToSubscription, LogIn, user, atlos
    <2>4. QED
        BY <1>4, <2>1, <2>2, <2>3, OnlyUser DEF SwitchBackToSubscription, LogIn, history, atlos
<1>5. CASE Spend
    <2>1. RowsKept
        <3>1. ASSUME NEW i \in DOMAIN subs, SetRow(i, [subs[i] EXCEPT !.usage = @ + 1])
              PROVE  RowsKept
            <4> DEFINE new == [subs[i] EXCEPT !.usage = @ + 1]
            <4>1. subs[i] \in Row
                BY <1>0 DEF RowsOK
            <4>2. new \in Row
                <5>1. subs[i].usage + 1 \in Nat
                    BY <1>0, RowColumns
                <5>2. QED
                    BY <4>1, <5>1 DEF Row
            <4>3. SetRow(i, new)
                BY <3>1
            <4> HIDE DEF new
            <4>4. QED
                BY <1>0, <4>2, <4>3, RowSet DEF RowsOK
        <3>2. QED
            BY <1>0, <1>5, <3>1, RowsSame DEF Spend, RowsOK
    <2>2. UserOK'
        BY <1>0, <1>5 DEF Spend, UserOK
    <2>3. RowsOK'
        BY <1>0, <1>5, <2>1, RowsStay DEF Spend, atlos
    <2>4. QED
        BY <1>5, <2>1, <2>2, <2>3, OnlyUser DEF Spend, history, atlos
<1>6. QED
    BY <1>1, <1>2, <1>3, <1>4, <1>5

(* Steps of the purchase by x402 that leave the rows alone. *)
LEMMA BuyTypes ==
    ASSUME PInv, NEW to \in Purchase, to.at \in Open => to.plan \in Tiers, buy' = to,
           UNCHANGED <<subs, topUp, free, hook, cancelling, scheduled, atlos, history>>,
           currentPlan' \in {currentPlan, "SUBSCRIPTION", "FREE"},
           UNCHANGED <<spent, allowed>>, failures' \in Nat
    PROVE  PInv'
<1>0. UserOK /\ RowsOK /\ AtlosOK
    BY Parts
<1>1. UserOK'
    BY <1>0 DEF UserOK
<1>2. RowsKept
    BY <1>0, RowsSame DEF RowsOK
<1>3. RowsOK'
    BY <1>0, <1>2, RowsStay DEF atlos
<1>4. QED
    BY <1>1, <1>2, <1>3, OnlyUser DEF atlos, history

LEMMA X402Types ==
    ASSUME PaymentsAssumption, PInv, X402
    PROVE  PInv'
<1>0. UserOK /\ RowsOK /\ AtlosOK /\ TypeOK
    BY Parts DEF PInv
<1>1. buy \in Purchase /\ NoPurchase \in Purchase /\ (buy.at \in Open => buy.plan \in Tiers)
    BY <1>0 DEF UserOK, NoPurchase, Purchase
<1>2. ASSUME NEW plan \in Tiers, StartX402(plan) \/ StartEvm(plan) PROVE PInv'
    <2>1. buy' \in Purchase /\ buy'.plan \in Tiers
        BY <1>1, <1>2 DEF StartX402, StartEvm, Purchase, Open, NoPurchase
    <2>2. QED
        BY <1>0, <1>2, <2>1, BuyTypes DEF StartX402, StartEvm, BuyFrame, rows, bounds, UserOK
<1>3. CASE HandleVerified \/ Verify \/ Settle \/ SendDirect
    <2>1. buy' \in Purchase /\ (buy'.at \in Open => buy'.plan \in Tiers)
        <3>1. CASE HandleVerified
            BY <1>1, <3>1 DEF HandleVerified, Buying, Purchase, Open, Over, NoPurchase
        <3>2. CASE Verify
            BY <1>1, <3>2 DEF Verify, Buying, Purchase, Open, Over
        <3>3. CASE Settle
            BY <1>1, <3>3 DEF Settle, Purchase, Open, Over
        <3>4. CASE SendDirect
            BY <1>1, <3>4 DEF SendDirect, Purchase, Open, Over
        <3>5. QED
            BY <1>3, <3>1, <3>2, <3>3, <3>4
    <2>2. BuyFrame
        BY <1>3 DEF HandleVerified, Verify, Settle, SendDirect
    <2>3. QED
        BY <1>0, <2>1, <2>2, BuyTypes DEF BuyFrame, rows, bounds, UserOK
<1>4. CASE FindPayer
    <2>1. buy' \in Purchase /\ (buy'.at \in Open => buy'.plan \in Tiers)
        <3> DEFINE pauses == {p \in {"free"} : free = "ACTIVE"}
                                 \cup {p \in {"topUp"} : topUp.status = "ACTIVE"}
                   read == [buy EXCEPT !.at = "create", !.full = topUp.total, !.pauses = pauses]
        <3>1. topUp.total \in Nat /\ pauses \in SUBSET {"free", "topUp"}
            BY <1>0 DEF UserOK
        <3>2. buy' = [buy EXCEPT !.at = "create"] \/ buy' = read
            BY <1>4 DEF FindPayer
        <3>3. buy.plan \in Tiers
            BY <1>1, <1>4 DEF FindPayer, Open
        <3> HIDE DEF pauses
        <3>4. read \in Purchase /\ read.plan \in Tiers
            BY <1>1, <3>1, <3>3 DEF Purchase, Open
        <3> HIDE DEF read
        <3>5. CASE buy' = read
            BY <3>4, <3>5
        <3>6. CASE buy' = [buy EXCEPT !.at = "create"]
            BY <1>1, <3>3, <3>6 DEF Purchase, Open
        <3>7. QED
            BY <3>2, <3>5, <3>6
    <2>2. QED
        BY <1>0, <1>4, <2>1, BuyTypes DEF FindPayer, bounds, UserOK
<1>5. CASE CreateByX402
    <2>1. buy.plan \in Tiers /\ Base[buy.plan] \in Nat
        BY <1>1, <1>5 DEF CreateByX402, Open, PaymentsAssumption, Tiers
    <2> DEFINE added == NewRow(buy.plan, "x402", "ACTIVE", Base[buy.plan])
    <2>2. added \in Row
        BY <2>1, NewRowType
    <2>3. /\ RowsKept /\ DOMAIN subs \subseteq DOMAIN subs'
          /\ forsaken' \subseteq Contracts
        <3>1. CASE RowsIn("ACTIVE") = {}
            BY <1>0, <1>5, <2>2, <3>1, RowAdded DEF CreateByX402, RowsOK, AtlosOK
        <3>2. ASSUME NEW i \in RowsIn("ACTIVE"),
                     subs' = Append([subs EXCEPT ![i].status = "CANCELLED"], added),
                     forsaken' = forsaken \cup ({subs[i].ref} \cap billed)
              PROVE  RowsKept /\ DOMAIN subs \subseteq DOMAIN subs' /\ forsaken' \subseteq Contracts
            <4> DEFINE closed == [subs EXCEPT ![i].status = "CANCELLED"]
                       new == [subs[i] EXCEPT !.status = "CANCELLED"]
            <4>1. i \in DOMAIN subs /\ subs[i] \in Row /\ subs \in Seq(Row)
                BY <1>0 DEF RowsIn, RowsOK
            <4>2. new \in Row
                BY <4>1 DEF Row
            <4>3. closed = [subs EXCEPT ![i] = new]
                OBVIOUS
            <4> HIDE DEF new
            <4>4. closed \in Seq(Row) /\ Len(closed) = Len(subs)
                BY <4>1, <4>2, <4>3
            <4> HIDE DEF closed, added
            <4>5. subs' = Append(closed, added)
                BY <3>2 DEF closed, added
            <4>6. RowsKept /\ DOMAIN subs \subseteq DOMAIN subs'
                BY <2>2, <4>1, <4>4, <4>5 DEF RowsKept
            <4>7. QED
                BY <1>0, <3>2, <4>6 DEF AtlosOK
        <3>3. QED
            BY <1>5, <3>1, <3>2 DEF CreateByX402
    <2>4. UserOK'
        <3>1. buy' \in Purchase /\ buy'.at = "served" /\ "served" \notin Open
            BY <1>1, <1>5 DEF CreateByX402, Purchase, Open, Over, NoPurchase
        <3>2. buy.full \in Nat
            BY <1>1 DEF Purchase
        <3>3. QED
            BY <1>0, <1>5, <3>1, <3>2 DEF CreateByX402, UserOK, bounds
    <2>5. RowsOK'
        BY <1>0, <1>5, <2>3, RowsStay DEF CreateByX402, atlos
    <2>6. UNCHANGED <<hook, payments, billed, granted>>
        BY <1>5 DEF CreateByX402, atlos
    <2>7. PaymentsKept
        BY <2>6, PaymentsSame
    <2>8. HookOK'
        BY <1>0, <2>3, <2>6, <2>7, CallsStay DEF PInv, HookOK
    <2>9. AtlosOK'
        BY <1>0, <2>3, <2>6 DEF AtlosOK
    <2>10. QED
        BY <2>4, <2>5, <2>8, <2>9, PartsNext
<1>6. CASE FailX402
    <2>1. buy' \in Purchase /\ buy'.at \notin Open
        BY <1>1, <1>6 DEF FailX402, Purchase, Open, Over, NoPurchase
    <2>2. QED
        BY <1>0, <1>6, <2>1, BuyTypes DEF FailX402, UserOK, rows
<1>7. QED
    BY <1>2, <1>3, <1>4, <1>5, <1>6 DEF X402
LEMMA PaidTypes ==
    ASSUME PInv, NEW ref \in Contracts \cup {"none"}, Paid(ref), UNCHANGED <<rows, hook, user, forsaken>>,
           billed' \in SUBSET Contracts, checkouts' \in SUBSET checkouts
    PROVE  PInv'
<1>0. UserOK /\ RowsOK /\ AtlosOK /\ TypeOK
    BY Parts DEF PInv
<1>1. PaymentsKept /\ granted' \in [DOMAIN payments' -> Nat]
    BY PaidKeeps
<1>2. RowsKept
    BY <1>0, RowsSame DEF rows, RowsOK
<1>3. HookOK'
    BY <1>0, <1>1, <1>2, CallsStay DEF PInv, HookOK
<1>4. UserOK'
    BY <1>0, UserStays DEF rows, user
<1>5. RowsOK'
    BY <1>0, <1>2 DEF RowsOK, rows, user
<1>6. AtlosOK'
    BY <1>0, <1>1 DEF AtlosOK, PaymentsKept
<1>7. QED
    BY <1>3, <1>4, <1>5, <1>6, PartsNext

LEMMA AtlosTypes ==
    ASSUME PInv,
           \/ \E i \in DOMAIN subs, ref \in Contracts : PayCheckout(i, ref)
           \/ \E ref \in Contracts : BillPeriod(ref)
           \/ PayTopUp
           \/ \E i \in DOMAIN subs : BeginCancel(i)
    PROVE  PInv'
<1>0. UserOK /\ RowsOK /\ AtlosOK /\ TypeOK
    BY Parts DEF PInv
<1>1. ASSUME NEW i \in DOMAIN subs, NEW ref \in Contracts, PayCheckout(i, ref) PROVE PInv'
    BY <1>0, <1>1, PaidTypes DEF PayCheckout, AtlosOK
<1>2. ASSUME NEW ref \in Contracts, BillPeriod(ref) PROVE PInv'
    BY <1>0, <1>2, PaidTypes DEF BillPeriod, AtlosOK
<1>3. CASE PayTopUp
    BY <1>0, <1>3, PaidTypes DEF PayTopUp, AtlosOK
<1>4. ASSUME NEW i \in DOMAIN subs, BeginCancel(i) PROVE PInv'
    <2>1. RowsKept
        BY <1>0, <1>4, RowsSame DEF BeginCancel, rows, RowsOK
    <2>2. UserOK'
        BY <1>0, <1>4, UserStays DEF BeginCancel, rows
    <2>3. RowsOK'
        BY <1>0, <1>4 DEF BeginCancel, rows, RowsOK
    <2>4. AtlosOK'
        BY <1>0, <1>4 DEF BeginCancel, AtlosOK, history
    <2>5. UNCHANGED payments /\ UNCHANGED hook
        BY <1>4 DEF BeginCancel
    <2>6. HookOK'
        BY <1>0, <2>1, <2>5, CallsStay, PaymentsSame DEF PInv, HookOK
    <2>7. QED
        BY <2>2, <2>3, <2>4, <2>6, PartsNext
<1>5. QED
    BY <1>1, <1>2, <1>3, <1>4
-----------------------------------------------------------------------------
(* The webhook. *)

(* A call goes on, and nothing but its grant changes at Atlos. *)
LEMMA GoingOnTypes ==
    ASSUME PInv, NEW h \in Handlers, GoesOn(h), RowsKept, UserOK',
           UNCHANGED <<cancelling, scheduled, checkouts, payments>>,
           billed' \in SUBSET billed, forsaken' \in SUBSET Contracts,
           UNCHANGED granted \/ Grant(h),
           RightPlace(hook'[h].at, hook'[h].sub, hook'[h].old, RefOf(h))
    PROVE  PInv'
<1>0. RowsOK /\ AtlosOK /\ TypeOK
    BY Parts DEF PInv
<1>1. HookOK'
    BY <1>0, CallGoesOn DEF PInv, HookOK, GoesOn
<1>2. RowsOK'
    BY <1>0, RowsStay
<1>3. AtlosOK'
    <2>1. hook[h].payment \in DOMAIN payments
        BY <1>0 DEF GoesOn, TypeOK
    <2>2. granted' \in [DOMAIN payments -> Nat]
        BY <1>0, <2>1 DEF Grant, AtlosOK
    <2>3. QED
        BY <1>0, <2>2 DEF AtlosOK
<1>4. QED
    BY <1>1, <1>2, <1>3, PartsNext

(* The call h goes on, and only calls change. *)
LEMMA ReadingTypes ==
    ASSUME PInv, NEW h \in Handlers, GoesOn(h), UNCHANGED <<rows, user, atlos, history>>,
           RightPlace(hook'[h].at, hook'[h].sub, hook'[h].old, RefOf(h))
    PROVE  PInv'
<1>0. UserOK /\ RowsOK /\ AtlosOK /\ TypeOK
    BY Parts DEF PInv
<1>1. RowsKept
    BY <1>0, RowsSame DEF RowsOK, rows
<1>2. UserOK'
    BY <1>0, UserStays DEF rows, user
<1>3. QED
    BY <1>0, <1>1, <1>2, GoingOnTypes DEF user, atlos, history, AtlosOK

(* The statement of a call that has only been moved on. *)
LEMMA GotoGoesOn ==
    ASSUME TypeOK, NEW h \in Handlers, NEW from \in Sites \ {"idle"}, NEW to \in Sites,
           Goto(h, from, to), RowsKept
    PROVE  /\ GoesOn(h)
           /\ hook'[h].at = to /\ hook'[h].sub = hook[h].sub /\ hook'[h].old = hook[h].old
           /\ hook'[h].total = hook[h].total /\ hook'[h].rest = hook[h].rest
           /\ hook'[h].full = hook[h].full
<1> DEFINE new == [hook[h] EXCEPT !.at = to]
<1>1. hook \in [Handlers -> Call] /\ hook[h] \in Call
    BY DEF TypeOK
<1>2. /\ new \in Call /\ new.at = to /\ new.payment = hook[h].payment
      /\ new.sub = hook[h].sub /\ new.old = hook[h].old
      /\ new.total = hook[h].total /\ new.rest = hook[h].rest /\ new.full = hook[h].full
    BY <1>1 DEF Call
<1>3. hook' = [hook EXCEPT ![h] = new] /\ hook[h].at # "idle"
    BY DEF Goto
<1>4. {hook[h].sub, hook[h].old} \subseteq 0 .. Len(subs)
    BY <1>3 DEF TypeOK
<1>5. 0 .. Len(subs) \subseteq 0 .. Len(subs')
    BY DEF RowsKept, TypeOK
<1> HIDE DEF new
<1>6. QED
    BY <1>1, <1>2, <1>3, <1>4, <1>5 DEF GoesOn

(* A call is given a new record. *)
LEMMA CallReplaced ==
    ASSUME TypeOK, NEW h \in Handlers, hook[h].at # "idle", NEW new \in Call,
           hook' = [hook EXCEPT ![h] = new], new.payment = hook[h].payment,
           {new.sub, new.old} \subseteq 0 .. Len(subs'), RowsKept
    PROVE  GoesOn(h) /\ hook'[h] = new
<1>1. hook \in [Handlers -> Call] /\ hook[h] \in Call
    BY DEF TypeOK
<1>2. QED
    BY <1>1 DEF GoesOn
(* A call is given a new record by a statement that only reads. *)
LEMMA CallColumns ==
    ASSUME PInv, NEW h \in Handlers, hook[h].at # "idle"
    PROVE  /\ hook[h] \in Call /\ Len(subs) \in Nat
           /\ hook[h].sub \in 0 .. Len(subs) /\ hook[h].old \in 0 .. Len(subs)
           /\ hook[h].sub \in Nat /\ hook[h].old \in Nat
           /\ hook[h].total \in Nat /\ hook[h].rest \in Nat /\ hook[h].full \in Nat
           /\ hook[h].payment \in DOMAIN payments
<1>1. TypeOK
    BY DEF PInv
<1>2. hook[h] \in Call /\ Len(subs) \in Nat
    BY <1>1 DEF TypeOK
<1>3. {hook[h].sub, hook[h].old} \subseteq 0 .. Len(subs) /\ hook[h].payment \in DOMAIN payments
    BY <1>1 DEF TypeOK
<1>4. QED
    BY <1>2, <1>3 DEF Call

LEMMA CallReads ==
    ASSUME PInv, UNCHANGED subs, NEW h \in Handlers, hook[h].at # "idle", NEW new \in Call,
           hook' = [hook EXCEPT ![h] = new], new.payment = hook[h].payment,
           new.sub \in 0 .. Len(subs), new.old \in 0 .. Len(subs)
    PROVE  GoesOn(h) /\ hook'[h] = new
<1>1. TypeOK /\ RowsKept
    BY Parts, RowsSame DEF PInv, RowsOK
<1>2. {new.sub, new.old} \subseteq 0 .. Len(subs')
    OBVIOUS
<1>3. QED
    BY <1>1, <1>2, CallReplaced

(* What each reading statement leaves in the hands of its call. *)

LEMMA ReadUserReads ==
    ASSUME PInv, NEW h \in Handlers, ReadUser(h)
    PROVE  /\ GoesOn(h) /\ hook'[h].at \in {"readDone", "increment"}
           /\ hook'[h].at = "increment" => hook'[h].sub \in DOMAIN subs
<1> DEFINE running == Newest(RowsIn("ACTIVE"))
           new == [hook[h] EXCEPT !.sub = running,
                                  !.at = IF running = 0 THEN "readDone" ELSE "increment"]
<1>0. TypeOK /\ UNCHANGED subs /\ subs \in Seq(Row) /\ Len(subs) \in Nat
    BY Parts DEF PInv, RowsOK, ReadUser, rows
<1>1. RowsIn("ACTIVE") \in SUBSET DOMAIN subs
    BY DEF RowsIn
<1>2. running \in 0 .. Len(subs) /\ running \in Nat /\ (running # 0 => running \in DOMAIN subs)
    BY <1>0, <1>1, NewestRow
<1>3. hook[h] \in Call /\ hook[h].at = "readUser"
    BY <1>0 DEF TypeOK, ReadUser
<1>4. hook' = [hook EXCEPT ![h] = new]
    BY DEF ReadUser
<1>5. /\ hook[h].sub \in 0 .. Len(subs) /\ hook[h].old \in 0 .. Len(subs)
      /\ hook[h].sub \in Nat /\ hook[h].old \in Nat
    BY <1>0, <1>3, CallColumns
<1> HIDE DEF running
<1>6. /\ new \in Call /\ new.payment = hook[h].payment /\ new.sub = running
      /\ new.old = hook[h].old /\ new.at = IF running = 0 THEN "readDone" ELSE "increment"
    BY <1>0, <1>2, <1>3 DEF Call, Sites
<1> HIDE DEF new
<1>7. GoesOn(h) /\ hook'[h] = new
    BY <1>0, <1>2, <1>3, <1>4, <1>5, <1>6, CallReads
<1>8. QED
    BY <1>2, <1>6, <1>7

LEMMA ReadDoneReads ==
    ASSUME PaymentsAssumption, PInv, NEW h \in Handlers, ReadDone(h)
    PROVE  /\ GoesOn(h) /\ hook'[h].at = "pauseFree"
<1> DEFINE done == Newest(RowsIn("DONE"))
           rest == TopUpCredits + (IF done = 0 THEN 0 ELSE Left(subs[done]))
           new == [hook[h] EXCEPT !.at = "pauseFree", !.rest = rest]
<1>0. TypeOK /\ UNCHANGED subs /\ subs \in Seq(Row) /\ Len(subs) \in Nat
    BY Parts DEF PInv, RowsOK, ReadDone, rows
<1>1. RowsIn("DONE") \in SUBSET DOMAIN subs
    BY DEF RowsIn
<1>2. done # 0 => done \in DOMAIN subs
    BY <1>0, <1>1, NewestRow
<1>3. rest \in Nat
    <2>1. done # 0 => Left(subs[done]) \in Nat
        BY <1>0, <1>2, RowColumns, LeftType
    <2>2. QED
        BY <2>1 DEF PaymentsAssumption
<1>4. hook[h] \in Call /\ hook[h].at = "readDone"
    BY <1>0 DEF TypeOK, ReadDone
<1>5. hook' = [hook EXCEPT ![h] = new]
    BY DEF ReadDone
<1>6. /\ hook[h].sub \in 0 .. Len(subs) /\ hook[h].old \in 0 .. Len(subs)
      /\ hook[h].sub \in Nat /\ hook[h].old \in Nat
    BY <1>0, <1>4, CallColumns
<1> HIDE DEF rest
<1>7. /\ new \in Call /\ new.payment = hook[h].payment /\ new.sub = hook[h].sub
      /\ new.old = hook[h].old /\ new.at = "pauseFree"
    BY <1>3, <1>4 DEF Call, Sites
<1> HIDE DEF new
<1>8. QED
    BY <1>0, <1>4, <1>5, <1>6, <1>7, CallReads

LEMMA ReadTopUpReads ==
    ASSUME PInv, NEW h \in Handlers, ReadTopUp(h)
    PROVE  /\ GoesOn(h) /\ hook'[h].at = "findCreated"
           /\ hook'[h].full = topUp.total /\ hook'[h].rest = Left(topUp)
<1> DEFINE left == Left(topUp)
           new == [hook[h] EXCEPT !.at = "findCreated", !.rest = left, !.full = topUp.total]
<1>0. TypeOK /\ UNCHANGED subs /\ subs \in Seq(Row)
    BY Parts DEF PInv, RowsOK, ReadTopUp, rows
<1>1. topUp.total \in Nat /\ left \in Nat
    BY LeftType, Parts DEF UserOK
<1>2. hook[h] \in Call /\ hook[h].at = "readTopUp"
    BY <1>0 DEF TypeOK, ReadTopUp
<1>3. hook' = [hook EXCEPT ![h] = new]
    BY DEF ReadTopUp
<1>4. /\ hook[h].sub \in 0 .. Len(subs) /\ hook[h].old \in 0 .. Len(subs)
      /\ hook[h].sub \in Nat /\ hook[h].old \in Nat
    BY <1>0, <1>2, CallColumns
<1>5. left = Left(topUp)
    OBVIOUS
<1> HIDE DEF left
<1>6. /\ new \in Call /\ new.payment = hook[h].payment /\ new.sub = hook[h].sub
      /\ new.old = hook[h].old /\ new.at = "findCreated" /\ new.full = topUp.total /\ new.rest = left
    BY <1>1, <1>2 DEF Call, Sites
<1> HIDE DEF new
<1>7. QED
    BY <1>0, <1>2, <1>3, <1>4, <1>5, <1>6, CallReads

LEMMA FindCreatedReads ==
    ASSUME PInv, NEW h \in Handlers, FindCreated(h)
    PROVE  /\ GoesOn(h) /\ hook'[h].at = "findActive"
           /\ IF Created = {} THEN hook'[h].sub = 0 ELSE hook'[h].sub \in Created
           /\ hook'[h].full = hook[h].full /\ hook'[h].rest = hook[h].rest
<1> DEFINE created == Newest(RowsIn("CREATED"))
           total == IF created = 0 THEN 0 ELSE subs[created].total
           new == [hook[h] EXCEPT !.at = "findActive", !.sub = created, !.total = total]
<1>0. TypeOK /\ UNCHANGED subs /\ subs \in Seq(Row) /\ Len(subs) \in Nat
    BY Parts DEF PInv, RowsOK, FindCreated, rows
<1>1. RowsIn("CREATED") \in SUBSET DOMAIN subs
    BY DEF RowsIn
<1>2. /\ created \in 0 .. Len(subs) /\ created \in Nat /\ total \in Nat
      /\ IF Created = {} THEN created = 0 ELSE created \in Created
    <2>1. /\ created \in 0 .. Len(subs) /\ (created = 0 <=> Created = {})
          /\ (created # 0 => created \in Created)
        BY <1>0, <1>1, NewestRow DEF Created
    <2>2. created # 0 => subs[created].total \in Nat
        BY <1>0, <1>1, <2>1, RowColumns DEF Created
    <2>3. QED
        BY <2>1, <2>2
<1>3. hook[h] \in Call /\ hook[h].at = "findCreated"
    BY <1>0 DEF TypeOK, FindCreated
<1>4. hook' = [hook EXCEPT ![h] = new]
    BY DEF FindCreated
<1>5. /\ hook[h].sub \in 0 .. Len(subs) /\ hook[h].old \in 0 .. Len(subs)
      /\ hook[h].sub \in Nat /\ hook[h].old \in Nat
    BY <1>0, <1>3, CallColumns
<1> HIDE DEF created, total
<1>6. /\ new \in Call /\ new.payment = hook[h].payment /\ new.sub = created
      /\ new.old = hook[h].old /\ new.at = "findActive"
      /\ new.full = hook[h].full /\ new.rest = hook[h].rest
    BY <1>0, <1>2, <1>3 DEF Call, Sites
<1> HIDE DEF new
<1>7. QED
    BY <1>0, <1>2, <1>3, <1>4, <1>5, <1>6, CallReads

(* It finds the checkout it is about; or a row to renew; or nothing. *)
LEMMA FindActiveReads ==
    ASSUME PInv, NEW h \in Handlers, FindActive(h)
    PROVE  /\ hook[h].at = "findActive"
           /\ \/ /\ GoesOn(h) /\ UNCHANGED payments
                 /\ hook'[h].full = hook[h].full /\ hook'[h].rest = hook[h].rest
                 /\ hook'[h].sub = hook[h].sub
                 /\ \/ hook[h].sub # 0 /\ hook'[h].at = "findOther"
                    \/ /\ hook[h].sub = 0 /\ hook'[h].at = "closeOld"
                       /\ hook'[h].old \in RowsOf(RefOf(h))
              \/ hook[h].sub = 0 /\ RowsOf(RefOf(h)) = {} /\ Answer(h)
<1> DEFINE same == Newest(RowsOf(RefOf(h)))
           new == [hook[h] EXCEPT !.at = "closeOld", !.old = same]
<1>0. TypeOK /\ UNCHANGED subs /\ subs \in Seq(Row) /\ Len(subs) \in Nat /\ RowsKept
    BY Parts, RowsSame DEF PInv, RowsOK, FindActive, rows
<1>1. RowsOf(RefOf(h)) \in SUBSET DOMAIN subs
    BY DEF RowsOf, RowsIn
<1>2. /\ same \in 0 .. Len(subs) /\ same \in Nat /\ (same = 0 <=> RowsOf(RefOf(h)) = {})
      /\ (same # 0 => same \in RowsOf(RefOf(h)))
    BY <1>0, <1>1, NewestRow
<1>3. hook[h] \in Call /\ hook[h].at = "findActive"
    BY <1>0 DEF TypeOK, FindActive
<1>4. /\ hook[h].sub \in 0 .. Len(subs) /\ hook[h].old \in 0 .. Len(subs)
      /\ hook[h].sub \in Nat /\ hook[h].old \in Nat
    BY <1>0, <1>3, CallColumns
<1>5. CASE hook[h].sub # 0 /\ Goto(h, "findActive", "findOther") /\ UNCHANGED payments
    BY <1>0, <1>3, <1>5, GotoGoesOn DEF Sites
<1>6. CASE /\ hook[h].sub = 0 /\ same # 0
           /\ hook' = [hook EXCEPT ![h].at = "closeOld", ![h].old = same] /\ UNCHANGED payments
    <2>1. hook' = [hook EXCEPT ![h] = new]
        BY <1>6
    <2> HIDE DEF same
    <2>2. /\ new \in Call /\ new.payment = hook[h].payment /\ new.sub = hook[h].sub
          /\ new.old = same /\ new.at = "closeOld"
          /\ new.full = hook[h].full /\ new.rest = hook[h].rest
        BY <1>0, <1>2, <1>3 DEF Call, Sites
    <2> HIDE DEF new
    <2>3. GoesOn(h) /\ hook'[h] = new
        BY <1>0, <1>2, <1>3, <1>4, <2>1, <2>2, CallReads
    <2>4. QED
        BY <1>2, <1>3, <1>6, <2>2, <2>3
<1>7. CASE hook[h].sub = 0 /\ same = 0 /\ Answer(h)
    BY <1>2, <1>3, <1>7
<1>8. QED
    BY <1>5, <1>6, <1>7 DEF FindActive

LEMMA FindOtherReads ==
    ASSUME PInv, NEW h \in Handlers, FindOther(h)
    PROVE  /\ GoesOn(h) /\ hook[h].at = "findOther"
           /\ hook'[h].sub = hook[h].sub
           /\ hook'[h].full = hook[h].full /\ hook'[h].rest = hook[h].rest
           /\ \/ hook'[h].at = "activate"
              \/ hook'[h].at = "cancelOld" /\ hook'[h].old \in RowsIn("ACTIVE")
<1> DEFINE other == Newest(RowsIn("ACTIVE") \ {hook[h].sub})
           found == [hook[h] EXCEPT !.at = "cancelOld", !.old = other]
           none == [hook[h] EXCEPT !.at = "activate"]
<1>0. TypeOK /\ UNCHANGED subs /\ subs \in Seq(Row) /\ Len(subs) \in Nat /\ RowsKept
    BY Parts, RowsSame DEF PInv, RowsOK, FindOther, rows
<1>1. RowsIn("ACTIVE") \ {hook[h].sub} \in SUBSET DOMAIN subs
    BY DEF RowsIn
<1>2. other \in 0 .. Len(subs) /\ other \in Nat /\ (other # 0 => other \in RowsIn("ACTIVE"))
    BY <1>0, <1>1, NewestRow
<1>3. hook[h] \in Call /\ hook[h].at = "findOther"
    BY <1>0 DEF TypeOK, FindOther
<1>4. /\ hook[h].sub \in 0 .. Len(subs) /\ hook[h].old \in 0 .. Len(subs)
      /\ hook[h].sub \in Nat /\ hook[h].old \in Nat
    BY <1>0, <1>3, CallColumns
<1>5. \/ other # 0 /\ hook' = [hook EXCEPT ![h] = found]
      \/ hook' = [hook EXCEPT ![h] = none]
    BY DEF FindOther
<1> HIDE DEF other
<1>6. /\ found \in Call /\ found.payment = hook[h].payment /\ found.sub = hook[h].sub
      /\ found.old = other /\ found.at = "cancelOld"
      /\ found.full = hook[h].full /\ found.rest = hook[h].rest
    BY <1>0, <1>2, <1>3 DEF Call, Sites
<1>7. /\ none \in Call /\ none.payment = hook[h].payment /\ none.sub = hook[h].sub
      /\ none.old = hook[h].old /\ none.at = "activate"
      /\ none.full = hook[h].full /\ none.rest = hook[h].rest
    BY <1>0, <1>2, <1>3 DEF Call, Sites
<1> HIDE DEF found, none
<1>8. CASE other # 0 /\ hook' = [hook EXCEPT ![h] = found]
    BY <1>0, <1>2, <1>3, <1>4, <1>6, <1>8, CallReads
<1>9. CASE hook' = [hook EXCEPT ![h] = none]
    BY <1>0, <1>3, <1>4, <1>7, <1>9, CallReads
<1>10. QED
    BY <1>5, <1>8, <1>9

LEMMA SetPlanDoes ==
    ASSUME PInv, NEW h \in Handlers, SetPlan(h)
    PROVE  /\ GoesOn(h) /\ hook[h].at = "setPlan" /\ hook'[h].at \in {"record", "pauseFree"}
<1> DEFINE to == IF RefOf(h) = "none" THEN "record" ELSE "pauseFree"
           new == [Idle EXCEPT !.at = to, !.payment = hook[h].payment]
<1>0. TypeOK /\ UNCHANGED subs /\ subs \in Seq(Row) /\ Len(subs) \in Nat /\ RowsKept
    BY Parts, RowsSame DEF PInv, RowsOK, SetPlan
<1>1. hook[h] \in Call /\ hook[h].at = "setPlan"
    BY <1>0 DEF TypeOK, SetPlan
<1>2. to \in {"record", "pauseFree"}
    OBVIOUS
<1>3. hook' = [hook EXCEPT ![h] = new]
    BY DEF SetPlan
<1> HIDE DEF to
<1>4. /\ new \in Call /\ new.payment = hook[h].payment /\ new.sub = 0 /\ new.old = 0 /\ new.at = to
    BY <1>1, <1>2 DEF Idle, Call, Sites
<1> HIDE DEF new
<1>5. new.sub \in 0 .. Len(subs) /\ new.old \in 0 .. Len(subs)
    BY <1>0, <1>4
<1>6. GoesOn(h) /\ hook'[h] = new
    BY <1>0, <1>1, <1>3, <1>4, <1>5, CallReads
<1>7. QED
    BY <1>1, <1>2, <1>4, <1>6
LEMMA DeliverTypes ==
    ASSUME PInv, NEW h \in Handlers, NEW p \in DOMAIN payments, Deliver(h, p)
    PROVE  /\ PInv'
           /\ hook'[h].at \in {"readUser", "readTopUp"}
           /\ \A other \in Handlers \ {h} : hook'[other] = hook[other]
<1> DEFINE to == IF payments[p].ref = "none" THEN "readUser" ELSE "readTopUp"
           new == [Idle EXCEPT !.at = to, !.payment = p]
<1>0. UserOK /\ RowsOK /\ AtlosOK /\ HookOK /\ TypeOK
    BY Parts DEF PInv
<1>1. RowsKept /\ UNCHANGED subs /\ UNCHANGED payments
    BY <1>0, RowsSame DEF Deliver, RowsOK, rows, atlos
<1>2. p \in Nat /\ payments[p].state = "due" /\ \A o \in Handlers : hook[o].payment # p
    BY <1>0 DEF Deliver, AtlosOK
<1>3. payments[p].ref \in Contracts \cup {"none"}
    <2>1. payments[p] \in Payment
        BY <1>0 DEF AtlosOK
    <2>2. QED
        BY <2>1 DEF Payment
<1>4. hook' = [hook EXCEPT ![h] = new]
    BY DEF Deliver
<1>5. /\ to \in {"readUser", "readTopUp"}
      /\ to = "readUser" => payments[p].ref = "none"
      /\ to = "readTopUp" => payments[p].ref \in Contracts
    BY <1>3
<1> HIDE DEF to
<1>6. new \in Call /\ new.payment = p /\ new.at = to /\ new.sub = 0 /\ new.old = 0
    BY <1>2, <1>5 DEF Idle, Call, Sites
<1> HIDE DEF new
<1>7. /\ hook' \in [Handlers -> Call] /\ hook'[h] = new
      /\ \A o \in Handlers \ {h} : hook'[o] = hook[o]
    BY <1>0, <1>4, <1>6 DEF HookOK
<1>8. CallsInRange'
    <2>1. Len(subs) \in Nat
        BY <1>0 DEF RowsOK
    <2>2. QED
        BY <1>0, <1>1, <1>6, <1>7, <2>1 DEF HookOK, CallsInRange
<1>9. CallsOK'
    <2>1. ASSUME NEW o \in Handlers, hook'[o].at # "idle"
          PROVE  /\ RightPlace(hook[o].at, hook[o].sub, hook[o].old, RefOf(o))'
                 /\ payments'[hook'[o].payment].state = "due"
                 /\ \A other \in Handlers \ {o} :
                        hook'[other].at # "idle" => hook'[o].payment # hook'[other].payment
        <3>1. CASE o = h
            <4>1. RefOf(h)' = payments[p].ref
                BY <1>1, <1>6, <1>7 DEF RefOf
            <4>2. RightPlace(hook[o].at, hook[o].sub, hook[o].old, RefOf(o))'
                BY <1>5, <1>6, <1>7, <3>1, <4>1 DEF RightPlace, TopUpSites, ContractSites
            <4>3. payments'[hook'[o].payment].state = "due"
                BY <1>1, <1>2, <1>6, <1>7, <3>1
            <4>4. QED
                BY <1>2, <1>6, <1>7, <3>1, <4>2, <4>3
        <3>2. CASE o # h
            <4>1. hook'[o] = hook[o] /\ RefOf(o)' = RefOf(o)
                BY <1>1, <1>7, <3>2 DEF RefOf
            <4>2. RightPlace(hook[o].at, hook[o].sub, hook[o].old, RefOf(o))'
                BY <1>0, <1>1, <4>1 DEF HookOK, CallsOK, RightPlace
            <4>3. payments[hook[o].payment].state = "due"
                BY <1>0, <2>1, <4>1 DEF HookOK, CallsOK
            <4>4. \A other \in Handlers \ {o} :
                        hook'[other].at # "idle" => hook'[o].payment # hook'[other].payment
                BY <1>0, <1>2, <1>6, <1>7, <2>1, <4>1 DEF HookOK, CallsOK
            <4>5. QED
                BY <1>1, <4>1, <4>2, <4>3, <4>4
        <3>3. QED
            BY <3>1, <3>2
    <2>2. QED
        BY <2>1 DEF CallsOK, RightPlace, TopUpSites, ContractSites
<1>10. UserOK'
    BY <1>0, UserStays DEF Deliver, rows, user
<1>11. RowsOK'
    BY <1>0, <1>1, RowsStay DEF Deliver, user, atlos
<1>12. AtlosOK'
    BY <1>0, AtlosStays DEF Deliver, atlos
<1>13. QED
    BY <1>5, <1>6, <1>7, <1>8, <1>9, <1>10, <1>11, <1>12, PartsNext DEF HookOK

LEMMA EndTypes ==
    ASSUME PInv, NEW h \in Handlers, hook[h].at # "idle",
           hook' = [hook EXCEPT ![h] = Idle],
           UNCHANGED payments
             \/ payments' = [payments EXCEPT ![hook[h].payment].state = "acknowledged"],
           UNCHANGED <<rows, cancelling, scheduled, spent, allowed, buy, billed, checkouts, granted>>,
           failures' \in Nat, forsaken' \in SUBSET Contracts
    PROVE  PInv'
<1>0. UserOK /\ RowsOK /\ AtlosOK /\ TypeOK /\ CallsOK
    BY Parts DEF PInv
<1>1. RowsKept /\ UNCHANGED subs
    BY <1>0, RowsSame DEF RowsOK, rows
<1>2. /\ CallsOK' /\ CallsInRange' /\ hook' \in [Handlers -> Call]
      /\ payments' \in Seq(Payment) /\ DOMAIN payments' = DOMAIN payments
    BY <1>0, <1>1, CallEnds
<1>3. UserOK'
    BY <1>0 DEF UserOK, rows
<1>4. RowsOK'
    BY <1>0, <1>1, RowsStay
<1>5. AtlosOK'
    BY <1>0, <1>2 DEF AtlosOK
<1>6. QED
    BY <1>2, <1>3, <1>4, <1>5, PartsNext DEF HookOK

(* The statements that only read. *)
LEMMA ReadTypes ==
    ASSUME PaymentsAssumption, PInv, NEW h \in Handlers,
           ReadUser(h) \/ ReadDone(h) \/ ReadTopUp(h) \/ FindCreated(h) \/ FindActive(h) \/ FindOther(h)
    PROVE  PInv'
<1>0. CallsOK /\ RowsOK /\ AtlosOK /\ UserOK
    BY Parts DEF PInv
<1>1. CASE ReadUser(h)
    <2>1. UNCHANGED <<rows, user, atlos, history>> /\ RefOf(h) = "none"
        BY <1>0, <1>1 DEF ReadUser, CallsOK, TopUpSites
    <2>2. RightPlace(hook'[h].at, hook'[h].sub, hook'[h].old, RefOf(h))
        BY <1>1, <2>1, ReadUserReads DEF RightPlace, TopUpSites, ContractSites
    <2>3. QED
        BY <1>1, <2>1, <2>2, ReadUserReads, ReadingTypes
<1>2. CASE ReadDone(h)
    <2>1. RightPlace(hook'[h].at, hook'[h].sub, hook'[h].old, RefOf(h))
        BY <1>2, ReadDoneReads DEF RightPlace, TopUpSites, ContractSites
    <2>2. QED
        BY <1>2, <2>1, ReadDoneReads, ReadingTypes DEF ReadDone
<1>3. CASE ReadTopUp(h)
    <2>1. RefOf(h) \in Contracts
        BY <1>0, <1>3 DEF ReadTopUp, CallsOK, ContractSites
    <2>2. RightPlace(hook'[h].at, hook'[h].sub, hook'[h].old, RefOf(h))
        BY <1>3, <2>1, ReadTopUpReads DEF RightPlace, TopUpSites, ContractSites
    <2>3. QED
        BY <1>3, <2>2, ReadTopUpReads, ReadingTypes DEF ReadTopUp
<1>4. CASE FindCreated(h)
    <2>1. RefOf(h) \in Contracts
        BY <1>0, <1>4 DEF FindCreated, CallsOK, ContractSites
    <2>2. RightPlace(hook'[h].at, hook'[h].sub, hook'[h].old, RefOf(h))
        BY <1>4, <2>1, FindCreatedReads DEF RightPlace, TopUpSites, ContractSites
    <2>3. QED
        BY <1>4, <2>2, FindCreatedReads, ReadingTypes DEF FindCreated
<1>5. CASE FindActive(h)
    <2>1. hook[h].at = "findActive" /\ RefOf(h) \in Contracts
        BY <1>0, <1>5 DEF FindActive, Goto, CallsOK, ContractSites
    <2>2. UNCHANGED <<rows, user, billed, checkouts, history>>
        BY <1>5 DEF FindActive
    <2>3. CASE GoesOn(h) /\ UNCHANGED payments
               /\ hook'[h].sub = hook[h].sub
               /\ \/ hook[h].sub # 0 /\ hook'[h].at = "findOther"
                  \/ /\ hook[h].sub = 0 /\ hook'[h].at = "closeOld"
                     /\ hook'[h].old \in RowsOf(RefOf(h))
        <3>1. hook[h].sub # 0 => hook[h].sub \in DOMAIN subs
            BY <1>0, <2>1, CallColumns DEF RowsOK
        <3>2. RowsOf(RefOf(h)) \subseteq DOMAIN subs
            BY DEF RowsOf, RowsIn
        <3>3. RightPlace(hook'[h].at, hook'[h].sub, hook'[h].old, RefOf(h))
            BY <2>1, <2>3, <3>1, <3>2 DEF RightPlace, TopUpSites, ContractSites
        <3>4. QED
            BY <2>2, <2>3, <3>3, ReadingTypes DEF atlos
    <2>4. CASE Answer(h)
        BY <1>0, <2>1, <2>2, <2>4, EndTypes DEF Answer, user, bounds, history, AtlosOK, UserOK
    <2>5. QED
        BY <1>5, <2>3, <2>4, FindActiveReads
<1>6. CASE FindOther(h)
    <2>1. hook[h].sub \in DOMAIN subs /\ RefOf(h) \in Contracts
        BY <1>0, <1>6 DEF FindOther, CallsOK, ContractSites
    <2>2. RowsIn("ACTIVE") \subseteq DOMAIN subs
        BY DEF RowsIn
    <2>3. RightPlace(hook'[h].at, hook'[h].sub, hook'[h].old, RefOf(h))
        BY <1>6, <2>1, <2>2, FindOtherReads DEF RightPlace, TopUpSites, ContractSites
    <2>4. QED
        BY <1>6, <2>3, FindOtherReads, ReadingTypes DEF FindOther
<1>7. QED
    BY <1>1, <1>2, <1>3, <1>4, <1>5, <1>6
(* What each writing statement does to the rows. *)

LEMMA IncrementDoes ==
    ASSUME PaymentsAssumption, PInv, NEW h \in Handlers, IncrementSubscription(h)
    PROVE  /\ GoesOn(h) /\ hook[h].at = "increment" /\ hook'[h].at = "pauseFree"
           /\ RowsKept /\ DOMAIN subs' = DOMAIN subs
           /\ \A i \in DOMAIN subs :
                  subs'[i].ref = subs[i].ref /\ subs'[i].status = subs[i].status
<1> DEFINE s == hook[h].sub
           new == [subs[s] EXCEPT !.total = @ + TopUpCredits]
<1>0. TypeOK /\ subs \in Seq(Row)
    BY Parts DEF PInv, RowsOK
<1>1. hook[h].at = "increment" /\ s \in DOMAIN subs
    BY DEF PInv, CallsOK, IncrementSubscription, Goto
<1>2. subs[s] \in Row /\ subs[s].total + TopUpCredits \in Nat
    BY <1>0, <1>1, RowColumns DEF PaymentsAssumption
<1>3. new \in Row /\ new.ref = subs[s].ref /\ new.status = subs[s].status
    BY <1>2 DEF Row
<1>4. SetRow(s, new)
    BY DEF IncrementSubscription, SetRow
<1> HIDE DEF new, s
<1>5. /\ RowsKept /\ DOMAIN subs' = DOMAIN subs /\ subs'[s] = new
      /\ \A j \in DOMAIN subs : j # s => subs'[j] = subs[j]
    BY <1>0, <1>1, <1>3, <1>4, RowSet
<1>6. GoesOn(h) /\ hook'[h].at = "pauseFree"
    BY <1>0, <1>5, GotoGoesOn DEF IncrementSubscription, Sites
<1>7. QED
    BY <1>1, <1>3, <1>5, <1>6

LEMMA CloseOldDoes ==
    ASSUME PInv, NEW h \in Handlers, CloseOld(h)
    PROVE  /\ GoesOn(h) /\ hook[h].at = "closeOld" /\ hook[h].old \in DOMAIN subs
           /\ hook'[h].at = IF hook[h].sub = 0 THEN "renew" ELSE "activate"
           /\ hook'[h].sub = hook[h].sub /\ hook'[h].old = hook[h].old
           /\ hook'[h].rest = hook[h].rest /\ hook'[h].full = hook[h].full
           /\ RowsKept /\ DOMAIN subs' = DOMAIN subs
           /\ \A i \in DOMAIN subs : subs'[i].ref = subs[i].ref
           /\ \A i \in DOMAIN subs : i # hook[h].old => subs'[i] = subs[i]
           /\ subs'[hook[h].old].status = "DONE"
<1> DEFINE s == hook[h].old
           new == [subs[s] EXCEPT !.status = "DONE"]
           to == IF hook[h].sub = 0 THEN "renew" ELSE "activate"
<1>0. TypeOK /\ subs \in Seq(Row)
    BY Parts DEF PInv, RowsOK
<1>1. hook[h].at = "closeOld" /\ s \in DOMAIN subs
    BY DEF PInv, CallsOK, CloseOld, Goto
<1>2. subs[s] \in Row
    BY <1>0, <1>1, RowColumns
<1>3. new \in Row /\ new.ref = subs[s].ref /\ new.status = "DONE"
    BY <1>2 DEF Row
<1>4. SetRow(s, new)
    BY DEF CloseOld
<1> HIDE DEF new
<1>5. /\ RowsKept /\ DOMAIN subs' = DOMAIN subs /\ subs'[s] = new
      /\ \A j \in DOMAIN subs : j # s => subs'[j] = subs[j]
    BY <1>0, <1>1, <1>3, <1>4, RowSet
<1>6. Goto(h, "closeOld", to) /\ to \in Sites /\ "closeOld" \in Sites \ {"idle"}
    BY DEF CloseOld, Sites
<1>7. GoesOn(h) /\ hook'[h].at = to /\ hook'[h].sub = hook[h].sub /\ hook'[h].old = hook[h].old
      /\ hook'[h].rest = hook[h].rest /\ hook'[h].full = hook[h].full
    BY <1>0, <1>5, <1>6, GotoGoesOn
<1>8. QED
    BY <1>1, <1>3, <1>5, <1>7

LEMMA AfterGrantSites ==
    ASSUME NEW h PROVE AfterGrant(h) \in {"retire", "setPlan"} /\ AfterGrant(h) \in Sites
BY DEF AfterGrant, Sites

LEMMA ActivateDoes ==
    ASSUME PaymentsAssumption, PInv, NEW h \in Handlers, Activate(h)
    PROVE  /\ GoesOn(h) /\ hook[h].at = "activate" /\ hook[h].sub \in DOMAIN subs
           /\ hook'[h].at \in {"retire", "setPlan"}
           /\ hook'[h].rest = hook[h].rest /\ hook'[h].full = hook[h].full
           /\ RowsKept /\ DOMAIN subs' = DOMAIN subs
           /\ \A i \in DOMAIN subs : i # hook[h].sub => subs'[i] = subs[i]
           /\ subs'[hook[h].sub].status = "ACTIVE"
           /\ subs'[hook[h].sub].ref = RefOf(h) /\ RefOf(h) \in Contracts
<1> DEFINE s == hook[h].sub
           total == hook[h].total + hook[h].rest
           new == [subs[s] EXCEPT !.status = "ACTIVE", !.total = total, !.ref = RefOf(h)]
<1>0. TypeOK /\ subs \in Seq(Row)
    BY Parts DEF PInv, RowsOK
<1>1. hook[h].at = "activate" /\ s \in DOMAIN subs /\ RefOf(h) \in Contracts
    BY DEF PInv, CallsOK, Activate, Goto, ContractSites
<1>2. subs[s] \in Row /\ total \in Nat
    BY <1>0, <1>1, RowColumns, CallColumns
<1>3. SetRow(s, new)
    BY DEF Activate
<1> HIDE DEF total
<1>4. new \in Row /\ new.ref = RefOf(h) /\ new.status = "ACTIVE"
    BY <1>1, <1>2 DEF Row
<1> HIDE DEF new
<1>5. /\ RowsKept /\ DOMAIN subs' = DOMAIN subs /\ subs'[s] = new
      /\ \A j \in DOMAIN subs : j # s => subs'[j] = subs[j]
    BY <1>0, <1>1, <1>3, <1>4, RowSet
<1>6. Goto(h, "activate", AfterGrant(h)) /\ "activate" \in Sites \ {"idle"}
    BY DEF Activate, Sites
<1>7. /\ GoesOn(h) /\ hook'[h].at = AfterGrant(h)
      /\ hook'[h].rest = hook[h].rest /\ hook'[h].full = hook[h].full
    BY <1>0, <1>5, <1>6, AfterGrantSites, GotoGoesOn
<1>8. QED
    BY <1>1, <1>4, <1>5, <1>7, AfterGrantSites

LEMMA RenewDoes ==
    ASSUME PaymentsAssumption, PInv, NEW h \in Handlers, Renew(h)
    PROVE  /\ GoesOn(h) /\ hook[h].at = "renew"
           /\ hook'[h].at \in {"retire", "setPlan"}
           /\ hook'[h].rest = hook[h].rest /\ hook'[h].full = hook[h].full
           /\ RowsKept /\ DOMAIN subs' = DOMAIN subs \cup {Len(subs) + 1}
           /\ \A i \in DOMAIN subs : subs'[i] = subs[i]
           /\ subs'[Len(subs) + 1].status = "ACTIVE"
           /\ subs'[Len(subs) + 1].ref = RefOf(h) /\ RefOf(h) \in Contracts
<1> DEFINE plan == subs[hook[h].old].plan
           total == Base[plan] + hook[h].rest
           new == NewRow(plan, RefOf(h), "ACTIVE", total)
<1>0. TypeOK /\ subs \in Seq(Row)
    BY Parts DEF PInv, RowsOK
<1>1. hook[h].at = "renew" /\ hook[h].old \in DOMAIN subs /\ RefOf(h) \in Contracts
    BY DEF PInv, CallsOK, Renew, Goto, ContractSites
<1>2. plan \in Tiers /\ hook[h].rest \in Nat
    BY <1>0, <1>1, RowColumns, CallColumns
<1>3. total \in Nat
    BY <1>2 DEF PaymentsAssumption, Tiers
<1>4. subs' = Append(subs, new)
    BY DEF Renew, AddRow
<1> HIDE DEF plan, total
<1>5. new \in Row /\ new.ref = RefOf(h) /\ new.status = "ACTIVE"
    BY <1>1, <1>2, <1>3, NewRowType DEF NewRow
<1> HIDE DEF new
<1>6. /\ RowsKept /\ DOMAIN subs' = DOMAIN subs \cup {Len(subs) + 1}
      /\ subs'[Len(subs) + 1] = new /\ \A i \in DOMAIN subs : subs'[i] = subs[i]
    BY <1>0, <1>4, <1>5, RowAdded
<1>7. Goto(h, "renew", AfterGrant(h)) /\ "renew" \in Sites \ {"idle"}
    BY DEF Renew, Sites
<1>8. /\ GoesOn(h) /\ hook'[h].at = AfterGrant(h)
      /\ hook'[h].rest = hook[h].rest /\ hook'[h].full = hook[h].full
    BY <1>0, <1>6, <1>7, AfterGrantSites, GotoGoesOn
<1>9. QED
    BY <1>1, <1>5, <1>6, <1>8, AfterGrantSites

(* The others only go on, as far as rows are concerned. *)
LEMMA PlainDoes ==
    ASSUME PInv, NEW h \in Handlers,
           UpsertTopUp(h) \/ CancelOld(h) \/ Retire(h) \/ PauseFree(h)
    PROVE  /\ GoesOn(h) /\ UNCHANGED subs /\ RowsKept
           /\ hook'[h].sub = hook[h].sub /\ hook'[h].old = hook[h].old
           /\ hook'[h].rest = hook[h].rest /\ hook'[h].full = hook[h].full
           /\ UpsertTopUp(h) => hook[h].at = "upsert" /\ hook'[h].at = "setPlan"
           /\ CancelOld(h) => hook[h].at = "cancelOld" /\ hook'[h].at = "closeOld"
           /\ Retire(h) => hook[h].at = "retire" /\ hook'[h].at = "setPlan"
           /\ PauseFree(h) => /\ hook[h].at = "pauseFree"
                              /\ hook'[h].at \in {"upsert", "record"}
                              /\ RefOf(h) # "none" => hook'[h].at = "record"
<1>0. TypeOK /\ UNCHANGED subs /\ RowsKept
    BY Parts, RowsSame DEF PInv, RowsOK, UpsertTopUp, CancelOld, Retire, PauseFree, rows
<1>1. ASSUME NEW from \in Sites \ {"idle"}, NEW to \in Sites, Goto(h, from, to)
      PROVE  /\ GoesOn(h) /\ hook[h].at = from /\ hook'[h].at = to
             /\ hook'[h].sub = hook[h].sub /\ hook'[h].old = hook[h].old
             /\ hook'[h].rest = hook[h].rest /\ hook'[h].full = hook[h].full
    BY <1>0, <1>1, GotoGoesOn DEF Goto
<1>2. {"upsert", "setPlan", "cancelOld", "closeOld", "retire", "pauseFree", "record"}
            \subseteq Sites \ {"idle"}
    BY DEF Sites
<1>3. CASE UpsertTopUp(h)
    <2>1. Goto(h, "upsert", "setPlan")
        BY <1>3 DEF UpsertTopUp
    <2>2. hook[h].at = "upsert" /\ hook'[h].at = "setPlan"
        BY <1>1, <1>2, <2>1
    <2>3. QED
        BY <1>0, <1>1, <1>2, <2>1, <2>2 DEF CancelOld, Retire, PauseFree, Goto
<1>4. CASE CancelOld(h)
    <2>1. Goto(h, "cancelOld", "closeOld")
        BY <1>4 DEF CancelOld
    <2>2. hook[h].at = "cancelOld" /\ hook'[h].at = "closeOld"
        BY <1>1, <1>2, <2>1
    <2>3. QED
        BY <1>0, <1>1, <1>2, <2>1, <2>2 DEF UpsertTopUp, Retire, PauseFree, Goto
<1>5. CASE Retire(h)
    <2>1. Goto(h, "retire", "setPlan")
        BY <1>5 DEF Retire
    <2>2. hook[h].at = "retire" /\ hook'[h].at = "setPlan"
        BY <1>1, <1>2, <2>1
    <2>3. QED
        BY <1>0, <1>1, <1>2, <2>1, <2>2 DEF UpsertTopUp, CancelOld, PauseFree, Goto
<1>6. CASE PauseFree(h)
    <2> DEFINE to == IF RefOf(h) = "none" /\ hook[h].sub = 0 THEN "upsert" ELSE "record"
    <2>1. Goto(h, "pauseFree", to)
        BY <1>6 DEF PauseFree
    <2>2. to \in {"upsert", "record"} /\ (RefOf(h) # "none" => to = "record")
        OBVIOUS
    <2> HIDE DEF to
    <2>3. hook[h].at = "pauseFree" /\ hook'[h].at = to
        BY <1>1, <1>2, <2>1, <2>2
    <2>4. QED
        BY <1>0, <1>1, <1>2, <2>1, <2>2, <2>3 DEF UpsertTopUp, CancelOld, Retire, Goto
<1>7. QED
    BY <1>3, <1>4, <1>5, <1>6
LEMMA WriteTypes ==
    ASSUME PaymentsAssumption, PInv, NEW h \in Handlers,
           \/ IncrementSubscription(h) \/ UpsertTopUp(h) \/ CancelOld(h) \/ CloseOld(h)
           \/ Renew(h) \/ Activate(h) \/ Retire(h) \/ PauseFree(h) \/ SetPlan(h)
    PROVE  PInv'
<1>0. CallsOK /\ RowsOK /\ AtlosOK /\ UserOK /\ TypeOK
    BY Parts DEF PInv
<1> DEFINE Place == RightPlace(hook'[h].at, hook'[h].sub, hook'[h].old, RefOf(h))
<1>1. CASE IncrementSubscription(h)
    <2>1. GoesOn(h) /\ RowsKept /\ Place
        BY <1>1, IncrementDoes DEF RightPlace, TopUpSites, ContractSites
    <2>2. UserOK'
        BY <1>0, <1>1, UserStays DEF IncrementSubscription, user
    <2>3. QED
        BY <1>0, <1>1, <2>1, <2>2, GoingOnTypes DEF IncrementSubscription, user, atlos, AtlosOK
<1>2. CASE UpsertTopUp(h)
    <2>1. GoesOn(h) /\ RowsKept /\ Place
        BY <1>2, PlainDoes DEF RightPlace, TopUpSites, ContractSites
    <2>2. UserOK'
        <3>1. hook[h].rest \in Nat /\ topUp.total + hook[h].rest \in Nat
            BY <1>0, <1>2, CallColumns DEF UpsertTopUp, Goto, UserOK
        <3>2. topUp' = [topUp EXCEPT !.total = topUp.total + hook[h].rest, !.status = "ACTIVE"]
            BY <1>2 DEF UpsertTopUp
        <3>3. topUp' \in [status : {"none", "ACTIVE", "PAUSED"}, total : Nat, usage : Nat]
            BY <1>0, <3>1, <3>2 DEF UserOK
        <3>4. QED
            BY <1>0, <1>2, <3>3 DEF UpsertTopUp, UserOK, user, bounds
    <2>3. QED
        BY <1>0, <1>2, <2>1, <2>2, GoingOnTypes DEF UpsertTopUp, user, atlos, AtlosOK
<1>3. CASE CancelOld(h)
    <2>1. hook[h].old \in DOMAIN subs /\ RefOf(h) \in Contracts
        BY <1>0, <1>3 DEF CancelOld, Goto, CallsOK, ContractSites
    <2>2. GoesOn(h) /\ RowsKept /\ Place
        BY <1>3, <2>1, PlainDoes DEF RightPlace, TopUpSites, ContractSites
    <2>3. UserOK'
        BY <1>0, <1>3, UserStays DEF CancelOld, user, rows
    <2>4. billed' \in SUBSET billed /\ forsaken' \in SUBSET Contracts
        BY <1>0, <1>3 DEF CancelOld, AtlosOK
    <2>5. QED
        BY <1>3, <2>2, <2>3, <2>4, GoingOnTypes DEF CancelOld, user
<1>4. CASE CloseOld(h)
    <2>1. /\ hook[h].old \in DOMAIN subs /\ RefOf(h) \in Contracts
          /\ hook[h].sub # 0 => hook[h].sub \in DOMAIN subs
        BY <1>0, <1>4, CallColumns DEF CloseOld, Goto, CallsOK, ContractSites, RowsOK
    <2>2. GoesOn(h) /\ RowsKept /\ Place
        BY <1>4, <2>1, CloseOldDoes DEF RightPlace, TopUpSites, ContractSites
    <2>3. UserOK'
        BY <1>0, <1>4, UserStays DEF CloseOld, user
    <2>4. QED
        BY <1>0, <1>4, <2>2, <2>3, GoingOnTypes DEF CloseOld, user, atlos, history, AtlosOK
<1>5. CASE Renew(h)
    <2>1. GoesOn(h) /\ RowsKept /\ Place
        BY <1>5, RenewDoes DEF RightPlace, TopUpSites, ContractSites
    <2>2. UserOK'
        BY <1>0, <1>5, UserStays DEF Renew, user
    <2>3. QED
        BY <1>0, <1>5, <2>1, <2>2, GoingOnTypes DEF Renew, user, atlos, AtlosOK
<1>6. CASE Activate(h)
    <2>1. GoesOn(h) /\ RowsKept /\ Place
        BY <1>6, ActivateDoes DEF RightPlace, TopUpSites, ContractSites
    <2>2. UserOK'
        BY <1>0, <1>6, UserStays DEF Activate, user
    <2>3. QED
        BY <1>0, <1>6, <2>1, <2>2, GoingOnTypes DEF Activate, user, atlos, AtlosOK
<1>7. CASE Retire(h)
    <2>1. GoesOn(h) /\ RowsKept /\ Place
        BY <1>7, PlainDoes DEF RightPlace, TopUpSites, ContractSites
    <2>2. UserOK'
        <3>1. hook[h].full \in Nat
            BY <1>0, <1>7, CallColumns DEF Retire, Goto
        <3>2. topUp' \in [status : {"none", "ACTIVE", "PAUSED"}, total : Nat, usage : Nat]
            BY <1>0, <1>7, <3>1 DEF Retire, UserOK
        <3>3. QED
            BY <1>0, <1>7, <3>2 DEF Retire, UserOK, user, bounds
    <2>3. QED
        BY <1>0, <1>7, <2>1, <2>2, GoingOnTypes DEF Retire, user, atlos, history, AtlosOK
<1>8. CASE PauseFree(h)
    <2>1. GoesOn(h) /\ RowsKept /\ Place
        BY <1>8, PlainDoes DEF RightPlace, TopUpSites, ContractSites
    <2>2. UserOK'
        BY <1>0, <1>8 DEF PauseFree, UserOK, user, bounds
    <2>3. QED
        BY <1>0, <1>8, <2>1, <2>2, GoingOnTypes DEF PauseFree, user, atlos, history, AtlosOK
<1>9. CASE SetPlan(h)
    <2>1. GoesOn(h) /\ RowsKept /\ Place
        BY <1>0, <1>9, SetPlanDoes, RowsSame DEF SetPlan, RowsOK, RightPlace, TopUpSites, ContractSites
    <2>2. UserOK'
        BY <1>0, <1>9 DEF SetPlan, UserOK, user, bounds
    <2>3. QED
        BY <1>0, <1>9, <2>1, <2>2, GoingOnTypes DEF SetPlan, user, atlos, history, AtlosOK
<1>10. QED
    BY <1>1, <1>2, <1>3, <1>4, <1>5, <1>6, <1>7, <1>8, <1>9

LEMMA RecordTypes ==
    ASSUME PaymentsAssumption, PInv, NEW h \in Handlers, Record(h) \/ Fail(h)
    PROVE  PInv'
<1>0. CallsOK /\ AtlosOK /\ UserOK /\ TypeOK
    BY Parts DEF PInv
<1>1. CASE Record(h)
    <2>1. failures' \in Nat /\ forsaken' \in SUBSET Contracts
        BY <1>0, <1>1 DEF Record, user, bounds, history, UserOK, AtlosOK
    <2>2. QED
        BY <1>1, <2>1, EndTypes DEF Record, Answer, user, bounds, history
<1>2. CASE Fail(h)
    <2>1. hook[h].at = "renew" => RefOf(h) \in Contracts
        BY <1>0 DEF CallsOK, ContractSites
    <2>2. failures' \in Nat /\ forsaken' \in SUBSET Contracts
        BY <1>0, <1>2, <2>1 DEF Fail, UserOK, AtlosOK
    <2>3. QED
        BY <1>2, <2>2, EndTypes DEF Fail, atlos
<1>3. QED
    BY <1>1, <1>2

LEMMA StepTypes == PaymentsAssumption /\ PInv /\ [Next]_vars => PInv'
<1> SUFFICES ASSUME PaymentsAssumption, PInv, [Next]_vars PROVE PInv'
    OBVIOUS
<1>1. CASE UNCHANGED vars
    <2>1. UserOK /\ RowsOK /\ AtlosOK /\ TypeOK
        BY Parts DEF PInv
    <2>2. RowsKept
        BY <1>1, <2>1, RowsSame DEF vars, rows, RowsOK
    <2>3. UserOK'
        BY <1>1, <2>1, UserStays DEF vars, rows, user
    <2>4. RowsOK'
        BY <1>1, <2>1, <2>2, RowsStay DEF vars, user, atlos
    <2>5. QED
        BY <1>1, <2>2, <2>3, <2>4, OnlyUser DEF vars, atlos, history
<1>2. ASSUME NEW h \in Handlers, Webhook(h) PROVE PInv'
    BY <1>2, DeliverTypes, ReadTypes, WriteTypes, RecordTypes DEF Webhook
<1>3. CASE Next
    BY <1>2, <1>3, UserTypes, X402Types, AtlosTypes DEF Next
<1>4. QED
    BY <1>1, <1>3

(* Every variable of Payments keeps its type, whatever crosses.            *)
THEOREM PaymentsTypes == Spec => []TypeOK
<1>1. Init => PInv
    BY PaymentsAssumption, InitTypes
<1>2. PInv /\ [Next]_vars => PInv'
    BY PaymentsAssumption, StepTypes
<1>3. PInv => TypeOK
    BY DEF PInv
<1>4. QED
    BY <1>1, <1>2, <1>3, PTL DEF Spec
-----------------------------------------------------------------------------
(* What the other steps do to the rows. *)

(* The rows may have been charged or topped up, no more. *)
SameRows ==
    /\ DOMAIN subs' = DOMAIN subs
    /\ \A i \in DOMAIN subs : subs'[i].ref = subs[i].ref /\ subs'[i].status = subs[i].status

LEMMA CreateDoes ==
    ASSUME PaymentsAssumption, PInv, NEW plan \in Tiers, NEW upgrade \in BOOLEAN,
           CreateSubscription(plan, upgrade)
    PROVE  /\ DOMAIN subs' = DOMAIN subs \cup {Len(subs) + 1}
           /\ Len(subs) + 1 \notin DOMAIN subs
           /\ \A i \in DOMAIN subs : subs'[i] = subs[i]
           /\ subs'[Len(subs) + 1].ref = "none" /\ subs'[Len(subs) + 1].status = "CREATED"
<1> DEFINE new == NewRow(plan, "none", "CREATED", Base[plan] + Carried(upgrade))
<1>1. subs \in Seq(Row)
    BY Parts DEF RowsOK
<1>2. subs' = Append(subs, new)
    BY DEF CreateSubscription, AddRow
<1>3. new.ref = "none" /\ new.status = "CREATED"
    BY DEF NewRow
<1> HIDE DEF new
<1>4. QED
    BY <1>1, <1>2, <1>3

LEMMA SpendDoes ==
    ASSUME PInv, Spend
    PROVE  SameRows
<1>1. subs \in Seq(Row)
    BY Parts DEF RowsOK
<1>2. ASSUME NEW i \in DOMAIN subs, SetRow(i, [subs[i] EXCEPT !.usage = @ + 1])
      PROVE  SameRows
    <2> DEFINE new == [subs[i] EXCEPT !.usage = @ + 1]
    <2>1. subs[i] \in Row
        BY <1>1
    <2>2. new.ref = subs[i].ref /\ new.status = subs[i].status
        BY <2>1 DEF Row
    <2>3. subs' = [subs EXCEPT ![i] = new]
        BY <1>2 DEF SetRow
    <2> HIDE DEF new
    <2>4. QED
        BY <1>1, <2>2, <2>3 DEF SameRows
<1>3. CASE UNCHANGED subs
    BY <1>3 DEF SameRows
<1>4. QED
    BY <1>2, <1>3 DEF Spend

LEMMA FinishDoes ==
    ASSUME PInv, FinishCancel
    PROVE  /\ cancelling \in DOMAIN subs /\ DOMAIN subs' = DOMAIN subs
           /\ \A i \in DOMAIN subs : subs'[i].ref = subs[i].ref
           /\ \A i \in DOMAIN subs :
                  \/ subs'[i].status = subs[i].status
                  \/ i = cancelling /\ subs'[i].status = "CANCELLED"
<1> DEFINE new == [subs[cancelling] EXCEPT !.status = "CANCELLED"]
<1>0. RowsOK
    BY Parts
<1>1. subs \in Seq(Row) /\ cancelling \in DOMAIN subs
    BY <1>0 DEF RowsOK, FinishCancel
<1>2. subs[cancelling] \in Row
    BY <1>1
<1>3. new.ref = subs[cancelling].ref /\ new.status = "CANCELLED"
    BY <1>2 DEF Row
<1>4. UNCHANGED subs \/ subs' = [subs EXCEPT ![cancelling] = new]
    BY DEF FinishCancel, SetRow
<1> HIDE DEF new
<1>5. CASE UNCHANGED subs
    BY <1>1, <1>5
<1>6. CASE subs' = [subs EXCEPT ![cancelling] = new]
    <2>1. DOMAIN subs' = DOMAIN subs
        BY <1>1, <1>6
    <2>2. \A i \in DOMAIN subs : subs'[i] = IF i = cancelling THEN new ELSE subs[i]
        BY <1>1, <1>6
    <2>3. QED
        BY <1>1, <1>3, <2>1, <2>2
<1>7. QED
    BY <1>4, <1>5, <1>6

LEMMA CreateByX402Does ==
    ASSUME PInv, CreateByX402
    PROVE  /\ DOMAIN subs' = DOMAIN subs \cup {Len(subs) + 1}
           /\ Len(subs) + 1 \notin DOMAIN subs
           /\ subs'[Len(subs) + 1].ref = "x402" /\ subs'[Len(subs) + 1].status = "ACTIVE"
           /\ forsaken \subseteq forsaken'
           /\ \A i \in DOMAIN subs :
                  /\ subs'[i].ref = subs[i].ref
                  /\ \/ subs'[i].status = subs[i].status
                     \/ /\ subs[i].status = "ACTIVE" /\ subs'[i].status = "CANCELLED"
                        /\ subs[i].ref \in billed => subs[i].ref \in forsaken'
<1> DEFINE added == NewRow(buy.plan, "x402", "ACTIVE", Base[buy.plan])
<1>1. subs \in Seq(Row)
    BY Parts DEF RowsOK
<1>2. added.ref = "x402" /\ added.status = "ACTIVE"
    BY DEF NewRow
<1>3. \/ subs' = Append(subs, added) /\ UNCHANGED forsaken
      \/ \E i \in RowsIn("ACTIVE") :
            /\ subs' = Append([subs EXCEPT ![i].status = "CANCELLED"], added)
            /\ forsaken' = forsaken \cup ({subs[i].ref} \cap billed)
    BY DEF CreateByX402
<1> HIDE DEF added
<1>4. CASE subs' = Append(subs, added) /\ UNCHANGED forsaken
    BY <1>1, <1>2, <1>4
<1>5. ASSUME NEW i \in RowsIn("ACTIVE"),
             subs' = Append([subs EXCEPT ![i].status = "CANCELLED"], added),
             forsaken' = forsaken \cup ({subs[i].ref} \cap billed)
      PROVE  /\ DOMAIN subs' = DOMAIN subs \cup {Len(subs) + 1}
             /\ Len(subs) + 1 \notin DOMAIN subs
             /\ subs'[Len(subs) + 1] = added
             /\ \A j \in DOMAIN subs :
                  /\ subs'[j].ref = subs[j].ref
                  /\ \/ subs'[j].status = subs[j].status
                     \/ j = i /\ subs[j].status = "ACTIVE" /\ subs'[j].status = "CANCELLED"
    <2> DEFINE new == [subs[i] EXCEPT !.status = "CANCELLED"]
               closed == [subs EXCEPT ![i] = new]
    <2>1. i \in DOMAIN subs /\ subs[i].status = "ACTIVE"
        BY DEF RowsIn
    <2>2. subs[i] \in Row
        BY <1>1, <2>1
    <2>3. new.ref = subs[i].ref /\ new.status = "CANCELLED" /\ new \in Row
        BY <2>2 DEF Row
    <2>4. subs' = Append(closed, added)
        BY <1>5
    <2> HIDE DEF new
    <2>5. /\ closed \in Seq(Row) /\ Len(closed) = Len(subs)
          /\ closed[i] = new /\ \A j \in DOMAIN subs : j # i => closed[j] = subs[j]
        BY <1>1, <2>1, <2>3
    <2> HIDE DEF closed
    <2>6. /\ \A j \in DOMAIN subs : subs'[j] = closed[j]
          /\ DOMAIN subs' = DOMAIN subs \cup {Len(subs) + 1}
          /\ Len(subs) + 1 \notin DOMAIN subs
          /\ subs'[Len(subs) + 1] = added
        BY <1>1, <2>4, <2>5
    <2>7. QED
        BY <2>1, <2>3, <2>5, <2>6
<1>6. QED
    BY <1>2, <1>3, <1>4, <1>5

(* Only the purchase by x402 makes a row that stands for it. *)
LEMMA RefsNotX402 ==
    ASSUME PaymentsAssumption, PInv, [Next]_vars, ~ CreateByX402,
           NEW i \in DOMAIN subs', subs'[i].ref = "x402"
    PROVE  i \in DOMAIN subs /\ subs[i].ref = "x402"
<1>0. "x402" \notin Contracts
    BY DEF PaymentsAssumption
<1>1. CASE UNCHANGED subs
    BY <1>1
<1>2. CASE SameRows
    BY <1>2 DEF SameRows
<1>3. CASE \E plan \in Tiers, upgrade \in BOOLEAN : CreateSubscription(plan, upgrade)
    BY <1>3, CreateDoes
<1>4. CASE FinishCancel
    BY <1>4, FinishDoes
<1>5. CASE \E h \in Handlers : IncrementSubscription(h) \/ CloseOld(h) \/ Renew(h) \/ Activate(h)
    BY <1>0, <1>5, IncrementDoes, CloseOldDoes, RenewDoes, ActivateDoes
<1>6. CASE X402
    <2>1. UNCHANGED subs
        BY <1>6 DEF X402, StartX402, StartEvm, HandleVerified, Verify, Settle, SendDirect,
                    FindPayer, FailX402, BuyFrame, rows
    <2>2. QED
        BY <1>1, <2>1
<1>7. ASSUME NEW h \in Handlers, Webhook(h) PROVE i \in DOMAIN subs /\ subs[i].ref = "x402"
    <2>1. UNCHANGED subs \/ IncrementSubscription(h) \/ CloseOld(h) \/ Renew(h) \/ Activate(h)
        BY <1>7 DEF Webhook, Deliver, ReadUser, ReadDone, UpsertTopUp, ReadTopUp, FindCreated,
                    FindActive, FindOther, CancelOld, Retire, SetPlan, PauseFree, Record, Fail, rows
    <2>2. QED
        BY <1>1, <1>5, <2>1
<1>8. CASE \/ \E j \in DOMAIN subs : BeginCancel(j) \/ ScheduleCancel(j)
           \/ SwitchBackToSubscription \/ LogIn
           \/ \E j \in DOMAIN subs, ref \in Contracts : PayCheckout(j, ref)
           \/ \E ref \in Contracts : BillPeriod(ref)
           \/ PayTopUp \/ UNCHANGED vars
    <2>1. UNCHANGED subs
        BY <1>8 DEF BeginCancel, ScheduleCancel, SwitchBackToSubscription, LogIn, PayCheckout,
                    BillPeriod, PayTopUp, rows, vars
    <2>2. QED
        BY <1>1, <2>1
<1>9. CASE Spend
    BY <1>2, <1>9, SpendDoes
<1>10. QED
    BY <1>3, <1>4, <1>6, <1>7, <1>8, <1>9 DEF Next

(* What the purchase is, apart from the rows. *)
BoughtAlone ==
    /\ buy.at \in {"none", "verify", "settle"} => buy.paid = "no"
    /\ buy.at = "wallet" => buy.paid = "library"
    /\ buy.at = "send" => buy.paid = "no" \/ (buy.paid = "yes" /\ buy.unheard)
    /\ buy.at \in {"find", "create", "served"} => buy.paid # "no"
    /\ buy.at \in Over /\ buy.paid = "yes" => buy.at \in {"served", "told"} \/ buy.unheard

LEMMA BoughtSteps ==
    ASSUME PInv, BoughtAlone, X402
    PROVE  BoughtAlone' /\ buy.at # "served"
<1>1. buy \in Purchase
    BY Parts DEF UserOK
<1>2. NoPurchase \in Purchase /\ NoPurchase.at = "none" /\ NoPurchase.paid = "no"
    BY DEF NoPurchase, Purchase
<1>3. ASSUME NEW plan \in Tiers, StartX402(plan) \/ StartEvm(plan)
      PROVE  BoughtAlone' /\ buy.at # "served"
    BY <1>2, <1>3 DEF StartX402, StartEvm, BoughtAlone, Over, Purchase
<1>4. CASE HandleVerified
    BY <1>1, <1>2, <1>4 DEF HandleVerified, Buying, BoughtAlone, Over, Purchase
<1>5. CASE Verify
    BY <1>1, <1>5 DEF Verify, Buying, BoughtAlone, Over, Purchase
<1>6. CASE Settle
    BY <1>1, <1>6 DEF Settle, BoughtAlone, Over, Purchase
<1>7. CASE SendDirect
    BY <1>1, <1>7 DEF SendDirect, BoughtAlone, Over, Purchase
<1>8. CASE FindPayer
    <2>1. buy.at = "find" /\ buy'.at = "create" /\ buy'.paid = buy.paid /\ buy'.unheard = buy.unheard
        BY <1>1, <1>8 DEF FindPayer, Purchase
    <2>2. QED
        BY <2>1 DEF BoughtAlone, Over
<1>9. CASE CreateByX402
    BY <1>1, <1>2, <1>9 DEF CreateByX402, BoughtAlone, Over, Purchase
<1>10. CASE FailX402
    BY <1>1, <1>2, <1>10 DEF FailX402, BoughtAlone, Open, Over, Purchase
<1>11. QED
    BY <1>3, <1>4, <1>5, <1>6, <1>7, <1>8, <1>9, <1>10 DEF X402

(* No subscription bought on Solana stands without its payment, and a      *)
(* payment that has moved is never answered with a refusal, unless the     *)
(* answer about it was lost (subscription-payment.service.ts 290-518),     *)
(* whatever Atlos, the webhook and the owner do meanwhile.                 *)
THEOREM X402Settlement == Spec => []X402Settles
<1>1. Init => PInv /\ Bought
    <2>1. Init => PInv
        BY PaymentsAssumption, InitTypes
    <2>2. Init => Bought
        BY DEF Init, Bought, NoPurchase, Over
    <2>3. QED
        BY <2>1, <2>2
<1>2. PInv /\ Bought /\ [Next]_vars => (PInv /\ Bought)'
    <2> SUFFICES ASSUME PInv, Bought, [Next]_vars PROVE PInv' /\ Bought'
        OBVIOUS
    <2>1. PInv'
        BY PaymentsAssumption, StepTypes
    <2>2. BoughtAlone
        BY DEF Bought, BoughtAlone
    <2>3. ASSUME X402 PROVE Bought'
        <3>1. BoughtAlone' /\ buy.at # "served"
            BY <2>2, <2>3, BoughtSteps
        <3>2. CASE CreateByX402
            <4>1. buy'.at = "served"
                BY <3>2 DEF CreateByX402, NoPurchase
            <4>2. QED
                BY <3>1, <4>1 DEF Bought, BoughtAlone
        <3>3. CASE ~ CreateByX402
            <4>1. \A i \in DOMAIN subs : subs[i].ref # "x402"
                BY <3>1 DEF Bought
            <4>2. \A i \in DOMAIN subs' : subs'[i].ref # "x402"
                BY <3>3, <4>1, PaymentsAssumption, RefsNotX402
            <4>3. QED
                BY <3>1, <4>2 DEF Bought, BoughtAlone
        <3>4. QED
            BY <3>2, <3>3
    <2>4. ASSUME ~ X402 PROVE Bought'
        <3>1. UNCHANGED buy
            <4>1. CASE UNCHANGED vars
                BY <4>1 DEF vars, user
            <4>2. ASSUME NEW h \in Handlers, Webhook(h) PROVE UNCHANGED buy
                BY <4>2 DEF Webhook, Deliver, ReadUser, IncrementSubscription, ReadDone,
                    UpsertTopUp, ReadTopUp, FindCreated, FindActive, FindOther, CancelOld,
                    CloseOld, Renew, Activate, Retire, SetPlan, PauseFree, Record, Fail, user
            <4>3. QED
                BY <2>4, <4>1, <4>2 DEF Next, CreateSubscription, BeginCancel, ScheduleCancel,
                    FinishCancel, SwitchBackToSubscription, LogIn, Spend, PayCheckout, BillPeriod,
                    PayTopUp, user
        <3>2. \A i \in DOMAIN subs' : subs'[i].ref = "x402" =>
                    i \in DOMAIN subs /\ subs[i].ref = "x402"
            BY <2>4, PaymentsAssumption, RefsNotX402 DEF X402
        <3>3. QED
            BY <3>1, <3>2 DEF Bought
    <2>5. QED
        BY <2>1, <2>3, <2>4
<1>3. Bought => X402Settles
    BY DEF Bought, X402Settles
<1>4. QED
    BY <1>1, <1>2, <1>3, PTL DEF Spec
-----------------------------------------------------------------------------
(* The steps of subscriptions.  All but six let the rows age. *)

(* Rows keep their contract and may end; payments are kept but for those   *)
(* of top-ups; a contract is forsaken, or left to a renewal, when its row  *)
(* ends; and a call that has read something may rely on it.                *)
RowsAge ==
    /\ DOMAIN subs \subseteq DOMAIN subs'
    /\ \A i \in DOMAIN subs :
          /\ subs'[i].ref = subs[i].ref
          /\ \/ subs'[i].status = subs[i].status
             \/ subs[i].status # "CREATED" /\ subs'[i].status \in Ended
    /\ \A i \in DOMAIN subs' \ DOMAIN subs :
          subs'[i].ref = "x402" /\ subs'[i].status = "ACTIVE"

PaymentsAge ==
    /\ DOMAIN payments \subseteq DOMAIN payments'
    /\ \A p \in DOMAIN payments :
          /\ payments'[p].ref = payments[p].ref
          /\ payments[p].ref # "none" => payments'[p] = payments[p]
          /\ granted[p] <= granted'[p]
    /\ \A p \in DOMAIN payments' \ DOMAIN payments : payments'[p].ref = "none"

Renewing(ref) == \E h \in Handlers : hook[h].at = "renew" /\ RefOf(h) = ref

Ages ==
    /\ RowsAge
    /\ PaymentsAge
    /\ UNCHANGED checkouts
    /\ billed' \subseteq billed
    /\ forsaken \subseteq forsaken'
    /\ \A ref \in billed' : \A i \in RowsOf(ref) :
          subs'[i].status # "ACTIVE" => ref \in forsaken' \/ Renewing(ref)'
    /\ \A ref \in billed : Renewing(ref) => Renewing(ref)' \/ ref \in forsaken'
    /\ \A h \in Handlers : \/ hook'[h] = hook[h]
                           \/ Activating(h)' => Reading(h)'
    /\ CancellingOK'

Subscribing ==
    /\ OneAtATime /\ Contracted /\ OneRow /\ ReadingOK /\ CancellingOK /\ Served
    /\ PaidIsGranted

LEMMA Parted == SubscriptionInv <=> PInv /\ Subscribing
BY DEF SubscriptionInv, Subscribing

LEMMA CreatedAges == PInv /\ RowsAge => Created' = Created
<1> SUFFICES ASSUME PInv, RowsAge PROVE Created' = Created
    OBVIOUS
<1>1. \A i \in DOMAIN subs' : subs'[i].status = "CREATED" =>
            i \in DOMAIN subs /\ subs[i].status = "CREATED"
    BY DEF RowsAge, Ended
<1>2. \A i \in DOMAIN subs : subs[i].status = "CREATED" =>
            i \in DOMAIN subs' /\ subs'[i].status = "CREATED"
    BY DEF RowsAge
<1>3. QED
    BY <1>1, <1>2 DEF Created, RowsIn

LEMMA PendingAges ==
    ASSUME PaymentsAge
    PROVE  /\ \A p \in DOMAIN payments : Pending(p)' <=> Pending(p)
           /\ \A p \in DOMAIN payments' : Pending(p)' => p \in DOMAIN payments
<1>1. ASSUME NEW p \in DOMAIN payments PROVE Pending(p)' <=> Pending(p)
    BY DEF PaymentsAge, Pending
<1>2. ASSUME NEW p \in DOMAIN payments', Pending(p)' PROVE p \in DOMAIN payments
    BY <1>2 DEF PaymentsAge, Pending
<1>3. QED
    BY <1>1, <1>2

LEMMA RowsOfAge ==
    ASSUME PInv, PaymentsAssumption, RowsAge, NEW ref \in Contracts
    PROVE  /\ RowsOf(ref)' \subseteq RowsOf(ref)
           /\ \A i \in RowsOf(ref) : subs'[i].status = "ACTIVE" => i \in RowsOf(ref)'
<1>1. ref # "x402"
    BY DEF PaymentsAssumption
<1>2. \A i \in RowsOf(ref)' : i \in RowsOf(ref)
    BY <1>1 DEF RowsOf, RowsIn, RowsAge, Ended
<1>3. \A i \in RowsOf(ref) : subs'[i].status = "ACTIVE" => i \in RowsOf(ref)'
    BY DEF RowsOf, RowsIn, RowsAge
<1>4. QED
    BY <1>2, <1>3

(* What a call has read outlives every step that lets rows age. *)
LEMMA ReadingAges ==
    ASSUME PaymentsAssumption, PInv, PInv', RowsAge, PaymentsAge,
           billed' \subseteq billed, forsaken \subseteq forsaken',
           NEW h \in Handlers, Activating(h), Reading(h), hook'[h] = hook[h]
    PROVE  Reading(h)'
<1> DEFINE c == hook[h]
<1>0. /\ c.payment \in DOMAIN payments /\ RefOf(h)' = RefOf(h)
      /\ granted[c.payment] <= granted'[c.payment] /\ granted[c.payment] \in Nat
    <2>1. c.payment \in DOMAIN payments
        BY CallColumns DEF Activating
    <2>2. granted[c.payment] \in Nat
        BY <2>1, Parts DEF AtlosOK
    <2>3. QED
        BY <2>1, <2>2 DEF PaymentsAge, RefOf
<1>1. Created' = Created
    BY CreatedAges
<1>2. c.at \in {"cancelOld", "closeOld"} => c.old \in DOMAIN subs /\ subs'[c.old].ref = subs[c.old].ref
    BY DEF PInv, CallsOK, RowsAge
<1>3. c.at \in {"closeOld", "renew"} => RowsOf(RefOf(h))' \subseteq RowsOf(RefOf(h))
    <2>1. c.at \in {"closeOld", "renew"} => RefOf(h) \in Contracts
        BY DEF PInv, CallsOK, ContractSites
    <2>2. RefOf(h) \in Contracts => \A i \in RowsOf(RefOf(h))' : i \in RowsOf(RefOf(h))
        <3>1. RefOf(h) \in Contracts => "x402" # RefOf(h)
            BY DEF PaymentsAssumption
        <3>2. QED
            BY <1>0, <3>1 DEF RowsOf, RowsIn, RowsAge, Ended
    <2>3. QED
        BY <2>1, <2>2
<1>4. /\ c.at \in {"findActive", "findOther", "cancelOld", "closeOld", "activate"} /\ c.sub # 0
            => c.sub \in Created'
      /\ c.at \in {"findActive", "closeOld"} /\ c.sub = 0 => Created' = {}
      /\ c.at \in {"renew", "retire"} \cup LastSites => Created' = {}
      /\ c.at \in {"cancelOld", "closeOld"} => c.old \notin Created'
    BY <1>1 DEF Reading
<1>5. c.at = "closeOld" /\ c.sub = 0
            => subs'[c.old].ref = RefOf(h)' /\ RowsOf(RefOf(h))' \subseteq {c.old}
    BY <1>0, <1>2, <1>3 DEF Reading
<1>6. c.at = "closeOld" /\ c.sub # 0 => subs'[c.old].ref \notin billed' \ forsaken'
    BY <1>2 DEF Reading
<1>7. c.at = "renew" => RowsOf(RefOf(h))' = {}
    BY <1>3 DEF Reading
<1>8. c.at \in {"retire"} \cup LastSites => granted'[c.payment] > 0
    <2>1. c.at \in {"retire"} \cup LastSites => granted[c.payment] > 0
        BY DEF Reading
    <2>2. granted'[c.payment] \in Nat
        BY <1>0, PartsNext DEF AtlosOK, PaymentsAge
    <2>3. QED
        BY <1>0, <2>1, <2>2
<1>9. QED
    BY <1>4, <1>5, <1>6, <1>7, <1>8 DEF Reading

LEMMA AgesKeeps ==
    ASSUME PaymentsAssumption, PInv, PInv', Subscribing, Ages
    PROVE  Subscribing'
<1>0. RowsAge /\ PaymentsAge /\ Created' = Created
    BY CreatedAges DEF Ages
<1>1. /\ \A p \in DOMAIN payments : Pending(p)' <=> Pending(p)
      /\ \A p \in DOMAIN payments' : Pending(p)' => p \in DOMAIN payments
      /\ DOMAIN payments \subseteq DOMAIN payments'
    BY <1>0, PendingAges DEF PaymentsAge
<1>2. OneAtATime'
    <2>1. OneAtATime /\ checkouts' = checkouts
        BY DEF Subscribing, Ages
    <2>2. /\ \A p, q \in DOMAIN payments' : Pending(p)' /\ Pending(q)' => p = q
          /\ checkouts' # {} => \A p \in DOMAIN payments' : ~ Pending(p)'
          /\ checkouts' \subseteq Created'
          /\ \A i, j \in Created' : i = j
        BY <1>0, <1>1, <2>1 DEF OneAtATime
    <2>3. \A i \in Created' : i \in checkouts' \/ \E p \in DOMAIN payments' : Pending(p)'
        BY <1>0, <1>1, <2>1 DEF OneAtATime
    <2>4. QED
        BY <2>2, <2>3 DEF OneAtATime
<1>3. Contracted'
    <2>1. ASSUME NEW ref \in Contracts, \E p \in DOMAIN payments : payments[p].ref = ref
          PROVE  \E p \in DOMAIN payments' : payments'[p].ref = ref
        BY <1>0, <2>1 DEF PaymentsAge
    <2>2. \A i \in DOMAIN subs' : subs'[i].ref \in Contracts
                => i \in DOMAIN subs /\ subs'[i].ref = subs[i].ref
        BY <1>0 DEF RowsAge, PaymentsAssumption
    <2>3. \A i \in DOMAIN subs' : subs'[i].ref \in Contracts
                => \E p \in DOMAIN payments' : payments'[p].ref = subs'[i].ref
        BY <2>1, <2>2 DEF Subscribing, Contracted
    <2>4. \A ref \in billed' : \E p \in DOMAIN payments' : payments'[p].ref = ref
        BY <2>1, Parts DEF Subscribing, Contracted, Ages, AtlosOK
    <2>5. Created' # {} => \A p \in DOMAIN payments' :
                Pending(p)' => \A j \in DOMAIN subs' : subs'[j].ref # payments'[p].ref
        <3>1. SUFFICES ASSUME Created # {}, NEW p \in DOMAIN payments, Pending(p),
                              NEW j \in DOMAIN subs', subs'[j].ref = payments'[p].ref
                       PROVE  FALSE
            BY <1>0, <1>1
        <3>2. payments'[p].ref = payments[p].ref /\ payments[p].ref \in Contracts
            <4>1. payments[p] \in Payment
                BY Parts DEF AtlosOK
            <4>2. QED
                BY <1>0, <3>1, <4>1 DEF Pending, PaymentsAge, Payment
        <3>3. j \in DOMAIN subs /\ subs[j].ref = payments[p].ref
            BY <2>2, <3>1, <3>2
        <3>4. QED
            BY <3>1, <3>3 DEF Subscribing, Contracted
    <2>6. QED
        BY <2>3, <2>4, <2>5 DEF Contracted
<1>4. OneRow'
    <2>1. \A ref \in Contracts : RowsOf(ref)' \subseteq RowsOf(ref)
        BY <1>0, RowsOfAge
    <2>2. QED
        BY <2>1 DEF Subscribing, OneRow
<1>5. ReadingOK'
    <2>1. ASSUME NEW h \in Handlers, Activating(h)', hook'[h] = hook[h] PROVE Reading(h)'
        <3>1. RefOf(h)' = RefOf(h) /\ hook[h].at # "idle"
            <4>1. hook[h].at # "idle"
                BY <2>1 DEF Activating
            <4>2. hook[h].payment \in DOMAIN payments
                BY <4>1, CallColumns
            <4>3. QED
                BY <1>0, <2>1, <4>1, <4>2 DEF PaymentsAge, RefOf
        <3>2. Activating(h)
            BY <2>1, <3>1 DEF Activating
        <3>3. Reading(h)
            BY <3>2 DEF Subscribing, ReadingOK
        <3>4. QED
            BY <1>0, <2>1, <3>2, <3>3, ReadingAges DEF Ages
    <2>2. QED
        BY <2>1 DEF ReadingOK, Ages
<1>6. CancellingOK'
    BY DEF Ages
<1>7. Served'
    <2> SUFFICES ASSUME NEW ref \in billed'
                 PROVE  \/ RowsOf(ref)' # {}
                        \/ Created' # {} /\ \E p \in DOMAIN payments' : Pending(p)' /\ payments'[p].ref = ref
                        \/ Renewing(ref)'
                        \/ ref \in forsaken'
        BY DEF Served, Renewing
    <2>1. ref \in billed /\ ref \in Contracts
        BY Parts DEF Ages, AtlosOK
    <2>2. ASSUME NEW i \in RowsOf(ref) PROVE RowsOf(ref)' # {} \/ Renewing(ref)' \/ ref \in forsaken'
        <3>2. CASE subs'[i].status = "ACTIVE"
            BY <1>0, <2>1, <2>2, <3>2, RowsOfAge
        <3>3. CASE subs'[i].status # "ACTIVE"
            BY <2>2, <3>3 DEF Ages
        <3>4. QED
            BY <3>2, <3>3
    <2>3. ASSUME NEW p \in DOMAIN payments, Pending(p), payments[p].ref = ref
          PROVE  p \in DOMAIN payments' /\ Pending(p)' /\ payments'[p].ref = ref
        BY <1>0, <1>1, <2>3 DEF PaymentsAge
    <2>4. Renewing(ref) => Renewing(ref)' \/ ref \in forsaken'
        BY <2>1 DEF Ages
    <2>5. ref \in forsaken => ref \in forsaken'
        BY DEF Ages
    <2>6. \/ RowsOf(ref) # {}
          \/ Created # {} /\ \E p \in DOMAIN payments : Pending(p) /\ payments[p].ref = ref
          \/ Renewing(ref)
          \/ ref \in forsaken
        BY <2>1 DEF Subscribing, Served, Renewing
    <2>7. QED
        BY <1>0, <2>2, <2>3, <2>4, <2>5, <2>6
<1>8. PaidIsGranted'
    <2> SUFFICES ASSUME NEW p \in DOMAIN payments', payments'[p].state = "acknowledged",
                        granted'[p] = 0, payments'[p].ref \in billed'
                 PROVE  payments'[p].ref \in forsaken'
        BY DEF PaidIsGranted
    <2>1. payments'[p].ref \in Contracts /\ payments'[p].ref \in billed
        BY Parts DEF Ages, AtlosOK
    <2>2. payments'[p].ref # "none"
        BY <2>1 DEF PaymentsAssumption
    <2>3. p \in DOMAIN payments /\ payments'[p] = payments[p] /\ granted[p] <= granted'[p]
        BY <1>0, <2>2 DEF PaymentsAge
    <2>4. granted[p] = 0
        <3>1. granted[p] \in Nat
            BY <2>3, Parts DEF AtlosOK
        <3>2. QED
            BY <2>3, <3>1
    <2>5. payments[p].ref \in forsaken
        BY <2>1, <2>3, <2>4 DEF Subscribing, PaidIsGranted
    <2>6. QED
        BY <2>3, <2>5 DEF Ages
<1>9. QED
    BY <1>2, <1>3, <1>4, <1>5, <1>6, <1>7, <1>8 DEF Subscribing
-----------------------------------------------------------------------------
(* Which steps let the rows age. *)

LEMMA CancellingAges ==
    ASSUME PInv, CancellingOK, RowsAge, cancelling' \in {cancelling, 0}, billed' \subseteq billed
    PROVE  CancellingOK'
<1>1. Created' = Created
    BY CreatedAges
<1>2. cancelling # 0 => cancelling \in DOMAIN subs
    BY Parts DEF RowsOK
<1>3. QED
    BY <1>1, <1>2 DEF CancellingOK, RowsAge

LEMMA SameRowsAge == SameRows => RowsAge
BY DEF SameRows, RowsAge

LEMMA SamePaymentsAge ==
    ASSUME PInv, UNCHANGED payments, UNCHANGED granted \/ \E h \in Handlers : hook[h].at # "idle" /\ Grant(h)
    PROVE  PaymentsAge
<1>1. granted \in [DOMAIN payments -> Nat]
    BY Parts DEF AtlosOK
<1>2. ASSUME NEW p \in DOMAIN payments PROVE granted[p] <= granted'[p]
    <2>1. granted[p] \in Nat
        BY <1>1
    <2>2. CASE UNCHANGED granted
        BY <2>1, <2>2
    <2>3. ASSUME NEW h \in Handlers, Grant(h) PROVE granted[p] <= granted'[p]
        BY <1>1, <2>1, <2>3 DEF Grant
    <2>4. QED
        BY <2>2, <2>3
<1>3. QED
    BY <1>2 DEF PaymentsAge

(* A step in which no call moves. *)
LEMMA QuietAges ==
    ASSUME PInv, RowsAge, PaymentsAge, UNCHANGED <<checkouts, hook>>,
           billed' \subseteq billed, forsaken \subseteq forsaken', CancellingOK',
           \A ref \in billed' : \A i \in RowsOf(ref) :
                subs'[i].status # "ACTIVE" => ref \in forsaken'
    PROVE  Ages
<1>1. ASSUME NEW ref, Renewing(ref) PROVE Renewing(ref)'
    <2>1. PICK h \in Handlers : hook[h].at = "renew" /\ RefOf(h) = ref
        BY <1>1 DEF Renewing
    <2>2. hook[h].payment \in DOMAIN payments
        BY <2>1, CallColumns
    <2>3. hook'[h].at = "renew" /\ RefOf(h)' = ref
        BY <2>1, <2>2 DEF RefOf, PaymentsAge
    <2>4. QED
        BY <2>3 DEF Renewing
<1>2. QED
    BY <1>1 DEF Ages

(* A step of one call. *)
LEMMA CallAges ==
    ASSUME PInv, Subscribing, RowsAge, PaymentsAge, UNCHANGED <<checkouts, cancelling>>,
           NEW h \in Handlers,
           billed' \subseteq billed, forsaken \subseteq forsaken',
           \A other \in Handlers \ {h} : hook'[other] = hook[other],
           hook[h].at # "renew" \/ RefOf(h) \in forsaken',
           Activating(h)' => Reading(h)',
           \A ref \in billed' : \A i \in RowsOf(ref) :
                subs'[i].status # "ACTIVE" => ref \in forsaken' \/ Renewing(ref)'
    PROVE  Ages
<1>2. CancellingOK'
    BY CancellingAges DEF Subscribing
<1>3. ASSUME NEW ref, Renewing(ref) PROVE Renewing(ref)' \/ ref \in forsaken'
    <2>1. PICK o \in Handlers : hook[o].at = "renew" /\ RefOf(o) = ref
        BY <1>3 DEF Renewing
    <2>2. CASE o = h
        BY <2>1, <2>2
    <2>3. CASE o # h
        <3>1. hook[o].payment \in DOMAIN payments /\ hook'[o] = hook[o]
            BY <2>1, <2>3, CallColumns
        <3>2. RefOf(o)' = RefOf(o)
            BY <3>1 DEF RefOf, PaymentsAge
        <3>3. QED
            BY <2>1, <3>1, <3>2 DEF Renewing
    <2>4. QED
        BY <2>2, <2>3
<1>4. QED
    BY <1>2, <1>3 DEF Ages

LEMMA UserAges ==
    ASSUME PaymentsAssumption, PInv, Subscribing,
           \/ \E i \in DOMAIN subs : BeginCancel(i) \/ ScheduleCancel(i)
           \/ FinishCancel \/ SwitchBackToSubscription \/ LogIn \/ Spend \/ PayTopUp
           \/ UNCHANGED vars
    PROVE  Ages
<1>0. CancellingOK /\ subs \in Seq(Row)
    BY Parts DEF Subscribing, RowsOK
<1>1. ASSUME NEW i \in DOMAIN subs, BeginCancel(i) PROVE Ages
    <2>1. UNCHANGED <<subs, payments, checkouts, hook, history>>
        BY <1>1 DEF BeginCancel, rows
    <2>2. RowsAge /\ PaymentsAge
        BY <2>1, SameRowsAge, SamePaymentsAge DEF SameRows, history
    <2>3. CancellingOK'
        BY <1>1, <2>1 DEF BeginCancel, CancellingOK, Created, RowsIn
    <2>4. billed' \subseteq billed /\ forsaken \subseteq forsaken'
        BY <1>1, <2>1 DEF BeginCancel, history
    <2>5. \A ref \in billed' : \A j \in RowsOf(ref) : subs'[j].status = "ACTIVE"
        BY <2>1 DEF RowsOf, RowsIn
    <2>6. QED
        BY <2>1, <2>2, <2>3, <2>4, <2>5, QuietAges
<1>2. CASE FinishCancel
    <2>1. UNCHANGED <<payments, checkouts, billed, hook, granted, forsaken>> /\ cancelling' = 0
        BY <1>2 DEF FinishCancel, atlos, history
    <2>2. RowsAge
        <3>1. subs[cancelling].status # "CREATED"
            BY <1>0, <1>2, FinishDoes DEF FinishCancel, CancellingOK, Created, RowsIn
        <3>2. QED
            BY <1>2, <3>1, FinishDoes DEF RowsAge, Ended
    <2>3. PaymentsAge
        BY <2>1, SamePaymentsAge
    <2>4. CancellingOK'
        BY <2>1 DEF CancellingOK
    <2>5. \A ref \in billed' : \A j \in RowsOf(ref) : subs'[j].status = "ACTIVE"
        <3>1. subs[cancelling].ref \notin billed
            BY <1>0, <1>2 DEF FinishCancel, CancellingOK
        <3>2. QED
            BY <1>2, <2>1, <3>1, FinishDoes DEF RowsOf, RowsIn
    <2>6. QED
        BY <2>1, <2>2, <2>3, <2>4, <2>5, QuietAges
<1>3. CASE \/ \E i \in DOMAIN subs : ScheduleCancel(i)
           \/ SwitchBackToSubscription \/ LogIn \/ Spend \/ UNCHANGED vars
    <2>1. UNCHANGED <<payments, checkouts, billed, hook, granted, forsaken, cancelling>>
        <3>1. CASE Spend
            BY <3>1 DEF Spend, atlos, history
        <3>2. CASE \E i \in DOMAIN subs : ScheduleCancel(i)
            BY <3>2 DEF ScheduleCancel, atlos, history
        <3>3. CASE SwitchBackToSubscription \/ LogIn \/ UNCHANGED vars
            BY <3>3 DEF SwitchBackToSubscription, LogIn, vars, user, atlos, history
        <3>4. QED
            BY <1>3, <3>1, <3>2, <3>3
    <2>2. SameRows
        <3>1. CASE Spend
            BY <3>1, SpendDoes
        <3>2. CASE ~ Spend
            <4>1. UNCHANGED subs
                BY <1>3, <3>2 DEF ScheduleCancel, SwitchBackToSubscription, LogIn, vars, rows
            <4>2. QED
                BY <4>1 DEF SameRows
        <3>3. QED
            BY <3>1, <3>2
    <2>3. RowsAge /\ PaymentsAge
        BY <2>1, <2>2, SameRowsAge, SamePaymentsAge
    <2>4. CancellingOK'
        BY <1>0, <2>1, <2>3, CancellingAges
    <2>5. \A ref \in billed' : \A j \in RowsOf(ref) : subs'[j].status = "ACTIVE"
        BY <2>2 DEF SameRows, RowsOf, RowsIn
    <2>6. QED
        BY <2>1, <2>3, <2>4, <2>5, QuietAges
<1>4. CASE PayTopUp
    <2>1. UNCHANGED <<subs, checkouts, billed, hook, forsaken, cancelling>> /\ Paid("none")
        BY <1>4 DEF PayTopUp, rows, user
    <2>2. RowsAge
        BY <2>1, SameRowsAge DEF SameRows
    <2>3. PaymentsAge
        <3>1. \A p \in DOMAIN payments : granted[p] \in Nat
            BY Parts DEF AtlosOK
        <3>2. /\ PaymentsKept
              /\ DOMAIN payments' = DOMAIN payments \cup {Len(payments) + 1}
              /\ payments'[Len(payments) + 1] = [ref |-> "none", state |-> "due"]
              /\ \A p \in DOMAIN payments : granted'[p] = granted[p]
            BY <2>1, PaidKeeps
        <3>3. \A p \in DOMAIN payments : granted[p] <= granted'[p]
            BY <3>1, <3>2
        <3>4. QED
            BY <3>2, <3>3 DEF PaymentsAge, PaymentsKept
    <2>4. CancellingOK'
        BY <1>0, <2>1, <2>2, CancellingAges
    <2>5. \A ref \in billed' : \A j \in RowsOf(ref) : subs'[j].status = "ACTIVE"
        BY <2>1 DEF RowsOf, RowsIn
    <2>6. QED
        BY <2>1, <2>2, <2>3, <2>4, <2>5, QuietAges
<1>5. QED
    BY <1>1, <1>2, <1>3, <1>4

LEMMA X402Ages ==
    ASSUME PInv, Subscribing, X402
    PROVE  Ages
<1>1. UNCHANGED <<payments, checkouts, billed, hook, granted, cancelling>>
    <2>1. CASE CreateByX402
        BY <2>1 DEF CreateByX402, atlos
    <2>2. CASE ~ CreateByX402
        BY <2>2 DEF X402, StartX402, StartEvm, HandleVerified, Verify, Settle, SendDirect,
                    FindPayer, FailX402, BuyFrame, atlos, history
    <2>3. QED
        BY <2>1, <2>2
<1>2. /\ RowsAge /\ forsaken \subseteq forsaken'
      /\ \A ref \in billed' : \A j \in RowsOf(ref) :
            subs'[j].status # "ACTIVE" => ref \in forsaken'
    <2>1. CASE CreateByX402
        <3>1. RowsAge /\ forsaken \subseteq forsaken'
            BY <2>1, CreateByX402Does DEF RowsAge, Ended
        <3>2. ASSUME NEW ref \in billed', NEW j \in RowsOf(ref), subs'[j].status # "ACTIVE"
              PROVE  ref \in forsaken'
            BY <1>1, <2>1, <3>2, CreateByX402Does DEF RowsOf, RowsIn
        <3>3. QED
            BY <3>1, <3>2
    <2>2. CASE ~ CreateByX402
        <3>1. UNCHANGED <<subs, forsaken>>
            BY <2>2 DEF X402, StartX402, StartEvm, HandleVerified, Verify, Settle, SendDirect,
                        FindPayer, FailX402, BuyFrame, rows, history
        <3>2. RowsAge
            BY <3>1, SameRowsAge DEF SameRows
        <3>3. QED
            BY <3>1, <3>2 DEF RowsOf, RowsIn
    <2>3. QED
        BY <2>1, <2>2
<1>3. PaymentsAge /\ CancellingOK'
    BY <1>1, <1>2, SamePaymentsAge, CancellingAges DEF Subscribing
<1>4. QED
    BY <1>1, <1>2, <1>3, QuietAges

(* One call at a time is about a contract. *)
LEMMA ActivatingIsPending ==
    ASSUME PInv, NEW h \in Handlers, Activating(h)
    PROVE  hook[h].payment \in DOMAIN payments /\ Pending(hook[h].payment)
BY CallColumns DEF Activating, Pending, RefOf, PInv, CallsOK

LEMMA OnlyActivating ==
    ASSUME PInv, OneAtATime, NEW h \in Handlers, NEW other \in Handlers,
           Activating(h), Activating(other)
    PROVE  h = other
<1>1. /\ hook[h].payment \in DOMAIN payments /\ Pending(hook[h].payment)
      /\ hook[other].payment \in DOMAIN payments /\ Pending(hook[other].payment)
    BY ActivatingIsPending
<1>2. hook[h].payment = hook[other].payment
    BY <1>1 DEF OneAtATime
<1>3. QED
    BY <1>2 DEF PInv, CallsOK, Activating

(* The newest checkout a call has found is the only one. *)
LEMMA TheCheckout ==
    ASSUME OneAtATime, NEW i \in Created
    PROVE  Created = {i}
BY DEF OneAtATime

LEMMA ReadAges ==
    ASSUME PaymentsAssumption, PInv, Subscribing, NEW h \in Handlers,
           \/ \E p \in DOMAIN payments : Deliver(h, p)
           \/ ReadUser(h) \/ ReadDone(h) \/ ReadTopUp(h) \/ FindCreated(h) \/ FindOther(h)
           \/ UpsertTopUp(h) \/ SetPlan(h) \/ PauseFree(h) \/ Retire(h)
           \/ FindActive(h) /\ UNCHANGED payments /\ GoesOn(h)
    PROVE  Ages
<1>1. /\ UNCHANGED <<subs, payments, checkouts, billed, forsaken, cancelling>>
      /\ UNCHANGED granted \/ (hook[h].at # "idle" /\ Grant(h))
    <2>1. CASE UpsertTopUp(h)
        BY <2>1 DEF UpsertTopUp, Goto, user, atlos
    <2>2. CASE \/ \E p \in DOMAIN payments : Deliver(h, p)
               \/ ReadUser(h) \/ ReadDone(h) \/ ReadTopUp(h) \/ FindCreated(h) \/ FindOther(h)
        BY <2>2 DEF Deliver, ReadUser, ReadDone, ReadTopUp, FindCreated, FindOther,
                    rows, user, atlos, history
    <2>3. CASE SetPlan(h) \/ PauseFree(h) \/ Retire(h)
        BY <2>3 DEF SetPlan, PauseFree, Retire, user, atlos, history
    <2>4. CASE FindActive(h) /\ UNCHANGED payments
        BY <2>4 DEF FindActive, rows, user, history
    <2>5. QED
        BY <2>1, <2>2, <2>3, <2>4
<1>2. RowsAge
    BY <1>1, SameRowsAge DEF SameRows
<1>3. \A ref \in billed' : \A j \in RowsOf(ref) : subs'[j].status = "ACTIVE"
    BY <1>1 DEF RowsOf, RowsIn
<1>4. \A other \in Handlers \ {h} : hook'[other] = hook[other]
    <2>1. CASE \E p \in DOMAIN payments : Deliver(h, p)
        BY <2>1, DeliverTypes
    <2>2. CASE ~ \E p \in DOMAIN payments : Deliver(h, p)
        <3>1. GoesOn(h)
            BY <2>2, ReadUserReads, ReadDoneReads, ReadTopUpReads, FindCreatedReads, FindOtherReads,
               PlainDoes, SetPlanDoes
        <3>2. QED
            BY <3>1 DEF GoesOn
    <2>3. QED
        BY <2>1, <2>2
<1>5. hook[h].at # "renew"
    BY FindOtherReads, PlainDoes, SetPlanDoes, FindActiveReads
       DEF Deliver, ReadUser, ReadDone, ReadTopUp, FindCreated
<1>6. Activating(h) => Reading(h)
    BY DEF Subscribing, ReadingOK
<1>7. ASSUME Activating(h)' PROVE Reading(h)'
    <2>0. Created' = Created /\ \A r : RowsOf(r)' = RowsOf(r)
        BY <1>1 DEF Created, RowsOf, RowsIn
    <2>1. CASE \E p \in DOMAIN payments : Deliver(h, p)
        <3>1. hook'[h].at \in {"readUser", "readTopUp"}
            BY <2>1, DeliverTypes
        <3>2. QED
            BY <3>1 DEF Reading, LastSites
    <2>2. ASSUME GoesOn(h) PROVE RefOf(h)' = RefOf(h) /\ Activating(h)
        <3>1. RefOf(h)' = RefOf(h)
            BY <1>1, <2>2 DEF GoesOn, RefOf
        <3>2. QED
            BY <1>7, <2>2, <3>1 DEF Activating, GoesOn
    <2>3. CASE ReadUser(h) \/ ReadDone(h) \/ UpsertTopUp(h)
        <3>1. RefOf(h) = "none"
            BY <2>3, PlainDoes DEF ReadUser, ReadDone, PInv, CallsOK, TopUpSites
        <3>2. QED
            BY <2>2, <2>3, <3>1, ReadUserReads, ReadDoneReads, PlainDoes DEF Activating
    <2>4. CASE ReadTopUp(h)
        BY <2>4, ReadTopUpReads DEF Reading, LastSites
    <2>5. CASE FindCreated(h)
        <3>1. /\ hook'[h].at = "findActive"
              /\ IF Created = {} THEN hook'[h].sub = 0 ELSE hook'[h].sub \in Created
            BY <2>5, FindCreatedReads
        <3>2. 0 \notin Created
            BY Parts DEF Created, RowsIn, RowsOK
        <3>3. QED
            BY <2>0, <3>1, <3>2 DEF Reading, LastSites
    <2>6. CASE FindActive(h) /\ UNCHANGED payments /\ GoesOn(h)
        <3>1. hook[h].at = "findActive" /\ Reading(h) /\ RefOf(h)' = RefOf(h) /\ RefOf(h) \in Contracts
            BY <1>6, <2>2, <2>6, FindActiveReads DEF PInv, CallsOK, ContractSites
        <3>2. CASE hook[h].sub # 0 /\ hook'[h].at = "findOther" /\ hook'[h].sub = hook[h].sub
            BY <2>0, <3>1, <3>2 DEF Reading, LastSites
        <3>3. CASE /\ hook[h].sub = 0 /\ hook'[h].at = "closeOld" /\ hook'[h].sub = hook[h].sub
                   /\ hook'[h].old \in RowsOf(RefOf(h))
            <4>1. Created = {}
                BY <3>1, <3>3 DEF Reading
            <4>2. subs[hook'[h].old].ref = RefOf(h) /\ RowsOf(RefOf(h)) \subseteq {hook'[h].old}
                BY <3>1, <3>3 DEF RowsOf, Subscribing, OneRow
            <4>3. QED
                BY <1>1, <2>0, <3>1, <3>3, <4>1, <4>2 DEF Reading, LastSites
        <3>4. CASE Answer(h)
            BY <1>7, <3>4, CallColumns DEF Answer, Activating, Idle, PInv, TypeOK
        <3>5. QED
            BY <2>6, <3>2, <3>3, <3>4, FindActiveReads
    <2>7. CASE FindOther(h)
        <3>1. /\ hook[h].at = "findOther" /\ hook'[h].sub = hook[h].sub
              /\ \/ hook'[h].at = "activate"
                 \/ hook'[h].at = "cancelOld" /\ hook'[h].old \in RowsIn("ACTIVE")
            BY <2>7, FindOtherReads
        <3>2. Reading(h) /\ hook[h].sub \in DOMAIN subs /\ hook[h].sub # 0
            BY <1>6, <2>2, <2>7, <3>1, FindOtherReads, Parts DEF PInv, CallsOK, RowsOK
        <3>3. hook'[h].sub \in Created
            BY <3>1, <3>2 DEF Reading
        <3>4. RowsIn("ACTIVE") \cap Created = {}
            BY DEF RowsIn, Created
        <3>5. QED
            BY <2>0, <3>1, <3>2, <3>3, <3>4 DEF Reading, LastSites
    <2>8. CASE SetPlan(h) \/ PauseFree(h) \/ Retire(h)
        <3>1. GoesOn(h) /\ hook[h].at \in {"retire"} \cup LastSites
            BY <2>8, SetPlanDoes, PlainDoes DEF LastSites
        <3>2. Reading(h) /\ RefOf(h) # "none"
            BY <1>6, <2>2, <3>1 DEF Activating
        <3>3. hook'[h].at \in LastSites
            BY <2>8, <3>2, SetPlanDoes, PlainDoes DEF LastSites
        <3>4. hook'[h].payment = hook[h].payment /\ granted' = granted
            BY <2>8, <3>1 DEF GoesOn, SetPlan, PauseFree, Retire, history
        <3>5. Created' = {} /\ granted'[hook'[h].payment] > 0
            BY <2>0, <3>1, <3>2, <3>4 DEF Reading
        <3>6. QED
            BY <3>3, <3>5 DEF Reading, LastSites
    <2>9. QED
        BY <2>1, <2>3, <2>4, <2>5, <2>6, <2>7, <2>8
<1>8. PaymentsAge
    BY <1>1, SamePaymentsAge
<1>9. QED
    BY <1>1, <1>2, <1>3, <1>4, <1>5, <1>7, <1>8, CallAges

LEMMA WriteAges ==
    ASSUME PaymentsAssumption, PInv, Subscribing, NEW h \in Handlers,
           IncrementSubscription(h) \/ CancelOld(h) \/ CloseOld(h)
    PROVE  Ages
<1>0. Activating(h) => Reading(h)
    BY DEF Subscribing, ReadingOK
<1>1. CASE IncrementSubscription(h)
    <2>1. /\ UNCHANGED <<payments, checkouts, billed, forsaken, cancelling>> /\ Grant(h)
          /\ hook[h].at = "increment" /\ GoesOn(h)
        BY <1>1, IncrementDoes DEF IncrementSubscription, user, atlos
    <2>2. SameRows
        BY <1>1, IncrementDoes DEF SameRows
    <2>3. RowsAge /\ PaymentsAge
        BY <2>1, <2>2, SameRowsAge, SamePaymentsAge
    <2>4. \A ref \in billed' : \A j \in RowsOf(ref) : subs'[j].status = "ACTIVE"
        BY <2>2 DEF SameRows, RowsOf, RowsIn
    <2>5. ~ Activating(h)'
        BY <2>1 DEF Activating, RefOf, GoesOn, PInv, CallsOK, TopUpSites
    <2>6. QED
        BY <2>1, <2>3, <2>4, <2>5, CallAges DEF GoesOn
<1>2. CASE CancelOld(h)
    <2>1. /\ UNCHANGED <<subs, payments, checkouts, granted, cancelling>>
          /\ billed' \subseteq billed /\ forsaken \subseteq forsaken'
        BY <1>2 DEF CancelOld, rows, user
    <2>2. /\ GoesOn(h) /\ hook[h].at = "cancelOld" /\ hook'[h].at = "closeOld"
          /\ hook'[h].sub = hook[h].sub /\ hook'[h].old = hook[h].old
        BY <1>2, PlainDoes
    <2>3. RowsAge /\ PaymentsAge
        BY <2>1, SameRowsAge, SamePaymentsAge DEF SameRows
    <2>4. \A ref \in billed' : \A j \in RowsOf(ref) : subs'[j].status = "ACTIVE"
        BY <2>1 DEF RowsOf, RowsIn
    <2>5. Reading(h)'
        <3>1. hook[h].sub \in DOMAIN subs /\ RefOf(h) \in Contracts
            BY <2>2 DEF PInv, CallsOK, ContractSites
        <3>2. hook[h].sub # 0
            BY <3>1, Parts DEF RowsOK
        <3>3. Reading(h)
            BY <1>0, <2>2, <3>1 DEF Activating, PaymentsAssumption
        <3>4. hook[h].sub \in Created /\ hook[h].old \notin Created
            BY <2>2, <3>2, <3>3 DEF Reading
        <3>5. subs[hook[h].old].ref \notin billed' \ forsaken'
            BY <1>2 DEF CancelOld
        <3>6. Created' = Created
            BY <2>1 DEF Created, RowsIn
        <3>7. QED
            BY <2>1, <2>2, <3>2, <3>4, <3>5, <3>6 DEF Reading, LastSites
    <2>6. QED
        BY <2>1, <2>2, <2>3, <2>4, <2>5, CallAges DEF GoesOn
<1>3. CASE CloseOld(h)
    <2>1. UNCHANGED <<payments, checkouts, granted, billed, forsaken, cancelling>>
        BY <1>3 DEF CloseOld, user, atlos, history
    <2>2. /\ GoesOn(h) /\ hook[h].at = "closeOld" /\ hook[h].old \in DOMAIN subs
          /\ hook'[h].at = IF hook[h].sub = 0 THEN "renew" ELSE "activate"
          /\ hook'[h].sub = hook[h].sub /\ hook'[h].old = hook[h].old
          /\ DOMAIN subs' = DOMAIN subs
          /\ \A i \in DOMAIN subs : subs'[i].ref = subs[i].ref
          /\ \A i \in DOMAIN subs : i # hook[h].old => subs'[i] = subs[i]
          /\ subs'[hook[h].old].status = "DONE"
        BY <1>3, CloseOldDoes
    <2>3. RefOf(h) \in Contracts /\ RefOf(h)' = RefOf(h)
        BY <2>1, <2>2 DEF PInv, CallsOK, ContractSites, RefOf, GoesOn
    <2>4. Reading(h)
        BY <1>0, <2>2, <2>3 DEF Activating, PaymentsAssumption
    <2>5. hook[h].old \notin Created
        BY <2>2, <2>4 DEF Reading
    <2>6. RowsAge
        BY <2>2, <2>5 DEF RowsAge, Ended, Created, RowsIn
    <2>7. PaymentsAge
        BY <2>1, SamePaymentsAge
    <2>8. Created' = Created
        BY <2>6, CreatedAges
    <2>9. Reading(h)'
        <3>1. CASE hook[h].sub = 0
            <4>1. /\ Created = {} /\ RowsOf(RefOf(h)) \subseteq {hook[h].old}
                BY <2>2, <2>4, <3>1 DEF Reading
            <4>2. RowsOf(RefOf(h))' = {}
                <5>1. \A i \in RowsOf(RefOf(h))' : i \in RowsOf(RefOf(h))
                    BY <2>3, <2>6, PaymentsAssumption DEF PaymentsAssumption, RowsOf, RowsIn, RowsAge, Ended
                <5>2. hook[h].old \notin RowsOf(RefOf(h))'
                    BY <2>2 DEF RowsOf, RowsIn
                <5>3. QED
                    BY <4>1, <5>1, <5>2
            <4>3. QED
                BY <2>2, <2>8, <3>1, <4>1, <4>2 DEF Reading, LastSites
        <3>2. CASE hook[h].sub # 0
            <4>1. hook[h].sub \in Created
                BY <2>2, <2>4, <3>2 DEF Reading
            <4>2. QED
                BY <2>2, <2>8, <3>2, <4>1 DEF Reading, LastSites
        <3>3. QED
            BY <3>1, <3>2
    <2>10. \A ref \in billed' : \A i \in RowsOf(ref) :
                subs'[i].status # "ACTIVE" => ref \in forsaken' \/ Renewing(ref)'
        <3> SUFFICES ASSUME NEW ref \in billed', NEW i \in RowsOf(ref), subs'[i].status # "ACTIVE"
                     PROVE  ref \in forsaken' \/ Renewing(ref)'
            OBVIOUS
        <3>1. i = hook[h].old /\ subs[i].ref = ref
            BY <2>2 DEF RowsOf, RowsIn
        <3>2. CASE hook[h].sub = 0
            <4>1. RefOf(h) = ref
                BY <2>2, <2>4, <3>1, <3>2 DEF Reading
            <4>2. QED
                BY <2>2, <2>3, <3>2, <4>1 DEF Renewing
        <3>3. CASE hook[h].sub # 0
            BY <2>1, <2>2, <2>4, <3>1, <3>3 DEF Reading
        <3>4. QED
            BY <3>2, <3>3
    <2>11. QED
        BY <2>1, <2>2, <2>6, <2>7, <2>9, <2>10, CallAges DEF GoesOn
<1>4. QED
    BY <1>1, <1>2, <1>3

(* A call fails, or the answer about a top-up is given. *)
LEMMA EndAges ==
    ASSUME PInv, Subscribing, NEW h \in Handlers, Fail(h) \/ (Record(h) /\ RefOf(h) = "none")
    PROVE  Ages
<1>1. /\ hook[h].at # "idle" /\ hook' = [hook EXCEPT ![h] = Idle]
      /\ UNCHANGED <<subs, checkouts, billed, granted, cancelling>>
      /\ forsaken \subseteq forsaken' /\ (hook[h].at = "renew" => RefOf(h) \in forsaken')
      /\ UNCHANGED payments
           \/ payments' = [payments EXCEPT ![hook[h].payment].state = "acknowledged"]
      /\ UNCHANGED payments \/ RefOf(h) = "none"
    BY DEF Fail, Record, Answer, rows, user, atlos, history
<1>2. /\ DOMAIN payments' = DOMAIN payments
      /\ \A p \in DOMAIN payments :
            /\ payments'[p].ref = payments[p].ref
            /\ p # hook[h].payment => payments'[p] = payments[p]
      /\ \A o \in Handlers \ {h} : hook'[o] = hook[o]
      /\ hook'[h] = Idle
    BY <1>1, CallEnds DEF PInv
<1>3. RowsAge
    BY <1>1, SameRowsAge DEF SameRows
<1>4. PaymentsAge
    <2>1. \A p \in DOMAIN payments : payments[p].ref # "none" => payments'[p] = payments[p]
        BY <1>1, <1>2 DEF RefOf
    <2>2. \A p \in DOMAIN payments : granted[p] <= granted'[p]
        <3>1. \A p \in DOMAIN payments : granted[p] \in Nat
            BY Parts DEF AtlosOK
        <3>2. QED
            BY <1>1, <3>1
    <2>3. QED
        BY <1>2, <2>1, <2>2 DEF PaymentsAge
<1>5. ~ Activating(h)'
    BY <1>2 DEF Activating, Idle
<1>6. \A ref \in billed' : \A j \in RowsOf(ref) : subs'[j].status = "ACTIVE"
    BY <1>1 DEF RowsOf, RowsIn
<1>7. QED
    BY <1>1, <1>2, <1>3, <1>4, <1>5, <1>6, CallAges
-----------------------------------------------------------------------------
(* The six steps that do more: a checkout, its payment, the next period, a *)
(* renewal, an activation, and the answer about a subscription.            *)

(* Between two purchases, no checkout is open and no payment is dealt with. *)
LEMMA Undisturbed ==
    ASSUME PInv, OneAtATime, NoCrossing, NothingPending
    PROVE  /\ checkouts = {} /\ Created = {}
           /\ \A p \in DOMAIN payments : ~ Pending(p)
           /\ \A h \in Handlers : ~ Activating(h)
<1>1. "crossing" \notin allowed
    BY Parts DEF UserOK, NoCrossing
<1>2. checkouts = {} /\ \A p \in DOMAIN payments : ~ Pending(p)
    <2>1. \A p \in DOMAIN payments :
                payments[p].ref = "none" \/ payments[p].state = "acknowledged"
        BY <1>1 DEF NothingPending
    <2>2. QED
        BY <1>1, <2>1 DEF NothingPending, Pending
<1>3. Created = {}
    BY <1>2 DEF OneAtATime
<1>4. \A h \in Handlers : ~ Activating(h)
    BY <1>2, ActivatingIsPending
<1>5. QED
    BY <1>2, <1>3, <1>4

(* No call about a subscription: then nothing that was read can be wrong.  *)
LEMMA NoCallReads ==
    ASSUME PInv, UNCHANGED hook, PaymentsKept, \A h \in Handlers : ~ Activating(h)
    PROVE  ReadingOK' /\ \A ref \in Contracts : ~ Renewing(ref)
<1>1. ASSUME NEW h \in Handlers PROVE ~ Activating(h)'
    <2>1. CASE hook[h].at = "idle"
        BY <2>1 DEF Activating
    <2>2. CASE hook[h].at # "idle"
        BY <2>2, CallColumns DEF Activating, RefOf, PaymentsKept
    <2>3. QED
        BY <2>1, <2>2
<1>2. \A h \in Handlers : hook[h].at = "renew" => Activating(h)
    BY PaymentsAssumption DEF PInv, CallsOK, ContractSites, Activating, PaymentsAssumption
<1>3. QED
    BY <1>1, <1>2 DEF ReadingOK, Renewing

LEMMA CreateKeeps ==
    ASSUME PaymentsAssumption, PInv, PInv', Subscribing, NoCrossing,
           NEW plan \in Tiers, NEW upgrade \in BOOLEAN, CreateSubscription(plan, upgrade)
    PROVE  Subscribing'
<1> DEFINE new == Len(subs) + 1
<1>0. /\ UNCHANGED <<hook, payments, granted, forsaken, billed, cancelling>>
      /\ checkouts' = checkouts \cup {new}
    BY DEF CreateSubscription, user, history
<1>1. /\ checkouts = {} /\ Created = {}
      /\ \A p \in DOMAIN payments : ~ Pending(p)
      /\ \A h \in Handlers : ~ Activating(h)
    BY Undisturbed DEF CreateSubscription, Subscribing
<1>2. /\ DOMAIN subs' = DOMAIN subs \cup {new} /\ new \notin DOMAIN subs
      /\ \A i \in DOMAIN subs : subs'[i] = subs[i]
      /\ subs'[new].ref = "none" /\ subs'[new].status = "CREATED"
    BY CreateDoes
<1> HIDE DEF new
<1>3. Created' = {new}
    BY <1>1, <1>2 DEF Created, RowsIn
<1>4. \A p \in DOMAIN payments' : ~ Pending(p)'
    BY <1>0, <1>1 DEF Pending
<1>5. \A ref \in Contracts : RowsOf(ref)' = RowsOf(ref)
    BY <1>2 DEF RowsOf, RowsIn, PaymentsAssumption
<1>6. OneAtATime'
    BY <1>0, <1>1, <1>3, <1>4 DEF OneAtATime
<1>7. Contracted'
    <2>1. \A i \in DOMAIN subs' : subs'[i].ref \in Contracts
                => \E p \in DOMAIN payments' : payments'[p].ref = subs'[i].ref
        BY <1>0, <1>2 DEF Subscribing, Contracted, PaymentsAssumption
    <2>2. \A ref \in billed' : \E p \in DOMAIN payments' : payments'[p].ref = ref
        BY <1>0 DEF Subscribing, Contracted
    <2>3. QED
        BY <1>4, <2>1, <2>2 DEF Contracted
<1>8. OneRow'
    BY <1>5 DEF Subscribing, OneRow
<1>9. ReadingOK' /\ \A ref \in Contracts : ~ Renewing(ref)
    BY <1>0, <1>1, NoCallReads, PaymentsSame
<1>10. CancellingOK'
    <2>1. cancelling # 0 => cancelling \in DOMAIN subs
        BY Parts DEF RowsOK
    <2>2. QED
        BY <1>0, <1>2, <1>3, <2>1 DEF Subscribing, CancellingOK
<1>11. Served'
    <2>1. \A ref \in billed : ref \in Contracts
        BY Parts DEF AtlosOK
    <2>2. \A ref \in billed : RowsOf(ref) # {} \/ ref \in forsaken
        BY <1>1, <1>9, <2>1 DEF Subscribing, Served, Renewing
    <2>3. QED
        BY <1>0, <1>5, <2>1, <2>2 DEF Served
<1>12. PaidIsGranted'
    BY <1>0 DEF Subscribing, PaidIsGranted
<1>13. QED
    BY <1>6, <1>7, <1>8, <1>9, <1>10, <1>11, <1>12 DEF Subscribing

(* A contract is paid for, with no other purchase about. *)
LEMMA PaidAlone ==
    ASSUME PaymentsAssumption, PInv, PInv', Subscribing, NEW ref \in Contracts, Paid(ref),
           UNCHANGED <<subs, hook, cancelling, forsaken>>,
           \A p \in DOMAIN payments : ~ Pending(p),
           \A h \in Handlers : ~ Activating(h),
           checkouts' = {}, billed' = billed \cup {ref},
           \/ Created # {} /\ \A p \in DOMAIN payments : payments[p].ref # ref
           \/ Created = {} /\ ref \in billed
    PROVE  Subscribing'
<1>1. PICK new \in Nat :
         /\ PaymentsKept /\ DOMAIN payments' = DOMAIN payments \cup {new}
         /\ new \notin DOMAIN payments
         /\ payments'[new] = [ref |-> ref, state |-> "due"]
         /\ \A p \in DOMAIN payments : granted'[p] = granted[p] /\ payments'[p] = payments[p]
    <2>1. Len(payments) + 1 \in Nat
        BY Parts DEF AtlosOK
    <2>2. QED
        BY <2>1, PaidKeeps DEF PaymentsKept
<1>2. /\ Created' = Created /\ \A r : RowsOf(r)' = RowsOf(r)
    BY DEF Created, RowsOf, RowsIn
<1>3. /\ \A p \in DOMAIN payments' : Pending(p)' => p = new
      /\ new \in DOMAIN payments' /\ Pending(new)'
    BY <1>1 DEF Pending, PaymentsAssumption
<1>4. OneAtATime'
    BY <1>2, <1>3 DEF OneAtATime, Subscribing
<1>5. Contracted'
    <2>1. \A i \in DOMAIN subs' : subs'[i].ref \in Contracts
                => \E p \in DOMAIN payments' : payments'[p].ref = subs'[i].ref
        BY <1>1 DEF Subscribing, Contracted
    <2>2. \A r \in billed' : \E p \in DOMAIN payments' : payments'[p].ref = r
        BY <1>1 DEF Subscribing, Contracted
    <2>3. Created # {} => \A j \in DOMAIN subs : subs[j].ref # ref
        BY DEF Subscribing, Contracted
    <2>4. QED
        BY <1>1, <1>2, <1>3, <2>1, <2>2, <2>3 DEF Contracted
<1>6. OneRow'
    BY <1>2 DEF Subscribing, OneRow
<1>7. ReadingOK' /\ \A r \in Contracts : ~ Renewing(r)
    BY <1>1, NoCallReads
<1>8. CancellingOK'
    <2>1. cancelling # 0 => cancelling \in DOMAIN subs
        BY Parts DEF RowsOK
    <2>2. cancelling # 0 => subs[cancelling].ref # ref \/ ref \in billed
        BY <2>1 DEF Subscribing, Contracted
    <2>3. QED
        BY <1>2, <2>2 DEF Subscribing, CancellingOK
<1>9. Served'
    <2>1. \A r \in billed : r \in Contracts
        BY Parts DEF AtlosOK
    <2>2. \A r \in billed : RowsOf(r) # {} \/ r \in forsaken
        BY <1>7, <2>1 DEF Subscribing, Served, Renewing
    <2>3. RowsOf(ref) # {} \/ ref \in forsaken \/ Created # {}
        BY <2>2
    <2>4. QED
        BY <1>1, <1>2, <1>3, <2>1, <2>2, <2>3 DEF Served
<1>10. PaidIsGranted'
    <2>1. ASSUME NEW p \in DOMAIN payments', payments'[p].state = "acknowledged", granted'[p] = 0,
                 payments'[p].ref \in billed'
          PROVE  payments'[p].ref \in forsaken
        <3>1. p \in DOMAIN payments /\ payments[p].state = "acknowledged" /\ granted[p] = 0
              /\ payments'[p].ref = payments[p].ref
            BY <1>1, <2>1
        <3>2. payments[p].ref \in billed
            BY <2>1, <3>1
        <3>3. QED
            BY <3>1, <3>2 DEF Subscribing, PaidIsGranted
    <2>2. QED
        BY <2>1 DEF PaidIsGranted
<1>11. QED
    BY <1>4, <1>5, <1>6, <1>7, <1>8, <1>9, <1>10 DEF Subscribing

LEMMA PayKeeps ==
    ASSUME PaymentsAssumption, PInv, PInv', Subscribing, NoCrossing, NEW ref \in Contracts,
           BillPeriod(ref) \/ \E i \in DOMAIN subs : PayCheckout(i, ref)
    PROVE  Subscribing'
<1>1. CASE BillPeriod(ref)
    <2>1. /\ checkouts = {} /\ Created = {}
          /\ \A p \in DOMAIN payments : ~ Pending(p)
          /\ \A h \in Handlers : ~ Activating(h)
        BY <1>1, Undisturbed DEF BillPeriod, Subscribing
    <2>2. /\ UNCHANGED <<subs, hook, cancelling, forsaken, checkouts, billed>> /\ ref \in billed
          /\ Paid(ref)
        BY <1>1 DEF BillPeriod, rows, user
    <2>3. checkouts' = {} /\ billed' = billed \cup {ref}
        BY <2>1, <2>2
    <2>4. QED
        BY <2>1, <2>2, <2>3, PaidAlone
<1>2. ASSUME NEW i \in DOMAIN subs, PayCheckout(i, ref) PROVE Subscribing'
    <2>1. /\ UNCHANGED <<subs, hook, cancelling, forsaken>> /\ i \in checkouts
          /\ Paid(ref) /\ checkouts' = checkouts \ {i} /\ billed' = billed \cup {ref}
          /\ \A p \in DOMAIN payments : payments[p].ref # ref
        BY <1>2 DEF PayCheckout, rows, user
    <2>2. \A p \in DOMAIN payments : ~ Pending(p)
        BY <2>1 DEF Subscribing, OneAtATime
    <2>3. \A h \in Handlers : ~ Activating(h)
        BY <2>2, ActivatingIsPending
    <2>4. Created # {} /\ checkouts' = {}
        BY <2>1 DEF Subscribing, OneAtATime
    <2>5. QED
        BY <2>1, <2>2, <2>3, <2>4, PaidAlone
<1>3. QED
    BY <1>1, <1>2

(* The call is the only one about a subscription, and nothing is left to   *)
(* be activated when it is done with the rows.                             *)
LEMMA AloneReads ==
    ASSUME PaymentsAssumption, PInv, OneAtATime, NEW h \in Handlers, Activating(h),
           \A o \in Handlers \ {h} : hook'[o] = hook[o],
           DOMAIN payments \subseteq DOMAIN payments',
           \A p \in DOMAIN payments : payments'[p].ref = payments[p].ref,
           Activating(h)' => Reading(h)'
    PROVE  ReadingOK' /\ \A ref \in Contracts : Renewing(ref) => hook[h].at = "renew" /\ RefOf(h) = ref
<1>1. ASSUME NEW o \in Handlers, o # h PROVE ~ Activating(o)'
    <2>1. ~ Activating(o)
        BY <1>1, OnlyActivating
    <2>2. hook'[o] = hook[o]
        BY <1>1
    <2>3. CASE hook[o].at = "idle"
        BY <2>2, <2>3 DEF Activating
    <2>4. CASE hook[o].at # "idle"
        BY <2>1, <2>2, <2>4, CallColumns DEF Activating, RefOf
    <2>5. QED
        BY <2>3, <2>4
<1>2. ASSUME NEW o \in Handlers, hook[o].at = "renew" PROVE o = h
    <2>1. Activating(o)
        BY <1>2 DEF PInv, CallsOK, ContractSites, Activating, PaymentsAssumption
    <2>2. QED
        BY <2>1, OnlyActivating
<1>3. QED
    BY <1>1, <1>2 DEF ReadingOK, Renewing

LEMMA RenewKeeps ==
    ASSUME PaymentsAssumption, PInv, PInv', Subscribing, NEW h \in Handlers, Renew(h)
    PROVE  Subscribing'
<1>0. /\ UNCHANGED <<payments, checkouts, billed, forsaken, cancelling>> /\ Grant(h)
    BY DEF Renew, user, atlos
<1>1. PICK ref \in Contracts, new \in Nat :
         /\ ref = RefOf(h)
         /\ GoesOn(h) /\ hook[h].at = "renew" /\ hook'[h].at \in {"retire", "setPlan"}
         /\ DOMAIN subs' = DOMAIN subs \cup {new} /\ new \notin DOMAIN subs
         /\ \A i \in DOMAIN subs : subs'[i] = subs[i]
         /\ subs'[new].status = "ACTIVE" /\ subs'[new].ref = ref
    <2>1. Len(subs) + 1 \in Nat /\ Len(subs) + 1 \notin DOMAIN subs
        BY Parts DEF RowsOK
    <2>2. RefOf(h) \in Contracts
        BY RenewDoes
    <2>3. QED
        BY <2>1, <2>2, RenewDoes
<1>2. Activating(h) /\ Reading(h)
    <2>1. Activating(h)
        BY <1>1, PaymentsAssumption DEF Activating, PaymentsAssumption
    <2>2. QED
        BY <2>1 DEF Subscribing, ReadingOK
<1>3. Created = {} /\ RowsOf(ref) = {}
    BY <1>1, <1>2 DEF Reading
<1>4. Created' = {}
    BY <1>1, <1>3 DEF Created, RowsIn
<1>5. /\ hook[h].payment \in DOMAIN payments /\ Pending(hook[h].payment)
      /\ hook'[h].payment = hook[h].payment
    BY <1>1, <1>2, ActivatingIsPending DEF GoesOn
<1>6. granted'[hook[h].payment] > 0 /\ \A p \in DOMAIN payments : granted'[p] = 0 => granted[p] = 0
    BY <1>0, <1>5, Parts DEF Grant, AtlosOK
<1>7. /\ \A r \in Contracts : r # ref => RowsOf(r)' = RowsOf(r)
      /\ RowsOf(ref)' = {new}
    BY <1>1, <1>3 DEF RowsOf, RowsIn
<1>8. OneAtATime'
    <2>1. OneAtATime
        BY DEF Subscribing
    <2>2. checkouts' = {}
        BY <1>0, <1>5, <2>1 DEF OneAtATime
    <2>3. \A p \in DOMAIN payments : Pending(p)' <=> Pending(p)
        BY <1>0 DEF Pending
    <2>4. QED
        BY <1>0, <1>4, <2>1, <2>2, <2>3 DEF OneAtATime
<1>9. Contracted'
    <2>1. payments[hook[h].payment].ref = ref
        BY <1>1 DEF RefOf
    <2>2. QED
        BY <1>0, <1>1, <1>4, <1>5, <2>1 DEF Subscribing, Contracted
<1>10. OneRow'
    BY <1>7 DEF Subscribing, OneRow
<1>11. ReadingOK' /\ \A r \in Contracts : Renewing(r) => r = ref
    <2>1. Reading(h)'
        BY <1>1, <1>4, <1>5, <1>6 DEF Reading, LastSites
    <2>2. OneAtATime /\ \A o \in Handlers \ {h} : hook'[o] = hook[o]
        BY <1>1 DEF Subscribing, GoesOn
    <2>3. QED
        BY <1>0, <1>1, <1>2, <2>1, <2>2, AloneReads
<1>12. CancellingOK'
    <2>1. cancelling # 0 => cancelling \in DOMAIN subs
        BY Parts DEF RowsOK
    <2>2. QED
        BY <1>0, <1>1, <1>4, <2>1 DEF Subscribing, CancellingOK
<1>13. Served'
    <2>1. \A r \in billed : r \in Contracts
        BY Parts DEF AtlosOK
    <2>2. \A r \in billed : r = ref \/ RowsOf(r) # {} \/ r \in forsaken
        BY <1>3, <1>11, <2>1 DEF Subscribing, Served, Renewing
    <2>3. \A r \in billed' : RowsOf(r)' # {} \/ r \in forsaken'
        BY <1>0, <1>7, <2>1, <2>2
    <2>4. QED
        BY <2>3 DEF Served
<1>14. PaidIsGranted'
    BY <1>0, <1>6 DEF Subscribing, PaidIsGranted
<1>15. QED
    BY <1>8, <1>9, <1>10, <1>11, <1>12, <1>13, <1>14 DEF Subscribing

LEMMA ActivateKeeps ==
    ASSUME PaymentsAssumption, PInv, PInv', Subscribing, NEW h \in Handlers, Activate(h)
    PROVE  Subscribing' /\ hook[h].sub \in Created
<1>0. /\ UNCHANGED <<payments, checkouts, billed, forsaken, cancelling>> /\ Grant(h)
    BY DEF Activate, user, atlos
<1>1. PICK ref \in Contracts, sub \in Nat :
      /\ ref = RefOf(h) /\ sub = hook[h].sub
      /\ GoesOn(h) /\ hook[h].at = "activate" /\ hook'[h].at \in {"retire", "setPlan"}
      /\ sub \in DOMAIN subs /\ DOMAIN subs' = DOMAIN subs
      /\ \A i \in DOMAIN subs : i # sub => subs'[i] = subs[i]
      /\ subs'[sub].status = "ACTIVE" /\ subs'[sub].ref = ref
    <2>1. hook[h].at # "idle"
        BY DEF Activate, Goto
    <2>2. hook[h].sub \in Nat
        BY <2>1, CallColumns
    <2>3. /\ RefOf(h) \in Contracts
          /\ GoesOn(h) /\ hook[h].at = "activate" /\ hook'[h].at \in {"retire", "setPlan"}
          /\ hook[h].sub \in DOMAIN subs /\ DOMAIN subs' = DOMAIN subs
          /\ \A i \in DOMAIN subs : i # hook[h].sub => subs'[i] = subs[i]
          /\ subs'[hook[h].sub].status = "ACTIVE" /\ subs'[hook[h].sub].ref = RefOf(h)
        BY ActivateDoes
    <2>4. QED
        BY <2>2, <2>3, Zenon
<1>2. Activating(h) /\ Reading(h)
    <2>1. Activating(h)
        BY <1>1, PaymentsAssumption DEF Activating, PaymentsAssumption
    <2>2. QED
        BY <2>1 DEF Subscribing, ReadingOK
<1>3. sub \in Created /\ Created = {sub}
    <2>1. sub # 0
        BY <1>1, Parts DEF RowsOK
    <2>2. sub \in Created
        BY <1>1, <1>2, <2>1 DEF Reading
    <2>3. QED
        BY <2>2 DEF Subscribing, OneAtATime
<1>5. /\ hook[h].payment \in DOMAIN payments /\ Pending(hook[h].payment)
      /\ hook'[h].payment = hook[h].payment /\ payments[hook[h].payment].ref = ref
    BY <1>1, <1>2, ActivatingIsPending DEF GoesOn, RefOf
<1>6. granted'[hook[h].payment] > 0 /\ \A p \in DOMAIN payments : granted'[p] = 0 => granted[p] = 0
    BY <1>0, <1>5, Parts DEF Grant, AtlosOK
<1>4. Created' = {}
    BY <1>1, <1>3 DEF Created, RowsIn
<1>7. /\ \A r \in Contracts : r # ref => RowsOf(r) \subseteq RowsOf(r)' /\ RowsOf(r)' \subseteq RowsOf(r)
      /\ RowsOf(ref)' = {sub}
    <2>1. \A j \in DOMAIN subs : subs[j].ref # ref
        BY <1>3, <1>5 DEF Subscribing, Contracted
    <2>2. subs[sub].status = "CREATED"
        BY <1>3 DEF Created, RowsIn
    <2>3. QED
        BY <1>1, <2>1, <2>2 DEF RowsOf, RowsIn
<1>8. OneAtATime'
    <2>1. OneAtATime
        BY DEF Subscribing
    <2>2. checkouts' = {}
        BY <1>0, <1>5, <2>1 DEF OneAtATime
    <2>3. \A p \in DOMAIN payments : Pending(p)' <=> Pending(p)
        BY <1>0 DEF Pending
    <2>4. QED
        BY <1>0, <1>4, <2>1, <2>2, <2>3 DEF OneAtATime
<1>9. Contracted'
    BY <1>0, <1>1, <1>4, <1>5 DEF Subscribing, Contracted
<1>10. OneRow'
    BY <1>7 DEF Subscribing, OneRow
<1>11. ReadingOK' /\ \A r \in Contracts : ~ Renewing(r)
    <2>1. Reading(h)'
        BY <1>1, <1>4, <1>5, <1>6 DEF Reading, LastSites
    <2>2. OneAtATime /\ \A o \in Handlers \ {h} : hook'[o] = hook[o]
        BY <1>1 DEF Subscribing, GoesOn
    <2>3. QED
        BY <1>0, <1>1, <1>2, <2>1, <2>2, AloneReads
<1>12. CancellingOK'
    <2>1. cancelling # 0 => cancelling \in DOMAIN subs /\ cancelling # sub
        BY <1>3, Parts DEF RowsOK, Subscribing, CancellingOK
    <2>2. QED
        BY <1>0, <1>1, <1>4, <2>1 DEF Subscribing, CancellingOK
<1>13. Served'
    <2>1. \A r \in billed : r \in Contracts
        BY Parts DEF AtlosOK
    <2>2. \A r \in billed : r = ref \/ RowsOf(r) # {} \/ r \in forsaken
        BY <1>5, <1>11, <2>1 DEF Subscribing, Served, Renewing, OneAtATime
    <2>3. \A r \in billed' : RowsOf(r)' # {} \/ r \in forsaken'
        BY <1>0, <1>7, <2>1, <2>2
    <2>4. QED
        BY <2>3 DEF Served
<1>14. PaidIsGranted'
    BY <1>0, <1>6 DEF Subscribing, PaidIsGranted
<1>15. QED
    BY <1>1, <1>3, <1>8, <1>9, <1>10, <1>11, <1>12, <1>13, <1>14 DEF Subscribing

LEMMA AnswerKeeps ==
    ASSUME PaymentsAssumption, PInv, PInv', Subscribing, NEW h \in Handlers, Activating(h), Answer(h),
           UNCHANGED <<subs, checkouts, billed, granted, forsaken, cancelling>>,
           Created = {}, hook[h].at # "renew",
           granted[hook[h].payment] > 0 \/ RefOf(h) \notin billed \ forsaken
    PROVE  Subscribing'
<1>1. /\ hook[h].at # "idle" /\ hook' = [hook EXCEPT ![h] = Idle]
      /\ payments' = [payments EXCEPT ![hook[h].payment].state = "acknowledged"]
    BY DEF Activating, Answer
<1>2. PICK q \in DOMAIN payments :
         /\ q = hook[h].payment /\ Pending(q)
         /\ DOMAIN payments' = DOMAIN payments
         /\ \A p \in DOMAIN payments :
               /\ payments'[p].ref = payments[p].ref
               /\ p # q => payments'[p] = payments[p]
         /\ \A o \in Handlers \ {h} : hook'[o] = hook[o]
         /\ hook'[h] = Idle
    BY <1>1, CallEnds, ActivatingIsPending DEF PInv
<1>3. payments'[q].state = "acknowledged"
    <2>1. payments[q] \in Payment /\ payments \in Seq(Payment)
        BY Parts DEF AtlosOK
    <2>2. QED
        BY <1>1, <1>2, <2>1 DEF Payment
<1>4. \A p \in DOMAIN payments' : ~ Pending(p)'
    BY <1>2, <1>3 DEF Pending, Subscribing, OneAtATime
<1>5. Created' = Created /\ \A r : RowsOf(r)' = RowsOf(r)
    BY DEF Created, RowsOf, RowsIn
<1>6. OneAtATime'
    BY <1>2, <1>4, <1>5 DEF OneAtATime, Subscribing
<1>7. Contracted'
    BY <1>2, <1>4, <1>5 DEF Contracted, Subscribing
<1>8. OneRow'
    BY <1>5 DEF Subscribing, OneRow
<1>9. ReadingOK' /\ \A r \in Contracts : ~ Renewing(r)
    <2>1. ~ Activating(h)'
        BY <1>2 DEF Activating, Idle
    <2>2. OneAtATime
        BY DEF Subscribing
    <2>3. QED
        BY <1>2, <2>1, <2>2, AloneReads
<1>10. CancellingOK'
    BY <1>5 DEF Subscribing, CancellingOK
<1>11. Served'
    <2>1. \A r \in billed : r \in Contracts
        BY Parts DEF AtlosOK
    <2>2. \A r \in billed : RowsOf(r) # {} \/ r \in forsaken
        BY <1>9, <2>1 DEF Subscribing, Served, Renewing
    <2>3. QED
        BY <1>5, <2>2 DEF Served
<1>12. PaidIsGranted'
    <2>1. ASSUME NEW p \in DOMAIN payments', payments'[p].state = "acknowledged", granted'[p] = 0,
                 payments'[p].ref \in billed'
          PROVE  payments'[p].ref \in forsaken'
        <3>1. p \in DOMAIN payments /\ payments'[p].ref = payments[p].ref /\ payments[p].ref \in billed
            BY <1>2, <2>1
        <3>2. CASE p = q
            BY <1>2, <2>1, <3>1, <3>2 DEF RefOf
        <3>3. CASE p # q
            BY <1>2, <2>1, <3>1, <3>3 DEF Subscribing, PaidIsGranted
        <3>4. QED
            BY <3>2, <3>3
    <2>2. QED
        BY <2>1 DEF PaidIsGranted
<1>13. QED
    BY <1>6, <1>7, <1>8, <1>9, <1>10, <1>11, <1>12 DEF Subscribing

LEMMA AnswersKeep ==
    ASSUME PaymentsAssumption, PInv, PInv', Subscribing, NEW h \in Handlers,
           \/ FindActive(h) /\ Answer(h) /\ hook[h].sub = 0 /\ RowsOf(RefOf(h)) = {}
           \/ Record(h) /\ RefOf(h) # "none"
    PROVE  Subscribing'
<1>1. CASE FindActive(h) /\ Answer(h) /\ hook[h].sub = 0 /\ RowsOf(RefOf(h)) = {}
    <2>1. /\ hook[h].at = "findActive" /\ RefOf(h) \in Contracts
          /\ UNCHANGED <<subs, checkouts, billed, granted, forsaken, cancelling>>
        BY <1>1, FindActiveReads DEF FindActive, rows, user, history, PInv, CallsOK, ContractSites
    <2>2. Activating(h) /\ Reading(h)
        BY <2>1 DEF Activating, PaymentsAssumption, Subscribing, ReadingOK
    <2>3. Created = {}
        BY <1>1, <2>1, <2>2 DEF Reading
    <2>4. RefOf(h) \notin billed \ forsaken
        <3>1. ASSUME NEW o \in Handlers, hook[o].at = "renew" PROVE RefOf(o) # RefOf(h)
            <4>1. Activating(o)
                BY <3>1 DEF PInv, CallsOK, ContractSites, Activating, PaymentsAssumption
            <4>2. o = h
                BY <2>2, <4>1, OnlyActivating DEF Subscribing
            <4>3. QED
                BY <2>1, <3>1, <4>2
        <3>2. QED
            BY <1>1, <2>3, <3>1 DEF Subscribing, Served
    <2>5. QED
        BY <1>1, <2>1, <2>2, <2>3, <2>4, AnswerKeeps
<1>2. CASE Record(h) /\ RefOf(h) # "none"
    <2>1. /\ hook[h].at = "record" /\ Answer(h)
          /\ UNCHANGED <<subs, checkouts, billed, granted, forsaken, cancelling>>
        BY <1>2 DEF Record, rows, user, history
    <2>2. Activating(h) /\ Reading(h)
        BY <1>2, <2>1 DEF Activating, Subscribing, ReadingOK
    <2>3. Created = {} /\ granted[hook[h].payment] > 0
        BY <2>1, <2>2 DEF Reading, LastSites
    <2>4. QED
        BY <2>1, <2>2, <2>3, AnswerKeeps
<1>3. QED
    BY <1>1, <1>2

(* What a step may not do to a subscription that is over.                  *)
EndedStays ==
    \A i \in DOMAIN subs : subs[i].status \in Ended => subs'[i].status \in Ended

LEMMA InitSubscribing == Init => Subscribing
<1> SUFFICES ASSUME Init PROVE Subscribing
    OBVIOUS
<1>1. /\ subs = <<>> /\ payments = <<>> /\ billed = {} /\ checkouts = {} /\ cancelling = 0
      /\ \A h \in Handlers : hook[h] = Idle
    BY DEF Init
<1>2. DOMAIN subs = {} /\ DOMAIN payments = {}
    BY <1>1
<1>3. QED
    BY <1>1, <1>2 DEF Subscribing, OneAtATime, Contracted, OneRow, ReadingOK, CancellingOK, Served,
       PaidIsGranted, Created, RowsIn, RowsOf, Activating, Idle

LEMMA StepSubscribing ==
    ASSUME PaymentsAssumption, NoCrossing, PInv, PInv', Subscribing, [Next]_vars
    PROVE  Subscribing' /\ EndedStays
<1> DEFINE Goal == Subscribing' /\ EndedStays
<1>1. ASSUME Ages PROVE Goal
    <2>1. Subscribing'
        BY <1>1, AgesKeeps
    <2>2. EndedStays
        BY <1>1 DEF Ages, RowsAge, EndedStays
    <2>3. QED
        BY <2>1, <2>2
<1>2. ASSUME Subscribing', \A i \in DOMAIN subs : subs'[i] = subs[i] PROVE Goal
    BY <1>2 DEF EndedStays
<1>3. ASSUME NEW plan \in Tiers, NEW upgrade \in BOOLEAN, CreateSubscription(plan, upgrade)
      PROVE  Goal
    BY <1>2, <1>3, CreateKeeps, CreateDoes
<1>4. ASSUME NEW ref \in Contracts, BillPeriod(ref) \/ \E i \in DOMAIN subs : PayCheckout(i, ref)
      PROVE  Goal
    <2>1. UNCHANGED subs
        BY <1>4 DEF BillPeriod, PayCheckout, rows
    <2>2. QED
        BY <1>2, <1>4, <2>1, PayKeeps
<1>5. ASSUME \/ \E i \in DOMAIN subs : BeginCancel(i) \/ ScheduleCancel(i)
             \/ FinishCancel \/ SwitchBackToSubscription \/ LogIn \/ Spend \/ PayTopUp
             \/ UNCHANGED vars
      PROVE  Goal
    BY <1>1, <1>5, UserAges
<1>6. ASSUME X402 PROVE Goal
    BY <1>1, <1>6, X402Ages
<1>7. ASSUME NEW h \in Handlers, Webhook(h) PROVE Goal
    <2>1. CASE Renew(h)
        BY <1>2, <2>1, RenewKeeps, RenewDoes
    <2>2. CASE Activate(h)
        <3>1. Subscribing' /\ hook[h].sub \in Created
            BY <2>2, ActivateKeeps
        <3>2. EndedStays
            BY <2>2, <3>1, ActivateDoes DEF EndedStays, Ended, Created, RowsIn
        <3>3. QED
            BY <3>1, <3>2
    <2>3. CASE FindActive(h)
        <3>1. UNCHANGED subs
            BY <2>3 DEF FindActive, rows
        <3>2. CASE GoesOn(h) /\ UNCHANGED payments
            BY <1>1, <2>3, <3>2, ReadAges
        <3>3. CASE Answer(h) /\ hook[h].sub = 0 /\ RowsOf(RefOf(h)) = {}
            BY <1>2, <2>3, <3>1, <3>3, AnswersKeep
        <3>4. QED
            BY <2>3, <3>2, <3>3, FindActiveReads
    <2>4. CASE Record(h)
        <3>1. UNCHANGED subs
            BY <2>4 DEF Record, rows
        <3>2. QED
            BY <1>1, <1>2, <2>4, <3>1, AnswersKeep, EndAges
    <2>5. CASE Fail(h)
        BY <1>1, <2>5, EndAges
    <2>6. CASE IncrementSubscription(h) \/ CancelOld(h) \/ CloseOld(h)
        BY <1>1, <2>6, WriteAges
    <2>7. CASE \/ \E p \in DOMAIN payments : Deliver(h, p)
               \/ ReadUser(h) \/ ReadDone(h) \/ ReadTopUp(h) \/ FindCreated(h) \/ FindOther(h)
               \/ UpsertTopUp(h) \/ SetPlan(h) \/ PauseFree(h) \/ Retire(h)
        BY <1>1, <2>7, ReadAges
    <2>8. QED
        BY <1>7, <2>1, <2>2, <2>3, <2>4, <2>5, <2>6, <2>7 DEF Webhook
<1> HIDE DEF Goal
<1>8. Goal
    BY <1>3, <1>4, <1>5, <1>6, <1>7 DEF Next
<1>9. QED
    BY <1>8 DEF Goal
-----------------------------------------------------------------------------
(* What an activation takes off the top-up. *)

Transfers ==
    \A h \in Handlers : hook[h].at = "retire" /\ hook'[h].at = "setPlan" =>
            buy.at = "served" \/ Left(topUp) - Left(topUp') <= hook[h].rest

ReadSites == ContractSites \ {"readTopUp"}

(* The top-up is only added to and spent from, but for a purchase by x402. *)
TopUpGrows ==
    \/ buy'.at = "served"
    \/ /\ buy.at # "served"
       /\ topUp.total <= topUp'.total /\ topUp.usage <= topUp'.usage

TopUpColumns ==
    /\ topUp.total \in Nat /\ topUp.usage \in Nat
    /\ topUp'.total \in Nat /\ topUp'.usage \in Nat

LEMMA CarriedOn ==
    ASSUME PInv, PInv', CarriesOK, TopUpGrows, NEW h \in Handlers, hook[h].at \in ReadSites,
           hook'[h].full = hook[h].full, hook'[h].rest = hook[h].rest
    PROVE  \/ buy'.at = "served"
           \/ hook'[h].full <= topUp'.total /\ hook'[h].full <= topUp'.usage + hook'[h].rest
<1>1. TopUpColumns
    BY Parts, PartsNext DEF UserOK, TopUpColumns
<1>2. hook[h].full \in Nat /\ hook[h].rest \in Nat
    BY CallColumns DEF ReadSites, ContractSites
<1>3. \/ buy.at = "served"
      \/ hook[h].full <= topUp.total /\ hook[h].full <= topUp.usage + hook[h].rest
    BY DEF CarriesOK, ReadSites
<1>4. QED
    BY <1>1, <1>2, <1>3 DEF TopUpGrows, TopUpColumns

LEMMA QuietCarries ==
    ASSUME PInv, PInv', CarriesOK, TopUpGrows, UNCHANGED hook
    PROVE  CarriesOK' /\ Transfers
<1>1. CarriesOK'
    BY CarriedOn DEF CarriesOK, ReadSites
<1>2. QED
    BY <1>1 DEF Transfers

LEMMA CallCarries ==
    ASSUME PInv, PInv', CarriesOK, TopUpGrows, NEW h \in Handlers,
           \A other \in Handlers \ {h} : hook'[other] = hook[other],
           hook[h].at # "retire" \/ hook'[h].at # "setPlan",
           hook'[h].at \in ReadSites =>
              \/ /\ hook[h].at \in ReadSites
                 /\ hook'[h].full = hook[h].full /\ hook'[h].rest = hook[h].rest
              \/ /\ UNCHANGED topUp
                 /\ hook'[h].full = topUp.total /\ hook'[h].rest = Left(topUp)
    PROVE  CarriesOK' /\ Transfers
<1>1. ASSUME NEW o \in Handlers, hook'[o].at \in ReadSites
      PROVE  \/ buy'.at = "served"
             \/ hook'[o].full <= topUp'.total /\ hook'[o].full <= topUp'.usage + hook'[o].rest
    <2>1. CASE hook[o].at \in ReadSites /\ hook'[o].full = hook[o].full /\ hook'[o].rest = hook[o].rest
        BY <2>1, CarriedOn
    <2>2. CASE o = h /\ UNCHANGED topUp /\ hook'[h].full = topUp.total /\ hook'[h].rest = Left(topUp)
        <3>1. topUp.total \in Nat /\ topUp.usage \in Nat
            BY Parts DEF UserOK
        <3>2. Left(topUp) \in Nat /\ topUp.total - topUp.usage <= Left(topUp)
            BY <3>1, LeftType
        <3>3. topUp.total <= topUp.usage + Left(topUp)
            BY <3>1, <3>2
        <3>4. QED
            BY <2>2, <3>1, <3>3
    <2>3. QED
        BY <1>1, <2>1, <2>2
<1>2. CarriesOK'
    BY <1>1 DEF CarriesOK, ReadSites
<1>3. Transfers
    BY DEF Transfers
<1>4. QED
    BY <1>2, <1>3

(* The activation that retires the top-up is the only one about: what it   *)
(* takes off is no more than what it had read.                             *)
LEMMA RetireCarries ==
    ASSUME PaymentsAssumption, PInv, PInv', Subscribing, CarriesOK, NEW h \in Handlers, Retire(h)
    PROVE  CarriesOK' /\ Transfers
<1>1. /\ GoesOn(h) /\ hook[h].at = "retire" /\ hook'[h].at = "setPlan"
      /\ UNCHANGED <<buy, payments>>
      /\ topUp' = [topUp EXCEPT !.usage = hook[h].full, !.status = "PAUSED"]
    BY PlainDoes DEF Retire, user, atlos
<1>2. ASSUME NEW o \in Handlers, hook'[o].at \in ReadSites PROVE FALSE
    <2>1. o # h
        BY <1>1, <1>2 DEF ReadSites, ContractSites
    <2>2. hook[o].at \in ReadSites
        BY <1>1, <1>2, <2>1 DEF GoesOn
    <2>3. Activating(o) /\ Activating(h)
        BY <1>1, <2>2 DEF Activating, PInv, CallsOK, ReadSites, ContractSites, PaymentsAssumption
    <2>4. QED
        BY <2>1, <2>3, OnlyActivating DEF Subscribing
<1>3. CarriesOK'
    BY <1>2 DEF CarriesOK, ReadSites
<1>4. buy.at = "served" \/ Left(topUp) - Left(topUp') <= hook[h].rest
    <2>1. topUp \in [status : {"none", "ACTIVE", "PAUSED"}, total : Nat, usage : Nat]
        BY Parts DEF UserOK
    <2>2. hook[h].full \in Nat /\ hook[h].rest \in Nat
        BY <1>1, CallColumns
    <2>3. topUp'.total = topUp.total /\ topUp'.usage = hook[h].full
        BY <1>1, <2>1
    <2>4. \/ buy.at = "served"
          \/ hook[h].full <= topUp.total /\ hook[h].full <= topUp.usage + hook[h].rest
        BY <1>1 DEF CarriesOK, ContractSites
    <2>5. QED
        BY <2>1, <2>2, <2>3, <2>4 DEF Left
<1>5. Transfers
    BY <1>1, <1>4 DEF Transfers, GoesOn
<1>6. QED
    BY <1>3, <1>5

LEMMA StepCarries ==
    ASSUME PaymentsAssumption, PInv, PInv', Subscribing, CarriesOK, [Next]_vars
    PROVE  CarriesOK' /\ Transfers
<1>0. topUp \in [status : {"none", "ACTIVE", "PAUSED"}, total : Nat, usage : Nat]
    BY Parts DEF UserOK
<1>1. UNCHANGED topUp /\ UNCHANGED buy => TopUpGrows
    BY <1>0 DEF TopUpGrows
<1>2. CASE \/ \E plan \in Tiers, upgrade \in BOOLEAN : CreateSubscription(plan, upgrade)
           \/ \E i \in DOMAIN subs : BeginCancel(i) \/ ScheduleCancel(i)
           \/ FinishCancel \/ SwitchBackToSubscription \/ LogIn
           \/ \E i \in DOMAIN subs, ref \in Contracts : PayCheckout(i, ref)
           \/ \E ref \in Contracts : BillPeriod(ref)
           \/ PayTopUp \/ UNCHANGED vars
    <2>1. UNCHANGED <<topUp, buy, hook>>
        BY <1>2 DEF CreateSubscription, BeginCancel, ScheduleCancel, FinishCancel,
           SwitchBackToSubscription, LogIn, PayCheckout, BillPeriod, PayTopUp, rows, user, vars
    <2>2. QED
        BY <1>1, <2>1, QuietCarries
<1>3. CASE Spend
    <2>1. UNCHANGED <<buy, hook>>
        BY <1>3 DEF Spend
    <2>2. TopUpGrows
        BY <1>0, <1>3, <2>1 DEF Spend, TopUpGrows
    <2>3. QED
        BY <2>1, <2>2, QuietCarries
<1>4. CASE X402
    <2>1. UNCHANGED hook
        BY <1>4 DEF X402, StartX402, StartEvm, HandleVerified, Verify, Settle, SendDirect,
                    FindPayer, CreateByX402, FailX402, BuyFrame
    <2>2. TopUpGrows
        <3>1. CASE CreateByX402
            BY <3>1 DEF CreateByX402, TopUpGrows, NoPurchase
        <3>2. CASE ~ CreateByX402
            <4>1. UNCHANGED topUp
                BY <1>4, <3>2 DEF X402, StartX402, StartEvm, HandleVerified, Verify, Settle,
                    SendDirect, FindPayer, FailX402, BuyFrame, rows
            <4>2. buy.at # "served"
                <5>1. CASE \E plan \in Tiers : StartX402(plan) \/ StartEvm(plan)
                    <6>1. buy = NoPurchase
                        BY <5>1 DEF StartX402, StartEvm
                    <6>2. QED
                        BY <6>1 DEF NoPurchase
                <5>2. CASE HandleVerified \/ Verify \/ Settle \/ SendDirect \/ FindPayer
                    BY <5>2 DEF HandleVerified, Verify, Settle, SendDirect, FindPayer, Buying
                <5>3. CASE FailX402
                    BY <5>3 DEF FailX402, Open
                <5>4. QED
                    BY <1>4, <3>2, <5>1, <5>2, <5>3 DEF X402
            <4>3. QED
                BY <1>0, <4>1, <4>2 DEF TopUpGrows
        <3>3. QED
            BY <3>1, <3>2
    <2>3. QED
        BY <2>1, <2>2, QuietCarries
<1>5. ASSUME NEW h \in Handlers, Webhook(h) PROVE CarriesOK' /\ Transfers
    <2>1. CASE Retire(h)
        BY <2>1, RetireCarries
    <2>2. ASSUME ~ Retire(h) PROVE TopUpGrows
        <3>1. UNCHANGED buy
            BY <1>5 DEF Webhook, Deliver, ReadUser, IncrementSubscription, ReadDone,
                UpsertTopUp, ReadTopUp, FindCreated, FindActive, FindOther, CancelOld,
                CloseOld, Renew, Activate, Retire, SetPlan, PauseFree, Record, Fail, user
        <3>2. CASE UpsertTopUp(h)
            <4>1. hook[h].rest \in Nat
                BY <3>2, CallColumns DEF UpsertTopUp, Goto
            <4>2. topUp'.total = topUp.total + hook[h].rest /\ topUp'.usage = topUp.usage
                BY <1>0, <3>2 DEF UpsertTopUp
            <4>3. QED
                BY <1>0, <3>1, <4>1, <4>2 DEF TopUpGrows
        <3>3. CASE ~ UpsertTopUp(h)
            <4>1. UNCHANGED topUp
                BY <1>5, <2>2, <3>3 DEF Webhook, Deliver, ReadUser, IncrementSubscription, ReadDone,
                    ReadTopUp, FindCreated, FindActive, FindOther, CancelOld,
                    CloseOld, Renew, Activate, SetPlan, PauseFree, Record, Fail, rows
            <4>2. QED
                BY <1>1, <3>1, <4>1
        <3>4. QED
            BY <3>2, <3>3
    <2>3. CASE \E p \in DOMAIN payments : Deliver(h, p)
        <3>1. /\ hook'[h].at \notin ReadSites \cup {"setPlan"}
              /\ \A other \in Handlers \ {h} : hook'[other] = hook[other]
            BY <2>3, DeliverTypes DEF ReadSites, ContractSites
        <3>2. TopUpGrows
            BY <1>1, <2>3 DEF Deliver, rows, user
        <3>3. QED
            BY <3>1, <3>2, CallCarries
    <2>4. CASE Fail(h) \/ Record(h) \/ (FindActive(h) /\ Answer(h))
        <3>1. hook[h].at # "idle" /\ hook' = [hook EXCEPT ![h] = Idle]
            BY <2>4, FindActiveReads DEF Fail, Record, Answer
        <3>2. hook'[h] = Idle /\ \A other \in Handlers \ {h} : hook'[other] = hook[other]
            BY <3>1 DEF PInv, TypeOK
        <3>3. hook'[h].at \notin ReadSites \cup {"setPlan"}
            BY <3>2 DEF Idle, ReadSites, ContractSites
        <3>4. TopUpGrows
            BY <1>1, <2>4 DEF Fail, Record, FindActive, rows, user
        <3>5. QED
            BY <3>2, <3>3, <3>4, CallCarries
    <2>5. CASE ReadTopUp(h)
        <3>1. UNCHANGED topUp /\ hook[h].at = "readTopUp" /\ TopUpGrows
            BY <1>1, <2>5 DEF ReadTopUp, rows, user
        <3>2. QED
            BY <2>5, <3>1, ReadTopUpReads, CallCarries DEF GoesOn
    <2>6. CASE ReadUser(h) \/ IncrementSubscription(h) \/ ReadDone(h) \/ UpsertTopUp(h)
               \/ SetPlan(h) \/ PauseFree(h)
        <3>1. ~ Retire(h) /\ hook[h].at # "retire"
            BY <2>6, SetPlanDoes, PlainDoes DEF ReadUser, IncrementSubscription, ReadDone, Goto, Retire
        <3>2. GoesOn(h) /\ hook'[h].at \notin ReadSites
            BY <2>6, ReadUserReads, IncrementDoes, ReadDoneReads, PlainDoes, SetPlanDoes
               DEF ReadSites, ContractSites
        <3>3. QED
            BY <2>2, <3>1, <3>2, CallCarries DEF GoesOn
    <2>7. CASE \/ FindCreated(h) \/ FindOther(h) \/ CancelOld(h) \/ CloseOld(h) \/ Renew(h)
               \/ Activate(h) \/ (FindActive(h) /\ GoesOn(h))
        <3>1. /\ GoesOn(h) /\ hook[h].at \in ReadSites \ {"retire"}
              /\ (hook'[h].full = hook[h].full /\ hook'[h].rest = hook[h].rest) \/ Answer(h)
            BY <2>7, FindCreatedReads, FindOtherReads, PlainDoes, CloseOldDoes, RenewDoes, ActivateDoes,
               FindActiveReads DEF FindCreated, ReadSites, ContractSites
        <3>2. CASE Answer(h)
            BY <2>7, <3>1, <3>2, CallColumns
               DEF GoesOn, Answer, PInv, TypeOK, Idle, ReadSites, ContractSites, CallsOK
        <3>3. CASE hook'[h].full = hook[h].full /\ hook'[h].rest = hook[h].rest
            <4>1. ~ Retire(h)
                BY <3>1 DEF Retire, Goto
            <4>2. QED
                BY <2>2, <3>1, <3>3, <4>1, CallCarries DEF GoesOn
        <3>4. QED
            BY <3>1, <3>2, <3>3
    <2>8. QED
        BY <1>5, <2>1, <2>3, <2>4, <2>5, <2>6, <2>7, FindActiveReads DEF Webhook
<1>6. QED
    BY <1>2, <1>3, <1>4, <1>5 DEF Next
-----------------------------------------------------------------------------
(* The invariant, and what follows from it.                                *)

SafeInv == PInv /\ Subscribing /\ CarriesOK

LEMMA InitSafe == Init => SafeInv
<1>1. Init => CarriesOK
    BY DEF Init, CarriesOK, ContractSites, Idle
<1>2. QED
    BY <1>1, PaymentsAssumption, InitTypes, InitSubscribing DEF SafeInv

LEMMA StepSafe ==
    ASSUME NoCrossing, SafeInv, [Next]_vars
    PROVE  SafeInv' /\ EndedStays /\ Transfers
<1>1. PInv'
    BY PaymentsAssumption, StepTypes DEF SafeInv
<1>2. Subscribing' /\ EndedStays
    BY <1>1, PaymentsAssumption, StepSubscribing DEF SafeInv
<1>3. CarriesOK' /\ Transfers
    BY <1>1, PaymentsAssumption, StepCarries DEF SafeInv
<1>4. QED
    BY <1>1, <1>2, <1>3 DEF SafeInv

LEMMA AlwaysSafe == ASSUME NoCrossing PROVE Spec => []SafeInv
<1>1. Init => SafeInv
    BY InitSafe
<1>2. SafeInv /\ [Next]_vars => SafeInv'
    BY StepSafe
<1>3. QED
    BY <1>1, <1>2, PTL DEF Spec

(* A contract never has two running subscriptions: every renewal, retry    *)
(* and repeated delivery of the webhook (payment.webhook.service.ts:422-   *)
(* 466) has closed the row it replaces.                                    *)
THEOREM OneRunningRow == ASSUME NoCrossing PROVE Spec => []OneRowPerContract
<1>1. SafeInv => OneRowPerContract
    <2> SUFFICES ASSUME SafeInv, NEW ref \in Contracts PROVE Cardinality(RowsOf(ref)) <= 1
        BY DEF OneRowPerContract
    <2>1. \A i, j \in RowsOf(ref) : i = j
        BY DEF SafeInv, Subscribing, OneRow
    <2>2. CASE RowsOf(ref) = {}
        BY <2>2, FS_EmptySet
    <2>3. CASE RowsOf(ref) # {}
        <3>1. PICK i \in RowsOf(ref) : TRUE
            BY <2>3
        <3>2. RowsOf(ref) = {i}
            BY <2>1, <3>1
        <3>3. Cardinality({i}) = 1
            BY FS_Singleton
        <3>4. QED
            BY <3>2, <3>3
    <2>4. QED
        BY <2>2, <2>3
<1>2. QED
    BY <1>1, AlwaysSafe, PTL

(* A payment is acknowledged without credits (payment.webhook.service.ts:  *)
(* 490) only when its contract is no longer billed, or the code had ended  *)
(* the contract's row without Atlos.                                       *)
THEOREM PaidMeansGranted == ASSUME NoCrossing PROVE Spec => []PaidIsGranted
<1>1. SafeInv => PaidIsGranted
    BY DEF SafeInv, Subscribing
<1>2. QED
    BY <1>1, AlwaysSafe, PTL

(* A contract that Atlos bills has its running subscription, or a payment  *)
(* that is still to be dealt with, or was forsaken: Atlos is told first    *)
(* and the row is closed after (payment.webhook.service.ts:513-532,        *)
(* payments.service.ts:185-207).                                           *)
THEOREM BilledMeansServed == ASSUME NoCrossing PROVE Spec => []BilledIsServed
<1>1. SafeInv => BilledIsServed
    <2> SUFFICES ASSUME SafeInv, NEW ref \in billed
                 PROVE  \/ RowsOf(ref) # {}
                        \/ \E p \in DOMAIN payments :
                              payments[p].ref = ref /\ payments[p].state = "due"
                        \/ \E h \in Handlers : hook[h].at # "idle" /\ RefOf(h) = ref
                        \/ ref \in forsaken
        BY DEF BilledIsServed
    <2>1. \/ RowsOf(ref) # {}
          \/ Created # {} /\ \E p \in DOMAIN payments : Pending(p) /\ payments[p].ref = ref
          \/ \E h \in Handlers : hook[h].at = "renew" /\ RefOf(h) = ref
          \/ ref \in forsaken
        BY DEF SafeInv, Subscribing, Served
    <2>2. QED
        BY <2>1 DEF Pending
<1>2. QED
    BY <1>1, AlwaysSafe, PTL

(* A subscription that is over never becomes usable again (payment.        *)
(* webhook.service.ts:444, 526, payments.service.ts:200, x402-             *)
(* subscription.service.ts:143), whatever reads of it are in hand.         *)
THEOREM EndedForGood == ASSUME NoCrossing PROVE Spec => EndedIsFinal
<1>1. SafeInv /\ [Next]_vars =>
        [\A i \in DOMAIN subs : subs[i].status \in {"DONE", "CANCELLED"} =>
            subs'[i].status \in {"DONE", "CANCELLED"}]_vars
    BY StepSafe DEF EndedStays, Ended
<1>2. QED
    BY <1>1, AlwaysSafe, PTL DEF Spec, EndedIsFinal

(* An activation takes no more off the top-up than it has put on its       *)
(* subscription (payment.webhook.service.ts:469-480, 542-568), unless a    *)
(* purchase by x402 (x402-subscription.service.ts:221) came between.       *)
THEOREM TransfersCarryAll == ASSUME NoCrossing PROVE Spec => TransferCarriesAll
<1>1. SafeInv /\ [Next]_vars =>
        [\A h \in Handlers : hook[h].at = "retire" /\ hook'[h].at = "setPlan" =>
            buy.at = "served" \/ Left(topUp) - Left(topUp') <= hook[h].rest]_vars
    BY StepSafe DEF Transfers
<1>2. QED
    BY <1>1, AlwaysSafe, PTL DEF Spec, TransferCarriesAll
-----------------------------------------------------------------------------
(* The dates, for every date of every year. *)

(* Two months that follow each other never lack the same day.              *)
LEMMA LongAfterShort ==
    ASSUME NEW year \in Nat, NEW month \in 0 .. 11, NEW day \in 1 .. 31,
           day > DaysIn(year, month)
    PROVE  LET over == After(year, month) IN day <= DaysIn(over.year, over.month)
BY DEF DaysIn, After, Date

(* The month after a month of a year.                                      *)
LEMMA AfterIsMonth ==
    ASSUME NEW year \in Nat, NEW month \in 0 .. 11
    PROVE  After(year, month) \in [year : Nat, month : 0 .. 11, day : {1}]
BY DEF After, Date

(* Months have 28 days at least and 31 at most.                            *)
LEMMA DaysInRange ==
    ASSUME NEW year \in Nat, NEW month \in 0 .. 11
    PROVE  DaysIn(year, month) \in 28 .. 31
BY DEF DaysIn

(* The computation for the monthly date (payment.webhook.service.ts:1094-  *)
(* 1109, 1130-1149) gives the same day of the next month when that month   *)
(* has it, and otherwise leaves the month out: its branch for the last day *)
(* is never taken.                                                         *)
THEOREM MonthlySkipsShortMonths == MonthlyAsPromised
<1> SUFFICES ASSUME NEW date \in Dates
             PROVE  LET next == After(date.year, date.month)
                    IN  IF date.day <= DaysIn(next.year, next.month)
                        THEN AddMonth(date) = PromisedMonth(date)
                        ELSE LET skipped == After(next.year, next.month)
                             IN  AddMonth(date) = Date(skipped.year, skipped.month, date.day)
    BY DEF MonthlyAsPromised
<1> DEFINE next == After(date.year, date.month)
           skipped == After(next.year, next.month)
<1>1. date.year \in Nat /\ date.month \in 0 .. 11 /\ date.day \in 1 .. 31
    BY DEF Dates, IsDate
<1>2. next.year \in Nat /\ next.month \in 0 .. 11
    BY <1>1, AfterIsMonth
<1>3. CASE date.day <= DaysIn(next.year, next.month)
    <2>1. Moved(next.year, next.month, date.day) = Date(next.year, next.month, date.day)
        BY <1>3 DEF Moved
    <2>2. AddMonth(date) = Date(next.year, next.month, date.day)
        BY <1>1, <1>2, <1>3, <2>1, DaysInRange DEF AddMonth, Date
    <2>3. PromisedMonth(date) = Date(next.year, next.month, date.day)
        BY <1>1, <1>2, <1>3, DaysInRange DEF PromisedMonth, InMonth
    <2> QED BY <1>3, <2>2, <2>3
<1>4. CASE ~ (date.day <= DaysIn(next.year, next.month))
    <2>1. date.day > DaysIn(next.year, next.month)
        BY <1>1, <1>2, <1>4, DaysInRange
    <2>2. date.day <= DaysIn(skipped.year, skipped.month)
        BY <1>1, <1>2, <2>1, LongAfterShort
    <2>3. skipped.year \in Nat /\ skipped.month \in 0 .. 11
        BY <1>2, AfterIsMonth
    <2>4. Moved(next.year, next.month, date.day)
                = Date(skipped.year, skipped.month, date.day - DaysIn(next.year, next.month))
        BY <1>4 DEF Moved
    <2>5. AddMonth(date) = Date(skipped.year, skipped.month, date.day)
        BY <1>1, <2>2, <2>3, <2>4, DaysInRange DEF AddMonth, Date
    <2> QED BY <1>4, <2>5
<1> QED BY <1>3, <1>4

(* The computation for the yearly date (payment.webhook.service.ts:1110-   *)
(* 1123) gives the same day of the next year, and March 28 for a           *)
(* February 29.                                                            *)
THEOREM YearlyMovesLeapDay == YearlyAsPromised
<1> SUFFICES ASSUME NEW date \in Dates
             PROVE  AddYear(date) = IF date.month = 1 /\ date.day = 29
                                    THEN Date(date.year + 1, 2, 28)
                                    ELSE PromisedYear(date)
    BY DEF YearlyAsPromised
<1>1. /\ date.year \in Nat /\ date.month \in 0 .. 11 /\ date.day \in 1 .. 31
      /\ date.day <= DaysIn(date.year, date.month)
    BY DEF Dates, IsDate
<1>2. CASE date.month = 1 /\ date.day = 29
    <2>1. isLeapYear(date.year)
        BY <1>1, <1>2 DEF DaysIn
    <2>2. ~ isLeapYear(date.year + 1)
        <3>1. date.year % 4 = 0
            BY <1>1, <2>1 DEF isLeapYear
        <3>2. (date.year + 1) % 4 # 0
            BY <1>1, <3>1
        <3> QED BY <1>1, <3>2 DEF isLeapYear
    <2>3. Moved(date.year + 1, 1, 29) = Date(date.year + 1, 2, 1)
        BY <1>1, <2>2 DEF Moved, DaysIn, After, Date
    <2> QED BY <1>1, <1>2, <2>2, <2>3 DEF AddYear, Date
<1>3. CASE ~ (date.month = 1 /\ date.day = 29)
    <2>1. date.day <= DaysIn(date.year + 1, date.month)
        BY <1>1, <1>3 DEF DaysIn
    <2>2. Moved(date.year + 1, date.month, date.day) = Date(date.year + 1, date.month, date.day)
        BY <2>1 DEF Moved
    <2>3. PromisedYear(date) = Date(date.year + 1, date.month, date.day)
        BY <1>1, <2>1, DaysInRange DEF PromisedYear, InMonth
    <2> QED BY <1>3, <2>2, <2>3 DEF AddYear
<1> QED BY <1>2, <1>3

(* The next date is a date, and it is later: a subscription is never due   *)
(* at once.                                                                *)
THEOREM NextIsLaterDate ==
    ASSUME NEW date \in Dates
    PROVE  /\ IsDate(AddMonth(date))
           /\ \/ AddMonth(date).year > date.year
              \/ AddMonth(date).year = date.year /\ AddMonth(date).month > date.month
<1> DEFINE next == After(date.year, date.month)
           skipped == After(next.year, next.month)
<1>1. date.year \in Nat /\ date.month \in 0 .. 11 /\ date.day \in 1 .. 31
    BY DEF Dates, IsDate
<1>2. next.year \in Nat /\ next.month \in 0 .. 11
    BY <1>1, AfterIsMonth
<1>3. CASE date.day <= DaysIn(next.year, next.month)
    <2>1. AddMonth(date) = Date(next.year, next.month, date.day)
        BY <1>1, <1>2, <1>3, DaysInRange DEF AddMonth, Date, Moved
    <2> QED BY <1>1, <1>2, <1>3, <2>1 DEF IsDate, Date, After
<1>4. CASE ~ (date.day <= DaysIn(next.year, next.month))
    <2>1. AddMonth(date) = Date(skipped.year, skipped.month, date.day)
        BY <1>4, MonthlySkipsShortMonths DEF MonthlyAsPromised
    <2>2. date.day <= DaysIn(skipped.year, skipped.month)
        <3>1. date.day > DaysIn(next.year, next.month)
            BY <1>1, <1>2, <1>4, DaysInRange
        <3> QED BY <1>1, <1>2, <3>1, LongAfterShort
    <2>3. skipped.year \in Nat /\ skipped.month \in 0 .. 11
        BY <1>2, AfterIsMonth
    <2>4. \/ skipped.year > date.year
          \/ skipped.year = date.year /\ skipped.month > date.month
        BY <1>1 DEF After, Date
    <2> QED BY <1>1, <2>1, <2>2, <2>3, <2>4 DEF IsDate, Date
<1> QED BY <1>3, <1>4
=============================================================================
