--------------------------- MODULE AccountsProofs ---------------------------
(***************************************************************************)
(* What Accounts keeps for any requests, coupons, withdrawals, amounts and *)
(* accounts: a refresh token is not accepted twice, and the credits nobody *)
(* paid for add up.                                                        *)
(*                                                                         *)
(* The token in the row is that of a request that is done, and so is every *)
(* token that was presented: if a retired token comes back, it was issued  *)
(* to two requests.  The credits add up because an amount that a redeeming *)
(* request has read is still its coupon's, unless the coupon was edited    *)
(* meanwhile, and because nothing is given to a wallet that has no user.   *)
(***************************************************************************)
EXTENDS Accounts, FiniteSetTheorems, TLAPS

(* A request is of one kind. *)
LEMMA Kinds ==
    /\ Logins \cap Refreshes = {} /\ Logins \cap Redeems = {} /\ Logins \cap Creations = {}
    /\ Logins \cap Edits = {} /\ Logins \cap Removals = {} /\ Logins \cap Hooks = {}
    /\ Refreshes \cap Redeems = {} /\ Refreshes \cap Creations = {}
    /\ Refreshes \cap Edits = {} /\ Refreshes \cap Removals = {} /\ Refreshes \cap Hooks = {}
    /\ Redeems \cap Creations = {} /\ Redeems \cap Edits = {} /\ Redeems \cap Removals = {}
    /\ Redeems \cap Hooks = {}
    /\ Hooks \cap Creations = {} /\ Hooks \cap Edits = {} /\ Hooks \cap Removals = {}
<1> DEFINE kinds == <<Logins, Refreshes, Redeems, Creations, Edits, Removals, Hooks>>
<1>1. \A i, j \in 1 .. 7 : i # j => kinds[i] \cap kinds[j] = {}
    BY AccountsAssumption
<1>2. /\ kinds[1] = Logins /\ kinds[2] = Refreshes /\ kinds[3] = Redeems
      /\ kinds[4] = Creations /\ kinds[5] = Edits /\ kinds[6] = Removals /\ kinds[7] = Hooks
    OBVIOUS
<1> HIDE DEF kinds
<1>3. /\ kinds[1] \cap kinds[2] = {} /\ kinds[1] \cap kinds[3] = {} /\ kinds[1] \cap kinds[4] = {}
      /\ kinds[1] \cap kinds[5] = {} /\ kinds[1] \cap kinds[6] = {} /\ kinds[1] \cap kinds[7] = {}
    BY <1>1
<1>4. /\ kinds[2] \cap kinds[3] = {} /\ kinds[2] \cap kinds[4] = {} /\ kinds[2] \cap kinds[5] = {}
      /\ kinds[2] \cap kinds[6] = {} /\ kinds[2] \cap kinds[7] = {}
    BY <1>1
<1>5. /\ kinds[3] \cap kinds[4] = {} /\ kinds[3] \cap kinds[5] = {} /\ kinds[3] \cap kinds[6] = {}
      /\ kinds[3] \cap kinds[7] = {}
    BY <1>1
<1>6. kinds[7] \cap kinds[4] = {} /\ kinds[7] \cap kinds[5] = {} /\ kinds[7] \cap kinds[6] = {}
    BY <1>1
<1>7. QED
    BY <1>2, <1>3, <1>4, <1>5, <1>6

(* What is in the coupons and withdrawals the requests name. *)
LEMMA Named ==
    /\ \A d \in Redeems : d \in Requests /\ Code[d] \in Coupons
    /\ \A e \in Creations \cup Edits \cup Removals : e \in Requests /\ About[e] \in Coupons
    /\ \A h \in Hooks : h \in Requests /\ h[1] \in Transactions
                        /\ Award[h[1]] \in Nat /\ Award[h[1]] > 0
    /\ FREE_CREDITS \in Nat /\ MaxNonce \in Nat /\ MaxTime \in Nat
    BY AccountsAssumption DEF Requests, Hooks

-----------------------------------------------------------------------------
(* Types.                                                                  *)

(* A token is issued in a second the clock has shown. *)
Holders == {q \in Logins : req[q] \in {"renewing", "created"}}
           \cup {q \in Refreshes : req[q] = "checked"}

TInv == TypeOK /\ \A q \in Holders : held[q] \in 1 .. MaxTime

LEMMA InitTypes == Init => TInv
<1> SUFFICES ASSUME Init PROVE TInv
    OBVIOUS
<1> PICK scenario \in Scenarios :
          /\ user = (scenario.account # "none")
          /\ credits = [row |-> scenario.account = "full", available |-> 0]
          /\ req = [r \in Requests |-> IF r \in scenario.requests THEN "new" ELSE "refused"]
    BY DEF Init
<1>1. req \in [Requests -> Steps] /\ \A q \in Requests : req[q] \in {"new", "refused"}
    BY DEF Steps
<1>2. Holders = {}
    BY <1>1 DEF Holders, Requests
<1>3. credits \in CreditsRow
    BY DEF CreditsRow
<1>4. coupon \in [Coupons -> Coupon]
    BY DEF Init, Coupon
<1>5. MaxNonce \in Nat /\ MaxTime \in Nat /\ MaxTime > 0
    BY AccountsAssumption
<1>6. held \in [Requests -> Nat] /\ shown \in [Refreshes -> RefreshToken] /\ token \in RefreshToken
    BY <1>5 DEF Init, RefreshToken
<1>7. user \in BOOLEAN
    BY Zenon
<1>8. /\ message = 0 /\ nonces = 0 /\ clock = 1 /\ redeemed = {} /\ recorded = {} /\ access = FALSE
      /\ first = 0 /\ added \in [Coupons -> Nat] /\ edited = {}
    BY DEF Init
<1>9. message \in 0 .. MaxNonce /\ nonces \in 0 .. MaxNonce /\ clock \in 1 .. MaxTime
    BY <1>5, <1>8
<1>10. redeemed \in CouponRedemptions /\ recorded \in Enable3Redemptions
    BY <1>8 DEF CouponRedemptions, Enable3Redemptions
<1>11. TypeOK
    BY <1>1, <1>3, <1>4, <1>6, <1>7, <1>8, <1>9, <1>10 DEF TypeOK
<1>12. QED
    BY <1>2, <1>11 DEF TInv

(* Where a request goes on, and what it holds then. *)
LEMMA GoesOn ==
    ASSUME TypeOK, NEW r \in Requests, NEW from, NEW to, Goto(r, from, to), to \in Steps
    PROVE  /\ req' \in [Requests -> Steps]
           /\ req[r] = from /\ req'[r] = to
           /\ \A q \in Requests \ {r} : req'[q] = req[q]
    BY DEF Goto, TypeOK

LEMMA Holds ==
    ASSUME TypeOK, NEW r \in Requests, NEW n \in Nat, Hold(r, n)
    PROVE  /\ held' \in [Requests -> Nat]
           /\ held'[r] = n
           /\ \A q \in Requests \ {r} : held'[q] = held[q]
    BY DEF Hold, TypeOK

(* What a step does to the requests: one of them goes on. *)
Moves(r) ==
    /\ req' \in [Requests -> Steps]
    /\ held' \in [Requests -> Nat]
    /\ \A q \in Requests \ {r} : req'[q] = req[q] /\ held'[q] = held[q]

LEMMA MovesKeep ==
    ASSUME TInv, NEW r \in Requests, Moves(r),
           r \in Holders' => held'[r] \in 1 .. MaxTime
    PROVE  \A q \in Holders' : held'[q] \in 1 .. MaxTime
    BY DEF TInv, Holders, Moves, Requests

(* The actions by who takes them. *)
LoginStep(l) == GetMessage(l) \/ Verify(l) \/ FindUser(l) \/ Issue(l) \/ StoreToken(l) \/ Register(l)
RefreshStep(r) == Present(r) \/ Rotate(r)
RedeemStep(d) == FindCoupon(d) \/ FindCredits(d) \/ CreateCredits(d) \/ Redeem(d)
AdminStep(e) ==
    \/ e \in Creations /\ CreateCoupon(e)
    \/ e \in Edits /\ Edit(e)
    \/ e \in Removals /\ (CountRedemptions(e) \/ DeleteCoupon(e))
HookStep(h) == Receive(h) \/ AwardCredits(h)
Shops == Creations \cup Edits \cup Removals

LEMMA NextParts ==
    ASSUME [Next]_vars
    PROVE  \/ Tick \/ Expire \/ UNCHANGED vars
           \/ \E l \in Logins : LoginStep(l)
           \/ \E r \in Refreshes : RefreshStep(r)
           \/ \E d \in Redeems : RedeemStep(d)
           \/ \E e \in Shops : AdminStep(e)
           \/ \E h \in Hooks : HookStep(h)
    BY DEF Next, LoginStep, RefreshStep, RedeemStep, AdminStep, HookStep, Shops

LEMMA LoginTypes ==
    ASSUME TInv, NEW l \in Logins, LoginStep(l)
    PROVE  TInv' /\ Moves(l)
<1> l \in Requests /\ l \notin Refreshes
    BY Kinds DEF Requests
<1> USE DEF TInv
<1> MaxTime \in Nat /\ MaxNonce \in Nat /\ FREE_CREDITS \in Nat /\ clock \in 1 .. MaxTime /\ clock \in Nat
    BY Named DEF TypeOK
<1>1. CASE GetMessage(l)
    <2>1. nonces' \in 0 .. MaxNonce /\ message' \in 0 .. MaxNonce
        BY <1>1 DEF GetMessage, TypeOK
    <2>2. Moves(l) /\ req'[l] = "signing"
        BY <1>1, <2>1, GoesOn, Holds DEF GetMessage, Moves, Steps
    <2>3. TypeOK'
        BY <1>1, <2>1, <2>2 DEF GetMessage, TypeOK, Moves, money, shop
    <2>4. QED
        BY <2>2, <2>3, MovesKeep DEF Holders
<1>2. CASE Verify(l)
    <2>1. Moves(l) /\ req'[l] \in {"verified", "refused"}
        BY <1>2, GoesOn DEF Verify, Moves, Steps, TypeOK
    <2>2. TypeOK'
        BY <1>2, <2>1 DEF Verify, TypeOK, Moves, session, money, shop
    <2>3. QED
        BY <2>1, <2>2, MovesKeep DEF Holders
<1>3. CASE FindUser(l)
    <2>1. Moves(l) /\ req'[l] \in {"known", "registering"}
        BY <1>3, GoesOn DEF FindUser, Moves, Steps, TypeOK
    <2>2. TypeOK'
        BY <1>3, <2>1 DEF FindUser, TypeOK, Moves, money, shop
    <2>3. QED
        BY <2>1, <2>2, MovesKeep DEF Holders
<1>4. CASE Issue(l)
    <2>1. Moves(l) /\ held'[l] = clock
        BY <1>4, GoesOn, Holds DEF Issue, Moves, Steps, TypeOK
    <2>2. TypeOK'
        BY <1>4, <2>1 DEF Issue, TypeOK, Moves, session, money, shop
    <2>3. QED
        BY <2>1, <2>2, MovesKeep
<1>5. CASE StoreToken(l)
    <2>1. Moves(l) /\ req'[l] \in {"done", "failed"} /\ req[l] \in {"renewing", "created"}
        BY <1>5, GoesOn DEF StoreToken, Moves, Steps, TypeOK
    <2>2. token' \in RefreshToken
        BY <1>5, <2>1 DEF StoreToken, TypeOK, Holders, RefreshToken
    <2>3. TypeOK'
        BY <1>5, <2>1, <2>2 DEF StoreToken, TypeOK, Moves, money, shop
    <2>4. QED
        BY <2>1, <2>3, MovesKeep DEF Holders
<1>6. CASE Register(l)
    <2>1. Moves(l) /\ held'[l] = clock
        BY <1>6, GoesOn, Holds DEF Register, Moves, Steps, TypeOK
    <2>2. credits' \in CreditsRow /\ first' \in Nat
        <3>1. CASE user
            BY <1>6, <3>1 DEF Register, TypeOK
        <3>2. CASE ~user
            <4>1. credits' = [row |-> TRUE, available |-> FREE_CREDITS] /\ first' = FREE_CREDITS
                BY <1>6, <3>2 DEF Register
            <4>2. QED
                BY <4>1 DEF CreditsRow
        <3>3. QED
            BY <3>1, <3>2
    <2>3. TypeOK'
        BY <1>6, <2>1, <2>2 DEF Register, TypeOK, Moves, session, shop
    <2>4. QED
        BY <2>1, <2>3, MovesKeep
<1>7. QED
    BY <1>1, <1>2, <1>3, <1>4, <1>5, <1>6 DEF LoginStep

LEMMA RefreshTypes ==
    ASSUME TInv, NEW r \in Refreshes, RefreshStep(r)
    PROVE  TInv' /\ Moves(r)
<1> r \in Requests /\ r \notin Logins
    BY Kinds DEF Requests
<1> USE DEF TInv
<1> MaxTime \in Nat /\ clock \in 1 .. MaxTime /\ clock \in Nat
    BY Named DEF TypeOK
<1>1. CASE Present(r)
    <2>1. Moves(r) /\ held'[r] = clock
        BY <1>1, GoesOn, Holds DEF Present, Moves, Steps, TypeOK
    <2>2. shown' \in [Refreshes -> RefreshToken]
        BY <1>1 DEF Present, TypeOK, RefreshToken
    <2>3. TypeOK'
        BY <1>1, <2>1, <2>2 DEF Present, TypeOK, Moves, money, shop
    <2>4. QED
        BY <2>1, <2>3, MovesKeep
<1>2. CASE Rotate(r)
    <2>1. Moves(r) /\ req'[r] = "done" /\ req[r] = "checked"
        BY <1>2, GoesOn DEF Rotate, Moves, Steps, TypeOK
    <2>2. token' \in RefreshToken
        BY <1>2, <2>1 DEF Rotate, TypeOK, Holders, RefreshToken
    <2>3. TypeOK'
        BY <1>2, <2>1, <2>2 DEF Rotate, TypeOK, Moves, money, shop
    <2>4. QED
        BY <2>1, <2>3, MovesKeep DEF Holders
<1>3. QED
    BY <1>1, <1>2 DEF RefreshStep

LEMMA RedeemTypes ==
    ASSUME TInv, NEW d \in Redeems, RedeemStep(d)
    PROVE  TInv' /\ Moves(d)
<1> DEFINE c == Code[d]
<1> d \in Requests /\ d \notin Logins /\ d \notin Refreshes /\ c \in Coupons
    BY Kinds, Named DEF Requests
<1> USE DEF TInv
<1> coupon[c].amount \in Nat /\ held[d] \in Nat /\ credits.available \in Nat /\ credits.row \in BOOLEAN
    BY DEF TypeOK, Coupon, CreditsRow
<1>1. CASE FindCoupon(d)
    <2>1. Moves(d)
        BY <1>1, GoesOn, Holds DEF FindCoupon, Moves, Steps
    <2>2. TypeOK'
        BY <1>1, <2>1 DEF FindCoupon, TypeOK, Moves, session, money, shop
    <2>3. QED
        BY <2>1, <2>2, MovesKeep DEF Holders
<1>2. CASE FindCredits(d)
    <2>1. Moves(d)
        BY <1>2, GoesOn DEF FindCredits, Moves, Steps, TypeOK
    <2>2. TypeOK'
        BY <1>2, <2>1 DEF FindCredits, TypeOK, Moves, session, money, shop
    <2>3. QED
        BY <2>1, <2>2, MovesKeep DEF Holders
<1>3. CASE CreateCredits(d)
    <2>1. Moves(d)
        BY <1>3, GoesOn DEF CreateCredits, Moves, Steps, TypeOK
    <2>2. credits' \in CreditsRow
        BY <1>3 DEF CreateCredits, TypeOK, CreditsRow
    <2>3. TypeOK'
        BY <1>3, <2>1, <2>2 DEF CreateCredits, TypeOK, Moves, session, shop
    <2>4. QED
        BY <2>1, <2>3, MovesKeep DEF Holders
<1>4. CASE Redeem(d)
    <2>1. Moves(d)
        BY <1>4, GoesOn DEF Redeem, Moves, Steps, TypeOK
    <2>2. credits' \in CreditsRow
        BY <1>4 DEF Redeem, TypeOK, CreditsRow
    <2>3. redeemed' \in CouponRedemptions /\ added' \in [Coupons -> Nat] /\ access' \in BOOLEAN
        BY <1>4 DEF Redeem, TypeOK, CouponRedemptions
    <2>4. TypeOK'
        BY <1>4, <2>1, <2>2, <2>3 DEF Redeem, TypeOK, Moves, session, shop
    <2>5. QED
        BY <2>1, <2>4, MovesKeep DEF Holders
<1>5. QED
    BY <1>1, <1>2, <1>3, <1>4 DEF RedeemStep

LEMMA AdminTypes ==
    ASSUME TInv, NEW e \in Shops, AdminStep(e)
    PROVE  TInv' /\ Moves(e)
<1> DEFINE c == About[e]
<1> e \in Requests /\ e \notin Logins /\ e \notin Refreshes /\ c \in Coupons
    BY Kinds, Named DEF Requests, Shops
<1> USE DEF TInv
<1> coupon[c] \in Coupon
    BY DEF TypeOK
<1>1. CASE CreateCoupon(e)
    <2>1. Moves(e)
        BY <1>1, GoesOn DEF CreateCoupon, Moves, Steps, TypeOK
    <2>2. coupon' \in [Coupons -> Coupon]
        BY <1>1 DEF CreateCoupon, TypeOK, Coupon
    <2>3. TypeOK'
        BY <1>1, <2>1, <2>2 DEF CreateCoupon, TypeOK, Moves, session, money
    <2>4. QED
        BY <2>1, <2>3, MovesKeep DEF Holders
<1>2. CASE Edit(e)
    <2>1. Moves(e)
        BY <1>2, GoesOn DEF Edit, Moves, Steps, TypeOK
    <2>2. coupon' \in [Coupons -> Coupon] /\ edited' \subseteq Coupons
        <3>1. [coupon EXCEPT ![c].active = ~@] \in [Coupons -> Coupon]
            BY Zenon DEF TypeOK, Coupon
        <3>2. [coupon EXCEPT ![c].amount = @ + 1] \in [Coupons -> Coupon]
            BY DEF TypeOK, Coupon
        <3>3. coupon \in [Coupons -> Coupon] /\ edited \subseteq Coupons
            BY DEF TypeOK
        <3>4. \/ coupon' = coupon
              \/ coupon' = [coupon EXCEPT ![c].active = ~@]
              \/ coupon' = [coupon EXCEPT ![c].amount = @ + 1]
            BY <1>2 DEF Edit, shop
        <3>5. edited' = edited \/ edited' = edited \cup {c}
            BY <1>2 DEF Edit, shop
        <3>6. QED
            BY <3>1, <3>2, <3>3, <3>4, <3>5
    <2>3. TypeOK'
        BY <1>2, <2>1, <2>2 DEF Edit, TypeOK, Moves, session, money
    <2>4. QED
        BY <2>1, <2>3, MovesKeep DEF Holders
<1>3. CASE CountRedemptions(e)
    <2>1. Moves(e)
        BY <1>3, GoesOn DEF CountRedemptions, Moves, Steps, TypeOK
    <2>2. TypeOK'
        BY <1>3, <2>1 DEF CountRedemptions, TypeOK, Moves, session, money, shop
    <2>3. QED
        BY <2>1, <2>2, MovesKeep DEF Holders
<1>4. CASE DeleteCoupon(e)
    <2>1. Moves(e)
        BY <1>4, GoesOn DEF DeleteCoupon, Moves, Steps, TypeOK
    <2>2. coupon' \in [Coupons -> Coupon]
        BY <1>4 DEF DeleteCoupon, TypeOK, Coupon
    <2>3. TypeOK'
        BY <1>4, <2>1, <2>2 DEF DeleteCoupon, TypeOK, Moves, session, money
    <2>4. QED
        BY <2>1, <2>3, MovesKeep DEF Holders
<1>5. QED
    BY <1>1, <1>2, <1>3, <1>4 DEF AdminStep

LEMMA HookTypes ==
    ASSUME TInv, NEW h \in Hooks, HookStep(h)
    PROVE  TInv' /\ Moves(h)
<1> DEFINE t == h[1]
<1> h \in Requests /\ h \notin Logins /\ h \notin Refreshes /\ t \in Transactions /\ Award[t] \in Nat
    BY Kinds, Named DEF Requests
<1> USE DEF TInv
<1>1. CASE Receive(h)
    <2>1. req'[h] \in {"done", "awarding", "refused"} /\ Moves(h)
        BY <1>1, Holds DEF Receive, Moves, Steps, TypeOK
    <2>2. TypeOK'
        BY <1>1, <2>1 DEF Receive, TypeOK, Moves, session, money, shop
    <2>3. QED
        BY <2>1, <2>2, MovesKeep DEF Holders
<1>2. CASE AwardCredits(h)
    <2>1. Moves(h)
        BY <1>2, GoesOn DEF AwardCredits, Moves, Steps, TypeOK
    <2>2. credits' \in CreditsRow /\ recorded' \in Enable3Redemptions
        <3>1. [row |-> TRUE, available |-> credits.available + Award[t]] \in CreditsRow
            BY DEF TypeOK, CreditsRow
        <3>2. recorded \cup {t} \in Enable3Redemptions
            BY DEF TypeOK, Enable3Redemptions
        <3>3. \/ /\ credits' = [row |-> TRUE, available |-> credits.available + Award[t]]
                 /\ recorded' = recorded \cup {t}
              \/ UNCHANGED <<recorded, credits>>
            BY <1>2 DEF AwardCredits
        <3>4. QED
            BY <3>1, <3>2, <3>3 DEF TypeOK
    <2>3. TypeOK'
        BY <1>2, <2>1, <2>2 DEF AwardCredits, TypeOK, Moves, session, shop
    <2>4. QED
        BY <2>1, <2>3, MovesKeep DEF Holders
<1>3. QED
    BY <1>1, <1>2 DEF HookStep

LEMMA StepTypes == TInv /\ [Next]_vars => TInv'
<1> SUFFICES ASSUME TInv, [Next]_vars PROVE TInv'
    OBVIOUS
<1>1. CASE Tick
    <2>1. clock' \in 1 .. MaxTime
        BY <1>1, Named DEF Tick, TInv, TypeOK
    <2>2. QED
        BY <1>1, <2>1 DEF Tick, TInv, TypeOK, Holders, money, shop
<1>2. CASE Expire
    BY <1>2, Named DEF Expire, TInv, TypeOK, Holders, money, shop
<1>3. CASE UNCHANGED vars
    BY <1>3 DEF vars, TInv, TypeOK, Holders, session, money, shop
<1>4. QED
    BY <1>1, <1>2, <1>3, NextParts, LoginTypes, RefreshTypes, RedeemTypes, AdminTypes, HookTypes

(* Every variable keeps its type: in particular no interleaving of coupons *)
(* and withdrawals leaves a negative balance (coupons.service.ts,          *)
(* enable3.service.ts), and every token that a login or refresh stores was *)
(* issued before (users.service.ts).                                       *)
THEOREM AccountTypes == Spec => []TypeOK
<1>1. TInv => TypeOK
    BY DEF TInv
<1>2. QED
    BY <1>1, InitTypes, StepTypes, PTL DEF Spec

-----------------------------------------------------------------------------
(* Tokens.                                                                 *)

Signers == Logins \cup Refreshes

(* A request that is done and was issued the token t. *)
Done(q, t) == req[q] = "done" /\ held[q] = t

(* The token in the row, and each that was presented, is that of a request *)
(* that is done, of another one; a token that is back has been issued      *)
(* twice.                                                                  *)
TokenStored == token # 0 => \E q \in Signers : Done(q, token)

PresentedStored ==
    \A r \in Refreshes : req[r] \in {"checked", "done"} =>
        shown[r] # 0 /\ \E q \in Signers \ {r} : Done(q, shown[r])

IssuedTwice ==
    \A r \in Refreshes : req[r] = "done" /\ token = shown[r] =>
        \E p, q \in Signers : p # q /\ Done(p, token) /\ Done(q, token)

TokenInv == TokenStored /\ PresentedStored /\ IssuedTwice

(* What is done stays done, with what it holds. *)
DoneStays == \A q \in Signers : req[q] = "done" => req'[q] = "done" /\ held'[q] = held[q]

(* A step that stores no token and presents none. *)
Aside ==
    /\ DoneStays
    /\ token' = token /\ shown' = shown
    /\ \A r \in Refreshes : req'[r] = req[r]

LEMMA AsideKeeps == ASSUME TokenInv, Aside PROVE TokenInv'
<1>1. \A q \in Signers : \A t : Done(q, t) => Done(q, t)'
    BY DEF Aside, DoneStays, Done
<1>2. TokenStored'
    BY <1>1 DEF TokenInv, TokenStored, Aside
<1>3. PresentedStored'
    <2> SUFFICES ASSUME NEW r \in Refreshes, req'[r] \in {"checked", "done"}
                 PROVE  shown'[r] # 0 /\ \E q \in Signers \ {r} : Done(q, shown[r])'
        BY DEF PresentedStored
    <2>1. req[r] = req'[r] /\ shown'[r] = shown[r]
        BY DEF Aside
    <2>2. PICK q \in Signers \ {r} : Done(q, shown[r])
        BY <2>1 DEF TokenInv, PresentedStored
    <2>3. req'[q] = "done" /\ held'[q] = shown'[r]
        BY <2>1, <2>2 DEF Done, Aside, DoneStays
    <2>4. QED
        BY <2>1, <2>3 DEF Done, TokenInv, PresentedStored
<1>4. IssuedTwice'
    <2> SUFFICES ASSUME NEW r \in Refreshes, req'[r] = "done", token' = shown'[r]
                 PROVE  \E p, q \in Signers : p # q /\ Done(p, token)' /\ Done(q, token)'
        BY DEF IssuedTwice
    <2>1. req[r] = "done" /\ token = shown[r]
        BY DEF Aside
    <2>2. PICK p, q \in Signers : p # q /\ Done(p, token) /\ Done(q, token)
        BY <2>1 DEF TokenInv, IssuedTwice
    <2>3. /\ req'[p] = "done" /\ held'[p] = token'
          /\ req'[q] = "done" /\ held'[q] = token'
        BY <2>2 DEF Done, Aside, DoneStays
    <2>4. QED
        BY <2>2, <2>3 DEF Done
<1>5. QED
    BY <1>2, <1>3, <1>4 DEF TokenInv

(* A request stores the token that it was issued. *)
Stores(s) ==
    /\ req[s] # "done" /\ req'[s] = "done"
    /\ held' = held /\ shown' = shown
    /\ token' = held[s]
    /\ \A q \in Signers \ {s} : req'[q] = req[q]
    /\ s \in Refreshes => req[s] = "checked"

LEMMA StoresKeeps == ASSUME TokenInv, NEW s \in Signers, Stores(s) PROVE TokenInv'
<1>1. Done(s, token)'
    BY DEF Stores, Done
<1>2. \A q \in Signers : req[q] = "done" => q # s /\ req'[q] = "done" /\ held'[q] = held[q]
    BY DEF Stores
<1>3. TokenStored'
    BY <1>1 DEF TokenStored
<1>4. ASSUME NEW r \in Refreshes, req'[r] \in {"checked", "done"}
      PROVE  /\ shown'[r] # 0
             /\ \E q \in Signers \ {r, s} : req'[q] = "done" /\ held'[q] = shown'[r]
    <2>1. req[r] \in {"checked", "done"} /\ shown'[r] = shown[r]
        BY <1>4 DEF Stores, Signers
    <2>2. PICK q \in Signers \ {r} : Done(q, shown[r])
        BY <2>1 DEF TokenInv, PresentedStored
    <2>3. q # s /\ req'[q] = "done" /\ held'[q] = shown'[r]
        BY <1>2, <2>1, <2>2 DEF Done
    <2>4. QED
        BY <2>1, <2>3 DEF TokenInv, PresentedStored
<1>5. PresentedStored'
    BY <1>4 DEF PresentedStored, Done
<1>6. IssuedTwice'
    <2> SUFFICES ASSUME NEW r \in Refreshes, req'[r] = "done", token' = shown'[r]
                 PROVE  \E p, q \in Signers : p # q /\ Done(p, token)' /\ Done(q, token)'
        BY DEF IssuedTwice
    <2>1. PICK q \in Signers \ {r, s} : req'[q] = "done" /\ held'[q] = shown'[r]
        BY <1>4
    <2>2. QED
        BY <1>1, <2>1 DEF Done
<1>7. QED
    BY <1>3, <1>5, <1>6 DEF TokenInv

LEMMA PresentKeeps == ASSUME TInv, TokenInv, NEW r \in Refreshes, Present(r) PROVE TokenInv'
<1> r \in Requests /\ r \in Signers
    BY DEF Requests, Signers
<1>1. PICK t \in 1 .. clock :
          /\ Goto(r, "new", IF t = token THEN "checked" ELSE "refused")
          /\ shown' = [shown EXCEPT ![r] = t]
    BY DEF Present
<1>2. /\ req[r] = "new"
      /\ req'[r] = (IF t = token THEN "checked" ELSE "refused")
      /\ \A q \in Requests \ {r} : req'[q] = req[q]
    BY <1>1, GoesOn DEF TInv, Steps
<1>3. /\ \A q \in Requests \ {r} : held'[q] = held[q]
      /\ shown'[r] = t /\ \A q \in Refreshes \ {r} : shown'[q] = shown[q]
      /\ token' = token /\ t # 0
    BY <1>1 DEF Present, Hold, TInv, TypeOK
<1>4. \A q \in Signers : req[q] = "done" => q # r /\ req'[q] = "done" /\ held'[q] = held[q]
    BY <1>2, <1>3 DEF Signers, Requests
<1>5. TokenStored'
    BY <1>3, <1>4 DEF TokenInv, TokenStored, Done
<1>6. PresentedStored'
    <2> SUFFICES ASSUME NEW s \in Refreshes, req'[s] \in {"checked", "done"}
                 PROVE  shown'[s] # 0 /\ \E q \in Signers \ {s} : Done(q, shown[s])'
        BY DEF PresentedStored
    <2>1. CASE s = r
        <3>1. t = token /\ shown'[s] = token
            BY <1>2, <1>3, <2>1
        <3>2. PICK q \in Signers : Done(q, token)
            BY <1>3, <3>1 DEF TokenInv, TokenStored
        <3>3. q # r /\ req'[q] = "done" /\ held'[q] = shown'[s]
            BY <1>4, <3>1, <3>2 DEF Done
        <3>4. QED
            BY <1>3, <2>1, <3>1, <3>3 DEF Done
    <2>2. CASE s # r
        <3>1. req[s] \in {"checked", "done"} /\ shown'[s] = shown[s]
            BY <1>2, <1>3, <2>2 DEF Requests
        <3>2. PICK q \in Signers \ {s} : Done(q, shown[s])
            BY <3>1 DEF TokenInv, PresentedStored
        <3>3. req'[q] = "done" /\ held'[q] = shown'[s]
            BY <1>4, <3>1, <3>2 DEF Done
        <3>4. QED
            BY <3>1, <3>3 DEF Done, TokenInv, PresentedStored
    <2>3. QED
        BY <2>1, <2>2
<1>7. IssuedTwice'
    <2> SUFFICES ASSUME NEW s \in Refreshes, req'[s] = "done", token' = shown'[s]
                 PROVE  \E p, q \in Signers : p # q /\ Done(p, token)' /\ Done(q, token)'
        BY DEF IssuedTwice
    <2>1. s # r /\ req[s] = "done" /\ token = shown[s]
        BY <1>2, <1>3 DEF Requests
    <2>2. PICK p, q \in Signers : p # q /\ Done(p, token) /\ Done(q, token)
        BY <2>1 DEF TokenInv, IssuedTwice
    <2>3. /\ req'[p] = "done" /\ held'[p] = token'
          /\ req'[q] = "done" /\ held'[q] = token'
        BY <1>3, <1>4, <2>2 DEF Done
    <2>4. QED
        BY <2>2, <2>3 DEF Done
<1>8. QED
    BY <1>5, <1>6, <1>7 DEF TokenInv

(* Whoever is no signer touches no token. *)
LEMMA OthersAside ==
    ASSUME NEW r \in Requests, r \notin Signers, Moves(r), UNCHANGED session
    PROVE  Aside
    BY DEF Moves, Aside, DoneStays, session, Signers, Requests

LEMMA StepTokens == TInv /\ TokenInv /\ [Next]_vars => TokenInv'
<1> SUFFICES ASSUME TInv, TokenInv, [Next]_vars PROVE TokenInv'
    OBVIOUS
<1>1. CASE Tick \/ Expire \/ UNCHANGED vars
    <2>1. UNCHANGED <<token, shown, req, held>>
        BY <1>1 DEF Tick, Expire, vars, session
    <2>2. QED
        BY <2>1, AsideKeeps DEF Aside, DoneStays
<1>2. ASSUME NEW l \in Logins, LoginStep(l) PROVE TokenInv'
    <2> l \in Requests /\ l \in Signers /\ l \notin Refreshes
        BY Kinds DEF Requests, Signers
    <2>1. Moves(l)
        BY <1>2, LoginTypes
    <2>2. CASE StoreToken(l) /\ req'[l] = "done"
        <3>1. Stores(l)
            BY <2>1, <2>2 DEF StoreToken, Goto, Stores, Moves, Signers, Requests
        <3>2. QED
            BY <3>1, StoresKeeps
    <2>3. CASE ~(StoreToken(l) /\ req'[l] = "done")
        <3>1. token' = token /\ shown' = shown /\ req[l] # "done"
            BY <1>2, <2>3 DEF LoginStep, GetMessage, Verify, FindUser, Issue, StoreToken, Register,
               Goto, session
        <3>2. Aside
            BY <2>1, <3>1 DEF Aside, DoneStays, Moves, Signers, Requests
        <3>3. QED
            BY <3>2, AsideKeeps
    <2>4. QED
        BY <2>2, <2>3
<1>3. ASSUME NEW r \in Refreshes, RefreshStep(r) PROVE TokenInv'
    <2> r \in Requests /\ r \in Signers
        BY DEF Requests, Signers
    <2>1. CASE Rotate(r)
        <3>1. Moves(r)
            BY <2>1, RefreshTypes DEF RefreshStep
        <3>2. Stores(r)
            BY <2>1, <3>1, GoesOn DEF Rotate, Stores, Moves, Signers, Requests, TInv, Steps
        <3>3. QED
            BY <3>2, StoresKeeps
    <2>2. QED
        BY <1>3, <2>1, PresentKeeps DEF RefreshStep
<1>4. ASSUME NEW d \in Redeems, RedeemStep(d) PROVE TokenInv'
    <2>1. d \in Requests /\ d \notin Signers /\ Moves(d)
        BY <1>4, Kinds, RedeemTypes DEF Requests, Signers
    <2>2. UNCHANGED session
        BY <1>4 DEF RedeemStep, FindCoupon, FindCredits, CreateCredits, Redeem
    <2>3. QED
        BY <2>1, <2>2, OthersAside, AsideKeeps
<1>5. ASSUME NEW e \in Shops, AdminStep(e) PROVE TokenInv'
    <2>1. e \in Requests /\ e \notin Signers /\ Moves(e)
        BY <1>5, Kinds, AdminTypes DEF Requests, Signers, Shops
    <2>2. UNCHANGED session
        BY <1>5 DEF AdminStep, CreateCoupon, Edit, CountRedemptions, DeleteCoupon
    <2>3. QED
        BY <2>1, <2>2, OthersAside, AsideKeeps
<1>6. ASSUME NEW h \in Hooks, HookStep(h) PROVE TokenInv'
    <2>1. h \in Requests /\ h \notin Signers /\ Moves(h)
        BY <1>6, Kinds, HookTypes DEF Requests, Signers
    <2>2. UNCHANGED session
        BY <1>6 DEF HookStep, Receive, AwardCredits
    <2>3. QED
        BY <2>1, <2>2, OthersAside, AsideKeeps
<1>7. QED
    BY <1>1, <1>2, <1>3, <1>4, <1>5, <1>6, NextParts

LEMMA TokensRetire == TInv /\ TokenInv => RotationRetires
<1> SUFFICES ASSUME TInv, TokenInv, NEW r \in Refreshes, req[r] = "done", token = shown[r]
             PROVE  \E p, q \in Issued(token) : p # q
    BY DEF RotationRetires
<1>1. PICK p, q \in Signers : p # q /\ Done(p, token) /\ Done(q, token)
    BY DEF TokenInv, IssuedTwice
<1>2. QED
    BY <1>1 DEF Issued, Done, Signers

(* A refresh token that was exchanged is accepted again only if another    *)
(* request was issued the same one, in the same second: for any logins and *)
(* refreshes, however they overlap (users.service.ts, refreshToken).       *)
THEOREM ExchangedTokenIsDead == Spec => []RotationRetires
<1>1. Init => TokenInv
    <2> SUFFICES ASSUME Init PROVE TokenInv
        OBVIOUS
    <2>1. token = 0 /\ \A q \in Requests : req[q] \in {"new", "refused"}
        BY DEF Init
    <2>2. QED
        BY <2>1 DEF TokenInv, TokenStored, PresentedStored, IssuedTwice, Requests
<1>2. QED
    BY <1>1, InitTypes, StepTypes, StepTokens, TokensRetire, PTL DEF Spec

-----------------------------------------------------------------------------
(* Sums.                                                                   *)

Credits(f, S) == UNION {{x} \X (1 .. f[x]) : x \in S}

LEMMA NoCredits == ASSUME NEW f PROVE IsFiniteSet(Credits(f, {})) /\ Total(f, {}) = 0
<1>1. Credits(f, {}) = {}
    BY DEF Credits
<1>2. QED
    BY <1>1, FS_EmptySet DEF Credits, Total

(* One more adds its amount. *)
LEMMA OneMore ==
    ASSUME NEW f, NEW S, NEW y, y \notin S, f[y] \in Nat, IsFiniteSet(Credits(f, S))
    PROVE  /\ IsFiniteSet(Credits(f, S \cup {y}))
           /\ Total(f, S) \in Nat
           /\ Total(f, S \cup {y}) = Total(f, S) + f[y]
<1>0. PICK Added : Added = {y} \X (1 .. f[y])
    OBVIOUS
<1>1. Credits(f, S \cup {y}) = Credits(f, S) \cup Added
    BY <1>0 DEF Credits
<1>2. Credits(f, S) \cap Added = {}
    BY <1>0 DEF Credits
<1>3. IsFiniteSet({y}) /\ Cardinality({y}) = 1
    BY FS_Singleton
<1>4. IsFiniteSet(1 .. f[y]) /\ Cardinality(1 .. f[y]) = f[y]
    BY FS_Interval
<1>5. IsFiniteSet(Added) /\ Cardinality(Added) = f[y]
    <2>1. IsFiniteSet(Added) /\ Cardinality(Added) = 1 * f[y]
        BY <1>0, <1>3, <1>4, FS_Product
    <2>2. QED
        BY <2>1
<1>6. /\ IsFiniteSet(Credits(f, S) \cup Added)
      /\ Cardinality(Credits(f, S) \cup Added) = Cardinality(Credits(f, S)) + f[y] - Cardinality({})
    BY <1>2, <1>5, FS_Union
<1>7. Cardinality({}) = 0 /\ Cardinality(Credits(f, S)) \in Nat
    BY FS_EmptySet, FS_CardinalityType
<1>8. Total(f, S) = Cardinality(Credits(f, S))
      /\ Total(f, S \cup {y}) = Cardinality(Credits(f, S \cup {y}))
    BY DEF Total, Credits
<1>9. Cardinality(Credits(f, S \cup {y})) = Cardinality(Credits(f, S)) + f[y]
    <2>1. Cardinality(Credits(f, S \cup {y})) = Cardinality(Credits(f, S)) + f[y] - Cardinality({})
        BY <1>1, <1>6
    <2>2. QED
        BY <1>7, <2>1
<1>10. IsFiniteSet(Credits(f, S \cup {y}))
    BY <1>1, <1>6
<1>11. QED
    BY <1>7, <1>8, <1>9, <1>10

(* Only the amounts of what is summed count. *)
LEMMA SameCredits ==
    ASSUME NEW f, NEW g, NEW S, \A x \in S : f[x] = g[x]
    PROVE  Credits(f, S) = Credits(g, S) /\ Total(f, S) = Total(g, S)
<1>1. Credits(f, S) = Credits(g, S)
    BY DEF Credits
<1>2. QED
    BY <1>1 DEF Credits, Total

-----------------------------------------------------------------------------
(* Credits.                                                                *)

(* A redeemed coupon stays stored, and adds what it added, unless it was   *)
(* edited; a request that has read an amount will add what the coupon      *)
(* says, likewise.                                                         *)
Reading == {"found", "created", "ready"}

RedeemedOK ==
    \A c \in redeemed : Stored(c) /\ (c \notin edited => added[c] = coupon[c].amount)

ReadersOK ==
    \A d \in Redeems : req[d] \in Reading /\ Code[d] \notin edited =>
        held[d] = coupon[Code[d]].amount

(* A wallet without a user has been given nothing. *)
NobodyYet ==
    ~user =>
        /\ redeemed = {} /\ recorded = {}
        /\ \A d \in Redeems : req[d] \in {"new", "refused"}
        /\ \A h \in Hooks : req[h] \in {"new", "refused"}

Balance ==
    /\ IsFiniteSet(Credits(added, redeemed)) /\ IsFiniteSet(Credits(Award, recorded))
    /\ credits.available = first + Total(added, redeemed) + Total(Award, recorded)

MoneyInv == RedeemedOK /\ ReadersOK /\ NobodyYet /\ Balance

(* A step that gives nothing and edits nothing; readers read right. *)
Unpaid ==
    /\ UNCHANGED <<coupon, edited, redeemed, recorded, added, first>>
    /\ credits'.available = credits.available
    /\ user => user'

LEMMA UnpaidKeeps ==
    ASSUME MoneyInv, Unpaid, ReadersOK', NobodyYet'
    PROVE  MoneyInv'
<1>1. RedeemedOK'
    BY DEF MoneyInv, RedeemedOK, Unpaid, Stored
<1>2. Balance'
    BY DEF MoneyInv, Balance, Unpaid
<1>3. QED
    BY <1>1, <1>2 DEF MoneyInv

(* Nothing that is done aside of redemptions and withdrawals concerns      *)
(* them.                                                                   *)
LEMMA NeitherReadsNorAwards ==
    ASSUME MoneyInv, Unpaid,
           \A q \in Redeems \cup Hooks : req'[q] = req[q] /\ held'[q] = held[q]
    PROVE  MoneyInv'
<1>1. ReadersOK'
    BY DEF MoneyInv, ReadersOK, Unpaid
<1>2. NobodyYet'
    BY DEF MoneyInv, NobodyYet, Unpaid
<1>3. QED
    BY <1>1, <1>2, UnpaidKeeps

LEMMA LoginPays ==
    ASSUME TInv, MoneyInv, NEW l \in Logins, LoginStep(l)
    PROVE  MoneyInv'
<1>1. Moves(l)
    BY LoginTypes
<1>2. \A q \in Redeems \cup Hooks : req'[q] = req[q] /\ held'[q] = held[q]
    BY <1>1, Kinds DEF Moves, Requests
<1>3. CASE Register(l) /\ ~user
    <2>1. /\ redeemed = {} /\ recorded = {} /\ user' = TRUE
          /\ redeemed' = {} /\ recorded' = {} /\ UNCHANGED <<coupon, edited, added>>
          /\ credits'.available = FREE_CREDITS /\ first' = FREE_CREDITS /\ FREE_CREDITS \in Nat
        BY <1>3, Named DEF Register, MoneyInv, NobodyYet, shop
    <2>2. RedeemedOK' /\ NobodyYet'
        BY <2>1 DEF RedeemedOK, NobodyYet
    <2>3. ReadersOK'
        BY <1>2, <2>1 DEF MoneyInv, ReadersOK
    <2>4. Balance'
        <3>1. /\ IsFiniteSet(Credits(added', redeemed')) /\ Total(added', redeemed') = 0
              /\ IsFiniteSet(Credits(Award, recorded')) /\ Total(Award, recorded') = 0
            BY <2>1, NoCredits
        <3>2. QED
            BY <2>1, <3>1 DEF Balance
    <2>5. QED
        BY <2>2, <2>3, <2>4 DEF MoneyInv
<1>4. CASE ~(Register(l) /\ ~user)
    <2>1. Unpaid
        BY <1>4 DEF LoginStep, GetMessage, Verify, FindUser, Issue, StoreToken, Register, Unpaid,
           session, money, shop
    <2>2. QED
        BY <1>2, <2>1, NeitherReadsNorAwards
<1>5. QED
    BY <1>3, <1>4

LEMMA RedeemPays ==
    ASSUME TInv, MoneyInv, NEW d \in Redeems, RedeemStep(d)
    PROVE  MoneyInv'
<1> DEFINE c == Code[d]
<1> d \in Requests /\ c \in Coupons /\ d \notin Hooks
    BY Kinds, Named
<1>1. Moves(d)
    BY RedeemTypes
<1>2. \A q \in (Redeems \cup Hooks) \ {d} : req'[q] = req[q] /\ held'[q] = held[q]
    BY <1>1 DEF Moves, Requests
<1>3. ASSUME FindCoupon(d) \/ FindCredits(d) \/ CreateCredits(d) PROVE MoneyInv'
    <2>1. Unpaid /\ user
        BY <1>3 DEF FindCoupon, FindCredits, CreateCredits, Unpaid, shop, money, MoneyInv, NobodyYet,
           Authenticated, Goto, TInv, TypeOK, CreditsRow
    <2>2. NobodyYet'
        BY <2>1 DEF NobodyYet, Unpaid
    <2>3. req'[d] \in Reading /\ c \notin edited => held'[d] = coupon[c].amount
        <3>1. CASE FindCoupon(d)
            BY <3>1 DEF FindCoupon, Hold, TInv, TypeOK
        <3>2. CASE FindCredits(d) \/ CreateCredits(d)
            BY <3>2 DEF FindCredits, CreateCredits, Goto, MoneyInv, ReadersOK, Reading
        <3>3. QED
            BY <1>3, <3>1, <3>2
    <2>4. ReadersOK'
        BY <1>2, <2>1, <2>3 DEF MoneyInv, ReadersOK, Unpaid
    <2>5. QED
        BY <2>1, <2>2, <2>4, UnpaidKeeps
<1>4. ASSUME Redeem(d) PROVE MoneyInv'
    <2>1. req[d] = "ready" /\ req'[d] \in {"done", "failed"} /\ user /\ user'
        BY <1>4, GoesOn DEF Redeem, TInv, Steps, MoneyInv, NobodyYet, Goto
    <2>2. NobodyYet'
        BY <2>1 DEF NobodyYet
    <2>3. UNCHANGED <<coupon, edited, recorded, first>>
        BY <1>4 DEF Redeem, shop
    <2>4. ReadersOK'
        BY <1>2, <2>1, <2>3 DEF MoneyInv, ReadersOK, Reading
    <2>5. CASE UNCHANGED <<redeemed, credits, added>>
        BY <2>2, <2>3, <2>4, <2>5, UnpaidKeeps DEF Unpaid, MoneyInv, RedeemedOK, Stored, Balance
    <2>6. CASE /\ c \notin redeemed /\ Stored(c)
               /\ redeemed' = redeemed \cup {c}
               /\ credits' = [credits EXCEPT !.available = @ + held[d]]
               /\ added' = [added EXCEPT ![c] = held[d]]
        <3>1. /\ added'[c] = held[d] /\ held[d] \in Nat
              /\ \A x \in redeemed : added'[x] = added[x]
              /\ credits'.available = credits.available + held[d]
            BY <2>6 DEF TInv, TypeOK, CouponRedemptions, CreditsRow
        <3>2. c \notin edited => held[d] = coupon[c].amount
            BY <2>1 DEF MoneyInv, ReadersOK, Reading
        <3>3. RedeemedOK'
            BY <2>3, <2>6, <3>1, <3>2 DEF MoneyInv, RedeemedOK, Stored
        <3>4. Credits(added', redeemed) = Credits(added, redeemed)
              /\ Total(added', redeemed) = Total(added, redeemed)
            BY <3>1, SameCredits
        <3>5. IsFiniteSet(Credits(added', redeemed))
            BY <3>4 DEF MoneyInv, Balance
        <3>6. /\ IsFiniteSet(Credits(added', redeemed'))
              /\ Total(added', redeemed) \in Nat
              /\ Total(added', redeemed') = Total(added', redeemed) + held[d]
            <4>1. \A f, S, y : y \notin S /\ f[y] \in Nat /\ IsFiniteSet(Credits(f, S)) =>
                      /\ IsFiniteSet(Credits(f, S \cup {y}))
                      /\ Total(f, S) \in Nat
                      /\ Total(f, S \cup {y}) = Total(f, S) + f[y]
                BY OneMore
            <4>2. c \notin redeemed /\ added'[c] \in Nat /\ redeemed' = redeemed \cup {c}
                BY <2>6, <3>1
            <4>3. /\ IsFiniteSet(Credits(added', redeemed \cup {c}))
                  /\ Total(added', redeemed) \in Nat
                  /\ Total(added', redeemed \cup {c}) = Total(added', redeemed) + added'[c]
                BY <3>5, <4>1, <4>2
            <4>4. QED
                BY <3>1, <4>2, <4>3
        <3>7. Total(Award, recorded) \in Nat /\ first \in Nat /\ credits.available \in Nat
            BY FS_CardinalityType DEF MoneyInv, Balance, Total, Credits, TInv, TypeOK, CreditsRow
        <3>8. credits'.available = first + Total(added', redeemed') + Total(Award, recorded)
            <4>1. credits.available = first + Total(added, redeemed) + Total(Award, recorded)
                BY DEF MoneyInv, Balance
            <4>2. QED
                BY <3>1, <3>4, <3>6, <3>7, <4>1
        <3>9. Balance'
            <4>1. IsFiniteSet(Credits(Award, recorded))
                BY DEF MoneyInv, Balance
            <4>2. QED
                BY <2>3, <3>6, <3>8, <4>1 DEF Balance
        <3>10. QED
            BY <2>2, <2>4, <3>3, <3>9 DEF MoneyInv
    <2>7. QED
        BY <1>4, <2>5, <2>6 DEF Redeem
<1>5. QED
    BY <1>3, <1>4 DEF RedeemStep

LEMMA AdminPays ==
    ASSUME TInv, MoneyInv, NEW e \in Shops, AdminStep(e)
    PROVE  MoneyInv'
<1> DEFINE c == About[e]
<1> e \in Requests /\ c \in Coupons /\ coupon[c] \in Coupon
    BY Named DEF Shops, TInv, TypeOK
<1>1. Moves(e)
    BY AdminTypes
<1>2. \A q \in Redeems \cup Hooks : req'[q] = req[q] /\ held'[q] = held[q]
    BY <1>1, Kinds DEF Moves, Requests, Shops
<1>3. UNCHANGED <<user, credits, redeemed, recorded, added, first>>
    BY DEF AdminStep, CreateCoupon, Edit, CountRedemptions, DeleteCoupon, money
<1>4. NobodyYet' /\ Balance'
    BY <1>2, <1>3 DEF MoneyInv, NobodyYet, Balance
<1>5. CASE UNCHANGED shop
    BY <1>2, <1>3, <1>5, NeitherReadsNorAwards DEF Unpaid, shop
<1>6. CASE /\ edited' = edited
           /\ \A x \in Coupons : coupon'[x].amount = coupon[x].amount
           /\ \A x \in redeemed : Stored(x)'
    <2>1. RedeemedOK'
        BY <1>3, <1>6 DEF MoneyInv, RedeemedOK, TInv, TypeOK, CouponRedemptions
    <2>2. ReadersOK'
        BY <1>2, <1>6, Named DEF MoneyInv, ReadersOK
    <2>3. QED
        BY <1>4, <2>1, <2>2 DEF MoneyInv
<1>7. CASE Edit(e) /\ coupon' = [coupon EXCEPT ![c].amount = @ + 1]
    <2>1. /\ \A x \in Coupons : coupon'[x].state = coupon[x].state
          /\ \A x \in Coupons \ {c} : coupon'[x].amount = coupon[x].amount
        BY <1>7 DEF TInv, TypeOK, Coupon
    <2>2. /\ edited \subseteq edited'
          /\ c \notin edited' => c \notin redeemed /\ \A d \in Redeems : Code[d] = c => req[d] \notin Reading
        <3>1. CASE edited' = edited \cup {c}
            BY <3>1
        <3>2. CASE edited' # edited \cup {c}
            <4>1. coupon[c].amount \in Nat /\ coupon'[c].amount = coupon[c].amount + 1
                BY <1>7 DEF TInv, TypeOK, Coupon
            <4>2. coupon' # coupon /\ coupon'[c].amount # coupon[c].amount
                BY <4>1
            <4>3. coupon' # [coupon EXCEPT ![c].active = ~@]
                <5>1. [coupon EXCEPT ![c].active = ~@][c].amount = coupon[c].amount
                    BY DEF TInv, TypeOK, Coupon
                <5>2. QED
                    BY <4>2, <5>1
            <4>4. edited' = IF \/ c \in redeemed
                               \/ \E d \in Redeems : Code[d] = c /\ req[d] \in Reading
                            THEN edited \cup {c} ELSE edited
                BY <1>7, <4>2, <4>3 DEF Edit, Reading, shop
            <4>5. QED
                BY <3>2, <4>4
        <3>3. QED
            BY <3>1, <3>2
    <2>3. RedeemedOK'
        <3> SUFFICES ASSUME NEW x \in redeemed'
                     PROVE  Stored(x)' /\ (x \notin edited' => added'[x] = coupon'[x].amount)
            BY DEF RedeemedOK
        <3>1. x \in redeemed /\ x \in Coupons /\ Stored(x)
            BY <1>3 DEF MoneyInv, RedeemedOK, TInv, TypeOK, CouponRedemptions
        <3>2. Stored(x)'
            BY <2>1, <3>1 DEF Stored
        <3>3. ASSUME x \notin edited' PROVE added'[x] = coupon'[x].amount
            <4>1. x # c /\ x \notin edited
                BY <2>2, <3>1, <3>3
            <4>2. QED
                BY <1>3, <2>1, <3>1, <4>1 DEF MoneyInv, RedeemedOK
        <3>4. QED
            BY <3>2, <3>3
    <2>4. ReadersOK'
        <3> SUFFICES ASSUME NEW d \in Redeems, req'[d] \in Reading, Code[d] \notin edited'
                     PROVE  held'[d] = coupon'[Code[d]].amount
            BY DEF ReadersOK
        <3>1. req[d] \in Reading /\ held'[d] = held[d] /\ Code[d] \in Coupons
            BY <1>2, Named
        <3>2. Code[d] # c /\ Code[d] \notin edited
            BY <2>2, <3>1
        <3>3. QED
            BY <2>1, <3>1, <3>2 DEF MoneyInv, ReadersOK
    <2>5. QED
        BY <1>4, <2>3, <2>4 DEF MoneyInv
<1>8. CASE CreateCoupon(e) \/ DeleteCoupon(e)
    <2>1. edited' = edited
        BY <1>8 DEF CreateCoupon, DeleteCoupon
    <2>2. \A x \in Coupons : coupon'[x].amount = coupon[x].amount
        BY <1>8 DEF CreateCoupon, DeleteCoupon, TInv, TypeOK, Coupon
    <2>3. \A x \in redeemed : Stored(x)'
        <3>1. \A x \in redeemed : x \in Coupons /\ coupon[x].state = "stored"
            BY DEF MoneyInv, RedeemedOK, Stored, TInv, TypeOK, CouponRedemptions
        <3>2. CASE CreateCoupon(e)
            BY <3>1, <3>2 DEF CreateCoupon, Stored, TInv, TypeOK, Coupon
        <3>3. CASE DeleteCoupon(e)
            BY <3>1, <3>3 DEF DeleteCoupon, Stored, TInv, TypeOK, Coupon
        <3>4. QED
            BY <1>8, <3>2, <3>3
    <2>4. QED
        BY <1>6, <2>1, <2>2, <2>3
<1>9. CASE Edit(e) /\ coupon' = [coupon EXCEPT ![c].active = ~@] /\ edited' = edited
    <2>1. \A x \in Coupons : coupon'[x].amount = coupon[x].amount /\ coupon'[x].state = coupon[x].state
        BY <1>9 DEF TInv, TypeOK, Coupon
    <2>2. \A x \in redeemed : Stored(x)'
        BY <2>1 DEF MoneyInv, RedeemedOK, Stored, TInv, TypeOK, CouponRedemptions
    <2>3. QED
        BY <1>6, <1>9, <2>1, <2>2
<1>10. QED
    BY <1>5, <1>7, <1>8, <1>9 DEF AdminStep, Edit, CountRedemptions

LEMMA HookPays ==
    ASSUME TInv, MoneyInv, NEW h \in Hooks, HookStep(h)
    PROVE  MoneyInv'
<1> DEFINE t == h[1]
<1> h \in Requests /\ t \in Transactions /\ Award[t] \in Nat /\ h \notin Redeems
    BY Kinds, Named
<1>1. Moves(h)
    BY HookTypes
<1>2. \A q \in (Redeems \cup Hooks) \ {h} : req'[q] = req[q] /\ held'[q] = held[q]
    BY <1>1 DEF Moves, Requests
<1>3. UNCHANGED <<coupon, edited, redeemed, added, first, user>>
    BY DEF HookStep, Receive, AwardCredits, shop, money
<1>4. RedeemedOK' /\ ReadersOK'
    BY <1>2, <1>3 DEF MoneyInv, RedeemedOK, ReadersOK, Stored
<1>5. CASE Receive(h)
    <2>1. Unpaid
        BY <1>3, <1>5 DEF Receive, Unpaid, money
    <2>2. NobodyYet'
        BY <1>2, <1>3, <1>5 DEF Receive, NobodyYet, MoneyInv, TInv, TypeOK, money
    <2>3. QED
        BY <1>4, <2>1, <2>2, UnpaidKeeps
<1>6. CASE AwardCredits(h)
    <2>1. req[h] = "awarding" /\ user /\ user'
        BY <1>3, <1>6 DEF AwardCredits, Goto, MoneyInv, NobodyYet
    <2>2. NobodyYet'
        BY <2>1 DEF NobodyYet
    <2>3. CASE UNCHANGED <<recorded, credits>>
        BY <1>3, <1>4, <2>2, <2>3, UnpaidKeeps DEF Unpaid
    <2>4. CASE t \notin recorded /\ recorded' = recorded \cup {t}
               /\ credits'.available = credits.available + Award[t]
        <3>1. IsFiniteSet(Credits(Award, recorded))
            BY DEF MoneyInv, Balance
        <3>2. /\ IsFiniteSet(Credits(Award, recorded'))
              /\ Total(Award, recorded) \in Nat
              /\ Total(Award, recorded') = Total(Award, recorded) + Award[t]
            BY <2>4, <3>1, OneMore
        <3>3. Total(added, redeemed) \in Nat /\ first \in Nat /\ credits.available \in Nat
            BY FS_CardinalityType DEF MoneyInv, Balance, Total, Credits, TInv, TypeOK, CreditsRow
        <3>4. credits.available = first + Total(added, redeemed) + Total(Award, recorded)
            BY DEF MoneyInv, Balance
        <3>5. credits'.available = first + Total(added, redeemed) + Total(Award, recorded')
            BY <2>4, <3>2, <3>3, <3>4
        <3>6. Balance'
            BY <1>3, <3>2, <3>5 DEF MoneyInv, Balance
        <3>7. QED
            BY <1>4, <2>2, <3>6 DEF MoneyInv
    <2>5. QED
        BY <1>6, <2>3, <2>4 DEF AwardCredits
<1>7. QED
    BY <1>5, <1>6 DEF HookStep

LEMMA StepPays == TInv /\ MoneyInv /\ [Next]_vars => MoneyInv'
<1> SUFFICES ASSUME TInv, MoneyInv, [Next]_vars PROVE MoneyInv'
    OBVIOUS
<1>1. CASE Tick \/ Expire \/ UNCHANGED vars
    <2>1. Unpaid /\ UNCHANGED <<req, held>>
        BY <1>1 DEF Tick, Expire, vars, money, shop, Unpaid
    <2>2. QED
        BY <2>1, NeitherReadsNorAwards
<1>2. ASSUME NEW r \in Refreshes, RefreshStep(r) PROVE MoneyInv'
    <2>1. Moves(r)
        BY <1>2, RefreshTypes
    <2>2. Unpaid
        BY <1>2 DEF RefreshStep, Present, Rotate, money, shop, Unpaid
    <2>3. \A q \in Redeems \cup Hooks : req'[q] = req[q] /\ held'[q] = held[q]
        BY <2>1, Kinds DEF Moves, Requests
    <2>4. QED
        BY <2>2, <2>3, NeitherReadsNorAwards
<1>3. QED
    BY <1>1, <1>2, NextParts, LoginPays, RedeemPays, AdminPays, HookPays

LEMMA HistoriesTell == MoneyInv => GrantsAddUp
<1> SUFFICES ASSUME MoneyInv PROVE GrantsAddUp
    OBVIOUS
<1>1. PICK told : told = [c \in DOMAIN GetUserRedemptions |->
                            IF c \in edited THEN added[c] ELSE GetUserRedemptions[c]]
    OBVIOUS
<1>2. DOMAIN told = redeemed /\ \A c \in redeemed : told[c] = added[c]
    BY <1>1 DEF GetUserRedemptions, MoneyInv, RedeemedOK
<1>3. Total(told, DOMAIN told) = Total(added, redeemed)
    BY <1>2, SameCredits
<1>4. QED
    BY <1>1, <1>3 DEF MoneyInv, Balance, GrantsAddUp

(* The free credits are those of the first login and what the histories of *)
(* redemptions and withdrawals tell: for any coupons and withdrawals, any  *)
(* number of deliveries, and whatever is created, edited or deleted        *)
(* meanwhile (coupons.service.ts, enable3.service.ts).                     *)
THEOREM FreeCreditsAddUp == Spec => []GrantsAddUp
<1>1. Init => MoneyInv
    <2> SUFFICES ASSUME Init PROVE MoneyInv
        OBVIOUS
    <2>1. /\ redeemed = {} /\ recorded = {} /\ first = 0 /\ credits.available = 0
          /\ \A q \in Requests : req[q] \in {"new", "refused"}
        BY DEF Init
    <2>2. RedeemedOK /\ ReadersOK /\ NobodyYet
        BY <2>1, Named DEF RedeemedOK, ReadersOK, NobodyYet, Reading
    <2>3. Balance
        BY <2>1, NoCredits DEF Balance
    <2>4. QED
        BY <2>2, <2>3 DEF MoneyInv
<1>2. QED
    BY <1>1, InitTypes, StepTypes, StepPays, HistoriesTell, PTL DEF Spec
=============================================================================
