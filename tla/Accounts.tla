------------------------------ MODULE Accounts ------------------------------
(***************************************************************************)
(* One wallet's account: signing in and staying signed in                  *)
(* (src/src/users/users.service.ts), and the two ways to credits that no   *)
(* payment stands behind, coupons (src/src/coupons/coupons.service.ts) and *)
(* Enable3's webhook (src/src/enable3/enable3.service.ts).  All of them    *)
(* read rows, await, and write.                                            *)
(*                                                                         *)
(* A JWT is its contents: two refresh tokens of one user are the same if   *)
(* they were issued in the same second, so a token is the second it was    *)
(* issued in.  What the credits are spent on is CreditLedger's.            *)
(***************************************************************************)
EXTENDS Integers, FiniteSets

CONSTANTS
    Logins, Refreshes, \* requests to sign in and to stay signed in
    Redeems,    \* requests to redeem a coupon
    Code,       \* the coupon each of them names
    Coupons,    \* the coupons; BOUND: no code is used again after its deletion
    Planned,    \* those still to be created
    Uppercase,  \* those whose code toUpperCase leaves as it was stored
    Creations, Edits, Removals, \* the admin's requests, each about a coupon
    About,      \* the coupon of each
    Transactions, \* Enable3's withdrawals
    Deliveries, \* BOUND: how often each is delivered
    Award,      \* the credits of each
    FREE_CREDITS,
    Scenarios,  \* the account and the requests that occur together
    MaxNonce,   \* BOUND: on the messages handed out to sign
    MaxTime     \* BOUND: on the clock

Hooks == Transactions \X (1 .. Deliveries)
Requests == Logins \cup Refreshes \cup Redeems
            \cup Creations \cup Edits \cup Removals \cup Hooks

ASSUME AccountsAssumption ==
    /\ LET kinds == <<Logins, Refreshes, Redeems, Creations, Edits, Removals, Hooks>> IN
       \A i, j \in 1 .. 7 : i # j => kinds[i] \cap kinds[j] = {}
    /\ Code \in [Redeems -> Coupons]
    /\ About \in [Creations \cup Edits \cup Removals -> Coupons]
    /\ Award \in [Transactions -> Nat \ {0}]
    /\ Uppercase \cup Planned \subseteq Coupons
    /\ {Deliveries, FREE_CREDITS, MaxNonce, MaxTime} \subseteq Nat /\ MaxTime > 0
    /\ Scenarios \subseteq [account : {"none", "bare", "full"}, requests : SUBSET Requests]

VARIABLES
    message,  \* the message in the cache for the wallet to sign, 0 if none
    nonces,   \* how many were handed out
    user,     \* whether the wallet has its user
    credits,  \* the Credits row: "row" tells whether it is there
    token,    \* the refresh token in the user's row, 0 if there is no row
    coupon,   \* the coupons
    redeemed, \* those the user has redeemed
    recorded, \* the withdrawals that were recorded
    access,   \* canAccessPayments
    clock,    \* the second
    req,      \* where each request is
    held,     \* what each has read or issued: a message, a token, an amount or a row
    \* history variables, which no action reads
    first,    \* the credits the row was created with by a login
    added,    \* what each coupon has added
    edited,   \* coupons whose amount changed after a request had read it
    shown     \* the refresh token each refresh presented

session == <<message, nonces, token, clock, shown>>
money == <<credits, redeemed, recorded, access, first, added>>
shop == <<coupon, edited>>
vars == <<session, user, money, shop, req, held>>

(* The rows: one of Credits for a user; a refresh token that each login or  *)
(* refresh writes over; a redemption for each user and coupon; and one for *)
(* each of Enable3's transactions.                                         *)
CreditsRow == [row : BOOLEAN, available : Nat]
RefreshToken == 0 .. MaxTime
Coupon == [state : {"planned", "stored", "deleted"}, active : BOOLEAN, amount : Nat]
CouponRedemptions == SUBSET Coupons
Enable3Redemptions == SUBSET Transactions

Steps == {"new", "signing", "verified", "known", "renewing", "registering", "created", "checked",
          "found", "ready", "awarding", "counted", "done", "refused", "failed"}

TypeOK ==
    /\ message \in 0 .. MaxNonce /\ nonces \in 0 .. MaxNonce
    /\ user \in BOOLEAN
    /\ credits \in CreditsRow
    /\ token \in RefreshToken
    /\ coupon \in [Coupons -> Coupon]
    /\ redeemed \in CouponRedemptions
    /\ recorded \in Enable3Redemptions
    /\ access \in BOOLEAN
    /\ clock \in 1 .. MaxTime
    /\ req \in [Requests -> Steps]
    /\ held \in [Requests -> Nat]
    /\ first \in Nat
    /\ added \in [Coupons -> Nat]
    /\ edited \subseteq Coupons
    /\ shown \in [Refreshes -> RefreshToken]

Init ==
    /\ message = 0 /\ nonces = 0 /\ token = 0 /\ clock = 1
    /\ \E scenario \in Scenarios :
          /\ user = (scenario.account # "none")
          /\ credits = [row |-> scenario.account = "full", available |-> 0]
          /\ req = [r \in Requests |-> IF r \in scenario.requests THEN "new" ELSE "refused"]
    /\ coupon = [c \in Coupons |-> [state |-> IF c \in Planned THEN "planned" ELSE "stored",
                                    active |-> TRUE, amount |-> 1]]
    /\ redeemed = {} /\ recorded = {} /\ access = FALSE
    /\ held = [r \in Requests |-> 0]
    /\ first = 0 /\ added = [c \in Coupons |-> 0]
    /\ edited = {} /\ shown = [r \in Refreshes |-> 0]

-----------------------------------------------------------------------------
Goto(r, from, to) == req[r] = from /\ req' = [req EXCEPT ![r] = to]

Hold(r, value) == held' = [held EXCEPT ![r] = value]

Stored(c) == coupon[c].state = "stored"

Tick ==
    /\ clock < MaxTime
    /\ clock' = clock + 1
    /\ UNCHANGED <<message, nonces, token, shown, user, money, shop, req, held>>

(* The cache drops a message after ten minutes. *)
Expire ==
    /\ message # 0
    /\ message' = 0
    /\ UNCHANGED <<nonces, token, clock, shown, user, money, shop, req, held>>

(* getMessage: the cached message, or a new one. *)
GetMessage(l) ==
    /\ Goto(l, "new", "signing")
    /\ \/ /\ message # 0
          /\ UNCHANGED <<message, nonces>>
       \/ /\ message = 0 /\ nonces < MaxNonce
          /\ nonces' = nonces + 1
          /\ message' = nonces'
    /\ Hold(l, message')
    /\ UNCHANGED <<token, clock, shown, user, money, shop>>

(* login: the signature must fit the message in the cache.  The message is *)
(* dropped, and the user looked for, after the signature was verified.     *)
Verify(l) ==
    /\ Goto(l, "signing", IF message # 0 /\ message = held[l] THEN "verified" ELSE "refused")
    /\ UNCHANGED <<session, user, money, shop, held>>

FindUser(l) ==
    /\ Goto(l, "verified", IF user THEN "known" ELSE "registering")
    /\ message' = 0
    /\ UNCHANGED <<nonces, token, clock, shown, user, money, shop, held>>

(* The tokens are issued, and then the row looked for. *)
Issue(l) ==
    /\ Goto(l, "known", IF token # 0 THEN "renewing" ELSE "created")
    /\ Hold(l, clock)
    /\ UNCHANGED <<session, user, money, shop>>

(* The row that was found is updated; the row that was not found is        *)
(* created, or throws if it is there by now.                               *)
StoreToken(l) ==
    /\ \/ Goto(l, "renewing", "done")
       \/ Goto(l, "created", IF token = 0 THEN "done" ELSE "failed")
    /\ token' = IF req'[l] = "done" THEN held[l] ELSE token
    /\ UNCHANGED <<message, nonces, clock, shown, user, money, shop, held>>

(* A new user comes with its Credits row; a wallet has one user.           *)
Register(l) ==
    /\ Goto(l, "registering", IF user THEN "failed" ELSE "created")
    /\ user' = TRUE
    /\ Hold(l, clock)
    /\ IF user
       THEN UNCHANGED <<credits, first>>
       ELSE credits' = [row |-> TRUE, available |-> FREE_CREDITS] /\ first' = FREE_CREDITS
    /\ UNCHANGED <<redeemed, recorded, access, added, session, shop>>

(* refreshToken: the token presented must be the one in the row; the new   *)
(* one is issued and replaces whatever is there by then.                   *)
Present(r) ==
    /\ \E t \in 1 .. clock :
          /\ Goto(r, "new", IF t = token THEN "checked" ELSE "refused")
          /\ shown' = [shown EXCEPT ![r] = t]
    /\ Hold(r, clock)
    /\ UNCHANGED <<message, nonces, token, clock, user, money, shop>>

(* Variant: of two refreshes that overlap only the later one is stored.    *)
RotateIfLatest(r) ==
    /\ Goto(r, "checked", "done")
    /\ token' = IF \E q \in Refreshes \ {r} : req[q] = "checked" THEN token ELSE held[r]
    /\ UNCHANGED <<message, nonces, clock, shown, user, money, shop, held>>

Rotate(r) ==
    /\ Goto(r, "checked", "done")
    /\ token' = held[r]
    /\ UNCHANGED <<message, nonces, clock, shown, user, money, shop, held>>

-----------------------------------------------------------------------------
(* AuthMiddleware.use: a request goes on for a user whose row is there.     *)
Authenticated == user

(* getUserRedemptions: a redemption is shown with what its coupon adds now. *)
GetUserRedemptions == [c \in {c \in redeemed : Stored(c)} |-> coupon[c].amount]

(* redeemCoupon: the coupon and its amount are read, *)
FindCoupon(d) ==
    LET c == Code[d] IN
    /\ Authenticated
    /\ Goto(d, "new", IF /\ c \in Uppercase /\ Stored(c) /\ coupon[c].active
                         /\ c \notin redeemed
                      THEN "found" ELSE "refused")
    /\ Hold(d, coupon[c].amount)
    /\ UNCHANGED <<session, user, money, shop>>

(* a missing Credits row is created, *)
FindCredits(d) ==
    /\ Goto(d, "found", IF credits.row THEN "ready" ELSE "created")
    /\ UNCHANGED <<session, user, money, shop, held>>

CreateCredits(d) ==
    /\ Goto(d, "created", IF credits.row THEN "failed" ELSE "ready")
    /\ credits' = [credits EXCEPT !.row = TRUE]
    /\ UNCHANGED <<redeemed, recorded, access, first, added, session, user, shop, held>>

(* and one transaction records the redemption, of which there is one for   *)
(* each user and coupon, and adds the amount.                              *)
Redeem(d) ==
    LET c == Code[d] IN
    /\ \/ /\ Goto(d, "ready", "done")
          /\ c \notin redeemed /\ Stored(c)
          /\ redeemed' = redeemed \cup {c}
          /\ credits' = [credits EXCEPT !.available = @ + held[d]]
          /\ added' = [added EXCEPT ![c] = held[d]]
          /\ access' = TRUE
       \/ /\ Goto(d, "ready", "failed")
          /\ c \in redeemed \/ ~Stored(c)
          /\ UNCHANGED <<redeemed, credits, added, access>>
    /\ UNCHANGED <<recorded, first, session, user, shop, held>>

(* createCoupon: whatever was asked for, the coupon is active.             *)
CreateCoupon(e) ==
    LET c == About[e] IN
    /\ Goto(e, "new", IF Stored(c) THEN "refused" ELSE "done")
    /\ coupon[c].state # "deleted"
    /\ coupon' = [coupon EXCEPT ![c].state = "stored"]
    /\ UNCHANGED <<edited, session, user, money, held>>

(* updateCoupon: the amount, or whether the coupon can be redeemed.        *)
Edit(e) ==
    LET c == About[e] IN
    /\ Goto(e, "new", IF Stored(c) THEN "done" ELSE "refused")
    /\ \/ /\ ~Stored(c)
          /\ UNCHANGED shop
       \/ /\ Stored(c)
          /\ coupon' = [coupon EXCEPT ![c].active = ~@]
          /\ UNCHANGED edited
       \/ /\ Stored(c)
          /\ coupon' = [coupon EXCEPT ![c].amount = @ + 1]
          /\ edited' = IF \/ c \in redeemed
                          \/ \E d \in Redeems : Code[d] = c /\ req[d] \in {"found", "created", "ready"}
                       THEN edited \cup {c} ELSE edited
    /\ UNCHANGED <<session, user, money, held>>

(* deleteCoupon: not one that was redeemed, which the database sees to     *)
(* once more.                                                              *)
CountRedemptions(e) ==
    LET c == About[e] IN
    /\ Goto(e, "new", IF Stored(c) /\ c \notin redeemed THEN "counted" ELSE "refused")
    /\ UNCHANGED <<session, user, money, shop, held>>

DeleteCoupon(e) ==
    LET c == About[e]
        may == Stored(c) /\ c \notin redeemed IN
    /\ Goto(e, "counted", IF may THEN "done" ELSE "failed")
    /\ coupon' = IF may THEN [coupon EXCEPT ![c].state = "deleted"] ELSE coupon
    /\ UNCHANGED <<edited, session, user, money, held>>

-----------------------------------------------------------------------------
(* processWithdrawal: an unknown user is refused; a recorded withdrawal is *)
(* answered as done.  Whether the user has a Credits row is read here.     *)
Receive(h) ==
    /\ req[h] = "new"
    /\ req' = [req EXCEPT ![h] = CASE h[1] \in recorded -> "done"
                                   [] h[1] \notin recorded /\ user -> "awarding"
                                   [] OTHER -> "refused"]
    /\ Hold(h, IF credits.row THEN 1 ELSE 0)
    /\ UNCHANGED <<session, user, money, shop>>

(* Variant: the row is written with the sum of what was read and awarded.  *)
AwardOver(h) ==
    LET t == h[1] IN
    /\ \/ /\ Goto(h, "awarding", "done")
          /\ t \notin recorded
          /\ recorded' = recorded \cup {t}
          /\ credits' = [row |-> TRUE, available |-> IF held[h] = 1 THEN credits.available + Award[t]
                                                     ELSE Award[t]]
       \/ /\ Goto(h, "awarding", "failed")
          /\ t \in recorded
          /\ UNCHANGED <<recorded, credits>>
    /\ UNCHANGED <<redeemed, access, first, added, session, user, shop, held>>

(* One transaction records the withdrawal, of which there is one, and adds *)
(* its credits to the row that was found or creates the row that was not.  *)
AwardCredits(h) ==
    LET t == h[1]
        fits == t \notin recorded /\ (held[h] = 1 \/ ~credits.row) IN
    /\ \/ /\ fits
          /\ Goto(h, "awarding", "done")
          /\ recorded' = recorded \cup {t}
          /\ credits' = [row |-> TRUE, available |-> credits.available + Award[t]]
       \/ /\ ~fits
          /\ Goto(h, "awarding", "failed")
          /\ UNCHANGED <<recorded, credits>>
    /\ UNCHANGED <<redeemed, access, first, added, session, user, shop, held>>

-----------------------------------------------------------------------------
Next ==
    \/ Tick \/ Expire
    \/ \E l \in Logins :
          \/ GetMessage(l) \/ Verify(l) \/ FindUser(l) \/ Issue(l)
          \/ StoreToken(l) \/ Register(l)
    \/ \E r \in Refreshes : Present(r) \/ Rotate(r)
    \/ \E d \in Redeems : FindCoupon(d) \/ FindCredits(d) \/ CreateCredits(d) \/ Redeem(d)
    \/ \E e \in Creations : CreateCoupon(e)
    \/ \E e \in Edits : Edit(e)
    \/ \E e \in Removals : CountRedemptions(e) \/ DeleteCoupon(e)
    \/ \E h \in Hooks : Receive(h) \/ AwardCredits(h)

Spec == Init /\ [][Next]_vars

-----------------------------------------------------------------------------
(* The sum of f over S, counted credit by credit. *)
Total(f, S) == Cardinality(UNION {{x} \X (1 .. f[x]) : x \in S})

(* The balance is what the user was given to start with and what the       *)
(* histories of redemptions and withdrawals tell, each once, however often *)
(* a withdrawal is delivered, whoever creates the row, and whichever       *)
(* coupons are deleted meanwhile; the coupons whose amount was changed     *)
(* under a redemption, which the history tells with the new amount, count  *)
(* for what was added then (redeemCoupon, deleteCoupon, processWithdrawal, *)
(* getUserRedemptions).                                                    *)
GrantsAddUp ==
    LET told == [c \in DOMAIN GetUserRedemptions |->
                    IF c \in edited THEN added[c] ELSE GetUserRedemptions[c]] IN
    credits.available = first + Total(told, DOMAIN told) + Total(Award, recorded)

(* A refresh token that was exchanged is not accepted again, however       *)
(* logins and refreshes overlap, unless another request was issued the     *)
(* same token, in the same second (refreshToken, generateToken).           *)
Issued(t) == {q \in Logins : req[q] \in {"renewing", "created", "done"} /\ held[q] = t}
             \cup {q \in Refreshes : req[q] \in {"checked", "done"} /\ held[q] = t}
RotationRetires ==
    \A r \in Refreshes :
        req[r] = "done" /\ token = shown[r] => \E p, q \in Issued(token) : p # q
=============================================================================
