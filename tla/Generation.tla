----------------------------- MODULE Generation -----------------------------
(***************************************************************************)
(* Image generation at fal.ai (src/src/generation/services/                *)
(* generation.service.ts): the request, which checks the credits, submits, *)
(* debits and usually waits for the result; the webhook fal.ai calls when  *)
(* it is done; the status query of the client; and the deletion of the     *)
(* asset.  All four write the same Asset row and the first two may refund. *)
(* A background removal is a generation that is never debited.             *)
(***************************************************************************)
EXTENDS Integers, FiniteSets

CONSTANTS
    Generations, \* generateWithCredits and removeBackground requests
    Removals,    \* those that are removeBackground
    Waits,       \* those with waitForCompletion
    Cost,        \* the price of each generation's model
    Budget,      \* availableCredits to start with; creditUsage is 0
    Faults,      \* the faults that occur in this instance, and to which generation
    Deliveries,  \* BOUND: how often the webhook of each may be delivered
    Looks        \* BOUND: those whose status the client queries

FaultKinds == {
    "submit",    \* fal.ai refuses the request
    "debit",     \* the debit transaction fails
    "fetch",     \* fal.ai cannot be asked, or its image not be stored
    "timeout",   \* the wait ends before fal.ai has
    "db",        \* a query of completeGeneration or a refund fails
    "answer",    \* the query for the answer of a request that does not wait fails
    "lost",      \* a webhook call is lost
    "delete" }   \* the owner deletes the asset

ASSUME GenerationAssumption ==
    /\ IsFiniteSet(Generations)
    /\ Removals \subseteq Generations
    /\ Waits \subseteq Generations
    /\ Cost \in [Generations -> Nat \ {0}]
    /\ Budget \in Nat
    /\ Faults \subseteq FaultKinds \X Generations
    /\ Deliveries \in [Generations -> Nat \ {0}]
    /\ Looks \subseteq Generations

May(fault, g) == <<fault, g>> \in Faults

Calls == UNION {{g} \X (1 .. Deliveries[g]) : g \in Generations}

VARIABLES
    available,   \* Credits.availableCredits
    usage,       \* Credits.creditUsage
    asset,       \* the status of each generation's Asset row
    tracked,     \* whether the row has its falRequestId
    fal,         \* the request at fal.ai
    req,         \* where each request is
    hook,        \* where each webhook call is
    look,        \* where the status query of each generation is
    \* history variables, which no action reads
    debited,     \* generations that were debited
    refunds,     \* how often each was refunded
    broken       \* generations whose waiting request failed by itself

credit == <<available, usage, debited, refunds>>
vars == <<available, usage, asset, tracked, fal, req, hook, look, debited, refunds, broken>>

Requests == {"new", "checked", "submitted", "polling", "refunding", "marking", "failing",
             "repaying", "done", "rejected"}
Hooks == {"unsent", "sent", "storing", "refunding", "marking", "done"}
Statuses == {"none", "QUEUED", "PROCESSING", "COMPLETED", "FAILED", "deleted"}

TypeOK ==
    /\ available \in Int
    /\ usage \in Int
    /\ asset \in [Generations -> Statuses]
    /\ tracked \subseteq Generations
    /\ fal \in [Generations -> {"none", "running", "completed", "failed"}]
    /\ req \in [Generations -> Requests]
    /\ hook \in [Calls -> Hooks]
    /\ look \in [Generations -> {"idle", "storing", "erring"}]
    /\ debited \subseteq Generations
    /\ refunds \in [Generations -> Nat]
    /\ broken \subseteq Generations

Init ==
    /\ available = Budget
    /\ usage = 0
    /\ asset = [g \in Generations |-> "none"]
    /\ tracked = {}
    /\ fal = [g \in Generations |-> "none"]
    /\ req = [g \in Generations |-> "new"]
    /\ hook = [c \in Calls |-> "unsent"]
    /\ look = [g \in Generations |-> "idle"]
    /\ debited = {}
    /\ refunds = [g \in Generations |-> 0]
    /\ broken = {}

-----------------------------------------------------------------------------
Exists(g) == asset[g] \notin {"none", "deleted"}

SetStatus(g, status) == asset' = [asset EXCEPT ![g] = status]

(* An UPDATE of the row of g, which does nothing but throw if it is gone.  *)
Overwrite(g, status) == IF Exists(g) THEN SetStatus(g, status) ELSE UNCHANGED asset

(* updateMany ... WHERE status = PROCESSING *)
Complete(g) ==
    IF asset[g] = "PROCESSING" THEN SetStatus(g, "COMPLETED") ELSE UNCHANGED asset

(* refundCredits: both columns, by increments, in a transaction whose      *)
(* failure is only logged.                                                 *)
RefundCredits(g) ==
    \/ /\ available' = available + Cost[g]
       /\ usage' = usage - Cost[g]
       /\ refunds' = [refunds EXCEPT ![g] = @ + 1]
       /\ UNCHANGED debited
    \/ May("db", g) /\ UNCHANGED credit

Goto(g, from, to) == req[g] = from /\ req' = [req EXCEPT ![g] = to]

(* What an error of the wait or of the storing says of itself: Prisma's    *)
(* begin with "Invalid", those of fal.ai and S3 may blame the caller or    *)
(* speak of a timeout.                                                     *)
Messages == {"system", "invalid", "timeout"}

(* Variant: every error is a reason to refund. *)
AnyRefunds(message) == message \in Messages

(* shouldRefundCredits: such an error is no reason to refund. *)
ShouldRefund(message) == message = "system"

AfterError(message) == IF ShouldRefund(message) THEN "refunding" ELSE "marking"

(* uploadWithRetry: the image is not stored, at the third attempt either.  *)
UploadFails(g) == May("fetch", g)
-----------------------------------------------------------------------------
(* The request: generateWithCredits and removeBackground.                  *)

(* Variant: one credit short still passes. *)
AffordsAlmost(g) == g \in Removals \/ available + 1 >= Cost[g]

(* checkUserCredits, which a background removal does without. *)
Affords(g) == g \in Removals \/ available >= Cost[g]

Check(g) ==
    /\ IF Affords(g) THEN Goto(g, "new", "checked") ELSE Goto(g, "new", "rejected")
    /\ UNCHANGED <<credit, asset, tracked, fal, hook, look, broken>>

(* The Asset row is created and the work submitted. *)
Submit(g) ==
    /\ SetStatus(g, "QUEUED")
    /\ \/ /\ Goto(g, "checked", "submitted")
          /\ fal' = [fal EXCEPT ![g] = "running"]
       \/ /\ May("submit", g)
          /\ Goto(g, "checked", "failing")
          /\ UNCHANGED fal
    /\ UNCHANGED <<credit, tracked, hook, look, broken>>

(* One transaction debits and tells the row its falRequestId.  A request   *)
(* that does not wait then reads the balance to answer it.                 *)
Debit(g) ==
    \/ /\ Exists(g)
       /\ \/ /\ Goto(g, "submitted", IF g \in Waits THEN "polling" ELSE "done")
             /\ UNCHANGED broken
          \/ /\ g \notin Waits \cup Removals
             /\ May("answer", g)
             /\ Goto(g, "submitted", "failing")
             /\ broken' = broken \cup {g}
       /\ SetStatus(g, "PROCESSING")
       /\ tracked' = tracked \cup {g}
       /\ IF g \in Removals
          THEN UNCHANGED credit
          ELSE /\ available' = available - Cost[g]
               /\ usage' = usage + Cost[g]
               /\ debited' = debited \cup {g}
               /\ UNCHANGED refunds
       /\ UNCHANGED <<fal, hook, look>>
    \/ /\ ~Exists(g) \/ May("debit", g)
       /\ Goto(g, "submitted", "failing")
       /\ UNCHANGED <<credit, asset, tracked, fal, hook, look, broken>>

(* completeGeneration: fal.ai is asked until it has an answer, which is    *)
(* stored and written.  Any error on the way is taken for a failure, one   *)
(* of the query that follows too, and what it says decides on the refund.  *)
Poll(g) ==
    /\ \/ /\ fal[g] = "completed"
          /\ Complete(g)
          /\ \/ Goto(g, "polling", "done") /\ UNCHANGED broken
             \/ /\ May("db", g)
                /\ \E m \in Messages : Goto(g, "polling", AfterError(m))
                /\ broken' = broken \cup {g}
       \/ /\ fal[g] = "failed"
          /\ Goto(g, "polling", AfterError("system"))
          /\ UNCHANGED <<asset, broken>>
       \/ /\ UploadFails(g)
          /\ \E m \in Messages : Goto(g, "polling", AfterError(m))
          /\ broken' = broken \cup {g}
          /\ UNCHANGED asset
    /\ UNCHANGED <<credit, tracked, fal, hook, look>>

(* fal.ai does not answer in time. *)
Timeout(g) ==
    /\ May("timeout", g)
    /\ fal[g] = "running"
    /\ Goto(g, "polling", AfterError("timeout"))
    /\ UNCHANGED <<credit, asset, tracked, fal, hook, look, broken>>

RefundPolled(g) ==
    /\ Goto(g, "refunding", "marking")
    /\ RefundCredits(g)
    /\ UNCHANGED <<asset, tracked, fal, hook, look, broken>>

(* FAILED whatever the status is by now.  If that fails the error reaches  *)
(* the catch of generateWithCredits, but nothing after removeBackground's. *)
MarkPolled(g) ==
    /\ \/ /\ Exists(g)
          /\ Goto(g, "marking", "done")
          /\ SetStatus(g, "FAILED")
          /\ UNCHANGED broken
       \/ /\ ~Exists(g) \/ May("db", g)
          /\ Goto(g, "marking", IF g \in Removals THEN "done" ELSE "failing")
          /\ broken' = broken \cup {g}
          /\ UNCHANGED asset
    /\ UNCHANGED <<credit, tracked, fal, hook, look>>

(* Variant: the catch block does not ask whether there was a debit. *)
FailRequestAndRefund(g) ==
    /\ Goto(g, "failing", IF Exists(g) THEN "repaying" ELSE "done")
    /\ Overwrite(g, "FAILED")
    /\ UNCHANGED <<credit, tracked, fal, hook, look, broken>>

(* The catch of generateWithCredits refunds if the row has a falRequestId. *)
FailRequest(g) ==
    /\ Goto(g, "failing",
            IF Exists(g) /\ g \in tracked \ Removals THEN "repaying" ELSE "done")
    /\ Overwrite(g, "FAILED")
    /\ UNCHANGED <<credit, tracked, fal, hook, look, broken>>

Repay(g) ==
    /\ Goto(g, "repaying", "done")
    /\ RefundCredits(g)
    /\ UNCHANGED <<asset, tracked, fal, hook, look, broken>>

Request(g) ==
    \/ Check(g) \/ Submit(g) \/ Debit(g) \/ Poll(g) \/ Timeout(g)
    \/ RefundPolled(g) \/ MarkPolled(g) \/ FailRequest(g) \/ Repay(g)
-----------------------------------------------------------------------------
(* fal.ai: it finishes, calls the webhook, and may call it again. *)

FalFinishes(g) ==
    /\ fal[g] = "running"
    /\ \E outcome \in {"completed", "failed"} : fal' = [fal EXCEPT ![g] = outcome]
    /\ hook' = [hook EXCEPT ![<<g, 1>>] = "sent"]
    /\ UNCHANGED <<credit, asset, tracked, req, look, broken>>

FalRepeats(g, n) ==
    /\ hook[<<g, n>>] \notin {"unsent"}
    /\ hook[<<g, n + 1>>] = "unsent"
    /\ hook' = [hook EXCEPT ![<<g, n + 1>>] = "sent"]
    /\ UNCHANGED <<credit, asset, tracked, fal, req, look, broken>>

(* webhookResult *)
Turn(g, n, from, to) == hook[<<g, n>>] = from /\ hook' = [hook EXCEPT ![<<g, n>>] = to]

(* The row is looked up once; only COMPLETED ends the call.                *)
ReceiveHook(g, n) ==
    /\ \/ May("lost", g) /\ Turn(g, n, "sent", "done")
       \/ /\ ~Exists(g) \/ g \notin tracked \/ asset[g] = "COMPLETED"
          /\ Turn(g, n, "sent", "done")
       \/ /\ Exists(g) /\ g \in tracked /\ asset[g] # "COMPLETED"
          /\ Turn(g, n, "sent", IF fal[g] = "completed" THEN "storing" ELSE "refunding")
    /\ UNCHANGED <<credit, asset, tracked, fal, req, look, broken>>

(* The image is stored and written, or its loss is written; when fal.ai    *)
(* does not hand it out, the call just ends.                               *)
StoreHook(g, n) ==
    /\ Turn(g, n, "storing", "done")
    /\ \/ Complete(g)
       \/ UploadFails(g) /\ (UNCHANGED asset \/ Overwrite(g, "FAILED"))
    /\ UNCHANGED <<credit, tracked, fal, req, look, broken>>

(* A failed generation is refunded on every call. *)
RefundHook(g, n) ==
    /\ Turn(g, n, "refunding", "marking")
    /\ RefundCredits(g)
    /\ UNCHANGED <<asset, tracked, fal, req, look, broken>>

MarkHook(g, n) ==
    /\ Turn(g, n, "marking", "done")
    /\ Overwrite(g, "FAILED")
    /\ UNCHANGED <<credit, tracked, fal, req, look, broken>>

Hook(g, n) == ReceiveHook(g, n) \/ StoreHook(g, n) \/ RefundHook(g, n) \/ MarkHook(g, n)
-----------------------------------------------------------------------------
(* getGenerationStatus, by the client. *)

Look(g) ==
    /\ look[g] = "idle"
    /\ g \in Looks \cap tracked
    /\ asset[g] = "PROCESSING"
    /\ \/ fal[g] = "completed" /\ look' = [look EXCEPT ![g] = "storing"]
       \/ /\ May("fetch", g) \/ fal[g] = "failed"
          /\ look' = [look EXCEPT ![g] = "erring"]
    /\ UNCHANGED <<credit, asset, tracked, fal, req, hook, broken>>

(* Unlike the others it writes COMPLETED over anything. *)
StoreLook(g) ==
    /\ look[g] = "storing"
    /\ look' = [look EXCEPT ![g] = "idle"]
    /\ Overwrite(g, "COMPLETED") \/ (UploadFails(g) /\ Overwrite(g, "FAILED"))
    /\ UNCHANGED <<credit, tracked, fal, req, hook, broken>>

(* An error of fal.ai marks the row FAILED; nothing is refunded. *)
FailLook(g) ==
    /\ look[g] = "erring"
    /\ look' = [look EXCEPT ![g] = "idle"]
    /\ Overwrite(g, "FAILED")
    /\ UNCHANGED <<credit, tracked, fal, req, hook, broken>>

(* deleteGeneration, whatever the status. *)
DeleteGeneration(g) ==
    /\ May("delete", g)
    /\ Exists(g)
    /\ SetStatus(g, "deleted")
    /\ UNCHANGED <<credit, tracked, fal, req, hook, look, broken>>

(* bulkDeleteGenerations: those of the given ones that are there. *)
BulkDelete(ids) ==
    /\ \A g \in ids : May("delete", g)
    /\ \E g \in ids : Exists(g)
    /\ asset' = [g \in Generations |->
                    IF g \in ids /\ Exists(g) THEN "deleted" ELSE asset[g]]
    /\ UNCHANGED <<credit, tracked, fal, req, hook, look, broken>>

Next ==
    \/ \E g \in Generations :
           \/ Request(g)
           \/ FalFinishes(g)
           \/ \E n \in 1 .. (Deliveries[g] - 1) : FalRepeats(g, n)
           \/ \E n \in 1 .. Deliveries[g] : Hook(g, n)
           \/ Look(g) \/ StoreLook(g) \/ FailLook(g)
           \/ DeleteGeneration(g)
    \/ \E ids \in SUBSET Generations : BulkDelete(ids)

Spec == Init /\ [][Next]_vars

-----------------------------------------------------------------------------
(* Properties. *)

(* A generation is checked against a balance that others may spend before  *)
(* it is debited: the balance is overdrawn, but never by one generation.   *)
OverdrawnOnlyByOverlap == available < 0 => Cardinality(debited) >= 2

(* An image that is shown was paid for and is not refunded, unless the     *)
(* waiting request broke down beside the webhook or status query that      *)
(* delivered it.                                                           *)
CompletedIsPaid ==
    \A g \in Generations : asset[g] = "COMPLETED" =>
        /\ fal[g] = "completed"
        /\ g \in debited \cup Removals
        /\ refunds[g] = 0 \/ g \in broken

(* Nothing is refunded without a failure, nor more often than failures     *)
(* were noticed: by each webhook call, by the wait, and once more by the   *)
(* catch around a wait that broke down.                                    *)
Noticed(g) ==
    IF fal[g] = "failed"
    THEN 1 + Cardinality({n \in 1 .. Deliveries[g] : hook[<<g, n>>] \in {"marking", "done"}})
    ELSE 0
RefundsAreExplained ==
    \A g \in Generations :
        refunds[g] <= (IF g \in broken THEN 2 ELSE 0) + Noticed(g)
=============================================================================
