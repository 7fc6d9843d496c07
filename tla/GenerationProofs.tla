-------------------------- MODULE GenerationProofs --------------------------
(***************************************************************************)
(* Safety of Generation for every set of generations, every price, fault   *)
(* and number of deliveries.  The inductive invariant says what each phase *)
(* of a request, of a webhook call and of a status query knows of the row, *)
(* of fal.ai and of the balance.                                           *)
(***************************************************************************)
EXTENDS Generation, FiniteSetTheorems, TLAPS

(* Before its debit a request has left no trace but its row. *)
BeforeDebit ==
    \A g \in Generations :
        /\ req[g] \in {"new", "checked",
           "submitted"} => g \notin debited \cup tracked
        /\ req[g] \in {"new", "checked"} => fal[g] = "none"

(* What has its falRequestId was debited, or is a background removal.      *)
TrackedIsPaid ==
    /\ tracked \subseteq debited \cup Removals
    /\ \A g \in Generations :
          asset[g] \in {"PROCESSING",
             "COMPLETED"} \/ look[g] # "idle" => g \in tracked

(* A webhook call and a status query act on an answer that fal.ai gave and *)
(* does not take back.                                                     *)
AnswersAreFinal ==
    /\ \A g \in Generations : \A n \in 1 .. Deliveries[g] :
          /\ hook[<<g, n>>] # "unsent" => fal[g] \in {"completed", "failed"}
          /\ hook[<<g, n>>] = "storing" => fal[g] = "completed"
          /\ hook[<<g, n>>] = "refunding" => fal[g] = "failed"
    /\ \A g \in Generations :
          asset[g] = "COMPLETED" \/ look[g] = "storing" => fal[g] = "completed"

(* A request refunds what failed at fal.ai or in its own hands; the catch  *)
(* around it only what broke down.                                         *)
RefundsHaveCause ==
    \A g \in Generations :
        /\ req[g] = "failing" /\ g \in tracked => g \in broken
        /\ req[g] = "repaying" => g \in broken
        /\ req[g] = "refunding" \/ refunds[g] # 0 => fal[g] = "failed" \/ g \in broken

(* Nothing was spent yet: whoever was checked can still pay. *)
Solvent ==
    /\ debited = {} =>
          \A g \in Generations \ Removals :
              req[g] \in {"checked", "submitted"} => available >= Cost[g]
    /\ (\A g, h \in debited : g = h) => available >= 0

(* The refunds of g that are over: by webhook calls, by the wait and by    *)
(* the catch around it.                                                    *)
Called(g) == {n \in 1 .. Deliveries[g] : hook[<<g, n>>] \in {"marking", "done"}}
ByHook(g) == IF fal[g] = "failed" THEN Cardinality(Called(g)) ELSE 0
ByWait(g) == IF req[g] \in {"marking", "failing", "repaying",
   "done"} THEN 1 ELSE 0
ByCatch(g) == IF req[g] = "done" /\ g \in broken THEN 1 ELSE 0

RefundsCounted ==
    \A g \in Generations : refunds[g] <= ByHook(g) + ByWait(g) + ByCatch(g)

IInv ==
    /\ TypeOK
    /\ BeforeDebit
    /\ TrackedIsPaid
    /\ AnswersAreFinal
    /\ RefundsHaveCause
    /\ Solvent
    /\ RefundsCounted
-----------------------------------------------------------------------------
(* The webhook calls of the model, by generation and number. *)
LEMMA CallsExist ==
    /\ \A g \in Generations : \A n \in 1 .. Deliveries[g] : <<g, n>> \in Calls
    /\ \A g \in Generations : 1 \in 1 .. Deliveries[g]
BY GenerationAssumption DEF GenerationAssumption, Calls

(* Every action keeps the types. *)
LEMMA TypeStep == IInv /\ [Next]_vars => TypeOK'
<1> SUFFICES ASSUME IInv, [Next]_vars PROVE TypeOK'
    OBVIOUS
<1> USE GenerationAssumption, CallsExist DEF GenerationAssumption, IInv,
   TypeOK, Requests, Hooks, Statuses
<1>0. CASE UNCHANGED vars
    BY <1>0 DEF vars, credit
<1>1. ASSUME NEW g \in Generations, Check(g) PROVE TypeOK'
    BY <1>1 DEF Check, credit, Goto, Affords
<1>2. ASSUME NEW g \in Generations, Submit(g) PROVE TypeOK'
    BY <1>2 DEF Submit, credit, Goto, SetStatus, May
<1>3. ASSUME NEW g \in Generations, Debit(g) PROVE TypeOK'
    BY <1>3 DEF Debit, credit, Goto, SetStatus, May, Exists
<1>4. ASSUME NEW g \in Generations, Poll(g) PROVE TypeOK'
    BY <1>4 DEF Poll, AfterError, UploadFails, credit, Goto, Complete, SetStatus, May
<1>5. ASSUME NEW g \in Generations, Timeout(g) PROVE TypeOK'
    BY <1>5 DEF Timeout, AfterError, credit, Goto, May
<1>6. ASSUME NEW g \in Generations, RefundPolled(g) PROVE TypeOK'
    BY <1>6 DEF RefundPolled, credit, Goto, RefundCredits, May
<1>7. ASSUME NEW g \in Generations, MarkPolled(g) PROVE TypeOK'
    BY <1>7 DEF MarkPolled, credit, Goto, SetStatus, May, Exists
<1>8. ASSUME NEW g \in Generations, FailRequest(g) PROVE TypeOK'
    BY <1>8 DEF FailRequest, credit, Goto, Overwrite, SetStatus, Exists
<1>9. ASSUME NEW g \in Generations, Repay(g) PROVE TypeOK'
    BY <1>9 DEF Repay, credit, Goto, RefundCredits, May
<1>10. ASSUME NEW g \in Generations, FalFinishes(g) PROVE TypeOK'
    BY <1>10 DEF FalFinishes, credit
<1>11. ASSUME NEW g \in Generations,
       \E n \in 1 .. (Deliveries[g] - 1) : FalRepeats(g, n) PROVE TypeOK'
    BY <1>11 DEF FalRepeats, credit
<1>12. ASSUME NEW g \in Generations,
       \E n \in 1 .. Deliveries[g] : ReceiveHook(g, n) PROVE TypeOK'
    BY <1>12 DEF ReceiveHook, credit, Turn, May, Exists
<1>13. ASSUME NEW g \in Generations,
       \E n \in 1 .. Deliveries[g] : StoreHook(g, n) PROVE TypeOK'
    BY <1>13 DEF StoreHook, credit, Turn, Complete, Overwrite, SetStatus,
       Exists, May
<1>14. ASSUME NEW g \in Generations,
       \E n \in 1 .. Deliveries[g] : RefundHook(g, n) PROVE TypeOK'
    BY <1>14 DEF RefundHook, credit, Turn, RefundCredits, May
<1>15. ASSUME NEW g \in Generations,
       \E n \in 1 .. Deliveries[g] : MarkHook(g, n) PROVE TypeOK'
    BY <1>15 DEF MarkHook, credit, Turn, Overwrite, SetStatus, Exists
<1>16. ASSUME NEW g \in Generations, Look(g) PROVE TypeOK'
    BY <1>16 DEF Look, credit, May
<1>17. ASSUME NEW g \in Generations, StoreLook(g) PROVE TypeOK'
    BY <1>17 DEF StoreLook, credit, Overwrite, SetStatus, Exists, May
<1>18. ASSUME NEW g \in Generations, FailLook(g) PROVE TypeOK'
    BY <1>18 DEF FailLook, credit, Overwrite, SetStatus, Exists
<1>19. ASSUME NEW g \in Generations, DeleteGeneration(g) PROVE TypeOK'
    BY <1>19 DEF DeleteGeneration, credit, SetStatus, Exists, May
<1>19a. ASSUME NEW ids \in SUBSET Generations, BulkDelete(ids) PROVE TypeOK'
    BY <1>19a DEF BulkDelete, credit, Exists, May
<1>20. QED BY <1>0, <1>1, <1>2, <1>3, <1>4, <1>5, <1>6, <1>7, <1>8, <1>9,
    <1>10, <1>11, <1>12, <1>13, <1>14, <1>15, <1>16, <1>17, <1>18,
    <1>19, <1>19a DEF Next, Request, Hook

(* Only the debit gives the row its falRequestId, and only a submission    *)
(* starts work at fal.ai.                                                  *)
LEMMA BeforeDebitStep == IInv /\ [Next]_vars => BeforeDebit'
<1> SUFFICES ASSUME IInv, [Next]_vars PROVE BeforeDebit'
    OBVIOUS
<1> USE GenerationAssumption, CallsExist DEF GenerationAssumption, IInv,
   TypeOK, BeforeDebit
<1>0. CASE UNCHANGED vars
    BY <1>0 DEF vars, credit
<1>1. ASSUME NEW g \in Generations, Check(g) PROVE BeforeDebit'
    BY <1>1 DEF Check, credit, Goto, Affords
<1>2. ASSUME NEW g \in Generations, Submit(g) PROVE BeforeDebit'
    BY <1>2 DEF Submit, credit, Goto, SetStatus, May
<1>3. ASSUME NEW g \in Generations, Debit(g) PROVE BeforeDebit'
    BY <1>3 DEF Debit, credit, Goto, SetStatus, May, Exists
<1>4. ASSUME NEW g \in Generations, Poll(g) PROVE BeforeDebit'
    BY <1>4 DEF Poll, AfterError, UploadFails, credit, Goto, Complete, SetStatus, May
<1>5. ASSUME NEW g \in Generations, Timeout(g) PROVE BeforeDebit'
    BY <1>5 DEF Timeout, AfterError, credit, Goto, May
<1>6. ASSUME NEW g \in Generations, RefundPolled(g) PROVE BeforeDebit'
    BY <1>6 DEF RefundPolled, credit, Goto, RefundCredits, May
<1>7. ASSUME NEW g \in Generations, MarkPolled(g) PROVE BeforeDebit'
    BY <1>7 DEF MarkPolled, credit, Goto, SetStatus, May, Exists
<1>8. ASSUME NEW g \in Generations, FailRequest(g) PROVE BeforeDebit'
    BY <1>8 DEF FailRequest, credit, Goto, Overwrite, SetStatus, Exists
<1>9. ASSUME NEW g \in Generations, Repay(g) PROVE BeforeDebit'
    BY <1>9 DEF Repay, credit, Goto, RefundCredits, May
<1>10. ASSUME NEW g \in Generations, FalFinishes(g) PROVE BeforeDebit'
    BY <1>10 DEF FalFinishes, credit
<1>11. ASSUME NEW g \in Generations,
       \E n \in 1 .. (Deliveries[g] - 1) : FalRepeats(g, n)
       PROVE BeforeDebit'
    BY <1>11 DEF FalRepeats, credit
<1>12. ASSUME NEW g \in Generations,
       \E n \in 1 .. Deliveries[g] : ReceiveHook(g, n) PROVE BeforeDebit'
    BY <1>12 DEF ReceiveHook, credit, Turn, May, Exists
<1>13. ASSUME NEW g \in Generations,
       \E n \in 1 .. Deliveries[g] : StoreHook(g, n) PROVE BeforeDebit'
    BY <1>13 DEF StoreHook, credit, Turn, Complete, Overwrite, SetStatus,
       Exists, May
<1>14. ASSUME NEW g \in Generations,
       \E n \in 1 .. Deliveries[g] : RefundHook(g, n) PROVE BeforeDebit'
    BY <1>14 DEF RefundHook, credit, Turn, RefundCredits, May
<1>15. ASSUME NEW g \in Generations,
       \E n \in 1 .. Deliveries[g] : MarkHook(g, n) PROVE BeforeDebit'
    BY <1>15 DEF MarkHook, credit, Turn, Overwrite, SetStatus, Exists
<1>16. ASSUME NEW g \in Generations, Look(g) PROVE BeforeDebit'
    BY <1>16 DEF Look, credit, May
<1>17. ASSUME NEW g \in Generations, StoreLook(g) PROVE BeforeDebit'
    BY <1>17 DEF StoreLook, credit, Overwrite, SetStatus, Exists, May
<1>18. ASSUME NEW g \in Generations, FailLook(g) PROVE BeforeDebit'
    BY <1>18 DEF FailLook, credit, Overwrite, SetStatus, Exists
<1>19. ASSUME NEW g \in Generations, DeleteGeneration(g) PROVE BeforeDebit'
    BY <1>19 DEF DeleteGeneration, credit, SetStatus, Exists, May
<1>19a. ASSUME NEW ids \in SUBSET Generations, BulkDelete(ids) PROVE BeforeDebit'
    BY <1>19a DEF BulkDelete, credit, Exists, May
<1>20. QED BY <1>0, <1>1, <1>2, <1>3, <1>4, <1>5, <1>6, <1>7, <1>8, <1>9,
    <1>10, <1>11, <1>12, <1>13, <1>14, <1>15, <1>16, <1>17, <1>18,
    <1>19, <1>19a DEF Next, Request, Hook

(* The transaction of the debit makes the row PROCESSING and tracked at    *)
(* once; nothing makes it so again, and only a tracked row is asked for.   *)
LEMMA TrackedStep == IInv /\ [Next]_vars => TrackedIsPaid'
<1> SUFFICES ASSUME IInv, [Next]_vars PROVE TrackedIsPaid'
    OBVIOUS
<1> USE GenerationAssumption, CallsExist DEF GenerationAssumption, IInv,
   TypeOK, BeforeDebit, TrackedIsPaid
<1>0. CASE UNCHANGED vars
    BY <1>0 DEF vars, credit
<1>1. ASSUME NEW g \in Generations, Check(g) PROVE TrackedIsPaid'
    BY <1>1 DEF Check, credit, Goto, Affords
<1>2. ASSUME NEW g \in Generations, Submit(g) PROVE TrackedIsPaid'
    BY <1>2 DEF Submit, credit, Goto, SetStatus, May
<1>3. ASSUME NEW g \in Generations, Debit(g) PROVE TrackedIsPaid'
    BY <1>3 DEF Debit, credit, Goto, SetStatus, May, Exists
<1>4. ASSUME NEW g \in Generations, Poll(g) PROVE TrackedIsPaid'
    BY <1>4 DEF Poll, AfterError, UploadFails, credit, Goto, Complete, SetStatus, May
<1>5. ASSUME NEW g \in Generations, Timeout(g) PROVE TrackedIsPaid'
    BY <1>5 DEF Timeout, AfterError, credit, Goto, May
<1>6. ASSUME NEW g \in Generations, RefundPolled(g) PROVE TrackedIsPaid'
    BY <1>6 DEF RefundPolled, credit, Goto, RefundCredits, May
<1>7. ASSUME NEW g \in Generations, MarkPolled(g) PROVE TrackedIsPaid'
    BY <1>7 DEF MarkPolled, credit, Goto, SetStatus, May, Exists
<1>8. ASSUME NEW g \in Generations, FailRequest(g) PROVE TrackedIsPaid'
    BY <1>8 DEF FailRequest, credit, Goto, Overwrite, SetStatus, Exists
<1>9. ASSUME NEW g \in Generations, Repay(g) PROVE TrackedIsPaid'
    BY <1>9 DEF Repay, credit, Goto, RefundCredits, May
<1>10. ASSUME NEW g \in Generations, FalFinishes(g) PROVE TrackedIsPaid'
    BY <1>10 DEF FalFinishes, credit
<1>11. ASSUME NEW g \in Generations,
       \E n \in 1 .. (Deliveries[g] - 1) : FalRepeats(g, n)
       PROVE TrackedIsPaid'
    BY <1>11 DEF FalRepeats, credit
<1>12. ASSUME NEW g \in Generations,
       \E n \in 1 .. Deliveries[g] : ReceiveHook(g, n)
       PROVE TrackedIsPaid'
    BY <1>12 DEF ReceiveHook, credit, Turn, May, Exists
<1>13. ASSUME NEW g \in Generations,
       \E n \in 1 .. Deliveries[g] : StoreHook(g, n) PROVE TrackedIsPaid'
    BY <1>13 DEF StoreHook, credit, Turn, Complete, Overwrite, SetStatus,
       Exists, May
<1>14. ASSUME NEW g \in Generations,
       \E n \in 1 .. Deliveries[g] : RefundHook(g, n)
       PROVE TrackedIsPaid'
    BY <1>14 DEF RefundHook, credit, Turn, RefundCredits, May
<1>15. ASSUME NEW g \in Generations,
       \E n \in 1 .. Deliveries[g] : MarkHook(g, n) PROVE TrackedIsPaid'
    BY <1>15 DEF MarkHook, credit, Turn, Overwrite, SetStatus, Exists
<1>16. ASSUME NEW g \in Generations, Look(g) PROVE TrackedIsPaid'
    BY <1>16 DEF Look, credit, May
<1>17. ASSUME NEW g \in Generations, StoreLook(g) PROVE TrackedIsPaid'
    BY <1>17 DEF StoreLook, credit, Overwrite, SetStatus, Exists, May
<1>18. ASSUME NEW g \in Generations, FailLook(g) PROVE TrackedIsPaid'
    BY <1>18 DEF FailLook, credit, Overwrite, SetStatus, Exists
<1>19. ASSUME NEW g \in Generations, DeleteGeneration(g) PROVE TrackedIsPaid'
    BY <1>19 DEF DeleteGeneration, credit, SetStatus, Exists, May
<1>19a. ASSUME NEW ids \in SUBSET Generations, BulkDelete(ids) PROVE TrackedIsPaid'
    BY <1>19a DEF BulkDelete, credit, Exists, May
<1>20. QED BY <1>0, <1>1, <1>2, <1>3, <1>4, <1>5, <1>6, <1>7, <1>8, <1>9,
    <1>10, <1>11, <1>12, <1>13, <1>14, <1>15, <1>16, <1>17, <1>18,
    <1>19, <1>19a DEF Next, Request, Hook

(* fal.ai answers once, and each reader acts on the answer it was given.   *)
LEMMA AnswersStep == IInv /\ [Next]_vars => AnswersAreFinal'
<1> SUFFICES ASSUME IInv, [Next]_vars PROVE AnswersAreFinal'
    OBVIOUS
<1> USE GenerationAssumption, CallsExist DEF GenerationAssumption, IInv,
   TypeOK, BeforeDebit, AnswersAreFinal
<1>0. CASE UNCHANGED vars
    BY <1>0 DEF vars, credit
<1>1. ASSUME NEW g \in Generations, Check(g) PROVE AnswersAreFinal'
    BY <1>1 DEF Check, credit, Goto, Affords
<1>2. ASSUME NEW g \in Generations, Submit(g) PROVE AnswersAreFinal'
    BY <1>2 DEF Submit, credit, Goto, SetStatus, May
<1>3. ASSUME NEW g \in Generations, Debit(g) PROVE AnswersAreFinal'
    BY <1>3 DEF Debit, credit, Goto, SetStatus, May, Exists
<1>4. ASSUME NEW g \in Generations, Poll(g) PROVE AnswersAreFinal'
    BY <1>4 DEF Poll, AfterError, UploadFails, credit, Goto, Complete, SetStatus, May
<1>5. ASSUME NEW g \in Generations, Timeout(g) PROVE AnswersAreFinal'
    BY <1>5 DEF Timeout, AfterError, credit, Goto, May
<1>6. ASSUME NEW g \in Generations, RefundPolled(g) PROVE AnswersAreFinal'
    BY <1>6 DEF RefundPolled, credit, Goto, RefundCredits, May
<1>7. ASSUME NEW g \in Generations, MarkPolled(g) PROVE AnswersAreFinal'
    BY <1>7 DEF MarkPolled, credit, Goto, SetStatus, May, Exists
<1>8. ASSUME NEW g \in Generations, FailRequest(g) PROVE AnswersAreFinal'
    BY <1>8 DEF FailRequest, credit, Goto, Overwrite, SetStatus, Exists
<1>9. ASSUME NEW g \in Generations, Repay(g) PROVE AnswersAreFinal'
    BY <1>9 DEF Repay, credit, Goto, RefundCredits, May
<1>10. ASSUME NEW g \in Generations, FalFinishes(g) PROVE AnswersAreFinal'
    BY <1>10 DEF FalFinishes, credit
<1>11. ASSUME NEW g \in Generations,
       \E n \in 1 .. (Deliveries[g] - 1) : FalRepeats(g, n)
       PROVE AnswersAreFinal'
    BY <1>11 DEF FalRepeats, credit
<1>12. ASSUME NEW g \in Generations,
       \E n \in 1 .. Deliveries[g] : ReceiveHook(g, n)
       PROVE AnswersAreFinal'
    BY <1>12 DEF ReceiveHook, credit, Turn, May, Exists
<1>13. ASSUME NEW g \in Generations,
       \E n \in 1 .. Deliveries[g] : StoreHook(g, n)
       PROVE AnswersAreFinal'
    BY <1>13 DEF StoreHook, credit, Turn, Complete, Overwrite, SetStatus,
       Exists, May
<1>14. ASSUME NEW g \in Generations,
       \E n \in 1 .. Deliveries[g] : RefundHook(g, n)
       PROVE AnswersAreFinal'
    BY <1>14 DEF RefundHook, credit, Turn, RefundCredits, May
<1>15. ASSUME NEW g \in Generations,
       \E n \in 1 .. Deliveries[g] : MarkHook(g, n)
       PROVE AnswersAreFinal'
    BY <1>15 DEF MarkHook, credit, Turn, Overwrite, SetStatus, Exists
<1>16. ASSUME NEW g \in Generations, Look(g) PROVE AnswersAreFinal'
    BY <1>16 DEF Look, credit, May
<1>17. ASSUME NEW g \in Generations, StoreLook(g) PROVE AnswersAreFinal'
    BY <1>17 DEF StoreLook, credit, Overwrite, SetStatus, Exists, May
<1>18. ASSUME NEW g \in Generations, FailLook(g) PROVE AnswersAreFinal'
    BY <1>18 DEF FailLook, credit, Overwrite, SetStatus, Exists
<1>19. ASSUME NEW g \in Generations, DeleteGeneration(g) PROVE AnswersAreFinal'
    BY <1>19 DEF DeleteGeneration, credit, SetStatus, Exists, May
<1>19a. ASSUME NEW ids \in SUBSET Generations, BulkDelete(ids) PROVE AnswersAreFinal'
    BY <1>19a DEF BulkDelete, credit, Exists, May
<1>20. QED BY <1>0, <1>1, <1>2, <1>3, <1>4, <1>5, <1>6, <1>7, <1>8, <1>9,
    <1>10, <1>11, <1>12, <1>13, <1>14, <1>15, <1>16, <1>17, <1>18,
    <1>19, <1>19a DEF Next, Request, Hook

(* A catch that finds a falRequestId was reached through a breakdown.      *)
LEMMA CauseStep == IInv /\ [Next]_vars => RefundsHaveCause'
<1> SUFFICES ASSUME IInv, [Next]_vars PROVE RefundsHaveCause'
    OBVIOUS
<1> USE GenerationAssumption, CallsExist DEF GenerationAssumption, IInv,
   TypeOK, BeforeDebit, AnswersAreFinal, RefundsHaveCause
<1>0. CASE UNCHANGED vars
    BY <1>0 DEF vars, credit
<1>1. ASSUME NEW g \in Generations, Check(g) PROVE RefundsHaveCause'
    BY <1>1 DEF Check, credit, Goto, Affords
<1>2. ASSUME NEW g \in Generations, Submit(g) PROVE RefundsHaveCause'
    BY <1>2 DEF Submit, credit, Goto, SetStatus, May
<1>3. ASSUME NEW g \in Generations, Debit(g) PROVE RefundsHaveCause'
    BY <1>3 DEF Debit, credit, Goto, SetStatus, May, Exists
<1>4. ASSUME NEW g \in Generations, Poll(g) PROVE RefundsHaveCause'
    BY <1>4 DEF Poll, AfterError, UploadFails, credit, Goto, Complete, SetStatus, May
<1>5. ASSUME NEW g \in Generations, Timeout(g) PROVE RefundsHaveCause'
    BY <1>5 DEF Timeout, AfterError, ShouldRefund, credit, Goto, May
<1>6. ASSUME NEW g \in Generations, RefundPolled(g) PROVE RefundsHaveCause'
    BY <1>6 DEF RefundPolled, credit, Goto, RefundCredits, May
<1>7. ASSUME NEW g \in Generations, MarkPolled(g) PROVE RefundsHaveCause'
    BY <1>7 DEF MarkPolled, credit, Goto, SetStatus, May, Exists
<1>8. ASSUME NEW g \in Generations, FailRequest(g) PROVE RefundsHaveCause'
    BY <1>8 DEF FailRequest, credit, Goto, Overwrite, SetStatus, Exists
<1>9. ASSUME NEW g \in Generations, Repay(g) PROVE RefundsHaveCause'
    BY <1>9 DEF Repay, credit, Goto, RefundCredits, May
<1>10. ASSUME NEW g \in Generations, FalFinishes(g) PROVE RefundsHaveCause'
    BY <1>10 DEF FalFinishes, credit
<1>11. ASSUME NEW g \in Generations,
       \E n \in 1 .. (Deliveries[g] - 1) : FalRepeats(g, n)
       PROVE RefundsHaveCause'
    BY <1>11 DEF FalRepeats, credit
<1>12. ASSUME NEW g \in Generations,
       \E n \in 1 .. Deliveries[g] : ReceiveHook(g, n)
       PROVE RefundsHaveCause'
    BY <1>12 DEF ReceiveHook, credit, Turn, May, Exists
<1>13. ASSUME NEW g \in Generations,
       \E n \in 1 .. Deliveries[g] : StoreHook(g, n)
       PROVE RefundsHaveCause'
    BY <1>13 DEF StoreHook, credit, Turn, Complete, Overwrite, SetStatus,
       Exists, May
<1>14. ASSUME NEW g \in Generations,
       \E n \in 1 .. Deliveries[g] : RefundHook(g, n)
       PROVE RefundsHaveCause'
    BY <1>14 DEF RefundHook, credit, Turn, RefundCredits, May
<1>15. ASSUME NEW g \in Generations,
       \E n \in 1 .. Deliveries[g] : MarkHook(g, n)
       PROVE RefundsHaveCause'
    BY <1>15 DEF MarkHook, credit, Turn, Overwrite, SetStatus, Exists
<1>16. ASSUME NEW g \in Generations, Look(g) PROVE RefundsHaveCause'
    BY <1>16 DEF Look, credit, May
<1>17. ASSUME NEW g \in Generations, StoreLook(g) PROVE RefundsHaveCause'
    BY <1>17 DEF StoreLook, credit, Overwrite, SetStatus, Exists, May
<1>18. ASSUME NEW g \in Generations, FailLook(g) PROVE RefundsHaveCause'
    BY <1>18 DEF FailLook, credit, Overwrite, SetStatus, Exists
<1>19. ASSUME NEW g \in Generations, DeleteGeneration(g) PROVE RefundsHaveCause'
    BY <1>19 DEF DeleteGeneration, credit, SetStatus, Exists, May
<1>19a. ASSUME NEW ids \in SUBSET Generations, BulkDelete(ids) PROVE RefundsHaveCause'
    BY <1>19a DEF BulkDelete, credit, Exists, May
<1>20. QED BY <1>0, <1>1, <1>2, <1>3, <1>4, <1>5, <1>6, <1>7, <1>8, <1>9,
    <1>10, <1>11, <1>12, <1>13, <1>14, <1>15, <1>16, <1>17, <1>18,
    <1>19, <1>19a DEF Next, Request, Hook

(* Nothing but a debit lowers the balance. *)
LEMMA SolventStep == IInv /\ [Next]_vars => Solvent'
<1> SUFFICES ASSUME IInv, [Next]_vars PROVE Solvent'
    OBVIOUS
<1> USE GenerationAssumption, CallsExist DEF GenerationAssumption, IInv,
   TypeOK, BeforeDebit, Solvent
<1>0. CASE UNCHANGED vars
    BY <1>0 DEF vars, credit
<1>1. ASSUME NEW g \in Generations, Check(g) PROVE Solvent'
    BY <1>1 DEF Check, credit, Goto, Affords
<1>2. ASSUME NEW g \in Generations, Submit(g) PROVE Solvent'
    BY <1>2 DEF Submit, credit, Goto, SetStatus, May
<1>3. ASSUME NEW g \in Generations, Debit(g) PROVE Solvent'
    BY <1>3 DEF Debit, credit, Goto, SetStatus, May, Exists
<1>4. ASSUME NEW g \in Generations, Poll(g) PROVE Solvent'
    BY <1>4 DEF Poll, AfterError, UploadFails, credit, Goto, Complete, SetStatus, May
<1>5. ASSUME NEW g \in Generations, Timeout(g) PROVE Solvent'
    BY <1>5 DEF Timeout, AfterError, credit, Goto, May
<1>6. ASSUME NEW g \in Generations, RefundPolled(g) PROVE Solvent'
    BY <1>6 DEF RefundPolled, credit, Goto, RefundCredits, May
<1>7. ASSUME NEW g \in Generations, MarkPolled(g) PROVE Solvent'
    BY <1>7 DEF MarkPolled, credit, Goto, SetStatus, May, Exists
<1>8. ASSUME NEW g \in Generations, FailRequest(g) PROVE Solvent'
    BY <1>8 DEF FailRequest, credit, Goto, Overwrite, SetStatus, Exists
<1>9. ASSUME NEW g \in Generations, Repay(g) PROVE Solvent'
    BY <1>9 DEF Repay, credit, Goto, RefundCredits, May
<1>10. ASSUME NEW g \in Generations, FalFinishes(g) PROVE Solvent'
    BY <1>10 DEF FalFinishes, credit
<1>11. ASSUME NEW g \in Generations,
       \E n \in 1 .. (Deliveries[g] - 1) : FalRepeats(g, n)
       PROVE Solvent'
    BY <1>11 DEF FalRepeats, credit
<1>12. ASSUME NEW g \in Generations,
       \E n \in 1 .. Deliveries[g] : ReceiveHook(g, n) PROVE Solvent'
    BY <1>12 DEF ReceiveHook, credit, Turn, May, Exists
<1>13. ASSUME NEW g \in Generations,
       \E n \in 1 .. Deliveries[g] : StoreHook(g, n) PROVE Solvent'
    BY <1>13 DEF StoreHook, credit, Turn, Complete, Overwrite, SetStatus,
       Exists, May
<1>14. ASSUME NEW g \in Generations,
       \E n \in 1 .. Deliveries[g] : RefundHook(g, n) PROVE Solvent'
    BY <1>14 DEF RefundHook, credit, Turn, RefundCredits, May
<1>15. ASSUME NEW g \in Generations,
       \E n \in 1 .. Deliveries[g] : MarkHook(g, n) PROVE Solvent'
    BY <1>15 DEF MarkHook, credit, Turn, Overwrite, SetStatus, Exists
<1>16. ASSUME NEW g \in Generations, Look(g) PROVE Solvent'
    BY <1>16 DEF Look, credit, May
<1>17. ASSUME NEW g \in Generations, StoreLook(g) PROVE Solvent'
    BY <1>17 DEF StoreLook, credit, Overwrite, SetStatus, Exists, May
<1>18. ASSUME NEW g \in Generations, FailLook(g) PROVE Solvent'
    BY <1>18 DEF FailLook, credit, Overwrite, SetStatus, Exists
<1>19. ASSUME NEW g \in Generations, DeleteGeneration(g) PROVE Solvent'
    BY <1>19 DEF DeleteGeneration, credit, SetStatus, Exists, May
<1>19a. ASSUME NEW ids \in SUBSET Generations, BulkDelete(ids) PROVE Solvent'
    BY <1>19a DEF BulkDelete, credit, Exists, May
<1>20. QED BY <1>0, <1>1, <1>2, <1>3, <1>4, <1>5, <1>6, <1>7, <1>8, <1>9,
    <1>10, <1>11, <1>12, <1>13, <1>14, <1>15, <1>16, <1>17, <1>18,
    <1>19, <1>19a DEF Next, Request, Hook

(* The webhook calls that refunded are finitely many, and one more is one  *)
(* more.                                                                   *)
LEMMA CallsCounted ==
    ASSUME NEW g \in Generations, NEW S \in SUBSET (1 .. Deliveries[g])
    PROVE  /\ Cardinality(S) \in Nat
           /\ \A T \in SUBSET S : Cardinality(T) <= Cardinality(S)
           /\ \A n \in 1 .. Deliveries[g] :
                 n \notin S => Cardinality(S \cup {n}) = Cardinality(S) + 1
<1>1. Deliveries[g] \in Nat
    BY GenerationAssumption DEF GenerationAssumption
<1>2. IsFiniteSet(1 .. Deliveries[g])
    BY <1>1, FS_Interval
<1>3. IsFiniteSet(S)
    BY <1>2, FS_Subset
<1>4. QED BY <1>3, FS_CardinalityType, FS_Subset, FS_AddElement

(* A step that refunds nothing forgets no refund that was noticed. *)
LEMMA NothingRefunded ==
    ASSUME IInv, TypeOK',
           UNCHANGED refunds,
           \A g \in Generations : fal'[g] = fal[g] \/ fal[g] # "failed",
           \A g \in Generations : Called(g) \subseteq Called(g)',
           \A g \in Generations : ByWait(g) <= ByWait(g)' /\ ByCatch(g) <= ByCatch(g)'
    PROVE  RefundsCounted'
<1> SUFFICES ASSUME NEW g \in Generations
             PROVE  refunds'[g] <= ByHook(g)' + ByWait(g)' + ByCatch(g)'
    BY DEF RefundsCounted
<1>1. Called(g) \in SUBSET (1 .. Deliveries[g]) /\ Called(g)' \in SUBSET (1 .. Deliveries[g])
    BY DEF Called
<1>2. /\ Cardinality(Called(g)) \in Nat
      /\ Cardinality(Called(g)') \in Nat
      /\ Cardinality(Called(g)) <= Cardinality(Called(g)')
    BY <1>1, CallsCounted
<1>3. ByHook(g) \in Nat /\ ByHook(g)' \in Nat /\ ByHook(g) <= ByHook(g)'
    BY <1>2 DEF ByHook
<1>4. /\ ByWait(g) \in Nat /\ ByWait(g)' \in Nat
      /\ ByCatch(g) \in Nat /\ ByCatch(g)' \in Nat
    BY DEF ByWait, ByCatch
<1>5. refunds[g] \in Nat /\ refunds[g] <= ByHook(g) + ByWait(g) + ByCatch(g)
    BY DEF IInv, TypeOK, RefundsCounted
<1>6. QED BY <1>3, <1>4, <1>5

(* A refund by the request is counted by the phase the request goes to.    *)
LEMMA RequestRefunded ==
    ASSUME IInv, TypeOK', NEW g \in Generations, RefundPolled(g) \/ Repay(g)
    PROVE  RefundsCounted'
<1>1. /\ UNCHANGED <<fal, hook, broken>>
      /\ \A h \in Generations \ {g} : refunds'[h] = refunds[h] /\ req'[h] = req[h]
      /\ refunds'[g] <= refunds[g] + 1
    BY DEF IInv, TypeOK, RefundPolled, Repay, RefundCredits, Goto, credit
<1>2. ByWait(g) + ByCatch(g) + 1 = ByWait(g)' + ByCatch(g)'
    BY DEF IInv, TypeOK, RefundsHaveCause, RefundPolled, Repay, Goto, ByWait,
       ByCatch
<1> SUFFICES ASSUME NEW h \in Generations
             PROVE  refunds'[h] <= ByHook(h)' + ByWait(h)' + ByCatch(h)'
    BY DEF RefundsCounted
<1>3. ByHook(h)' = ByHook(h) /\ ByHook(h) \in Nat
    <2>1. Called(h) \in SUBSET (1 .. Deliveries[h]) /\ Called(h)' = Called(h)
        BY <1>1 DEF Called
    <2>2. Cardinality(Called(h)) \in Nat
        BY <2>1, CallsCounted
    <2>3. QED BY <1>1, <2>1, <2>2 DEF ByHook
<1>4. refunds[h] \in Nat /\ refunds'[h] \in Nat
    BY DEF IInv, TypeOK
<1>5. refunds[h] <= ByHook(h) + ByWait(h) + ByCatch(h)
    BY DEF IInv, RefundsCounted
<1>6. /\ ByWait(h) \in Nat /\ ByWait(h)' \in Nat
      /\ ByCatch(h) \in Nat /\ ByCatch(h)' \in Nat
    BY DEF ByWait, ByCatch
<1>7. CASE h = g
    BY <1>1, <1>2, <1>3, <1>4, <1>5, <1>6, <1>7
<1>8. CASE h # g
    <2>1. ByWait(h)' = ByWait(h) /\ ByCatch(h)' = ByCatch(h) /\ refunds'[h] = refunds[h]
        BY <1>1, <1>8 DEF ByWait, ByCatch
    <2>2. QED BY <1>3, <1>4, <1>5, <1>6, <2>1
<1>9. QED BY <1>7, <1>8

(* A refund by a webhook call is counted by the phase the call goes to.    *)
LEMMA HookRefunded ==
    ASSUME IInv, TypeOK', NEW g \in Generations, NEW n \in 1 .. Deliveries[g],
           RefundHook(g, n)
    PROVE  RefundsCounted'
<1>1. /\ UNCHANGED <<fal, req, broken>>
      /\ \A h \in Generations \ {g} : refunds'[h] = refunds[h]
      /\ refunds'[g] <= refunds[g] + 1
    BY DEF IInv, TypeOK, RefundHook, RefundCredits, credit
<1>2. n \notin Called(g) /\ Called(g)' = Called(g) \cup {n}
    BY CallsExist DEF IInv, TypeOK, RefundHook, Turn, Called
<1>3. \A h \in Generations \ {g} : Called(h)' = Called(h)
    BY CallsExist DEF IInv, TypeOK, RefundHook, Turn, Called
<1>4. fal[g] = "failed"
    BY DEF IInv, AnswersAreFinal, RefundHook, Turn
<1> SUFFICES ASSUME NEW h \in Generations
             PROVE  refunds'[h] <= ByHook(h)' + ByWait(h)' + ByCatch(h)'
    BY DEF RefundsCounted
<1>5. ByWait(h)' = ByWait(h) /\ ByCatch(h)' = ByCatch(h) /\ ByWait(h) \in Nat /\ ByCatch(h) \in Nat
    BY <1>1 DEF ByWait, ByCatch
<1>6. Called(h) \in SUBSET (1 .. Deliveries[h])
    BY DEF Called
<1>7. Cardinality(Called(h)) \in Nat
    BY <1>6, CallsCounted
<1>8. refunds[h] \in Nat /\ refunds'[h] \in Nat /\ refunds[h] <= ByHook(h) + ByWait(h) + ByCatch(h)
    BY DEF IInv, TypeOK, RefundsCounted
<1>9. CASE h = g
    <2>1. Cardinality(Called(h)') = Cardinality(Called(h)) + 1
        BY <1>2, <1>6, <1>9, CallsCounted
    <2>2. ByHook(h)' = ByHook(h) + 1 /\ ByHook(h) \in Nat
        BY <1>1, <1>4, <1>7, <1>9, <2>1 DEF ByHook
    <2>3. QED BY <1>1, <1>5, <1>8, <1>9, <2>2
<1>10. CASE h # g
    <2>1. ByHook(h)' = ByHook(h) /\ ByHook(h) \in Nat
        BY <1>1, <1>3, <1>7, <1>10 DEF ByHook
    <2>2. QED BY <1>1, <1>5, <1>8, <1>10, <2>1
<1>11. QED BY <1>9, <1>10

(* Every action keeps the count; all but the three that refund are quiet.  *)
LEMMA CountStep == IInv /\ TypeOK' /\ [Next]_vars => RefundsCounted'
<1> SUFFICES ASSUME IInv, TypeOK', [Next]_vars PROVE RefundsCounted'
    OBVIOUS
<1> DEFINE Quiet ==
        /\ UNCHANGED refunds
        /\ \A g \in Generations : fal'[g] = fal[g] \/ fal[g] # "failed"
        /\ \A g \in Generations : Called(g) \subseteq Called(g)'
        /\ \A g \in Generations : ByWait(g) <= ByWait(g)' /\ ByCatch(g) <= ByCatch(g)'
<1>0. Quiet => RefundsCounted'
    BY NothingRefunded
<1>1. ASSUME NEW g \in Generations, Check(g) PROVE Quiet
    BY <1>1, CallsExist DEF Check, credit, IInv, TypeOK, Called, ByWait,
       ByCatch, Goto, Affords
<1>2. ASSUME NEW g \in Generations, Submit(g) PROVE Quiet
    BY <1>2, CallsExist DEF Submit, credit, IInv, TypeOK, Called, ByWait,
       ByCatch, Goto, BeforeDebit
<1>3. ASSUME NEW g \in Generations, Debit(g) PROVE Quiet
    BY <1>3, CallsExist DEF Debit, credit, IInv, TypeOK, Called, ByWait,
       ByCatch, Goto
<1>4. ASSUME NEW g \in Generations, Poll(g) PROVE Quiet
    BY <1>4, CallsExist DEF Poll, AfterError, UploadFails, credit, IInv, TypeOK, Called, ByWait,
       ByCatch, Goto
<1>5. ASSUME NEW g \in Generations, Timeout(g) PROVE Quiet
    BY <1>5, CallsExist DEF Timeout, AfterError, credit, IInv, TypeOK, Called, ByWait,
       ByCatch, Goto
<1>6. ASSUME NEW g \in Generations, RefundPolled(g) PROVE RefundsCounted'
    BY <1>6, RequestRefunded
<1>7. ASSUME NEW g \in Generations, MarkPolled(g) PROVE Quiet
    BY <1>7, CallsExist DEF MarkPolled, credit, IInv, TypeOK, Called, ByWait,
       ByCatch, Goto
<1>8. ASSUME NEW g \in Generations, FailRequest(g) PROVE Quiet
    BY <1>8, CallsExist DEF FailRequest, credit, IInv, TypeOK, Called, ByWait,
       ByCatch, Goto
<1>9. ASSUME NEW g \in Generations, Repay(g) PROVE RefundsCounted'
    BY <1>9, RequestRefunded
<1>10. ASSUME NEW g \in Generations, FalFinishes(g) PROVE Quiet
    BY <1>10, CallsExist DEF FalFinishes, credit, IInv, TypeOK,
       AnswersAreFinal, Called, ByWait, ByCatch
<1>11. ASSUME NEW g \in Generations,
       \E n \in 1 .. (Deliveries[g] - 1) : FalRepeats(g, n) PROVE Quiet
    BY <1>11, CallsExist DEF FalRepeats, credit, IInv, TypeOK, Called, ByWait,
       ByCatch
<1>12. ASSUME NEW g \in Generations,
       \E n \in 1 .. Deliveries[g] : ReceiveHook(g, n) PROVE Quiet
    BY <1>12, CallsExist DEF ReceiveHook, credit, IInv, TypeOK, Called,
       ByWait, ByCatch, Turn
<1>13. ASSUME NEW g \in Generations,
       \E n \in 1 .. Deliveries[g] : StoreHook(g, n) PROVE Quiet
    BY <1>13, CallsExist DEF StoreHook, credit, IInv, TypeOK, Called, ByWait,
       ByCatch, Turn
<1>14. ASSUME NEW g \in Generations,
       \E n \in 1 .. Deliveries[g] : RefundHook(g, n)
       PROVE RefundsCounted'
    BY <1>14, HookRefunded
<1>15. ASSUME NEW g \in Generations,
       \E n \in 1 .. Deliveries[g] : MarkHook(g, n) PROVE Quiet
    BY <1>15, CallsExist DEF MarkHook, credit, IInv, TypeOK, Called, ByWait,
       ByCatch, Turn
<1>16. ASSUME NEW g \in Generations, Look(g) PROVE Quiet
    BY <1>16, CallsExist DEF Look, credit, IInv, TypeOK, Called, ByWait, ByCatch
<1>17. ASSUME NEW g \in Generations, StoreLook(g) PROVE Quiet
    BY <1>17, CallsExist DEF StoreLook, credit, IInv, TypeOK, Called, ByWait,
       ByCatch
<1>18. ASSUME NEW g \in Generations, FailLook(g) PROVE Quiet
    BY <1>18, CallsExist DEF FailLook, credit, IInv, TypeOK, Called, ByWait,
       ByCatch
<1>19. ASSUME NEW g \in Generations, DeleteGeneration(g) PROVE Quiet
    BY <1>19, CallsExist DEF DeleteGeneration, credit, IInv, TypeOK, Called,
       ByWait, ByCatch
<1>19a. ASSUME NEW ids \in SUBSET Generations, BulkDelete(ids) PROVE Quiet
    BY <1>19a, CallsExist DEF BulkDelete, credit, IInv, TypeOK, Called,
       ByWait, ByCatch
<1>20. CASE UNCHANGED vars
    <2>1. Quiet
        BY <1>20 DEF vars, credit, Called, ByWait, ByCatch
    <2>2. QED BY <1>0, <2>1
<1>21. QED BY <1>0, <1>1, <1>2, <1>3, <1>4, <1>5, <1>6, <1>7, <1>8, <1>9,
    <1>10, <1>11, <1>12, <1>13, <1>14, <1>15, <1>16, <1>17, <1>18, <1>19,
    <1>19a, <1>20 DEF Next, Request, Hook

-----------------------------------------------------------------------------
LEMMA InitInvariant == Init => IInv
<1> SUFFICES ASSUME Init PROVE IInv
    OBVIOUS
<1>1. TypeOK
    BY GenerationAssumption DEF GenerationAssumption, Init, TypeOK, Requests,
       Hooks, Statuses
<1>2. BeforeDebit /\ TrackedIsPaid /\ AnswersAreFinal /\ RefundsHaveCause
    BY CallsExist DEF Init, BeforeDebit, TrackedIsPaid, AnswersAreFinal,
       RefundsHaveCause
<1>3. Solvent
    BY GenerationAssumption DEF GenerationAssumption, Init, Solvent
<1>4. RefundsCounted
    BY DEF Init, RefundsCounted, ByHook, ByWait, ByCatch
<1>5. QED BY <1>1, <1>2, <1>3, <1>4 DEF IInv

(* The inductive invariant holds in every reachable state.                 *)
THEOREM Invariance == Spec => []IInv
<1>1. Init => IInv
    BY InitInvariant
<1>2. IInv /\ [Next]_vars => IInv'
    BY TypeStep, BeforeDebitStep, TrackedStep, AnswersStep, CauseStep,
       SolventStep, CountStep
    DEF IInv
<1>3. QED BY <1>1, <1>2, PTL DEF Spec

(* Every variable of the generations keeps its type. *)
THEOREM TypeCorrectness == Spec => []TypeOK
<1>1. IInv => TypeOK
    BY DEF IInv
<1>2. QED BY <1>1, Invariance, PTL

(* However requests interleave between checkUserCredits and the debit, it  *)
(* takes two that were debited to overdraw the balance.                    *)
THEOREM OverdraftSafety == Spec => []OverdrawnOnlyByOverlap
<1>1. IInv => OverdrawnOnlyByOverlap
    <2> SUFFICES ASSUME IInv, available < 0 PROVE Cardinality(debited) >= 2
        BY DEF OverdrawnOnlyByOverlap
    <2>1. PICK g, h \in debited : g # h
        BY DEF IInv, TypeOK, Solvent
    <2>2. IsFiniteSet(debited)
        BY GenerationAssumption, FS_Subset
        DEF GenerationAssumption, IInv, TypeOK
    <2>3. IsFiniteSet({g}) /\ Cardinality({g}) = 1
        BY FS_Singleton
    <2>4. Cardinality({g, h}) = 2
        <3>1. Cardinality({g} \cup {h}) = Cardinality({g}) + 1
            BY <2>1, <2>3, FS_AddElement
        <3>2. {g} \cup {h} = {g, h}
            OBVIOUS
        <3>3. QED BY <2>3, <3>1, <3>2
    <2>5. Cardinality({g, h}) <= Cardinality(debited)
        BY <2>1, <2>2, FS_Subset
    <2>6. Cardinality(debited) \in Nat
        BY <2>2, FS_CardinalityType
    <2>7. QED BY <2>4, <2>5, <2>6
<1>2. QED BY <1>1, Invariance, PTL

(* Whatever the wait, the webhook and the status query write over each     *)
(* other, an image that is shown was paid for, and was not refunded unless *)
(* its request broke down.                                                 *)
THEOREM DeliverySafety == Spec => []CompletedIsPaid
<1>1. IInv => CompletedIsPaid
    BY DEF IInv, TypeOK, TrackedIsPaid, AnswersAreFinal, RefundsHaveCause,
       CompletedIsPaid
<1>2. QED BY <1>1, Invariance, PTL

(* Refunds of the wait, of its catch and of repeated webhook calls never   *)
(* outnumber the failures that were noticed.                               *)
THEOREM RefundSafety == Spec => []RefundsAreExplained
<1>1. IInv => RefundsAreExplained
    <2> SUFFICES ASSUME IInv, NEW g \in Generations
                 PROVE  refunds[g] <= (IF g \in broken THEN 2 ELSE 0) + Noticed(g)
        BY DEF RefundsAreExplained
    <2>1. Called(g) \in SUBSET (1 .. Deliveries[g])
        BY DEF Called
    <2>2. Cardinality(Called(g)) \in Nat
        BY <2>1, CallsCounted
    <2>3. refunds[g] \in Nat /\ refunds[g] <= ByHook(g) + ByWait(g) + ByCatch(g)
        BY DEF IInv, TypeOK, RefundsCounted
    <2>4. refunds[g] # 0 => fal[g] = "failed" \/ g \in broken
        BY DEF IInv, RefundsHaveCause
    <2>5. Noticed(g) = IF fal[g] = "failed" THEN 1 + Cardinality(Called(g)) ELSE 0
        BY DEF Noticed, Called
    <2>6. QED BY <2>2, <2>3, <2>4, <2>5 DEF ByHook, ByWait, ByCatch
<1>2. QED BY <1>1, Invariance, PTL
=============================================================================
