-------------------------- MODULE MemeSessionProofs --------------------------
(***************************************************************************)
(* Safety of MemeSession for every set of messages and deletions, every    *)
(* sequence of tool calls, every price and every set of faults.            *)
(***************************************************************************)
EXTENDS MemeSession, TLAPS

(* A message has not been offered research before it was admitted; the one *)
(* at work that was offered it is the only one with a report.              *)
OfferedFirst ==
    \A m \in Messages :
        /\ req[m] \in {"new", "found", "absent", "opened", "begun", "validated"}
              => m \notin enabled
        /\ m \in enabled /\ req[m] \in {"admitted"} \cup Trying =>
              \A n \in Messages : reports[n] > 0 => n = m

(* What is about to be charged is the first call in line.                  *)
PayingHasTool == \A m \in Messages : req[m] = "paying" => todo[m] # <<>>

(* A message is at most one report ahead of its payments, and only while   *)
(* it pays, unless the balance, the ledger or the process kept it from it. *)
PaidInTurn ==
    \A m \in Messages :
        reports[m] > paid[m] =>
            \/ /\ req[m] = "paying" /\ Head(todo[m]) = "research"
               /\ reports[m] = paid[m] + 1
            \/ credits < Cost["research"]
            \/ req[m] = "dead" \/ May("database")

(* The mark and its holder, without what a poll makes of them.             *)
Owned ==
    /\ (stream = "streaming") <=> (Holders # {})
    /\ \A m, n \in Holders : m = n

IInv ==
    /\ TypeOK
    /\ PayingHasTool
    /\ Owned
    /\ OfferedFirst
    /\ ResearchedOnce
    /\ PaidInTurn
-----------------------------------------------------------------------------
(* Every action keeps the types; a call is taken off a sequence that has   *)
(* one.                                                                    *)
LEMMA TypeStep == IInv /\ [Next]_vars => TypeOK'
<1> SUFFICES ASSUME IInv, [Next]_vars PROVE TypeOK'
    OBVIOUS
<1> USE MemeAssumption DEF MemeAssumption, IInv, TypeOK, MemeResearchSession,
    MemeReports, StreamingState, Steps, Preparing,
    Trying, Stuck, PayingHasTool
<1>0. CASE UNCHANGED vars
    BY <1>0 DEF vars, rows, locals
<1>1. ASSUME NEW m \in Messages, Look(m) PROVE TypeOK'
    BY <1>1 DEF Look, Goto, rows, locals
<1>2. ASSUME NEW m \in Messages, Open(m) PROVE TypeOK'
    BY <1>2 DEF Open, Goto, rows, locals
<1>3. ASSUME NEW m \in Messages, Begin(m) PROVE TypeOK'
    BY <1>3 DEF Begin, Goto, rows, locals
<1>4. ASSUME NEW m \in Messages, Validate(m) PROVE TypeOK'
    BY <1>4 DEF Validate, Goto, rows, locals
<1>5. ASSUME NEW m \in Messages, Admit(m) PROVE TypeOK'
    BY <1>5 DEF Admit, Goto, Researched, rows, locals
<1>6. ASSUME NEW m \in Messages, SaveQuestion(m) PROVE TypeOK'
    BY <1>6 DEF SaveQuestion, Goto, rows, locals
<1>7. ASSUME NEW m \in Messages, Throw(m) PROVE TypeOK'
    BY <1>7 DEF Throw, Goto, rows, locals
<1>8. ASSUME NEW m \in Messages, Ask(m) PROVE TypeOK'
    BY <1>8 DEF Ask, Goto, rows, locals
<1>9. ASSUME NEW m \in Messages, Execute(m) PROVE TypeOK'
    <2> DEFINE tool == Head(todo[m])
    <2>1. CASE /\ req' = [req EXCEPT ![m] = "paying"]
               /\ reports' = IF tool = "research"
                             THEN [reports EXCEPT ![m] = @ + 1] ELSE reports
               /\ UNCHANGED <<todo, missing>>
        BY <1>9, <2>1 DEF Execute
    <2>2. CASE /\ todo' = [todo EXCEPT ![m] = Tail(@)]
               /\ missing' = IF tool = "stored" THEN missing \cup {m} ELSE missing
               /\ UNCHANGED <<req, reports>>
        <3>1. todo[m] \in Seq(Tools) /\ todo[m] # <<>>
            BY <1>9 DEF Execute
        <3>2. Tail(todo[m]) \in Seq(Tools)
            BY <3>1
        <3>3. QED
            BY <1>9, <2>2, <3>2 DEF Execute
    <2>3. QED
        BY <1>9, <2>1, <2>2 DEF Execute
<1>10. ASSUME NEW m \in Messages, Charge(m) PROVE TypeOK'
    BY <1>10 DEF Charge, Goto, rows, locals
<1>11. ASSUME NEW m \in Messages, FallBack(m) PROVE TypeOK'
    BY <1>11 DEF FallBack, rows, locals, Tools
<1>12. ASSUME NEW m \in Messages, EndTools(m) PROVE TypeOK'
    BY <1>12 DEF EndTools, Goto, rows, locals
<1>13. ASSUME NEW m \in Messages, Answer(m) PROVE TypeOK'
    BY <1>13 DEF Answer, Goto, rows, locals
<1>14. ASSUME NEW m \in Messages, SaveAnswer(m) PROVE TypeOK'
    BY <1>14 DEF SaveAnswer, Goto, rows, locals
<1>15. ASSUME NEW m \in Messages, Fail(m) PROVE TypeOK'
    BY <1>15 DEF Fail, Goto, rows, locals
<1>16. ASSUME NEW m \in Messages, Leave(m) PROVE TypeOK'
    BY <1>16 DEF Leave, Goto, rows, locals
<1>17. ASSUME NEW d \in Deletes, StartDelete(d) PROVE TypeOK'
    BY <1>17 DEF StartDelete, Goto, rows, locals
<1>18. ASSUME NEW d \in Deletes, DropRow(d) PROVE TypeOK'
    BY <1>18 DEF DropRow, Goto, rows, locals
<1>19. CASE Forget
    BY <1>19 DEF Forget, rows, locals
<1>20. CASE Crash
    BY <1>20 DEF Crash, rows, locals
<1>21. QED
    BY <1>0, <1>1, <1>2, <1>3, <1>4, <1>5, <1>6, <1>7, <1>8, <1>9, <1>10,
        <1>11, <1>12, <1>13, <1>14, <1>15, <1>16, <1>17, <1>18, <1>19, <1>20
        DEF Next

(* Only the execution of a call leads to a payment.                        *)
LEMMA PayingStep == IInv /\ [Next]_vars => PayingHasTool'
<1> SUFFICES ASSUME IInv, [Next]_vars PROVE PayingHasTool'
    OBVIOUS
<1> USE MemeAssumption DEF MemeAssumption, IInv, TypeOK, MemeResearchSession,
    MemeReports, StreamingState, Steps, Preparing,
    Trying, Stuck, PayingHasTool
<1>0. CASE UNCHANGED vars
    BY <1>0 DEF vars, rows, locals
<1>1. ASSUME NEW m \in Messages, Look(m) PROVE PayingHasTool'
    BY <1>1 DEF Look, Goto, rows, locals
<1>2. ASSUME NEW m \in Messages, Open(m) PROVE PayingHasTool'
    BY <1>2 DEF Open, Goto, rows, locals
<1>3. ASSUME NEW m \in Messages, Begin(m) PROVE PayingHasTool'
    BY <1>3 DEF Begin, Goto, rows, locals
<1>4. ASSUME NEW m \in Messages, Validate(m) PROVE PayingHasTool'
    BY <1>4 DEF Validate, Goto, rows, locals
<1>5. ASSUME NEW m \in Messages, Admit(m) PROVE PayingHasTool'
    BY <1>5 DEF Admit, Goto, Researched, rows, locals
<1>6. ASSUME NEW m \in Messages, SaveQuestion(m) PROVE PayingHasTool'
    BY <1>6 DEF SaveQuestion, Goto, rows, locals
<1>7. ASSUME NEW m \in Messages, Throw(m) PROVE PayingHasTool'
    BY <1>7 DEF Throw, Goto, rows, locals
<1>8. ASSUME NEW m \in Messages, Ask(m) PROVE PayingHasTool'
    BY <1>8 DEF Ask, Goto, rows, locals
<1>9. ASSUME NEW m \in Messages, Execute(m) PROVE PayingHasTool'
    BY <1>9 DEF Execute, Succeeds, CanReport, rows, locals
<1>10. ASSUME NEW m \in Messages, Charge(m) PROVE PayingHasTool'
    BY <1>10 DEF Charge, Goto, rows, locals
<1>11. ASSUME NEW m \in Messages, FallBack(m) PROVE PayingHasTool'
    BY <1>11 DEF FallBack, rows, locals
<1>12. ASSUME NEW m \in Messages, EndTools(m) PROVE PayingHasTool'
    BY <1>12 DEF EndTools, Goto, rows, locals
<1>13. ASSUME NEW m \in Messages, Answer(m) PROVE PayingHasTool'
    BY <1>13 DEF Answer, Goto, rows, locals
<1>14. ASSUME NEW m \in Messages, SaveAnswer(m) PROVE PayingHasTool'
    BY <1>14 DEF SaveAnswer, Goto, rows, locals
<1>15. ASSUME NEW m \in Messages, Fail(m) PROVE PayingHasTool'
    BY <1>15 DEF Fail, Goto, rows, locals
<1>16. ASSUME NEW m \in Messages, Leave(m) PROVE PayingHasTool'
    BY <1>16 DEF Leave, Goto, rows, locals
<1>17. ASSUME NEW d \in Deletes, StartDelete(d) PROVE PayingHasTool'
    BY <1>17 DEF StartDelete, Goto, rows, locals
<1>18. ASSUME NEW d \in Deletes, DropRow(d) PROVE PayingHasTool'
    BY <1>18 DEF DropRow, Goto, rows, locals
<1>19. CASE Forget
    BY <1>19 DEF Forget, rows, locals
<1>20. CASE Crash
    BY <1>20 DEF Crash, rows, locals
<1>21. QED
    BY <1>0, <1>1, <1>2, <1>3, <1>4, <1>5, <1>6, <1>7, <1>8, <1>9, <1>10,
        <1>11, <1>12, <1>13, <1>14, <1>15, <1>16, <1>17, <1>18, <1>19, <1>20
        DEF Next

(* The mark is set when nobody holds it, and taken back by its holder.     *)
LEMMA OwnerStep == IInv /\ [Next]_vars => Owned'
<1> SUFFICES ASSUME IInv, [Next]_vars PROVE Owned'
    OBVIOUS
<1> USE MemeAssumption DEF MemeAssumption, IInv, TypeOK, MemeResearchSession,
    MemeReports, StreamingState, Steps, Preparing,
    Trying, Stuck, Owned, Holders
<1>0. CASE UNCHANGED vars
    BY <1>0 DEF vars, rows, locals
<1>1. ASSUME NEW m \in Messages, Look(m) PROVE Owned'
    BY <1>1 DEF Look, Goto, rows, locals
<1>2. ASSUME NEW m \in Messages, Open(m) PROVE Owned'
    <2>1. \A n \in Messages :
             \/ req'[n] = req[n]
             \/ /\ n = m
                /\ req[m] \in {"found", "absent"}
                /\ req'[m] \in {"opened", "failed"}
        BY <1>2 DEF Open, Goto
    <2>2. stream' = stream
        BY <1>2 DEF Open
    <2>3. \A n \in Messages : n \in Holders' <=> n \in Holders
        BY <2>1
    <2>4. QED
        BY <2>2, <2>3
<1>3. ASSUME NEW m \in Messages, Begin(m) PROVE Owned'
    BY <1>3 DEF Begin, Goto, rows, locals
<1>4. ASSUME NEW m \in Messages, Validate(m) PROVE Owned'
    BY <1>4 DEF Validate, Goto, rows, locals
<1>5. ASSUME NEW m \in Messages, Admit(m) PROVE Owned'
    BY <1>5 DEF Admit, Goto, Researched, rows, locals
<1>6. ASSUME NEW m \in Messages, SaveQuestion(m) PROVE Owned'
    BY <1>6 DEF SaveQuestion, Goto, rows, locals
<1>7. ASSUME NEW m \in Messages, Throw(m) PROVE Owned'
    BY <1>7 DEF Throw, Goto, rows, locals
<1>8. ASSUME NEW m \in Messages, Ask(m) PROVE Owned'
    BY <1>8 DEF Ask, Goto, rows, locals
<1>9. ASSUME NEW m \in Messages, Execute(m) PROVE Owned'
    BY <1>9 DEF Execute, Succeeds, CanReport, rows, locals
<1>10. ASSUME NEW m \in Messages, Charge(m) PROVE Owned'
    BY <1>10 DEF Charge, Goto, rows, locals
<1>11. ASSUME NEW m \in Messages, FallBack(m) PROVE Owned'
    BY <1>11 DEF FallBack, rows, locals
<1>12. ASSUME NEW m \in Messages, EndTools(m) PROVE Owned'
    BY <1>12 DEF EndTools, Goto, rows, locals
<1>13. ASSUME NEW m \in Messages, Answer(m) PROVE Owned'
    BY <1>13 DEF Answer, Goto, rows, locals
<1>14. ASSUME NEW m \in Messages, SaveAnswer(m) PROVE Owned'
    BY <1>14 DEF SaveAnswer, Goto, rows, locals
<1>15. ASSUME NEW m \in Messages, Fail(m) PROVE Owned'
    <2>1. /\ req[m] \in {"asking", "answering", "saving"}
          /\ req' = [req EXCEPT ![m] = "failed"]
          /\ stream' = "idle"
        BY <1>15 DEF Fail, Goto
    <2>2. \A n \in Messages : n \in Holders => n = m
        BY <2>1
    <2>3. QED
        BY <2>1, <2>2
<1>16. ASSUME NEW m \in Messages, Leave(m) PROVE Owned'
    BY <1>16 DEF Leave, Goto, rows, locals
<1>17. ASSUME NEW d \in Deletes, StartDelete(d) PROVE Owned'
    BY <1>17 DEF StartDelete, Goto, rows, locals
<1>18. ASSUME NEW d \in Deletes, DropRow(d) PROVE Owned'
    BY <1>18 DEF DropRow, Goto, rows, locals
<1>19. CASE Forget
    BY <1>19 DEF Forget, rows, locals
<1>20. CASE Crash
    BY <1>20 DEF Crash, rows, locals
<1>21. QED
    BY <1>0, <1>1, <1>2, <1>3, <1>4, <1>5, <1>6, <1>7, <1>8, <1>9, <1>10,
        <1>11, <1>12, <1>13, <1>14, <1>15, <1>16, <1>17, <1>18, <1>19, <1>20
        DEF Next

(* Research is offered when there is no report, and only its holder writes *)
(* one.                                                                    *)
LEMMA OfferStep == IInv /\ [Next]_vars => OfferedFirst'
<1> SUFFICES ASSUME IInv, [Next]_vars PROVE OfferedFirst'
    OBVIOUS
<1> USE MemeAssumption DEF MemeAssumption, IInv, TypeOK, MemeResearchSession,
    MemeReports, StreamingState, Steps, Preparing,
    Trying, Stuck, Owned, Holders, OfferedFirst
<1>0. CASE UNCHANGED vars
    BY <1>0 DEF vars, rows, locals
<1>1. ASSUME NEW m \in Messages, Look(m) PROVE OfferedFirst'
    BY <1>1 DEF Look, Goto, rows, locals
<1>2. ASSUME NEW m \in Messages, Open(m) PROVE OfferedFirst'
    BY <1>2 DEF Open, Goto, rows, locals
<1>3. ASSUME NEW m \in Messages, Begin(m) PROVE OfferedFirst'
    BY <1>3 DEF Begin, Goto, rows, locals
<1>4. ASSUME NEW m \in Messages, Validate(m) PROVE OfferedFirst'
    BY <1>4 DEF Validate, Goto, rows, locals
<1>5. ASSUME NEW m \in Messages, Admit(m) PROVE OfferedFirst'
    BY <1>5 DEF Admit, Goto, Researched, rows, locals
<1>6. ASSUME NEW m \in Messages, SaveQuestion(m) PROVE OfferedFirst'
    BY <1>6 DEF SaveQuestion, Goto, rows, locals
<1>7. ASSUME NEW m \in Messages, Throw(m) PROVE OfferedFirst'
    BY <1>7 DEF Throw, Goto, rows, locals
<1>8. ASSUME NEW m \in Messages, Ask(m) PROVE OfferedFirst'
    BY <1>8 DEF Ask, Goto, rows, locals
<1>9. ASSUME NEW m \in Messages, Execute(m) PROVE OfferedFirst'
    BY <1>9 DEF Execute, Succeeds, CanReport, rows, locals
<1>10. ASSUME NEW m \in Messages, Charge(m) PROVE OfferedFirst'
    BY <1>10 DEF Charge, Goto, rows, locals
<1>11. ASSUME NEW m \in Messages, FallBack(m) PROVE OfferedFirst'
    BY <1>11 DEF FallBack, rows, locals
<1>12. ASSUME NEW m \in Messages, EndTools(m) PROVE OfferedFirst'
    BY <1>12 DEF EndTools, Goto, rows, locals
<1>13. ASSUME NEW m \in Messages, Answer(m) PROVE OfferedFirst'
    BY <1>13 DEF Answer, Goto, rows, locals
<1>14. ASSUME NEW m \in Messages, SaveAnswer(m) PROVE OfferedFirst'
    BY <1>14 DEF SaveAnswer, Goto, rows, locals
<1>15. ASSUME NEW m \in Messages, Fail(m) PROVE OfferedFirst'
    BY <1>15 DEF Fail, Goto, rows, locals
<1>16. ASSUME NEW m \in Messages, Leave(m) PROVE OfferedFirst'
    BY <1>16 DEF Leave, Goto, rows, locals
<1>17. ASSUME NEW d \in Deletes, StartDelete(d) PROVE OfferedFirst'
    BY <1>17 DEF StartDelete, Goto, rows, locals
<1>18. ASSUME NEW d \in Deletes, DropRow(d) PROVE OfferedFirst'
    BY <1>18 DEF DropRow, Goto, rows, locals
<1>19. CASE Forget
    BY <1>19 DEF Forget, rows, locals
<1>20. CASE Crash
    BY <1>20 DEF Crash, rows, locals
<1>21. QED
    BY <1>0, <1>1, <1>2, <1>3, <1>4, <1>5, <1>6, <1>7, <1>8, <1>9, <1>10,
        <1>11, <1>12, <1>13, <1>14, <1>15, <1>16, <1>17, <1>18, <1>19, <1>20
        DEF Next

(* A report is written by a message that was offered research.             *)
LEMMA ResearchStep == IInv /\ [Next]_vars => ResearchedOnce'
<1> SUFFICES ASSUME IInv, [Next]_vars PROVE ResearchedOnce'
    OBVIOUS
<1> USE MemeAssumption DEF MemeAssumption, IInv, TypeOK, MemeResearchSession,
    MemeReports, StreamingState, Steps, Preparing,
    Trying, Stuck, OfferedFirst, ResearchedOnce
<1>0. CASE UNCHANGED vars
    BY <1>0 DEF vars, rows, locals
<1>1. ASSUME NEW m \in Messages, Look(m) PROVE ResearchedOnce'
    BY <1>1 DEF Look, Goto, rows, locals
<1>2. ASSUME NEW m \in Messages, Open(m) PROVE ResearchedOnce'
    BY <1>2 DEF Open, Goto, rows, locals
<1>3. ASSUME NEW m \in Messages, Begin(m) PROVE ResearchedOnce'
    BY <1>3 DEF Begin, Goto, rows, locals
<1>4. ASSUME NEW m \in Messages, Validate(m) PROVE ResearchedOnce'
    BY <1>4 DEF Validate, Goto, rows, locals
<1>5. ASSUME NEW m \in Messages, Admit(m) PROVE ResearchedOnce'
    BY <1>5 DEF Admit, Goto, Researched, rows, locals
<1>6. ASSUME NEW m \in Messages, SaveQuestion(m) PROVE ResearchedOnce'
    BY <1>6 DEF SaveQuestion, Goto, rows, locals
<1>7. ASSUME NEW m \in Messages, Throw(m) PROVE ResearchedOnce'
    BY <1>7 DEF Throw, Goto, rows, locals
<1>8. ASSUME NEW m \in Messages, Ask(m) PROVE ResearchedOnce'
    BY <1>8 DEF Ask, Goto, rows, locals
<1>9. ASSUME NEW m \in Messages, Execute(m) PROVE ResearchedOnce'
    BY <1>9 DEF Execute, Succeeds, CanReport, rows, locals
<1>10. ASSUME NEW m \in Messages, Charge(m) PROVE ResearchedOnce'
    BY <1>10 DEF Charge, Goto, rows, locals
<1>11. ASSUME NEW m \in Messages, FallBack(m) PROVE ResearchedOnce'
    BY <1>11 DEF FallBack, rows, locals
<1>12. ASSUME NEW m \in Messages, EndTools(m) PROVE ResearchedOnce'
    BY <1>12 DEF EndTools, Goto, rows, locals
<1>13. ASSUME NEW m \in Messages, Answer(m) PROVE ResearchedOnce'
    BY <1>13 DEF Answer, Goto, rows, locals
<1>14. ASSUME NEW m \in Messages, SaveAnswer(m) PROVE ResearchedOnce'
    BY <1>14 DEF SaveAnswer, Goto, rows, locals
<1>15. ASSUME NEW m \in Messages, Fail(m) PROVE ResearchedOnce'
    BY <1>15 DEF Fail, Goto, rows, locals
<1>16. ASSUME NEW m \in Messages, Leave(m) PROVE ResearchedOnce'
    BY <1>16 DEF Leave, Goto, rows, locals
<1>17. ASSUME NEW d \in Deletes, StartDelete(d) PROVE ResearchedOnce'
    BY <1>17 DEF StartDelete, Goto, rows, locals
<1>18. ASSUME NEW d \in Deletes, DropRow(d) PROVE ResearchedOnce'
    BY <1>18 DEF DropRow, Goto, rows, locals
<1>19. CASE Forget
    BY <1>19 DEF Forget, rows, locals
<1>20. CASE Crash
    BY <1>20 DEF Crash, rows, locals
<1>21. QED
    BY <1>0, <1>1, <1>2, <1>3, <1>4, <1>5, <1>6, <1>7, <1>8, <1>9, <1>10,
        <1>11, <1>12, <1>13, <1>14, <1>15, <1>16, <1>17, <1>18, <1>19, <1>20
        DEF Next

(* A report is followed by its payment.                                    *)
LEMMA PaidStep == IInv /\ [Next]_vars => PaidInTurn'
<1> SUFFICES ASSUME IInv, [Next]_vars PROVE PaidInTurn'
    OBVIOUS
<1> USE MemeAssumption DEF MemeAssumption, IInv, TypeOK, MemeResearchSession,
    MemeReports, StreamingState, Steps, Preparing,
    Trying, Stuck, May, PayingHasTool, PaidInTurn
<1>0. CASE UNCHANGED vars
    BY <1>0 DEF vars, rows, locals
<1>1. ASSUME NEW m \in Messages, Look(m) PROVE PaidInTurn'
    BY <1>1 DEF Look, Goto, rows, locals
<1>2. ASSUME NEW m \in Messages, Open(m) PROVE PaidInTurn'
    BY <1>2 DEF Open, Goto, rows, locals
<1>3. ASSUME NEW m \in Messages, Begin(m) PROVE PaidInTurn'
    BY <1>3 DEF Begin, Goto, rows, locals
<1>4. ASSUME NEW m \in Messages, Validate(m) PROVE PaidInTurn'
    BY <1>4 DEF Validate, Goto, rows, locals
<1>5. ASSUME NEW m \in Messages, Admit(m) PROVE PaidInTurn'
    BY <1>5 DEF Admit, Goto, Researched, rows, locals
<1>6. ASSUME NEW m \in Messages, SaveQuestion(m) PROVE PaidInTurn'
    BY <1>6 DEF SaveQuestion, Goto, rows, locals
<1>7. ASSUME NEW m \in Messages, Throw(m) PROVE PaidInTurn'
    BY <1>7 DEF Throw, Goto, rows, locals
<1>8. ASSUME NEW m \in Messages, Ask(m) PROVE PaidInTurn'
    BY <1>8 DEF Ask, Goto, rows, locals
<1>9. ASSUME NEW m \in Messages, Execute(m) PROVE PaidInTurn'
    <2>1. /\ UNCHANGED <<credits, paid, faults>>
          /\ req[m] = "tools"
          /\ Cost["research"] \in Nat
        BY <1>9 DEF Execute, Tools
    <2>2. CASE UNCHANGED <<req, reports>>
        <3>1. \A n \in Messages \ {m} : todo'[n] = todo[n]
            BY <1>9 DEF Execute
        <3>2. QED
            BY <2>1, <2>2, <3>1
    <2>3. CASE /\ req' = [req EXCEPT ![m] = "paying"]
               /\ reports' = IF Head(todo[m]) = "research"
                             THEN [reports EXCEPT ![m] = @ + 1] ELSE reports
               /\ UNCHANGED <<todo, missing>>
        BY <2>1, <2>3
    <2>4. QED
        BY <1>9, <2>2, <2>3 DEF Execute
<1>10. ASSUME NEW m \in Messages, Charge(m) PROVE PaidInTurn'
    <2> DEFINE tool == Head(todo[m])
    <2>1. tool \in Tools /\ Cost[tool] \in Nat /\ Cost["research"] \in Nat
        BY <1>10 DEF Charge, Goto, Tools
    <2>2. /\ UNCHANGED <<reports, faults>>
          /\ req[m] = "paying" /\ req' = [req EXCEPT ![m] = "tools"]
          /\ \A n \in Messages \ {m} : todo'[n] = todo[n]
        BY <1>10 DEF Charge, Goto
    <2>3. CASE /\ credits >= Cost[tool]
               /\ credits' = credits - Cost[tool]
               /\ paid' = IF tool = "research" THEN [paid EXCEPT ![m] = @ + 1] ELSE paid
        <3>1. credits' <= credits /\ credits' \in Int
            BY <2>1, <2>3
        <3>2. \A n \in Messages \ {m} : paid'[n] = paid[n] /\ req'[n] = req[n]
            BY <2>2, <2>3
        <3>3. reports[m] > paid'[m] =>
                 credits < Cost["research"] \/ May("database")
            BY <2>1, <2>2, <2>3
        <3>4. SUFFICES ASSUME NEW n \in Messages, (reports[n] > paid[n])'
                       PROVE  \/ /\ req'[n] = "paying" /\ Head(todo'[n]) = "research"
                                 /\ reports'[n] = paid'[n] + 1
                              \/ credits' < Cost["research"]
                              \/ req'[n] = "dead" \/ May("database")'
            BY DEF PaidInTurn
        <3>5. credits < Cost["research"] => credits' < Cost["research"]
            BY <2>1, <3>1
        <3>6. May("database") <=> May("database")'
            BY <2>2 DEF May
        <3>7. CASE n = m
            BY <2>2, <3>3, <3>4, <3>5, <3>6, <3>7
        <3>8. CASE n # m
            <4>1. /\ reports'[n] = reports[n] /\ paid'[n] = paid[n]
                  /\ req'[n] = req[n] /\ todo'[n] = todo[n]
                BY <2>2, <3>2, <3>8
            <4>2. QED
                BY <3>4, <3>5, <3>6, <4>1
        <3>9. QED
            BY <3>7, <3>8
    <2>4. CASE (credits < Cost[tool] \/ May("database")) /\ UNCHANGED <<credits, paid>>
        BY <2>1, <2>2, <2>4
    <2>5. QED
        BY <1>10, <2>3, <2>4 DEF Charge
<1>11. ASSUME NEW m \in Messages, FallBack(m) PROVE PaidInTurn'
    BY <1>11 DEF FallBack, rows, locals
<1>12. ASSUME NEW m \in Messages, EndTools(m) PROVE PaidInTurn'
    BY <1>12 DEF EndTools, Goto, rows, locals
<1>13. ASSUME NEW m \in Messages, Answer(m) PROVE PaidInTurn'
    BY <1>13 DEF Answer, Goto, rows, locals
<1>14. ASSUME NEW m \in Messages, SaveAnswer(m) PROVE PaidInTurn'
    BY <1>14 DEF SaveAnswer, Goto, rows, locals
<1>15. ASSUME NEW m \in Messages, Fail(m) PROVE PaidInTurn'
    BY <1>15 DEF Fail, Goto, rows, locals
<1>16. ASSUME NEW m \in Messages, Leave(m) PROVE PaidInTurn'
    BY <1>16 DEF Leave, Goto, rows, locals
<1>17. ASSUME NEW d \in Deletes, StartDelete(d) PROVE PaidInTurn'
    BY <1>17 DEF StartDelete, Goto, rows, locals
<1>18. ASSUME NEW d \in Deletes, DropRow(d) PROVE PaidInTurn'
    BY <1>18 DEF DropRow, Goto, rows, locals
<1>19. CASE Forget
    BY <1>19 DEF Forget, rows, locals
<1>20. CASE Crash
    BY <1>20 DEF Crash, rows, locals
<1>21. QED
    BY <1>0, <1>1, <1>2, <1>3, <1>4, <1>5, <1>6, <1>7, <1>8, <1>9, <1>10,
        <1>11, <1>12, <1>13, <1>14, <1>15, <1>16, <1>17, <1>18, <1>19, <1>20
        DEF Next

LEMMA InitInductive == Init => IInv
BY MemeAssumption DEF MemeAssumption, Init, IInv, TypeOK, MemeResearchSession,
   MemeReports, StreamingState, PayingHasTool, Owned, Holders, OfferedFirst,
   ResearchedOnce, PaidInTurn, Steps, Preparing, Trying, Stuck

LEMMA Inductive == Spec => []IInv
<1>1. IInv /\ [Next]_vars => IInv'
    BY TypeStep, PayingStep, OwnerStep, OfferStep, ResearchStep, PaidStep DEF
        IInv
<1>2. QED
    BY <1>1, InitInductive, PTL DEF Spec

-----------------------------------------------------------------------------
(* Every variable keeps its type. *)
THEOREM TypeCorrectness == Spec => []TypeOK
<1>1. IInv => TypeOK
    BY DEF IInv
<1>2. QED
    BY <1>1, Inductive, PTL

(* However many messages, deletions and timers meet in a session: it is    *)
(* marked as streaming exactly when one message holds it, and never two.   *)
THEOREM StreamSafety == Spec => []StreamIsOwned
<1>1. IInv => StreamIsOwned
    BY DEF IInv, TypeOK, MemeResearchSession, StreamingState, Owned,
        StreamIsOwned, HistoryStatus
<1>2. QED
    BY <1>1, Inductive, PTL

(* However many messages ask for it, and however often the session is      *)
(* deleted and comes back: it is researched by one of them.                *)
THEOREM ResearchSafety == Spec => []ResearchedOnce
<1>1. IInv => ResearchedOnce
    BY DEF IInv
<1>2. QED
    BY <1>1, Inductive, PTL

(* Whatever the prices and the calls: a report that is not paid for is     *)
(* about to be, or there was a reason.                                     *)
THEOREM PaymentSafety == Spec => []ReportIsPaidFor
<1>1. IInv => ReportIsPaidFor
    BY DEF IInv, PaidInTurn, ReportIsPaidFor
<1>2. QED
    BY <1>1, Inductive, PTL
=============================================================================
