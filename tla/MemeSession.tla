----------------------------- MODULE MemeSession -----------------------------
(***************************************************************************)
(* One research session of MemeGPT: the messages streamed in it, the tools *)
(* the model calls on the way, what they cost, and the deletion of the     *)
(* session (src/src/mastra/meme-gpt.service.ts, meme-gpt.controller.ts and *)
(* tools/).  That a stream is running is known to the process alone, in    *)
(* the map streamingStates; the session, its reports and the balance are   *)
(* rows.                                                                   *)
(*                                                                         *)
(* The browser names the session, so one that was deleted comes back under *)
(* its old name.                                                           *)
(***************************************************************************)
EXTENDS Integers, Sequences, FiniteSets

CONSTANTS
    Messages,   \* the messages sent to the session
    Deletes,    \* the requests to delete it
    Calls,      \* the sequences of tools the model may call for a message, each
                \* with at most one look for a stored report
    Cost,       \* what each tool costs
    MinCredits, \* MEMEGPT_MIN_CREDITS
    Budget,     \* the owner's credits to start with
    Scenarios   \* which faults occur together

Tools == {"research", "stored", "refresh", "web"}

FaultKinds == {
    "database",  \* a read or a write fails
    "model",     \* OpenRouter breaks off
    "coingecko", \* the prices cannot be had, or the coin is not known
    "dexcheck",  \* nobody is known to talk about the coin
    "search",    \* the web cannot be searched
    "elsewhere", \* another session holds a report on the coin
    "leave",     \* a browser closes its connection
    "crash" }    \* the process dies and is started again

ASSUME MemeAssumption ==
    /\ Messages \cap Deletes = {}
    /\ Calls \subseteq Seq(Tools)
    /\ Cost \in [Tools -> Nat]
    /\ {MinCredits, Budget} \subseteq Nat
    /\ Scenarios \subseteq SUBSET FaultKinds

VARIABLES
    session, \* whether the session's row is there
    reports, \* how many COMPLETED reports each message has left in it
    stream,  \* the session's entry in streamingStates
    credits, \* the owner's balance
    faults,  \* the faults of this behaviour, which never change
    req,     \* where each request is
    enabled, \* the messages for which research was offered to the model
    todo,    \* the tool calls a message still has to execute
    missing, \* messages whose first look for a stored report found none
    paid     \* history: how many researches of each message were charged

(* The row of a session; its reports that are COMPLETED, which go with it;  *)
(* and its entry in streamingStates.                                       *)
MemeResearchSession == {"none", "stored"}
MemeReports == [Messages -> Nat]
StreamingState == {"absent", "streaming", "idle"}

rows == <<session, reports, credits, paid>>
locals == <<enabled, todo, missing>>
vars == <<rows, stream, faults, req, locals>>

(* A message that has marked the session as streaming and will unmark it,  *)
(* and one that never will.                                                *)
Preparing == {"begun", "validated", "admitted"}
Trying == {"asking", "tools", "paying", "answering", "saving"}
Stuck == {"thrown", "left"}
Steps == {"new", "found", "absent", "opened", "deleting", "done", "refused", "failed", "dead"}
         \cup Preparing \cup Trying \cup Stuck

TypeOK ==
    /\ session \in MemeResearchSession
    /\ reports \in MemeReports
    /\ stream \in StreamingState
    /\ credits \in Nat
    /\ faults \subseteq FaultKinds
    /\ req \in [Messages \cup Deletes -> Steps]
    /\ enabled \subseteq Messages
    /\ todo \in [Messages -> Seq(Tools)]
    /\ missing \subseteq Messages
    /\ paid \in [Messages -> Nat]

Init ==
    /\ session = "none"
    /\ reports = [m \in Messages |-> 0]
    /\ stream = "absent"
    /\ credits = Budget
    /\ faults \in Scenarios
    /\ req = [r \in Messages \cup Deletes |-> "new"]
    /\ enabled = {} /\ missing = {}
    /\ todo = [m \in Messages |-> <<>>]
    /\ paid = [m \in Messages |-> 0]

-----------------------------------------------------------------------------
May(fault) == fault \in faults

Goto(r, from, to) == req[r] = from /\ req' = [req EXCEPT ![r] = to]

Researched == \E m \in Messages : reports[m] > 0

(* getOrCreateSession looks for the row, and then renews it or creates it: *)
(* either throws if another request has changed its mind.                  *)
Look(m) ==
    /\ Goto(m, "new", IF session = "stored" THEN "found" ELSE "absent")
    /\ UNCHANGED <<rows, stream, faults, locals>>

Open(m) ==
    /\ \/ /\ Goto(m, "found", IF session = "stored" THEN "opened" ELSE "failed")
          /\ UNCHANGED session
       \/ /\ Goto(m, "absent", IF session = "none" THEN "opened" ELSE "failed")
          /\ session' = "stored"
    /\ UNCHANGED <<reports, credits, paid, stream, faults, locals>>

-----------------------------------------------------------------------------
(* streamChat, up to its try. *)

(* The state is looked at and set without an await in between. *)
Begin(m) ==
    /\ Goto(m, "opened", IF stream = "streaming" THEN "refused" ELSE "begun")
    /\ stream' = "streaming"
    /\ UNCHANGED <<rows, faults, locals>>

Validate(m) ==
    /\ Goto(m, "begun", IF session = "stored" THEN "validated" ELSE "refused")
    /\ stream' = IF session = "stored" THEN stream ELSE "absent"
    /\ UNCHANGED <<rows, faults, locals>>

(* Variant: research is offered whatever the session holds. *)
AdmitAnew(m) ==
    /\ Goto(m, "validated", IF credits >= MinCredits THEN "admitted" ELSE "refused")
    /\ stream' = IF credits >= MinCredits THEN stream ELSE "idle"
    /\ enabled' = enabled \cup {m}
    /\ UNCHANGED <<rows, faults, todo, missing>>

(* The balance must reach a minimum, which is less than research costs.  A *)
(* session that has its report is not researched again.                    *)
Admit(m) ==
    /\ Goto(m, "validated", IF credits >= MinCredits THEN "admitted" ELSE "refused")
    /\ stream' = IF credits >= MinCredits THEN stream ELSE "idle"
    /\ enabled' = IF Researched THEN enabled ELSE enabled \cup {m}
    /\ UNCHANGED <<rows, faults, todo, missing>>

(* The message is saved, if its session is still there, and the history is *)
(* read.                                                                   *)
SaveQuestion(m) ==
    /\ Goto(m, "admitted", IF session = "stored" THEN "asking" ELSE "thrown")
    /\ UNCHANGED <<rows, stream, faults, locals>>

(* An error of the database leaves the generator, and nobody unmarks the   *)
(* session.                                                                *)
Throw(m) ==
    /\ May("database")
    /\ \E step \in Preparing : Goto(m, step, "thrown")
    /\ UNCHANGED <<rows, stream, faults, locals>>

-----------------------------------------------------------------------------
(* streamChat, inside its try. *)
Ask(m) ==
    /\ \E calls \in Calls :
          /\ Goto(m, "asking", IF calls = <<>> THEN "saving" ELSE "tools")
          /\ todo' = [todo EXCEPT ![m] = calls]
    /\ UNCHANGED <<rows, stream, faults, enabled, missing>>

(* CoinGecko answers neither the search nor the list of all coins that     *)
(* stands in for it, or nothing about the coin; retries included.          *)
NoPrices == May("coingecko")

(* DexCheck's mentions cannot be had, or there is none. *)
NoMentions == May("dexcheck")

(* research_meme_coin: one of the two sources must know the coin, and the  *)
(* report needs the session's row.                                         *)
NoData == NoPrices /\ NoMentions
CanReport == session = "stored"

(* get_stored_report finds any session's, if the name it is looked for     *)
(* under is the one it was stored under.                                   *)
HasReport == Researched \/ May("elsewhere")

(* refresh_coin_data needs CoinGecko, and search_web the search. *)
RefreshFails == NoPrices
SearchFails == May("search")

Succeeds(tool) ==
    /\ tool = "research" => CanReport
    /\ tool = "stored" => HasReport

Fails(tool) ==
    \/ tool = "research" /\ (NoData \/ ~CanReport \/ May("database"))
    \/ tool = "stored"
    \/ tool = "refresh" /\ RefreshFails
    \/ tool = "web" /\ SearchFails

(* The next tool runs, unless it was not offered.  Only its success is     *)
(* charged; no report where one was looked for is remembered.              *)
Execute(m) ==
    /\ req[m] = "tools"
    /\ todo[m] # <<>>
    /\ LET tool == Head(todo[m]) IN
       \/ /\ tool = "research" => m \in enabled
          /\ Succeeds(tool)
          /\ req' = [req EXCEPT ![m] = "paying"]
          /\ reports' = IF tool = "research" THEN [reports EXCEPT ![m] = @ + 1] ELSE reports
          /\ UNCHANGED <<todo, missing>>
       \/ /\ Fails(tool) \/ (tool = "research" /\ m \notin enabled)
          /\ todo' = [todo EXCEPT ![m] = Tail(@)]
          /\ missing' = IF tool = "stored" THEN missing \cup {m} ELSE missing
          /\ UNCHANGED <<req, reports>>
    /\ UNCHANGED <<session, credits, paid, stream, faults, enabled>>

(* Variant: the fallback's research is not charged. *)
ChargeWhatWasAsked(m) ==
    LET tool == Head(todo[m])
        free == tool = "research" /\ Len(todo[m]) = 1 /\ m \notin missing IN
    /\ Goto(m, "paying", "tools")
    /\ todo' = [todo EXCEPT ![m] = Tail(@)]
    /\ \/ /\ credits >= Cost[tool] /\ ~free
          /\ credits' = credits - Cost[tool]
          /\ paid' = IF tool = "research" THEN [paid EXCEPT ![m] = @ + 1] ELSE paid
       \/ /\ credits < Cost[tool] \/ free \/ May("database")
          /\ UNCHANGED <<credits, paid>>
    /\ UNCHANGED <<session, reports, stream, faults, enabled, missing>>

(* chargeForToolUsage takes the cost or throws; an error is written into   *)
(* the tool's result, and the work has been done.                          *)
Charge(m) ==
    LET tool == Head(todo[m]) IN
    /\ Goto(m, "paying", "tools")
    /\ todo' = [todo EXCEPT ![m] = Tail(@)]
    /\ \/ /\ credits >= Cost[tool]
          /\ credits' = credits - Cost[tool]
          /\ paid' = IF tool = "research" THEN [paid EXCEPT ![m] = @ + 1] ELSE paid
       \/ /\ credits < Cost[tool] \/ May("database")
          /\ UNCHANGED <<credits, paid>>
    /\ UNCHANGED <<session, reports, stream, faults, enabled, missing>>

(* When no report was found and research was on offer, it is done unasked. *)
FallBack(m) ==
    /\ req[m] = "tools" /\ todo[m] = <<>>
    /\ m \in missing \cap enabled
    /\ todo' = [todo EXCEPT ![m] = <<"research">>]
    /\ missing' = missing \ {m}
    /\ UNCHANGED <<rows, stream, faults, req, enabled>>

EndTools(m) ==
    /\ todo[m] = <<>>
    /\ m \notin missing \cap enabled
    /\ Goto(m, "tools", "answering")
    /\ UNCHANGED <<rows, stream, faults, locals>>

Answer(m) ==
    /\ Goto(m, "answering", "saving")
    /\ UNCHANGED <<rows, stream, faults, locals>>

SaveAnswer(m) ==
    /\ session = "stored"
    /\ Goto(m, "saving", "done")
    /\ stream' = "idle"
    /\ UNCHANGED <<rows, faults, locals>>

(* OpenRouter's stream ends early, and throws. *)
BreaksOff == May("model")

(* The catch.  An error of a tool does not come here. *)
Fail(m) ==
    /\ \/ BreaksOff /\ \E step \in {"asking", "answering"} : Goto(m, step, "failed")
       \/ (session = "none" \/ May("database")) /\ Goto(m, "saving", "failed")
    /\ stream' = "idle"
    /\ UNCHANGED <<rows, faults, locals>>

(* The browser is gone: the generator is returned from at its next yield,  *)
(* so neither the end of the try nor the catch is reached.                 *)
Leave(m) ==
    /\ May("leave")
    /\ \E step \in {"asking", "tools", "answering"} : Goto(m, step, "left")
    /\ UNCHANGED <<rows, stream, faults, locals>>

-----------------------------------------------------------------------------
(* Variant: the timer forgets the session whatever its status. *)
ForgetAny ==
    /\ stream # "absent"
    /\ stream' = "absent"
    /\ UNCHANGED <<rows, faults, req, locals>>

(* scheduleStreamingStateCleanup, some time after the session was idle.    *)
Forget ==
    /\ stream = "idle"
    /\ stream' = "absent"
    /\ UNCHANGED <<rows, faults, req, locals>>

(* deleteSession refuses while a stream runs.  The row goes later, and its *)
(* reports with it.                                                        *)
StartDelete(d) ==
    /\ IF session = "stored" /\ stream # "streaming"
       THEN Goto(d, "new", "deleting") /\ stream' = "absent"
       ELSE Goto(d, "new", "refused") /\ UNCHANGED stream
    /\ UNCHANGED <<rows, faults, locals>>

DropRow(d) ==
    /\ Goto(d, "deleting", IF session = "stored" THEN "done" ELSE "failed")
    /\ session' = "none"
    /\ reports' = [m \in Messages |-> 0]
    /\ UNCHANGED <<credits, paid, stream, faults, locals>>

Crash ==
    /\ May("crash")
    /\ stream' = "absent"
    /\ req' = [r \in Messages \cup Deletes |->
                  IF req[r] \in {"new", "done", "refused", "failed"} THEN req[r] ELSE "dead"]
    /\ UNCHANGED <<rows, faults, locals>>

-----------------------------------------------------------------------------
Next ==
    \/ \E m \in Messages :
          \/ Look(m) \/ Open(m) \/ Begin(m) \/ Validate(m) \/ Admit(m)
          \/ SaveQuestion(m) \/ Throw(m)
          \/ Ask(m) \/ Execute(m) \/ Charge(m) \/ FallBack(m) \/ EndTools(m)
          \/ Answer(m) \/ SaveAnswer(m) \/ Fail(m) \/ Leave(m)
    \/ \E d \in Deletes : StartDelete(d) \/ DropRow(d)
    \/ Forget
    \/ Crash

Spec == Init /\ [][Next]_vars

-----------------------------------------------------------------------------
Holders == {m \in Messages : req[m] \in Preparing \cup Trying \cup Stuck}

(* getSessionHistory: what a browser that comes back is told.              *)
HistoryStatus ==
    CASE session = "none" -> "not found"
      [] session = "stored" /\ stream = "streaming" -> "streaming"
      [] OTHER -> "idle"

(* The session is marked as streaming exactly when one message is at work  *)
(* in it, or was when it broke off without the mark being taken back: two  *)
(* never stream beside each other, a deletion or a timer never unmarks one *)
(* that runs, and every ordinary end and every error of the model unmarks  *)
(* it; so a poll of its history never takes a message that is at work for  *)
(* one that has ended (streamChat, deleteSession, getSessionHistory,       *)
(* scheduleStreamingStateCleanup).                                         *)
StreamIsOwned ==
    /\ (stream = "streaming") <=> (Holders # {})
    /\ HistoryStatus = "idle" => Holders = {}
    /\ \A m, n \in Holders : m = n

(* A session is researched by one message at most: whoever comes later     *)
(* finds the report and is not offered research, though the check and the  *)
(* report are many awaits apart and the session may be deleted and come    *)
(* back in between (streamChat's existingReport).                          *)
ResearchedOnce == \A m, n \in Messages : reports[m] > 0 /\ reports[n] > 0 => m = n

(* Every report in the session was paid for, or is about to be, or its     *)
(* owner's balance does not reach its price any more; else the process     *)
(* died between the two, or the ledger failed.  It holds for the research  *)
(* nobody asked for as well (chargeForToolUsage).                          *)
ReportIsPaidFor ==
    \A m \in Messages :
        reports[m] > paid[m] =>
            \/ req[m] = "paying" /\ Head(todo[m]) = "research"
            \/ credits < Cost["research"]
            \/ req[m] = "dead" \/ May("database")
=============================================================================
