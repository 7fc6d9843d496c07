--------------------------- MODULE SandboxSession ---------------------------
(***************************************************************************)
(* One project with its E2B sandbox: creation, pause, resume and deletion  *)
(* (src/src/projects/services/projects.service.ts, sandbox.service.ts),    *)
(* the chat that streams from the Python service (chat.controller.ts), and *)
(* the webhook E2B calls when the sandbox has paused, which bills the      *)
(* session (e2b-webhook.service.ts) and which every instance of the        *)
(* program registers when it starts, unless it finds it registered.  All   *)
(* of them write the project's row after awaiting somebody else.           *)
(*                                                                         *)
(* The sandbox itself is external: it runs or is paused, pauses by itself  *)
(* when idle, and keeps a log of its lifecycle events.  A balance is one   *)
(* number here; CreditLedger has the rows behind it.                       *)
(***************************************************************************)
EXTENDS Integers, Sequences, FiniteSets, FiniteSetsExt

CONSTANTS
    Chats,        \* messages sent to the agent
    Resumes,      \* resumeProject requests
    Pauses,       \* pauseProject requests
    Cost,         \* what the agent's work for each message costs
    MinimumChat,  \* MINIMUM_CHAT_CREDITS
    CreditTicks,  \* how much sandbox time one credit buys
    Budget,       \* the owner's credits to start with
    Scenarios,    \* which requests are made and which faults occur together
    Instances,    \* BOUND: instances of the program
    MaxEvents,    \* BOUND: on the sandbox's lifecycle events
    MaxTime       \* BOUND: on the clock

FaultKinds == {
    "insert",  \* the project's row cannot be written
    "python",  \* the Python service refuses a call
    "timeout", \* it does what was asked, but its answer comes too late
    "ended",   \* the write of ENDED fails
    "split",   \* a billable event is spread over two chunks of the stream
    "lookup",  \* E2B's event log cannot be read
    "lost",    \* a webhook call is lost
    "start",   \* the instances start with no webhook registered
    "register",\* E2B does not let an instance list or register webhooks
    "crash" }  \* the processes die and are started again

ASSUME SandboxAssumption ==
    /\ Chats \cap (Resumes \cup Pauses) = {}
    /\ Resumes \cap Pauses = {}
    /\ {"create", "delete", "row"} \cap (Chats \cup Resumes \cup Pauses) = {}
    /\ Cost \in [Chats -> Nat \ {0}]
    /\ CreditTicks \in Nat \ {0}
    /\ {MinimumChat, Budget, MaxEvents, MaxTime} \subseteq Nat
    /\ IsFiniteSet(Instances) /\ Instances # {}
    /\ Scenarios \subseteq [requests : SUBSET ({"delete"} \cup Chats \cup Resumes \cup Pauses),
                         faults : SUBSET FaultKinds]

Requests == {"create", "delete"} \cup Chats \cup Resumes \cup Pauses
Calls == (1 .. MaxEvents) \X (1 .. Cardinality(Instances))

VARIABLES
    project,  \* whether the project's row is there: "none", "stored" or "deleted"
    status,   \* its status
    state,    \* its sandbox_state
    box,      \* the sandbox at E2B
    log,      \* E2B's log of its lifecycle events
    clock,    \* the time
    credits,  \* what the owner has left
    faults,   \* the faults of this behaviour, which never change
    instance, \* whether each instance is starting, has found no webhook, or is up
    webhooks, \* how many webhooks E2B has registered
    req,      \* where each request is
    hook,     \* where each webhook call is
    due,      \* what the handler of each call is about to charge
    \* history variables, which no action reads
    charged,  \* what was charged for each event
    basis,    \* of how many events a request knows, or has a writer of the row known
    overtaken,\* the last writer of the row knew of fewer than one before
    missed,   \* events somebody failed to record in the row
    unended,  \* chats that ended without a write of ENDED
    unbilled, \* chats whose work was not charged
    rivals    \* chats since whose admission something else was charged

db == <<project, status, state>>
sandbox == <<box, log, clock>>
history == <<charged, basis, overtaken, missed, unended, unbilled, rivals>>
bills == <<credits, charged, unbilled, rivals>>
records == <<basis, overtaken, missed>>
program == <<faults, instance, webhooks>>
vars == <<db, sandbox, credits, program, req, hook, due, history>>

Steps == {"new", "admitted", "called", "active", "streaming", "ending", "done", "refused"}
HookSteps == {"unsent", "sent", "charging", "writing", "done"}
EventTypes == {"created", "paused", "resumed"}

TypeOK ==
    /\ project \in {"none", "stored", "deleted"}
    /\ status \in {"ACTIVE", "PAUSED", "ENDED"}
    /\ state \in {"RUNNING", "PAUSED"}
    /\ box \in {"none", "running", "paused"}
    /\ log \in Seq([type : EventTypes, at : Nat])
    /\ clock \in Nat
    /\ credits \in Nat
    /\ faults \subseteq FaultKinds
    /\ instance \in [Instances -> {"starting", "without", "up"}]
    /\ webhooks \in 0 .. Cardinality(Instances)
    /\ req \in [Requests -> Steps]
    /\ hook \in [Calls -> HookSteps]
    /\ due \in [Calls -> Nat]
    /\ charged \in [1 .. MaxEvents -> Nat]
    /\ basis \in [Requests \cup {"row"} -> Nat]
    /\ overtaken \in BOOLEAN
    /\ missed \subseteq 1 .. MaxEvents
    /\ unended \subseteq Chats
    /\ unbilled \subseteq Chats
    /\ rivals \subseteq Chats

Init ==
    /\ project = "none" /\ status = "ACTIVE" /\ state = "RUNNING"
    /\ box = "none" /\ log = <<>> /\ clock = 0
    /\ credits = Budget
    /\ \E scenario \in Scenarios :
          /\ faults = scenario.faults
          /\ instance = [i \in Instances |-> IF "start" \in faults THEN "starting" ELSE "up"]
          /\ webhooks = (IF "start" \in faults THEN 0 ELSE 1)
          /\ req = [r \in Requests |-> IF r \in scenario.requests \cup {"create"}
                                       THEN "new" ELSE "refused"]
    /\ hook = [c \in Calls |-> "unsent"]
    /\ due = [c \in Calls |-> 0]
    /\ charged = [i \in 1 .. MaxEvents |-> 0]
    /\ basis = [r \in Requests \cup {"row"} |-> 0]
    /\ overtaken = FALSE
    /\ missed = {} /\ unended = {} /\ unbilled = {} /\ rivals = {}

-----------------------------------------------------------------------------
May(fault) == fault \in faults

(* Requests and webhook calls are taken by an instance that is up.         *)
Up == \E i \in Instances : instance[i] = "up"

Goto(r, from, to) ==
    /\ req[r] = from
    /\ from = "new" => Up
    /\ req' = [req EXCEPT ![r] = to]

Stored == project = "stored"

(* What the sandbox does is logged, each event at a time of its own, and   *)
(* E2B calls every webhook for it.                                         *)
Happens(type) ==
    /\ Len(log) < MaxEvents
    /\ clock < MaxTime
    /\ clock' = clock + 1
    /\ log' = Append(log, [type |-> type, at |-> clock'])
    /\ box' = IF type = "paused" THEN "paused" ELSE "running"
    /\ hook' = IF type = "paused"
               THEN [c \in Calls |-> IF c[1] = Len(log') /\ c[2] <= webhooks
                                THEN "sent" ELSE hook[c]]
               ELSE hook

(* The row is given the sandbox state that was true after n events. *)
Record(n, sandboxState) ==
    /\ state' = sandboxState
    /\ basis' = [basis EXCEPT !["row"] = Max({@, n})]
    /\ overtaken' = (n < basis["row"])

(* CreditService takes an amount whole or throws.  The chats between their *)
(* admission and their bill, other than r, have a rival.                   *)
Pay(r, amount) ==
    /\ credits' = credits - amount
    /\ rivals' = rivals \cup {c \in Chats \ {r} : req[c] \in {"admitted", "active", "streaming"}}

-----------------------------------------------------------------------------
(* onModuleInit: the webhooks are listed, and one is registered if the     *)
(* program's own is not among them.  An error is logged and the instance   *)
(* goes up without.                                                        *)
Starts(i, from, to) == instance[i] = from /\ instance' = [instance EXCEPT ![i] = to]

StartKeeps == UNCHANGED <<faults, db, sandbox, credits, req, hook, due, history>>

ListWebhooks(i) ==
    /\ \/ Starts(i, "starting", IF webhooks > 0 THEN "up" ELSE "without")
       \/ May("register") /\ Starts(i, "starting", "up")
    /\ StartKeeps /\ UNCHANGED webhooks

RegisterWebhook(i) ==
    /\ Starts(i, "without", "up")
    /\ \/ webhooks' = webhooks + 1
       \/ May("register") /\ UNCHANGED webhooks
    /\ StartKeeps

(* createProject: the sandbox first, the row afterwards. *)
CreateSandbox ==
    /\ \/ Goto("create", "new", "called") /\ Happens("created")
       \/ May("timeout") /\ Goto("create", "new", "done") /\ Happens("created")
       \/ May("python") /\ Goto("create", "new", "done") /\ UNCHANGED <<sandbox, hook>>
    /\ UNCHANGED <<program, db, due, bills, records, unended>>

InsertProject ==
    /\ Goto("create", "called", "done")
    /\ \/ /\ project' = "stored"
          /\ status' = "ACTIVE"
          /\ Record(1, "RUNNING")
       \/ /\ May("insert")
          /\ UNCHANGED <<db, basis, overtaken>>
    /\ UNCHANGED <<program, sandbox, hook, due, bills, missed, unended>>

(* A call of the Python service that brings the sandbox to a state, where  *)
(* it may be already.  When the answer is late it is in that state, and    *)
(* the request ends all the same.                                          *)
Bring(r, from, type, to) ==
    /\ Stored
    /\ \/ /\ \/ box = from /\ Happens(type)
             \/ box = to /\ UNCHANGED <<sandbox, hook>>
          /\ \/ Goto(r, "new", "called") /\ UNCHANGED missed
             \/ /\ May("timeout")
                /\ Goto(r, "new", "done")
                /\ missed' = missed \cup {Len(log')}
       \/ /\ May("python")
          /\ Goto(r, "new", "done")
          /\ UNCHANGED <<sandbox, hook, missed>>
    /\ basis' = [basis EXCEPT ![r] = Len(log')]
    /\ UNCHANGED <<program, db, due, bills, overtaken, unended>>

(* The end of the request writes the row, if it is still there. *)
Finish(r, newStatus, sandboxState) ==
    /\ Goto(r, "called", "done")
    /\ IF Stored
       THEN status' = newStatus /\ Record(basis[r], sandboxState)
       ELSE UNCHANGED <<status, state, basis, overtaken>>
    /\ UNCHANGED <<program, project, sandbox, hook, due, bills, missed, unended>>

(* resumeProject, which keeps the status. *)
ResumeSandbox(r) == r \in Resumes /\ Bring(r, "paused", "resumed", "running")

(* Variant: resuming makes the project ACTIVE. *)
RecordResumeActive(r) == r \in Resumes /\ Finish(r, "ACTIVE", "RUNNING")

RecordResume(r) == r \in Resumes /\ Finish(r, status, "RUNNING")

(* pauseProject *)
PauseSandbox(r) == r \in Pauses /\ Bring(r, "running", "paused", "paused")

RecordPause(r) == r \in Pauses /\ Finish(r, "PAUSED", "PAUSED")

(* deleteProject, as far as it matters here: the sandbox is left to E2B,   *)
(* the agent's history is deleted by the Python service, or not, and then  *)
(* the row goes, unless the database refuses.                              *)
DeleteKeeps == UNCHANGED <<program, status, state, sandbox, hook, due, bills, records, unended>>

BeginDelete ==
    /\ Stored
    /\ Goto("delete", "new", "called")
    /\ DeleteKeeps /\ UNCHANGED project

DeleteHistory ==
    /\ Goto("delete", "called", "ending")
    /\ DeleteKeeps /\ UNCHANGED project

DeleteRow ==
    /\ Goto("delete", "ending", "done")
    /\ project' \in {"deleted"} \cup {row \in {project} : May("insert")}
    /\ DeleteKeeps

-----------------------------------------------------------------------------
(* streamChat. *)
ChatKeeps == UNCHANGED <<program, project, state, sandbox, hook, due, charged, records>>

(* Variant: the balance is not looked at before the stream. *)
AdmitAnyChat(c) ==
    /\ Goto(c, "new", "admitted")
    /\ ChatKeeps /\ UNCHANGED <<status, credits, unended, unbilled, rivals>>

(* The pre-flight check, which answers 402 before anything is streamed.    *)
AdmitChat(c) ==
    /\ Goto(c, "new", IF credits >= MinimumChat THEN "admitted" ELSE "refused")
    /\ ChatKeeps /\ UNCHANGED <<status, credits, unended, unbilled, rivals>>

(* The project is looked up and marked ACTIVE; if it is gone the chat ends *)
(* with a write that changes nothing.                                      *)
ActivateChat(c) ==
    /\ Goto(c, "admitted", IF Stored THEN "active" ELSE "refused")
    /\ status' = IF Stored THEN "ACTIVE" ELSE status
    /\ ChatKeeps /\ UNCHANGED <<credits, unended, unbilled, rivals>>

(* The Python service opens the stream, or the catch goes on to mark the   *)
(* project ENDED.                                                          *)
OpenStream(c) ==
    /\ \/ Goto(c, "active", "streaming")
       \/ May("python") /\ Goto(c, "active", "ending")
    /\ ChatKeeps /\ UNCHANGED <<status, credits, unended, unbilled, rivals>>

(* processAIModelCharge: the tokens' price in credits, whole or not at all. *)
BillChat(c) ==
    IF credits >= Cost[c]
    THEN Pay(c, Cost[c]) /\ UNCHANGED unbilled
    ELSE unbilled' = unbilled \cup {c} /\ UNCHANGED <<credits, rivals>>

(* The stream ends or breaks.  The work it reported as complete is billed  *)
(* beside it: if the balance is too small by now, or the event came in two *)
(* chunks, that is logged at most.                                         *)
EndStream(c) ==
    /\ Goto(c, "streaming", "ending")
    /\ \/ BillChat(c)
       \/ May("split") /\ unbilled' = unbilled \cup {c} /\ UNCHANGED <<credits, rivals>>
    /\ ChatKeeps /\ UNCHANGED <<status, unended>>

(* The project is ENDED then, whatever it has become meanwhile. *)
EndChat(c) ==
    /\ Goto(c, "ending", "done")
    /\ \/ status' = (IF Stored THEN "ENDED" ELSE status) /\ UNCHANGED unended
       \/ May("ended") /\ unended' = unended \cup {c} /\ UNCHANGED status
    /\ ChatKeeps /\ UNCHANGED <<credits, unbilled, rivals>>

-----------------------------------------------------------------------------
(* E2B. *)
Tick ==
    /\ box = "running"
    /\ clock < MaxTime
    /\ clock' = clock + 1
    /\ UNCHANGED <<program, db, box, log, req, hook, due, history, credits>>

(* An idle sandbox pauses by itself. *)
AutoPause ==
    /\ box = "running"
    /\ Happens("paused")
    /\ UNCHANGED <<program, db, req, due, history, credits>>

LoseCall(call) ==
    /\ May("lost")
    /\ hook[call] = "sent"
    /\ hook' = [hook EXCEPT ![call] = "done"]
    /\ missed' = missed \cup {call[1]}
    /\ UNCHANGED <<program, db, sandbox, req, due, bills, basis, overtaken, unended>>

(* The webhook: handleSandboxPaused. *)

(* Variant: the last event that started a session, as the log stands now. *)
LastStartInLog(i) ==
    Max({j \in 1 .. Len(log) : log[j].type \in {"created", "resumed"}})

(* calculateSandboxSessionDuration: the last event that started a session  *)
(* and is not later than the pause.                                        *)
LastStart(i) ==
    Max({j \in 1 .. Len(log) : log[j].type \in {"created", "resumed"} /\ log[j].at <= log[i].at})

(* A started credit counts whole. *)
CreditsFor(ticks) == IF ticks <= 0 THEN 0 ELSE (ticks + CreditTicks - 1) \div CreditTicks

(* The session by the log that E2B is asked for; without an answer it has  *)
(* no length.                                                              *)
Durations(i) ==
    {log[i].at - log[LastStart(i)].at} \cup (IF May("lookup") THEN {0} ELSE {})

(* Variant: a session that cost nothing needs no write either. *)
MeasureBillable(call) ==
    /\ hook[call] = "sent" /\ Up
    /\ \E ticks \in Durations(call[1]) : due' = [due EXCEPT ![call] = CreditsFor(ticks)]
    /\ hook' = [hook EXCEPT ![call] = IF due'[call] > 0 THEN "charging" ELSE "done"]
    /\ UNCHANGED <<program, db, sandbox, req, bills, records, unended>>

(* What the session costs; nothing if it has no length.                    *)
MeasureSession(call) ==
    /\ hook[call] = "sent" /\ Up
    /\ \E ticks \in Durations(call[1]) : due' = [due EXCEPT ![call] = CreditsFor(ticks)]
    /\ hook' = [hook EXCEPT ![call] = IF due'[call] > 0 THEN "charging" ELSE "writing"]
    /\ UNCHANGED <<program, db, sandbox, req, bills, records, unended>>

(* An owner who cannot pay ends the handler here: the error is swallowed   *)
(* and E2B told that all is well.                                          *)
ChargeSession(call) ==
    /\ hook[call] = "charging"
    /\ IF credits >= due[call]
       THEN /\ Pay("create", due[call])
            /\ charged' = [charged EXCEPT ![call[1]] = @ + due[call]]
            /\ due' = [due EXCEPT ![call] = 0]
            /\ hook' = [hook EXCEPT ![call] = "writing"]
            /\ UNCHANGED missed
       ELSE /\ hook' = [hook EXCEPT ![call] = "done"]
            /\ missed' = missed \cup {call[1]}
            /\ UNCHANGED <<credits, charged, due, rivals>>
    /\ UNCHANGED <<program, db, sandbox, req, basis, overtaken, unended, unbilled>>

RecordEvent(call) ==
    /\ hook[call] = "writing"
    /\ hook' = [hook EXCEPT ![call] = "done"]
    /\ IF Stored
       THEN status' = "PAUSED" /\ Record(call[1], "PAUSED") /\ UNCHANGED missed
       ELSE missed' = missed \cup {call[1]} /\ UNCHANGED <<status, state, basis, overtaken>>
    /\ UNCHANGED <<program, project, sandbox, req, due, bills, unended>>

(* The processes die and start again.  Requests and webhook calls in them  *)
(* are not taken up again, E2B has the answer of none and its retries are  *)
(* not relied on.                                                          *)
InFlight(r) == req[r] \notin {"new", "done", "refused"}
Handling(call) == hook[call] \in {"charging", "writing"}

Crash ==
    /\ May("crash")
    /\ req' = [r \in Requests |-> IF InFlight(r) THEN "done" ELSE req[r]]
    /\ hook' = [c \in Calls |-> IF Handling(c) THEN "done" ELSE hook[c]]
    /\ <<req', hook'>> # <<req, hook>>
    /\ missed' = missed \cup {c[1] : c \in {d \in Calls : Handling(d)}}
                        \cup {basis[r] : r \in {q \in Resumes \cup Pauses : InFlight(q)}}
    /\ unended' = unended \cup {c \in Chats : InFlight(c)}
    /\ unbilled' = unbilled \cup {c \in Chats : req[c] = "streaming"}
    /\ instance' = [i \in Instances |-> "starting"]
    /\ UNCHANGED <<faults, webhooks, db, sandbox, due, credits, charged, basis, overtaken, rivals>>

Next ==
    \/ \E i \in Instances : ListWebhooks(i) \/ RegisterWebhook(i)
    \/ CreateSandbox \/ InsertProject
    \/ BeginDelete \/ DeleteHistory \/ DeleteRow
    \/ \E r \in Resumes : ResumeSandbox(r) \/ RecordResume(r)
    \/ \E r \in Pauses : PauseSandbox(r) \/ RecordPause(r)
    \/ \E c \in Chats : AdmitChat(c) \/ ActivateChat(c) \/ OpenStream(c) \/ EndStream(c)
                          \/ EndChat(c)
    \/ \E c \in Calls : LoseCall(c) \/ MeasureSession(c) \/ ChargeSession(c) \/ RecordEvent(c)
    \/ Tick \/ AutoPause \/ Crash

Spec == Init /\ [][Next]_vars

(* A request that has begun goes on, a stream ends (the Python service     *)
(* gives up after its own timeout), and what is written is written.        *)
Fairness == \A c \in Chats : WF_vars(ActivateChat(c)) /\ WF_vars(OpenStream(c))
                               /\ WF_vars(EndStream(c)) /\ WF_vars(EndChat(c))

FairSpec == Spec /\ Fairness
-----------------------------------------------------------------------------
(* Properties. *)

(* A session by the order of E2B's log alone. *)
Session(i) == log[i].at - log[i - 1].at

Sent(i) == {k \in 1 .. Cardinality(Instances) : hook[<<i, k>>] # "unsent"}
Handled(i) == \A k \in Sent(i) : hook[<<i, k>>] = "done"

(* However late or often the webhook is called, and whatever the sandbox   *)
(* has done since, an event is charged the price of the session it ended,  *)
(* once for each registered webhook whose call did not fail                *)
(* (e2b-webhook.service.ts 410-484).                                       *)

ChargedBySession ==
    \A i \in 1 .. Len(log) :
        IF log[i].type = "paused"
        THEN \E k \in 0 .. Cardinality(Sent(i)) :
                /\ charged[i] = k * CreditsFor(Session(i))
                /\ Handled(i) /\ i \notin missed /\ ~May("lookup") => k = Cardinality(Sent(i))
        ELSE charged[i] = 0

(* When nothing is under way the row has the sandbox's state, unless its   *)
(* last writer knew less than one before, or the sandbox's last event was  *)
(* lost, reported to nobody as no webhook was registered, came to an owner *)
(* who could not pay or to no row, or had its request end early.           *)
Quiet ==
    /\ \A r \in Resumes \cup Pauses \cup {"create"} : ~InFlight(r)
    /\ \A c \in Calls : hook[c] \in {"unsent", "done"}

RowTellsSandbox ==
    Stored /\ Quiet => \/ state = IF box = "running" THEN "RUNNING" ELSE "PAUSED"
                       \/ overtaken
                       \/ Len(log) \in missed
                       \/ box = "paused" /\ Sent(Len(log)) = {}

(* Work that costs no more than the balance every chat must show goes      *)
(* unpaid only when something else was charged in between, or its event    *)
(* was not understood.                                                     *)
AdmittedIsBilled ==
    \A c \in unbilled :
        Cost[c] <= MinimumChat => c \in rivals \/ faults \cap {"split", "crash"} # {}

(* A project that has been spoken to does not stay ACTIVE ("ENDED when     *)
(* stream completes", projects.service.ts 249-251): every message is       *)
(* answered or given up, and whatever is paused, resumed or refused        *)
(* meanwhile, the project then leaves ACTIVE unless that write failed.     *)
Begun(c) == req[c] \in {"active", "streaming", "ending", "done"}

ActiveEnds ==
    (Stored /\ status = "ACTIVE" /\ \E c \in Chats : Begun(c))
        ~> (status # "ACTIVE" \/ unended # {} \/ ~Stored)
=============================================================================
