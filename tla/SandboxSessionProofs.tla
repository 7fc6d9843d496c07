------------------------ MODULE SandboxSessionProofs ------------------------
(***************************************************************************)
(* What SandboxSession keeps for every number of messages, resumes, pauses *)
(* and instances, every price and balance, and for every combination of    *)
(* faults: a session is billed by the log, the row tells the sandbox's     *)
(* state, and admitted work is paid for, but for the excuses the           *)
(* properties name.                                                        *)
(*                                                                         *)
(* E2B's log is where the argument starts: its events alternate and have   *)
(* times of their own, so each pause has one session, whenever the webhook *)
(* asks for it.  Then every event of the log is followed until the row     *)
(* knows it, something is still on its way to tell it, or it is missed.    *)
(***************************************************************************)
EXTENDS SandboxSession, FiniteSetTheorems, TLAPS

(* The sandbox is what the last event made it; a pause ends a session, and *)
(* no two events have the same time.                                       *)
LogOK ==
    /\ Len(log) <= MaxEvents
    /\ box = IF log = <<>> THEN "none"
             ELSE IF log[Len(log)].type = "paused" THEN "paused" ELSE "running"
    /\ \A i \in 1 .. Len(log) :
          /\ log[i].at <= clock
          /\ log[i].type = "created" <=> i = 1
          /\ log[i].type = "paused" => log[i - 1].type # "paused"
    /\ \A i, j \in 1 .. Len(log) : i < j => log[i].at < log[j].at

(* Calls are about pauses; a charge that is due is the price of a session. *)
CallsOK ==
    \A call \in Calls :
        hook[call] # "unsent" =>
            /\ call[1] <= Len(log)
            /\ log[call[1]].type = "paused"
            /\ hook[call] = "charging" => due[call] = CreditsFor(Session(call[1]))

(* No instance registers the webhook more than once. *)
Without == {i \in Instances : instance[i] = "without"}

RegisteredOK == webhooks + Cardinality(Without) <= Cardinality(Instances)

(* Nothing happens before the sandbox is created. *)
CreatedFirst ==
    /\ req["create"] = "new" => log = <<>>
    /\ req["create"] = "called" => log # <<>>
    /\ project # "none" => req["create"] = "done"
    /\ req["delete"] \in {"called", "ending"} => project # "none"

(* The state of the sandbox after an event of the log. *)
StateAfter(i) == IF log[i].type = "paused" THEN "PAUSED" ELSE "RUNNING"

(* What a request is about to write was true when E2B did it. *)
Bringing == Resumes \cup Pauses

Knows(r) ==
    /\ req[r] \in {"new", "called", "done", "refused"}
    /\ req[r] = "called" =>
          /\ basis[r] \in 1 .. Len(log)
          /\ StateAfter(basis[r]) = IF r \in Pauses THEN "PAUSED" ELSE "RUNNING"

RequestsKnow == \A r \in Bringing : Knows(r)

TInv == TypeOK /\ LogOK /\ CallsOK /\ RegisteredOK /\ CreatedFirst /\ RequestsKnow
-----------------------------------------------------------------------------
(* The webhook calls about event i that were charged. *)
ChargedOnce(i) ==
    \E K \in SUBSET Sent(i) :
        /\ charged[i] = Cardinality(K) * CreditsFor(Session(i))
        /\ \A k \in K : hook[<<i, k>>] \in {"writing", "done"}
        /\ i \notin missed /\ ~May("lookup") =>
              \A k \in Sent(i) \ K : hook[<<i, k>>] \in {"sent", "charging"}

Billing ==
    \A i \in 1 .. MaxEvents :
        IF i <= Len(log) /\ log[i].type = "paused" THEN ChargedOnce(i) ELSE charged[i] = 0
-----------------------------------------------------------------------------
(* What the row says was true after the event its writer knew of, unless   *)
(* that was overtaken.                                                     *)
RowTells ==
    /\ basis["row"] <= Len(log)
    /\ project = "none" => basis["row"] = 0 /\ \A r \in Bringing : req[r] # "called"
    /\ Stored => basis["row"] > 0
    /\ Stored /\ ~overtaken => state = StateAfter(basis["row"])

(* An event is known to the row, or is going to be, or was missed, or      *)
(* nobody was to be called about it.                                       *)
Followed(i) ==
    \/ i <= basis["row"] \/ i \in missed
    \/ i = 1 /\ project = "none"
    \/ \E r \in Bringing : req[r] = "called" /\ basis[r] = i
    \/ log[i].type = "paused" /\ Sent(i) = {}
    \/ \E k \in Sent(i) : hook[<<i, k>>] # "done"

EventsFollowed == project # "deleted" => \A i \in 1 .. Len(log) : Followed(i)
-----------------------------------------------------------------------------
(* A chat that was admitted and has no rival can still be paid. *)
Exposed(c) == req[c] \in {"admitted", "active", "streaming"}

Solvent == \A c \in Chats : Exposed(c) => c \in rivals \/ MinimumChat <= credits
-----------------------------------------------------------------------------
(* The operators the model is built from. *)

LEMMA InstancesCounted == Cardinality(Instances) \in Nat /\ Cardinality(Instances) > 0
<1>1. IsFiniteSet(Instances) /\ Instances # {}
    BY SandboxAssumption
<1>2. QED
    BY <1>1, FS_CardinalityType, FS_EmptySet

LEMMA Larger ==
    ASSUME NEW m \in Nat, NEW n \in Nat
    PROVE  Max({m, n}) = IF m >= n THEN m ELSE n
<1>1. CASE m >= n
    <2>1. \A x \in {m, n} : (\A y \in {m, n} : x >= y) => x = m
        BY <1>1
    <2>2. m \in {m, n} /\ \A y \in {m, n} : m >= y
        BY <1>1
    <2>3. QED
        BY <1>1, <2>1, <2>2 DEF Max
<1>2. CASE ~ (m >= n)
    <2>1. \A x \in {m, n} : (\A y \in {m, n} : x >= y) => x = n
        BY <1>2
    <2>2. n \in {m, n} /\ \A y \in {m, n} : n >= y
        BY <1>2
    <2>3. QED
        BY <1>2, <2>1, <2>2 DEF Max
<1>3. QED
    BY <1>1, <1>2

(* A session that took any time costs something. *)
LEMMA PriceOfTime ==
    ASSUME NEW ticks \in Int
    PROVE  /\ CreditsFor(ticks) \in Nat
           /\ ticks > 0 => CreditsFor(ticks) > 0
<1>1. CreditTicks \in Nat /\ CreditTicks > 0
    BY SandboxAssumption
<1>2. CASE ticks <= 0
    BY <1>2 DEF CreditsFor
<1>3. CASE ticks > 0
    <2>1. ticks + CreditTicks - 1 \in Nat /\ ticks + CreditTicks - 1 >= CreditTicks
        BY <1>1, <1>3
    <2>2. \A n \in Nat, d \in Nat : d > 0 /\ n >= d => n \div d \in Nat /\ n \div d > 0
        OBVIOUS
    <2>3. QED
        BY <1>1, <1>3, <2>1, <2>2 DEF CreditsFor
<1>4. QED
    BY <1>2, <1>3

Event == [type : EventTypes, at : Nat]

LEMMA Logged ==
    ASSUME TInv, NEW i \in 1 .. Len(log)
    PROVE  log[i].at \in Nat /\ log[i].type \in {"created", "paused", "resumed"}
<1>1. log \in Seq(Event)
    BY DEF TInv, TypeOK, Event
<1>2. log[i] \in Event
    BY <1>1
<1>3. QED
    BY <1>2 DEF Event, EventTypes

(* The session that a pause ended began with the event before it, and took *)
(* time.                                                                   *)
LEMMA OneSession ==
    ASSUME TInv, NEW i \in 1 .. Len(log), log[i].type = "paused"
    PROVE  /\ i - 1 \in 1 .. Len(log) /\ LastStart(i) = i - 1
           /\ Session(i) \in Int /\ Session(i) > 0
           /\ CreditsFor(Session(i)) \in Nat /\ CreditsFor(Session(i)) > 0
<1> log \in Seq(Event) /\ LogOK
    BY DEF TInv, TypeOK, Event
<1> DEFINE Earlier == {j \in 1 .. Len(log) :
                        log[j].type \in {"created", "resumed"} /\ log[j].at <= log[i].at}
<1>1. i # 1 /\ i - 1 \in 1 .. Len(log) /\ log[i - 1].type # "paused" /\ log[i - 1].at < log[i].at
    BY DEF LogOK
<1>2. i - 1 \in Earlier
    BY <1>1, Logged
<1>3. \A j \in Earlier : j \in Int /\ j <= i - 1
    <2> SUFFICES ASSUME NEW j \in Earlier PROVE j <= i - 1
        OBVIOUS
    <2>1. j # i
        OBVIOUS
    <2>2. ~ (i < j)
        BY Logged DEF LogOK
    <2>3. QED
        BY <2>1, <2>2
<1>4. LastStart(i) = Max(Earlier)
    BY DEF LastStart
<1> HIDE DEF Earlier
<1>5. Max(Earlier) = i - 1
    <2>1. \A y \in Earlier : i - 1 >= y
        BY <1>1, <1>3
    <2>2. \A x \in Earlier : (\A y \in Earlier : x >= y) => x = i - 1
        BY <1>1, <1>2, <1>3
    <2>3. QED
        BY <1>2, <2>1, <2>2 DEF Max
<1>6. Session(i) \in Int /\ Session(i) > 0
    <2>1. log[i].at \in Nat /\ log[i - 1].at \in Nat
        BY <1>1, Logged
    <2>2. QED
        BY <1>1, <2>1 DEF Session
<1>7. QED
    BY <1>1, <1>4, <1>5, <1>6, PriceOfTime
-----------------------------------------------------------------------------
(* Only an event changes the log, and it changes nothing that was there.   *)
LogKept ==
    /\ log' \in Seq(Event) /\ Len(log) <= Len(log')
    /\ \A i \in 1 .. Len(log) : log'[i] = log[i]

LEMMA SessionKept ==
    ASSUME TInv, LogKept, NEW i \in 1 .. Len(log), log[i].type = "paused"
    PROVE  Session(i)' = Session(i)
<1>1. i - 1 \in 1 .. Len(log)
    BY OneSession
<1>2. QED
    BY <1>1 DEF LogKept, Session

(* An event happens: it is the last of the log, and if it is a pause the   *)
(* webhooks are called, as they had not been.                              *)
Happened(type) ==
    /\ LogKept /\ Len(log') = Len(log) + 1 /\ log'[Len(log')].type = type
    /\ clock' \in Nat
    /\ hook' \in [Calls -> HookSteps]
    /\ \A call \in Calls :
          /\ call[1] # Len(log') => hook'[call] = hook[call]
          /\ call[1] = Len(log') =>
                hook[call] = "unsent"
                /\ hook'[call] \in {"unsent"} \cup {s \in {"sent"} : type = "paused"}

LEMMA HappensGrows ==
    ASSUME TInv, NEW type \in EventTypes, Happens(type),
           type = "created" <=> log = <<>>, type = "paused" => box = "running"
    PROVE  LogOK' /\ Happened(type) /\ box' \in {"running", "paused"}
<1> log \in Seq(Event) /\ clock \in Nat /\ hook \in [Calls -> HookSteps]
    BY DEF TInv, TypeOK, Event
<1>1. PICK e \in Event : e.type = type /\ e.at = clock + 1 /\ log' = Append(log, e)
    <2>1. [type |-> type, at |-> clock + 1] \in Event
        BY DEF Event
    <2>2. QED
        BY <2>1 DEF Happens
<1>2. clock' = clock + 1 /\ Len(log) < MaxEvents /\ MaxEvents \in Nat
    BY SandboxAssumption DEF Happens
<1>3. /\ log' \in Seq(Event) /\ Len(log') = Len(log) + 1 /\ Len(log) \in Nat
      /\ \A i \in 1 .. Len(log) : log'[i] = log[i]
      /\ log'[Len(log) + 1] = e
    BY <1>1
<1>4. LogOK'
    <2>1. (Len(log) <= MaxEvents)'
        BY <1>2, <1>3
    <2>2. box' = IF type = "paused" THEN "paused" ELSE "running"
        BY DEF Happens
    <2>3. log' # <<>>
        BY <1>3
    <2>4. ASSUME NEW i \in 1 .. Len(log')
          PROVE  /\ log'[i].at <= clock'
                 /\ log'[i].type = "created" <=> i = 1
                 /\ log'[i].type = "paused" => log'[i - 1].type # "paused"
        <3>1. CASE i \in 1 .. Len(log)
            <4>1. i = 1 => log[i].type # "paused"
                BY <3>1 DEF TInv, LogOK
            <4>2. i # 1 => i - 1 \in 1 .. Len(log)
                BY <1>3, <3>1
            <4>3. log[i].at \in Nat
                BY <3>1, Logged
            <4>4. log'[i] = log[i] /\ (i # 1 => log'[i - 1] = log[i - 1])
                BY <1>3, <3>1, <4>2
            <4>5. /\ log[i].at <= clock
                  /\ log[i].type = "created" <=> i = 1
                  /\ log[i].type = "paused" => log[i - 1].type # "paused"
                BY <3>1 DEF TInv, LogOK
            <4>6. QED
                BY <1>2, <4>1, <4>3, <4>4, <4>5
        <3>2. CASE i = Len(log) + 1
            <4>1. log = <<>> <=> i = 1
                BY <1>3, <3>2
            <4>2. type = "paused" => log # <<>> /\ log[Len(log)].type # "paused"
                BY DEF TInv, LogOK
            <4>3. log # <<>> => Len(log) \in 1 .. Len(log) /\ i - 1 = Len(log)
                BY <1>3, <3>2
            <4>4. QED
                BY <1>1, <1>2, <1>3, <3>2, <4>1, <4>2, <4>3
        <3>3. QED
            BY <1>3, <2>4, <3>1, <3>2
    <2>5. ASSUME NEW i \in 1 .. Len(log'), NEW j \in 1 .. Len(log'), i < j
          PROVE  log'[i].at < log'[j].at
        <3>1. i \in 1 .. Len(log) /\ log[i].at \in Nat /\ log[i].at <= clock
            BY <1>3, <2>5, Logged DEF TInv, LogOK
        <3>2. CASE j \in 1 .. Len(log)
            BY <1>3, <2>5, <3>1, <3>2 DEF TInv, LogOK
        <3>3. CASE j = Len(log) + 1
            BY <1>1, <1>3, <3>1, <3>3
        <3>4. QED
            BY <1>3, <2>5, <3>2, <3>3
    <2>6. box' = IF log' = <<>> THEN "none"
                 ELSE IF log'[Len(log')].type = "paused" THEN "paused" ELSE "running"
        BY <1>1, <1>3, <2>2, <2>3
    <2>7. QED
        BY <2>1, <2>4, <2>5, <2>6 DEF LogOK
<1>5. \A call \in Calls : call[1] = Len(log') => hook[call] = "unsent"
    BY <1>3 DEF TInv, CallsOK
<1>6. hook' \in [Calls -> HookSteps]
    BY DEF Happens, HookSteps
<1>7. QED
    BY <1>1, <1>2, <1>3, <1>4, <1>5, <1>6 DEF Happens, Happened, LogKept
-----------------------------------------------------------------------------
(* Types, and what every behaviour keeps of the log and the calls.         *)

LEMMA RowIsNoRequest == "row" \notin Requests
BY SandboxAssumption DEF Requests

LEMMA RecordDoes ==
    ASSUME TypeOK, NEW n \in Nat, NEW sandboxState, Record(n, sandboxState)
    PROVE  /\ state' = sandboxState
           /\ basis' \in [Requests \cup {"row"} -> Nat]
           /\ basis'["row"] = IF basis["row"] >= n THEN basis["row"] ELSE n
           /\ \A r \in Requests : basis'[r] = basis[r]
           /\ overtaken' \in BOOLEAN /\ (~ overtaken' => n >= basis["row"])
<1>1. basis["row"] \in Nat
    BY DEF TypeOK
<1>2. Max({basis["row"], n}) = IF basis["row"] >= n THEN basis["row"] ELSE n
    BY <1>1, Larger
<1>3. basis' = [basis EXCEPT !["row"] = Max({basis["row"], n})]
    BY DEF Record
<1>4. overtaken' \in BOOLEAN
    BY DEF Record
<1>5. ~ overtaken' => n >= basis["row"]
    <2>1. ~ overtaken' => ~ (n < basis["row"])
        BY Zenon DEF Record
    <2>2. QED
        BY <1>1, <2>1
<1>6. QED
    BY <1>1, <1>2, <1>3, <1>4, <1>5, RowIsNoRequest DEF TypeOK, Record

(* The steps by which an event may happen. *)
Acts ==
    \/ CreateSandbox \/ AutoPause
    \/ \E r \in Resumes : ResumeSandbox(r)
    \/ \E r \in Pauses : PauseSandbox(r)

LEMMA ActsHappen ==
    ASSUME TInv, Acts
    PROVE  \/ UNCHANGED <<sandbox, hook>>
           \/ /\ LogOK' /\ box' \in {"running", "paused"}
              /\ \E type \in EventTypes : Happened(type)
<1>1. ASSUME NEW type \in EventTypes, Happens(type),
             type = "created" <=> log = <<>>, type = "paused" => box = "running"
      PROVE  /\ LogOK' /\ box' \in {"running", "paused"}
             /\ \E t \in EventTypes : Happened(t)
    BY <1>1, HappensGrows
<1>2. CASE CreateSandbox
    <2>1. req["create"] = "new"
        BY <1>2 DEF CreateSandbox, Goto
    <2>2. log = <<>>
        BY <2>1 DEF TInv, CreatedFirst
    <2>3. QED
        BY <1>1, <1>2, <2>2 DEF CreateSandbox, EventTypes
<1>3. CASE AutoPause
    <2>1. box = "running" /\ Happens("paused")
        BY <1>3 DEF AutoPause
    <2>2. log # <<>>
        BY <2>1 DEF TInv, LogOK
    <2>3. QED
        BY <1>1, <2>1, <2>2 DEF EventTypes
<1>4. ASSUME NEW r \in Resumes, ResumeSandbox(r)
      PROVE  UNCHANGED <<sandbox, hook>> \/ (box = "paused" /\ Happens("resumed"))
    BY <1>4 DEF ResumeSandbox, Bring
<1>5. ASSUME NEW r \in Pauses, PauseSandbox(r)
      PROVE  UNCHANGED <<sandbox, hook>> \/ (box = "running" /\ Happens("paused"))
    BY <1>5 DEF PauseSandbox, Bring
<1>6. box \in {"running", "paused"} => log # <<>>
    BY DEF TInv, LogOK
<1>7. QED
    BY <1>1, <1>2, <1>3, <1>4, <1>5, <1>6 DEF Acts, EventTypes

LEMMA ActsTypes == TInv /\ Acts => TypeOK'
<1> SUFFICES ASSUME TInv, Acts PROVE TypeOK'
    OBVIOUS
<1> TypeOK
    BY DEF TInv
<1>1. /\ log' \in Seq(Event) /\ Len(log') \in Nat /\ clock' \in Nat
      /\ box' \in {"none", "running", "paused"} /\ hook' \in [Calls -> HookSteps]
      /\ Len(log') <= MaxEvents
    <2>1. log \in Seq(Event) /\ Len(log) <= MaxEvents
        BY DEF TypeOK, Event, TInv, LogOK
    <2>2. log' \in Seq(Event) /\ Len(log') <= MaxEvents /\ clock' \in Nat
          /\ box' \in {"none", "running", "paused"} /\ hook' \in [Calls -> HookSteps]
        BY <2>1, ActsHappen DEF TypeOK, sandbox, Happened, LogKept, LogOK
    <2>3. QED
        BY <2>2
<1>2. UNCHANGED <<program, db, due, bills, overtaken, unended>>
    BY DEF Acts, CreateSandbox, AutoPause, ResumeSandbox, PauseSandbox, Bring, records, history, bills
<1>3. req' \in [Requests -> Steps] /\ basis' \in [Requests \cup {"row"} -> Nat]
    <2>1. CASE CreateSandbox \/ AutoPause
        BY <2>1 DEF TypeOK, CreateSandbox, AutoPause, Goto, Steps, records, history
    <2>2. ASSUME NEW r \in Resumes \cup Pauses, ResumeSandbox(r) \/ PauseSandbox(r)
          PROVE  req' \in [Requests -> Steps] /\ basis' \in [Requests \cup {"row"} -> Nat]
        <3>1. r \in Requests
            BY DEF Requests
        <3>2. basis' = [basis EXCEPT ![r] = Len(log')]
            BY <2>2 DEF ResumeSandbox, PauseSandbox, Bring
        <3>3. \E to \in Steps : req' = [req EXCEPT ![r] = to]
            BY <2>2 DEF ResumeSandbox, PauseSandbox, Bring, Goto, Steps
        <3>4. QED
            BY <1>1, <3>1, <3>2, <3>3 DEF TypeOK
    <2>3. QED
        BY <2>1, <2>2 DEF Acts
<1>4. missed' \subseteq 1 .. MaxEvents
    <2>1. \/ UNCHANGED missed
          \/ missed' = missed \cup {Len(log')} /\ box \in {"running", "paused"}
        <3>1. CASE CreateSandbox \/ AutoPause
            BY <3>1 DEF CreateSandbox, AutoPause, records, history
        <3>2. ASSUME NEW r \in Resumes \cup Pauses, ResumeSandbox(r) \/ PauseSandbox(r)
              PROVE  \/ UNCHANGED missed
                     \/ missed' = missed \cup {Len(log')} /\ box \in {"running", "paused"}
            BY <3>2 DEF ResumeSandbox, PauseSandbox, Bring
        <3>3. QED
            BY <3>1, <3>2 DEF Acts
    <2>2. box \in {"running", "paused"} => Len(log') > 0
        <3>1. box \in {"running", "paused"} => Len(log) > 0
            BY DEF TInv, TypeOK, LogOK
        <3>2. Len(log') >= Len(log)
            BY <1>1, ActsHappen DEF sandbox, Happened, LogKept, TypeOK
        <3>3. QED
            BY <1>1, <3>1, <3>2 DEF TypeOK
    <2>3. box \in {"running", "paused"} => Len(log') \in 1 .. MaxEvents
        BY <1>1, <2>2, SandboxAssumption
    <2>4. missed \subseteq 1 .. MaxEvents
        BY DEF TypeOK
    <2>5. QED
        BY <2>1, <2>3, <2>4
<1>5. QED
    BY <1>1, <1>2, <1>3, <1>4 DEF TypeOK, program, db, bills, Event

(* What a call of the webhook may come to charge. *)
LEMMA CallMeasures ==
    ASSUME TInv, NEW call \in Calls, hook[call] # "unsent"
    PROVE  /\ call[1] \in 1 .. Len(log) /\ log[call[1]].type = "paused"
           /\ Durations(call[1]) \subseteq {Session(call[1])} \cup {t \in {0} : May("lookup")}
           /\ CreditsFor(Session(call[1])) \in Nat /\ CreditsFor(Session(call[1])) > 0
           /\ CreditsFor(0) = 0
<1>1. call[1] \in 1 .. Len(log) /\ log[call[1]].type = "paused"
    BY DEF TInv, CallsOK, Calls
<1>2. QED
    BY <1>1, OneSession DEF Durations, Session, CreditsFor

LEMMA MeasureDoes ==
    ASSUME TInv, NEW call \in Calls, MeasureSession(call)
    PROVE  \E price \in {CreditsFor(Session(call[1]))} \cup {t \in {0} : May("lookup")} :
              /\ price \in Nat
              /\ due' = [due EXCEPT ![call] = price]
              /\ hook' = [hook EXCEPT ![call] = IF price > 0 THEN "charging" ELSE "writing"]
<1>1. hook[call] # "unsent"
    BY DEF MeasureSession
<1>2. PICK ticks \in Durations(call[1]) : due' = [due EXCEPT ![call] = CreditsFor(ticks)]
    BY DEF MeasureSession
<1>3. CreditsFor(ticks) \in {CreditsFor(Session(call[1]))} \cup {t \in {0} : May("lookup")}
    BY <1>1, <1>2, CallMeasures
<1>4. CreditsFor(ticks) \in Nat
    BY <1>1, <1>3, CallMeasures
<1>5. due'[call] = CreditsFor(ticks)
    BY <1>2 DEF TInv, TypeOK
<1>6. QED
    BY <1>2, <1>3, <1>4, <1>5 DEF MeasureSession

LEMMA RequestTypes ==
    ASSUME TInv, webhooks' \in 0 .. Cardinality(Instances),
           \/ \E i \in Instances : ListWebhooks(i) \/ RegisterWebhook(i)
           \/ BeginDelete \/ DeleteHistory \/ DeleteRow \/ Tick
    PROVE  TypeOK'
<1> TypeOK
    BY DEF TInv
<1>1. CASE \E i \in Instances : ListWebhooks(i) \/ RegisterWebhook(i)
    <2>1. UNCHANGED <<faults, db, sandbox, credits, req, hook, due, history>>
        BY <1>1 DEF ListWebhooks, RegisterWebhook, StartKeeps
    <2>2. instance' \in [Instances -> {"starting", "without", "up"}]
        BY <1>1 DEF ListWebhooks, RegisterWebhook, Starts, TypeOK
    <2>3. QED
        BY <2>1, <2>2 DEF TypeOK, db, sandbox, history
<1>2. CASE BeginDelete \/ DeleteHistory \/ DeleteRow
    BY <1>2 DEF TypeOK, BeginDelete, DeleteHistory, DeleteRow, Goto, DeleteKeeps, program, sandbox,
                bills, records, Requests, Steps
<1>3. CASE Tick
    BY <1>3 DEF TypeOK, Tick, program, db, history
<1>4. QED
    BY <1>1, <1>2, <1>3

LEMMA WriterTypes ==
    ASSUME TInv,
           \/ InsertProject
           \/ \E r \in Resumes : RecordResume(r)
           \/ \E r \in Pauses : RecordPause(r)
    PROVE  TypeOK'
<1> TypeOK
    BY DEF TInv
<1>1. CASE InsertProject
    <2>1. Record(1, "RUNNING") => TypeOK'
        BY <1>1, RecordDoes DEF TypeOK, InsertProject, Goto, program, db, sandbox, bills,
                    Requests, Steps
    <2>2. UNCHANGED <<db, basis, overtaken>> => TypeOK'
        BY <1>1 DEF TypeOK, InsertProject, Goto, program, db, sandbox, bills, Requests, Steps
    <2>3. QED
        BY <1>1, <2>1, <2>2 DEF InsertProject
<1>2. ASSUME NEW r \in Resumes \cup Pauses, NEW newStatus \in {"ACTIVE", "PAUSED", "ENDED"},
             NEW sandboxState \in {"RUNNING", "PAUSED"}, Finish(r, newStatus, sandboxState)
      PROVE  TypeOK'
    <2>1. r \in Requests /\ basis[r] \in Nat
        BY DEF Requests, TypeOK
    <2>2. req' \in [Requests -> Steps]
        BY <1>2, <2>1 DEF TypeOK, Finish, Goto, Steps
    <2>3. CASE Stored
        <3>1. /\ status' = newStatus /\ state' = sandboxState
              /\ basis' \in [Requests \cup {"row"} -> Nat] /\ overtaken' \in BOOLEAN
            BY <1>2, <2>1, <2>3, RecordDoes DEF Finish
        <3>2. QED
            BY <1>2, <2>2, <3>1 DEF TypeOK, Finish, program, sandbox, bills
    <2>4. CASE ~ Stored
        BY <1>2, <2>2, <2>4 DEF TypeOK, Finish, program, sandbox, bills
    <2>5. QED
        BY <2>3, <2>4
<1>3. QED
    BY <1>1, <1>2 DEF RecordResume, RecordPause, TypeOK

LEMMA PayTypes ==
    ASSUME TypeOK, NEW r, NEW amount \in Nat, amount <= credits, Pay(r, amount)
    PROVE  credits' \in Nat /\ rivals' \subseteq Chats /\ credits' = credits - amount
BY DEF TypeOK, Pay

LEMMA ChatTypes ==
    ASSUME TInv, NEW c \in Chats,
           AdmitChat(c) \/ ActivateChat(c) \/ OpenStream(c) \/ EndStream(c) \/ EndChat(c)
    PROVE  TypeOK'
<1> TypeOK /\ c \in Requests
    BY DEF TInv, Requests
<1>1. /\ req' \in [Requests -> Steps]
      /\ status' \in {"ACTIVE", "PAUSED", "ENDED"}
      /\ unended' \subseteq Chats
    BY DEF TypeOK, AdmitChat, ActivateChat, OpenStream, EndStream, EndChat, Goto, Steps
<1>2. credits' \in Nat /\ unbilled' \subseteq Chats /\ rivals' \subseteq Chats
    <2>1. Cost[c] \in Nat
        BY SandboxAssumption
    <2>2. BillChat(c) => credits' \in Nat /\ unbilled' \subseteq Chats /\ rivals' \subseteq Chats
        BY <2>1, PayTypes DEF BillChat, TypeOK
    <2>3. QED
        BY <2>2 DEF TypeOK, AdmitChat, ActivateChat, OpenStream, EndStream, EndChat
<1>3. ChatKeeps
    BY DEF AdmitChat, ActivateChat, OpenStream, EndStream, EndChat
<1>4. QED
    BY <1>1, <1>2, <1>3 DEF TypeOK, ChatKeeps, program, sandbox, records

LEMMA CallTypes ==
    ASSUME TInv, NEW call \in Calls,
           LoseCall(call) \/ MeasureSession(call) \/ ChargeSession(call) \/ RecordEvent(call)
    PROVE  TypeOK'
<1> TypeOK
    BY DEF TInv
<1>1. call[1] \in 1 .. MaxEvents /\ call[1] \in Nat
    BY SandboxAssumption DEF Calls
<1>2. due[call] \in Nat
    BY DEF TypeOK
<1>3. CASE LoseCall(call)
    BY <1>1, <1>3 DEF TypeOK, LoseCall, HookSteps, program, db, sandbox, bills
<1>4. CASE MeasureSession(call)
    <2>1. PICK price \in Nat :
              /\ due' = [due EXCEPT ![call] = price]
              /\ hook' = [hook EXCEPT ![call] = IF price > 0 THEN "charging" ELSE "writing"]
        BY <1>4, MeasureDoes
    <2>2. due' \in [Calls -> Nat]
        BY <2>1 DEF TypeOK
    <2>3. hook' \in [Calls -> HookSteps]
        BY <2>1 DEF TypeOK, HookSteps
    <2>4. QED
        BY <1>4, <2>2, <2>3 DEF TypeOK, MeasureSession, program, db, sandbox, bills, records
<1>5. CASE ChargeSession(call)
    <2>1. CASE credits >= due[call]
        <3>1. Pay("create", due[call])
            BY <1>5, <2>1 DEF ChargeSession
        <3>2. credits' \in Nat /\ rivals' \subseteq Chats
            BY <1>2, <2>1, <3>1, PayTypes DEF TypeOK
        <3>3. charged' \in [1 .. MaxEvents -> Nat]
            <4>1. charged' = [charged EXCEPT ![call[1]] = charged[call[1]] + due[call]]
                BY <1>5, <2>1 DEF ChargeSession
            <4>2. charged \in [1 .. MaxEvents -> Nat] /\ charged[call[1]] + due[call] \in Nat
                BY <1>1, <1>2 DEF TypeOK
            <4>3. QED
                BY <1>1, <4>1, <4>2
        <3>4. QED
            <4>1. due' \in [Calls -> Nat] /\ hook' \in [Calls -> HookSteps]
                <5>1. due' = [due EXCEPT ![call] = 0] /\ hook' = [hook EXCEPT ![call] = "writing"]
                    BY <1>5, <2>1 DEF ChargeSession
                <5>2. due \in [Calls -> Nat] /\ hook \in [Calls -> HookSteps]
                    BY DEF TypeOK
                <5>3. QED
                    BY <5>1, <5>2 DEF HookSteps
            <4>2. QED
                BY <1>5, <2>1, <3>2, <3>3, <4>1 DEF TypeOK, ChargeSession, program, db, sandbox
    <2>2. CASE ~ (credits >= due[call])
        BY <1>1, <1>5, <2>2 DEF TypeOK, ChargeSession, HookSteps, program, db, sandbox
    <2>3. QED
        BY <2>1, <2>2
<1>6. CASE RecordEvent(call)
    <2>1. CASE Stored
        <3>1. /\ status' = "PAUSED" /\ state' = "PAUSED" /\ UNCHANGED missed
              /\ basis' \in [Requests \cup {"row"} -> Nat] /\ overtaken' \in BOOLEAN
            BY <1>1, <1>6, <2>1, RecordDoes DEF RecordEvent
        <3>2. QED
            BY <1>6, <3>1 DEF TypeOK, RecordEvent, HookSteps, program, sandbox, bills
    <2>2. CASE ~ Stored
        BY <1>1, <1>6, <2>2 DEF TypeOK, RecordEvent, HookSteps, program, sandbox, bills
    <2>3. QED
        BY <2>1, <2>2
<1>7. QED
    BY <1>3, <1>4, <1>5, <1>6

LEMMA CrashTypes == TInv /\ Crash => TypeOK'
<1> SUFFICES ASSUME TInv, Crash PROVE TypeOK'
    OBVIOUS
<1> TypeOK
    BY DEF TInv
<1>1. /\ req' \in [Requests -> Steps] /\ hook' \in [Calls -> HookSteps]
      /\ instance' \in [Instances -> {"starting", "without", "up"}]
    BY DEF TypeOK, Crash, Steps, HookSteps
<1>2. unended' \subseteq Chats /\ unbilled' \subseteq Chats
    BY DEF TypeOK, Crash
<1>3. missed' \subseteq 1 .. MaxEvents
    <2>1. \A c \in Calls : c[1] \in 1 .. MaxEvents
        BY DEF Calls
    <2>2. \A r \in Resumes \cup Pauses : InFlight(r) => basis[r] \in 1 .. MaxEvents
        BY SandboxAssumption DEF TInv, RequestsKnow, Knows, Bringing, InFlight, LogOK, TypeOK
    <2>3. QED
        BY <2>1, <2>2 DEF Crash, TypeOK
<1>4. QED
    BY <1>1, <1>2, <1>3 DEF Crash, TypeOK, db, sandbox

-----------------------------------------------------------------------------
(* The other steps leave the log as it is, and move what they are about.   *)

Ends(r) == req'[r] = req[r] \/ req'[r] = "done"

CallMoves(call) ==
    \/ hook'[call] = hook[call] /\ due'[call] = due[call]
    \/ /\ hook[call] # "unsent" /\ hook'[call] # "unsent"
       /\ hook'[call] = "charging" => due'[call] = CreditsFor(Session(call[1]))

Quietly ==
    /\ UNCHANGED <<log, box, faults>> /\ clock <= clock'
    /\ \A r \in Bringing : basis'[r] = basis[r] /\ Ends(r)
    /\ \A call \in Calls : CallMoves(call)
    /\ CreatedFirst'

LEMMA StartsQuietly ==
    ASSUME TInv,
           \/ \E i \in Instances : ListWebhooks(i) \/ RegisterWebhook(i)
           \/ BeginDelete \/ DeleteHistory \/ DeleteRow \/ Tick \/ UNCHANGED vars
    PROVE  Quietly
<1> TypeOK /\ "delete" \notin Bringing
    BY SandboxAssumption DEF TInv, Bringing
<1>1. CASE (\E i \in Instances : ListWebhooks(i) \/ RegisterWebhook(i)) \/ UNCHANGED vars
    BY <1>1 DEF TypeOK, ListWebhooks, RegisterWebhook, StartKeeps, db, sandbox, history, vars, program,
                Quietly, Ends, CallMoves, TInv, CreatedFirst
<1>2. CASE BeginDelete \/ DeleteHistory \/ DeleteRow
    <2>1. CreatedFirst'
        <3>1. req["delete"] \in {"called", "ending"} \/ Stored
            BY <1>2 DEF BeginDelete, DeleteHistory, DeleteRow, Goto
        <3>2. project # "none" /\ project' # "none" /\ req["create"] = "done"
            BY <1>2, <3>1 DEF BeginDelete, DeleteHistory, DeleteRow, TInv, CreatedFirst, Stored
        <3>3. req'["create"] = "done"
            BY <1>2, <3>2 DEF BeginDelete, DeleteHistory, DeleteRow, Goto, TypeOK, Requests
        <3>4. QED
            BY <3>2, <3>3 DEF CreatedFirst
    <2>2. UNCHANGED <<log, box, faults, clock, hook, due, basis>>
        BY <1>2 DEF BeginDelete, DeleteHistory, DeleteRow, DeleteKeeps, program, sandbox, records
    <2>3. \A r \in Bringing : req'[r] = req[r]
        <3>1. \A r \in Bringing : r \in Requests /\ r # "delete"
            BY DEF Bringing, Requests
        <3>2. \E to : req' = [req EXCEPT !["delete"] = to]
            BY <1>2 DEF BeginDelete, DeleteHistory, DeleteRow, Goto
        <3>3. QED
            BY <3>1, <3>2 DEF TypeOK
    <2>4. QED
        BY <2>1, <2>2, <2>3 DEF Quietly, Ends, CallMoves, TypeOK
<1>3. CASE Tick
    BY <1>3 DEF TypeOK, Tick, program, db, history, Quietly, Ends, CallMoves, TInv, CreatedFirst
<1>4. QED
    BY <1>1, <1>2, <1>3

LEMMA WritesQuietly ==
    ASSUME TInv,
           \/ InsertProject
           \/ \E r \in Resumes : RecordResume(r)
           \/ \E r \in Pauses : RecordPause(r)
    PROVE  Quietly
<1> TypeOK /\ "create" \notin Bringing /\ Bringing \subseteq Requests
    BY SandboxAssumption DEF TInv, Bringing, Requests
<1>1. UNCHANGED <<log, box, faults, clock, hook, due>>
    BY DEF InsertProject, RecordResume, RecordPause, Finish, program, sandbox
<1>2. CASE InsertProject
    <2>1. basis' = basis \/ \A r \in Bringing : basis'[r] = basis[r]
        BY <1>2, RecordDoes DEF InsertProject
    <2>2. req' = [req EXCEPT !["create"] = "done"] /\ project' \in {project, "stored"}
        BY <1>2 DEF InsertProject, Goto, db
    <2>3. CreatedFirst'
        <3>1. req'["create"] = "done" /\ req'["delete"] = req["delete"]
            BY <2>2 DEF TypeOK, Requests
        <3>2. project # "none" => project' # "none"
            BY <2>2
        <3>3. QED
            BY <3>1, <3>2 DEF TInv, CreatedFirst
    <2>4. QED
        BY <1>1, <2>1, <2>2, <2>3 DEF TypeOK, Quietly, Ends, CallMoves
<1>3. ASSUME NEW r \in Bringing, NEW newStatus, NEW sandboxState, Finish(r, newStatus, sandboxState)
      PROVE  Quietly
    <2>1. basis[r] \in Nat
        BY DEF TypeOK
    <2>2. basis' = basis \/ \A o \in Bringing : basis'[o] = basis[o]
        BY <1>3, <2>1, RecordDoes DEF Finish
    <2>3. req' = [req EXCEPT ![r] = "done"] /\ UNCHANGED project
        BY <1>3 DEF Finish, Goto
    <2>4. r # "create" /\ r # "delete"
        BY SandboxAssumption DEF Bringing
    <2>5. CreatedFirst'
        <3>1. req'["create"] = req["create"] /\ req'["delete"] = req["delete"]
            BY <2>3, <2>4 DEF TypeOK, Requests
        <3>2. QED
            BY <1>1, <2>3, <3>1 DEF TInv, CreatedFirst
    <2>6. QED
        BY <1>1, <2>2, <2>3, <2>5 DEF TypeOK, Quietly, Ends, CallMoves
<1>4. QED
    BY <1>2, <1>3 DEF RecordResume, RecordPause, Bringing

LEMMA ChatsQuietly ==
    ASSUME TInv, NEW c \in Chats,
           AdmitChat(c) \/ ActivateChat(c) \/ OpenStream(c) \/ EndStream(c) \/ EndChat(c)
    PROVE  Quietly
<1>1. c \notin Bringing /\ c # "create" /\ c # "delete" /\ Bringing \subseteq Requests
    BY SandboxAssumption DEF Bringing, Requests
<1>2. \E to : req' = [req EXCEPT ![c] = to]
    BY DEF AdmitChat, ActivateChat, OpenStream, EndStream, EndChat, Goto
<1>3. UNCHANGED <<project, log, box, faults, clock, hook, due, basis>>
    BY DEF AdmitChat, ActivateChat, OpenStream, EndStream, EndChat, ChatKeeps, program, sandbox, records
<1>4. req \in [Requests -> Steps]
    BY DEF TInv, TypeOK
<1>5. /\ \A r \in Bringing : req'[r] = req[r]
      /\ req'["create"] = req["create"] /\ req'["delete"] = req["delete"]
    BY <1>1, <1>2, <1>4 DEF Requests
<1>6. QED
    BY <1>3, <1>5 DEF TInv, TypeOK, CreatedFirst, Quietly, Ends, CallMoves

LEMMA CallsQuietly ==
    ASSUME TInv, NEW call \in Calls,
           LoseCall(call) \/ MeasureSession(call) \/ ChargeSession(call) \/ RecordEvent(call)
    PROVE  Quietly
<1>1. UNCHANGED <<project, log, box, faults, clock, req>>
    BY DEF LoseCall, MeasureSession, ChargeSession, RecordEvent, program, db, sandbox
<1>2. call[1] \in Nat
    BY SandboxAssumption DEF Calls
<1>3. \A r \in Bringing : basis'[r] = basis[r]
    <2>1. RecordEvent(call) => basis' = basis \/ Record(call[1], "PAUSED")
        BY DEF RecordEvent
    <2>2. Bringing \subseteq Requests
        BY DEF Bringing, Requests
    <2>3. QED
        BY <1>2, <2>1, <2>2, RecordDoes DEF TInv, LoseCall, MeasureSession, ChargeSession, records
<1>4. \A other \in Calls : CallMoves(other)
    <2> hook \in [Calls -> HookSteps] /\ due \in [Calls -> Nat]
        BY DEF TInv, TypeOK
    <2>1. \A other \in Calls \ {call} : hook'[other] = hook[other] /\ due'[other] = due[other]
        BY DEF LoseCall, MeasureSession, ChargeSession, RecordEvent
    <2>2. hook[call] # "unsent"
        BY DEF LoseCall, MeasureSession, ChargeSession, RecordEvent
    <2>3. /\ hook'[call] # "unsent"
          /\ hook'[call] = "charging" => due'[call] = CreditsFor(Session(call[1]))
        <3>1. CASE MeasureSession(call)
            BY <3>1, MeasureDoes
        <3>2. CASE ~ MeasureSession(call)
            BY <3>2 DEF LoseCall, ChargeSession, RecordEvent
        <3>3. QED
            BY <3>1, <3>2
    <2>4. QED
        BY <2>1, <2>2, <2>3 DEF CallMoves
<1>5. CreatedFirst'
    BY <1>1 DEF TInv, CreatedFirst
<1>6. QED
    BY <1>1, <1>3, <1>4, <1>5 DEF TInv, TypeOK, Quietly, Ends

LEMMA CrashQuietly == TInv /\ Crash => Quietly
<1> SUFFICES ASSUME TInv, Crash PROVE Quietly
    OBVIOUS
<1>1. UNCHANGED <<project, log, box, faults, clock, due, basis>>
    BY DEF Crash, db, sandbox
<1>2. \A r \in Requests : Ends(r)
    BY DEF Crash, Ends
<1>3. \A call \in Calls : CallMoves(call)
    BY DEF Crash, CallMoves, Handling
<1>4. Bringing \subseteq Requests /\ {"create", "delete"} \subseteq Requests
    BY DEF Bringing, Requests
<1>5. CreatedFirst'
    BY <1>1, <1>2, <1>4 DEF TInv, CreatedFirst, Ends
<1>6. QED
    BY <1>1, <1>2, <1>3, <1>4, <1>5 DEF TInv, TypeOK, Quietly

LEMMA NextParts ==
    ASSUME TInv, [Next]_vars
    PROVE  Acts \/ Quietly
<1>1. CASE UNCHANGED vars
    BY <1>1, StartsQuietly
<1>2. CASE Next
    <2>1. ASSUME NEW c \in Chats, AdmitChat(c) \/ ActivateChat(c) \/ OpenStream(c) \/ EndStream(c)
                                    \/ EndChat(c)
          PROVE  Quietly
        BY <2>1, ChatsQuietly
    <2>2. ASSUME NEW call \in Calls,
                 LoseCall(call) \/ MeasureSession(call) \/ ChargeSession(call) \/ RecordEvent(call)
          PROVE  Quietly
        BY <2>2, CallsQuietly
    <2>3. QED
        BY <1>2, <2>1, <2>2, StartsQuietly, WritesQuietly, CrashQuietly DEF Next, Acts
<1>3. QED
    BY <1>1, <1>2

(* A webhook is registered at most once for each instance. *)
LEMMA Registers ==
    ASSUME TInv, [Next]_vars
    PROVE  RegisteredOK' /\ webhooks' \in 0 .. Cardinality(Instances)
<1> /\ TypeOK /\ RegisteredOK /\ IsFiniteSet(Instances)
    /\ webhooks \in Nat /\ Cardinality(Instances) \in Nat
    BY InstancesCounted, SandboxAssumption DEF TInv, TypeOK
<1>1. Without \subseteq Instances /\ IsFiniteSet(Without) /\ Cardinality(Without) \in Nat
      /\ Without' \subseteq Instances /\ IsFiniteSet(Without') /\ Cardinality(Without') \in Nat
      /\ Cardinality(Without') <= Cardinality(Instances)
    BY FS_Subset, FS_CardinalityType DEF Without
<1>2. ASSUME NEW i \in Instances, ListWebhooks(i) PROVE RegisteredOK'
    <2>1. UNCHANGED webhooks
        BY <1>2 DEF ListWebhooks
    <2>2. CASE webhooks = 0
        BY <1>1, <2>1, <2>2 DEF RegisteredOK
    <2>3. CASE webhooks > 0
        <3>1. Without' = Without
            BY <1>2, <2>3 DEF ListWebhooks, Starts, Without, TypeOK
        <3>2. QED
            BY <2>1, <3>1 DEF RegisteredOK
    <2>4. QED
        BY <2>2, <2>3
<1>3. ASSUME NEW i \in Instances, RegisterWebhook(i) PROVE RegisteredOK'
    <2>1. i \in Without /\ Without' = Without \ {i}
        BY <1>3 DEF RegisterWebhook, Starts, Without, TypeOK
    <2>2. Cardinality(Without') = Cardinality(Without) - 1
        BY <1>1, <2>1, FS_RemoveElement
    <2>3. webhooks' = webhooks + 1 \/ webhooks' = webhooks
        BY <1>3 DEF RegisterWebhook
    <2>4. QED
        BY <1>1, <2>2, <2>3 DEF RegisteredOK
<1>4. CASE Crash
    <2>1. Without' = {} /\ UNCHANGED webhooks
        BY <1>4 DEF Crash, Without
    <2>2. Cardinality(Without') = 0
        BY <2>1, FS_EmptySet
    <2>3. QED
        BY <1>1, <2>1, <2>2 DEF RegisteredOK
<1>5. ASSUME \A i \in Instances : ~ ListWebhooks(i) /\ ~ RegisterWebhook(i), ~ Crash
      PROVE  RegisteredOK'
    <2>1. UNCHANGED program
        BY <1>5 DEF Next, vars, CreateSandbox, InsertProject, BeginDelete, DeleteHistory, DeleteRow,
           DeleteKeeps, ResumeSandbox, RecordResume, PauseSandbox, RecordPause, Bring, Finish,
           AdmitChat, ActivateChat, OpenStream, EndStream, EndChat, ChatKeeps,
           LoseCall, MeasureSession, ChargeSession, RecordEvent, Tick, AutoPause
    <2>2. QED
        BY <2>1 DEF program, RegisteredOK, Without
<1>6. RegisteredOK'
    BY <1>2, <1>3, <1>4, <1>5
<1>7. webhooks' \in Nat
    BY DEF Next, vars, ListWebhooks, RegisterWebhook, CreateSandbox, InsertProject, BeginDelete,
       DeleteHistory, DeleteRow,
       DeleteKeeps, ResumeSandbox, RecordResume, PauseSandbox, RecordPause, Bring, Finish,
       AdmitChat, ActivateChat, OpenStream, EndStream, EndChat, ChatKeeps,
       LoseCall, MeasureSession, ChargeSession, RecordEvent, Tick, AutoPause, Crash, program
<1>8. QED
    BY <1>1, <1>6, <1>7 DEF RegisteredOK

LEMMA StepTypeOK ==
    ASSUME TInv, [Next]_vars
    PROVE  TypeOK'
<1>1. CASE UNCHANGED vars
    BY <1>1 DEF TInv, TypeOK, vars, db, sandbox, program, history
<1>2. ASSUME NEW c \in Chats, AdmitChat(c) \/ ActivateChat(c) \/ OpenStream(c) \/ EndStream(c)
                                \/ EndChat(c)
      PROVE  TypeOK'
    BY <1>2, ChatTypes
<1>3. ASSUME NEW call \in Calls,
             LoseCall(call) \/ MeasureSession(call) \/ ChargeSession(call) \/ RecordEvent(call)
      PROVE  TypeOK'
    BY <1>3, CallTypes
<1>4. CASE \/ \E i \in Instances : ListWebhooks(i) \/ RegisterWebhook(i)
           \/ BeginDelete \/ DeleteHistory \/ DeleteRow \/ Tick
    BY <1>4, RequestTypes, Registers
<1>5. CASE Acts \/ Crash
    BY <1>5, ActsTypes, CrashTypes
<1>6. QED
    BY <1>1, <1>2, <1>3, <1>4, <1>5, WriterTypes DEF Next, Acts

(* What a step that is no event keeps of the log and of who acts on it.    *)
LEMMA QuietlyKeeps ==
    ASSUME TInv, TypeOK', Quietly
    PROVE  LogKept /\ LogOK' /\ CallsOK' /\ RequestsKnow'
<1> log \in Seq(Event) /\ clock \in Nat /\ clock' \in Nat
    BY DEF TInv, TypeOK, Event
<1>1. LogKept
    BY DEF Quietly, LogKept
<1>2. LogOK'
    <2>1. \A i \in 1 .. Len(log) : log[i].at <= clock'
        BY Logged DEF TInv, LogOK, Quietly
    <2>2. QED
        BY <2>1 DEF TInv, LogOK, Quietly
<1>3. CallsOK'
    <2> SUFFICES ASSUME NEW call \in Calls, hook'[call] # "unsent"
                 PROVE  /\ call[1] <= Len(log) /\ log[call[1]].type = "paused"
                        /\ hook'[call] = "charging" => due'[call] = CreditsFor(Session(call[1]))
        BY DEF CallsOK, Quietly, Session
    <2>1. CallMoves(call)
        BY DEF Quietly
    <2>2. QED
        BY <2>1 DEF CallMoves, TInv, CallsOK
<1>4. RequestsKnow'
    BY DEF TInv, Quietly, Ends, RequestsKnow, Knows, StateAfter
<1>5. QED
    BY <1>1, <1>2, <1>3, <1>4

LEMMA ActsKeep ==
    ASSUME TInv, TypeOK', Acts
    PROVE  LogKept /\ LogOK' /\ CallsOK' /\ RequestsKnow' /\ CreatedFirst'
<1> log \in Seq(Event) /\ Len(log) \in Nat /\ TypeOK
    BY DEF TInv, TypeOK, Event
<1>1. LogKept /\ LogOK'
    <2>1. UNCHANGED sandbox => LogKept /\ LogOK'
        BY DEF TInv, LogOK, LogKept, sandbox
    <2>2. QED
        BY <2>1, ActsHappen DEF Happened
<1>2. UNCHANGED <<due, project>>
    BY DEF Acts, CreateSandbox, AutoPause, ResumeSandbox, PauseSandbox, Bring, db
<1>3. CallsOK'
    <2> SUFFICES ASSUME NEW call \in Calls, hook'[call] # "unsent"
                 PROVE  /\ call[1] <= Len(log') /\ log'[call[1]].type = "paused"
                        /\ hook'[call] = "charging" =>
                              due'[call] = CreditsFor(Session(call[1])')
        BY DEF CallsOK, CreditsFor
    <2>1. CASE hook'[call] = hook[call]
        <3>1. call[1] \in 1 .. Len(log) /\ log[call[1]].type = "paused"
              /\ (hook[call] = "charging" => due[call] = CreditsFor(Session(call[1])))
            BY <2>1, CallMeasures DEF TInv, CallsOK
        <3>2. Session(call[1])' = Session(call[1])
            BY <1>1, <3>1, SessionKept
        <3>3. QED
            BY <1>1, <1>2, <2>1, <3>1, <3>2 DEF LogKept
    <2>2. CASE hook'[call] # hook[call]
        <3>1. PICK type \in EventTypes : Happened(type)
            BY <2>2, ActsHappen
        <3>2. call[1] = Len(log') /\ hook'[call] = "sent" /\ type = "paused"
            BY <2>2, <3>1 DEF Happened
        <3>3. QED
            BY <3>1, <3>2 DEF Happened
    <2>3. QED
        BY <2>1, <2>2
<1>4. ASSUME NEW r \in Bringing, req'[r] = req[r] /\ basis'[r] = basis[r]
      PROVE  Knows(r)'
    <2>1. Knows(r)
        BY DEF TInv, RequestsKnow
    <2>2. req[r] = "called" => basis[r] \in 1 .. Len(log)
        BY <2>1 DEF Knows
    <2>3. req[r] = "called" =>
             basis'[r] \in 1 .. Len(log') /\ log'[basis'[r]] = log[basis[r]]
        BY <1>1, <1>4, <2>2 DEF LogKept
    <2>4. QED
        BY <1>4, <2>1, <2>3 DEF Knows, StateAfter
<1>5. CASE CreateSandbox
    <2>1. \A r \in Bringing : r # "create" /\ r \in Requests
        BY SandboxAssumption DEF Bringing, Requests
    <2>2. \E to : req' = [req EXCEPT !["create"] = to]
        BY <1>5 DEF CreateSandbox, Goto
    <2>3. \A r \in Bringing : req'[r] = req[r] /\ basis'[r] = basis[r]
        BY <1>5, <2>1, <2>2 DEF CreateSandbox, records, TypeOK
    <2>4. RequestsKnow'
        BY <1>4, <2>3 DEF RequestsKnow
    <2>5. CreatedFirst'
        <3>1. req["create"] = "new" /\ project = "none" /\ req'["delete"] = req["delete"]
            BY <1>5, <2>2 DEF CreateSandbox, Goto, TInv, CreatedFirst, TypeOK, Requests
        <3>2. req'["create"] = "done" \/ (req'["create"] = "called" /\ log' # <<>>)
            <4>1. Goto("create", "new", "done") => req'["create"] = "done"
                BY DEF Goto, TypeOK, Requests
            <4>2. Goto("create", "new", "called") => req'["create"] = "called"
                BY DEF Goto, TypeOK, Requests
            <4>3. Happens("created") => log' # <<>>
                BY DEF Happens, TypeOK
            <4>4. QED
                BY <1>5, <4>1, <4>2, <4>3 DEF CreateSandbox
        <3>3. QED
            BY <1>2, <3>1, <3>2 DEF TInv, CreatedFirst
    <2>6. QED
        BY <1>1, <1>3, <2>4, <2>5
<1>6. CASE AutoPause
    <2>1. UNCHANGED <<req, basis>>
        BY <1>6 DEF AutoPause, history
    <2>2. RequestsKnow'
        BY <1>4, <2>1 DEF RequestsKnow
    <2>3. CreatedFirst'
        <3>1. box = "running" => log # <<>>
            BY DEF TInv, LogOK
        <3>2. log # <<>> => log' # <<>>
            BY <1>1 DEF LogKept
        <3>3. QED
            BY <1>2, <1>6, <2>1, <3>1, <3>2 DEF TInv, CreatedFirst, AutoPause
    <2>4. QED
        BY <1>1, <1>3, <2>2, <2>3
<1>7. ASSUME NEW r \in Bringing, ResumeSandbox(r) \/ PauseSandbox(r)
      PROVE  RequestsKnow' /\ CreatedFirst'
    <2>1. r \in Requests /\ r # "create" /\ r # "delete" /\ "create" \in Requests /\ "delete" \in Requests
          /\ Bringing \subseteq Requests
        BY SandboxAssumption DEF Bringing, Requests
    <2>2. PICK to \in {"called", "done"} :
             /\ req' = [req EXCEPT ![r] = to]
             /\ to = "called" => /\ box \in {"running", "paused"}
                                 /\ box' = IF r \in Pauses THEN "paused" ELSE "running"
        <3>1. CASE ResumeSandbox(r)
            <4>1. r \notin Pauses
                BY <3>1, SandboxAssumption DEF ResumeSandbox
            <4>2. QED
                BY <3>1, <4>1 DEF ResumeSandbox, Bring, Goto, Happens, sandbox
        <3>2. CASE PauseSandbox(r)
            BY <3>2 DEF PauseSandbox, Bring, Goto, Happens, sandbox
        <3>3. QED
            BY <1>7, <3>1, <3>2
    <2>3. basis' = [basis EXCEPT ![r] = Len(log')] /\ Stored
        BY <1>7 DEF ResumeSandbox, PauseSandbox, Bring
    <2>4. ASSUME to = "called"
          PROVE  Knows(r)'
        <3>1. box' # "none" /\ log' \in Seq(Event)
            BY <2>2, <2>4 DEF TypeOK, Event
        <3>2. log' # <<>> /\ box' = IF log'[Len(log')].type = "paused" THEN "paused" ELSE "running"
            BY <1>1, <3>1 DEF LogOK
        <3>3. basis'[r] = Len(log') /\ basis'[r] \in 1 .. Len(log')
            BY <2>1, <2>3, <3>1, <3>2 DEF TypeOK
        <3>4. req'[r] = "called"
            BY <2>1, <2>2, <2>4 DEF TypeOK
        <3>5. QED
            BY <2>2, <2>4, <3>2, <3>3, <3>4 DEF Knows, StateAfter
    <2>5. RequestsKnow'
        <3>1. \A o \in Bringing \ {r} : req'[o] = req[o] /\ basis'[o] = basis[o]
            BY <2>1, <2>2, <2>3 DEF TypeOK
        <3>2. to # "called" => Knows(r)'
            BY <2>1, <2>2 DEF TypeOK, Knows
        <3>3. QED
            BY <1>4, <2>4, <3>1, <3>2 DEF RequestsKnow
    <2>6. CreatedFirst'
        <3>1. req'["create"] = req["create"] /\ req'["delete"] = req["delete"]
            BY <2>1, <2>2 DEF TypeOK
        <3>2. req["create"] = "done" /\ project = "stored"
            BY <2>3 DEF TInv, CreatedFirst, Stored
        <3>3. QED
            BY <1>2, <3>1, <3>2 DEF CreatedFirst
    <2>7. QED
        BY <2>5, <2>6
<1>8. QED
    BY <1>1, <1>3, <1>5, <1>6, <1>7 DEF Acts, Bringing

LEMMA StepTInv == TInv /\ [Next]_vars => TInv' /\ LogKept
<1> SUFFICES ASSUME TInv, [Next]_vars PROVE TInv' /\ LogKept
    OBVIOUS
<1>1. TypeOK' /\ RegisteredOK'
    BY StepTypeOK, Registers
<1>2. CASE Acts
    BY <1>1, <1>2, ActsKeep DEF TInv
<1>3. CASE Quietly
    <2>1. CreatedFirst'
        BY <1>3 DEF Quietly
    <2>2. QED
        BY <1>1, <1>3, <2>1, QuietlyKeeps DEF TInv
<1>4. QED
    BY <1>2, <1>3, NextParts

LEMMA InitTInv == Init => TInv
<1> SUFFICES ASSUME Init PROVE TInv
    OBVIOUS
<1>1. PICK scenario \in Scenarios :
        /\ faults = scenario.faults
        /\ instance = [i \in Instances |-> IF "start" \in faults THEN "starting" ELSE "up"]
        /\ webhooks = (IF "start" \in faults THEN 0 ELSE 1)
        /\ req = [r \in Requests |-> IF r \in scenario.requests \cup {"create"}
                                     THEN "new" ELSE "refused"]
    BY DEF Init
<1>2. faults \subseteq FaultKinds /\ Budget \in Nat
    BY <1>1, SandboxAssumption
<1>3. log = <<>> /\ Len(log) = 0 /\ log \in Seq(Event) /\ box = "none"
    BY DEF Init
<1>4. Without = {}
    BY <1>1 DEF Without
<1>5. webhooks \in 0 .. Cardinality(Instances) /\ RegisteredOK
    BY <1>1, <1>4, InstancesCounted, FS_EmptySet DEF RegisteredOK
<1>6. TypeOK
    BY <1>1, <1>2, <1>3, <1>5 DEF Init, TypeOK, Event, Steps, HookSteps
<1>7. LogOK /\ CallsOK
    BY <1>3, SandboxAssumption DEF Init, LogOK, CallsOK
<1>8. CreatedFirst /\ RequestsKnow
    BY <1>1, <1>3, SandboxAssumption DEF Init, CreatedFirst, RequestsKnow, Knows, Bringing, Requests
<1>9. QED
    BY <1>5, <1>6, <1>7, <1>8 DEF TInv

(* Every variable keeps its type; in particular the owner's credits never  *)
(* become negative, whatever is charged beside what (projects.service.ts,  *)
(* e2b-webhook.service.ts), and no more webhooks are registered than there *)
(* are instances.                                                          *)
THEOREM SessionTypes == Spec => []TypeOK
<1>1. TInv => TypeOK
    BY DEF TInv
<1>2. QED
    BY <1>1, InitTInv, StepTInv, PTL DEF Spec
-----------------------------------------------------------------------------
(* Chats and their bills.                                                  *)

PaidInv == Solvent /\ AdmittedIsBilled

(* No chat is exposed but those that were or that are admitted now. *)
LEMMA NobodyPays ==
    ASSUME TInv, PaidInv, UNCHANGED <<credits, rivals, unbilled, faults>>,
           \A c \in Chats : Exposed(c)' => Exposed(c) \/ MinimumChat <= credits
    PROVE  PaidInv'
BY DEF PaidInv, Solvent, AdmittedIsBilled

(* Whoever pays makes himself a rival of every other exposed chat. *)
LEMMA OnePays ==
    ASSUME TInv, PaidInv, NEW r, NEW amount, Pay(r, amount), UNCHANGED <<unbilled, faults>>,
           \A c \in Chats : Exposed(c)' => Exposed(c) /\ c # r
    PROVE  PaidInv'
<1>1. rivals' = rivals \cup {c \in Chats \ {r} : Exposed(c)}
    BY DEF Pay, Exposed
<1>2. Solvent'
    BY <1>1 DEF Solvent
<1>3. AdmittedIsBilled'
    BY <1>1 DEF PaidInv, AdmittedIsBilled
<1>4. QED
    BY <1>2, <1>3 DEF PaidInv

LEMMA EndStreamPays ==
    ASSUME TInv, PaidInv, NEW c \in Chats, EndStream(c)
    PROVE  PaidInv'
<1>1. c \in Requests /\ Chats \subseteq Requests
    BY DEF Requests
<1>2. req[c] = "streaming" /\ req' = [req EXCEPT ![c] = "ending"] /\ UNCHANGED faults
    BY DEF EndStream, Goto, ChatKeeps, program
<1>3. Exposed(c) /\ \A o \in Chats : Exposed(o)' => Exposed(o) /\ o # c
    BY <1>1, <1>2 DEF TInv, TypeOK, Exposed
<1>4. CASE Pay(c, Cost[c]) /\ UNCHANGED unbilled
    BY <1>2, <1>3, <1>4, OnePays
<1>5. CASE \/ credits < Cost[c] /\ unbilled' = unbilled \cup {c} /\ UNCHANGED <<credits, rivals>>
           \/ May("split") /\ unbilled' = unbilled \cup {c} /\ UNCHANGED <<credits, rivals>>
    <2>1. Solvent'
        BY <1>3, <1>5 DEF PaidInv, Solvent
    <2>2. credits \in Nat /\ Cost[c] \in Nat /\ MinimumChat \in Nat
        BY SandboxAssumption DEF TInv, TypeOK
    <2>3. Cost[c] <= MinimumChat => c \in rivals' \/ faults' \cap {"split", "crash"} # {}
        BY <1>2, <1>3, <1>5, <2>2 DEF PaidInv, Solvent, May
    <2>4. AdmittedIsBilled'
        BY <1>2, <1>5, <2>3 DEF PaidInv, AdmittedIsBilled
    <2>5. QED
        BY <2>1, <2>4 DEF PaidInv
<1>6. credits \in Nat /\ Cost[c] \in Nat
    BY SandboxAssumption DEF TInv, TypeOK
<1>7. QED
    BY <1>4, <1>5, <1>6 DEF EndStream, BillChat

LEMMA StepPays == TInv /\ PaidInv /\ [Next]_vars => PaidInv'
<1> SUFFICES ASSUME TInv, PaidInv, [Next]_vars PROVE PaidInv'
    OBVIOUS
<1> TypeOK
    BY DEF TInv
<1>1. \A c \in Chats : c \in Requests /\ c \notin Bringing \cup {"create", "delete"}
    BY SandboxAssumption DEF Requests, Bringing
<1>2. CASE UNCHANGED vars
    BY <1>2, NobodyPays DEF vars, history, program, Exposed
<1>3. ASSUME NEW c \in Chats, AdmitChat(c) \/ ActivateChat(c) \/ OpenStream(c) \/ EndChat(c)
      PROVE  PaidInv'
    <2>1. UNCHANGED <<credits, rivals, unbilled, faults>>
        BY <1>3 DEF AdmitChat, ActivateChat, OpenStream, EndChat, ChatKeeps, program
    <2>2. \A o \in Chats \ {c} : req'[o] = req[o]
        BY <1>1, <1>3 DEF AdmitChat, ActivateChat, OpenStream, EndChat, Goto, TypeOK
    <2>3. Exposed(c)' => Exposed(c) \/ MinimumChat <= credits
        BY <1>1, <1>3, SandboxAssumption
           DEF AdmitChat, ActivateChat, OpenStream, EndChat, Goto, TypeOK, Exposed
    <2>4. QED
        BY <2>1, <2>2, <2>3, NobodyPays DEF Exposed
<1>4. ASSUME NEW call \in Calls, ChargeSession(call) PROVE PaidInv'
    <2>1. UNCHANGED <<req, faults, unbilled>>
        BY <1>4 DEF ChargeSession, program
    <2>2. "create" \notin Chats
        BY <1>1
    <2>3. CASE Pay("create", due[call])
        BY <2>1, <2>2, <2>3, OnePays DEF Exposed
    <2>4. CASE UNCHANGED <<credits, rivals>>
        BY <2>1, <2>4, NobodyPays DEF Exposed
    <2>5. QED
        BY <1>4, <2>3, <2>4 DEF ChargeSession
<1>5. CASE Crash
    <2>1. UNCHANGED <<faults, credits, rivals>> /\ "crash" \in faults
        BY <1>5 DEF Crash, May
    <2>2. \A c \in Chats : ~ Exposed(c)'
        BY <1>1, <1>5 DEF Crash, Exposed, InFlight
    <2>3. QED
        BY <2>1, <2>2 DEF PaidInv, Solvent, AdmittedIsBilled
<1>6. ASSUME UNCHANGED <<credits, rivals, unbilled, faults>>, \A c \in Chats : req'[c] = req[c]
      PROVE  PaidInv'
    BY <1>6, NobodyPays DEF Exposed
<1>7. ASSUME NEW r \in Bringing,
             ResumeSandbox(r) \/ PauseSandbox(r) \/ RecordResume(r) \/ RecordPause(r)
      PROVE  PaidInv'
    <2>1. UNCHANGED <<credits, rivals, unbilled, faults>>
        BY <1>7 DEF ResumeSandbox, PauseSandbox, RecordResume, RecordPause, Bring, Finish, bills, program
    <2>2. \A c \in Chats : req'[c] = req[c]
        BY <1>1, <1>7 DEF ResumeSandbox, PauseSandbox, RecordResume, RecordPause, Bring, Finish, Goto,
           TypeOK
    <2>3. QED
        BY <1>6, <2>1, <2>2
<1>8. CASE \/ CreateSandbox \/ InsertProject \/ BeginDelete \/ DeleteHistory \/ DeleteRow
    <2>1. UNCHANGED <<credits, rivals, unbilled, faults>>
        BY <1>8 DEF CreateSandbox, InsertProject, BeginDelete, DeleteHistory, DeleteRow, DeleteKeeps,
           bills, program
    <2>2. \A c \in Chats : req'[c] = req[c]
        BY <1>1, <1>8 DEF CreateSandbox, InsertProject, BeginDelete, DeleteHistory, DeleteRow, Goto,
           TypeOK
    <2>3. QED
        BY <1>6, <2>1, <2>2
<1>9. CASE \/ \E i \in Instances : ListWebhooks(i) \/ RegisterWebhook(i)
           \/ \E call \in Calls : LoseCall(call) \/ MeasureSession(call) \/ RecordEvent(call)
           \/ Tick \/ AutoPause
    <2>1. UNCHANGED <<credits, rivals, unbilled, faults, req>>
        BY <1>9 DEF ListWebhooks, RegisterWebhook, StartKeeps, LoseCall, MeasureSession, RecordEvent,
           Tick, AutoPause, bills, program, history
    <2>2. QED
        BY <1>6, <2>1
<1>10. QED
    BY <1>2, <1>3, <1>4, <1>5, <1>7, <1>8, <1>9, EndStreamPays DEF Next, Bringing

(* Work whose price the balance had to show when the chat was admitted is  *)
(* billed, whatever is paused, deleted or repeated meanwhile, unless       *)
(* something else was charged since, or its event was not understood or    *)
(* the process died (chat.controller.ts, processAIModelCharge).            *)
THEOREM AdmittedPays == Spec => []AdmittedIsBilled
<1>1. Init => TInv /\ PaidInv
    <2>1. Init => PaidInv
        BY DEF Init, PaidInv, Solvent, AdmittedIsBilled, Exposed, Requests
    <2>2. QED
        BY <2>1, InitTInv
<1>2. TInv /\ PaidInv /\ [Next]_vars => (TInv /\ PaidInv)'
    BY StepTInv, StepPays
<1>3. PaidInv => AdmittedIsBilled
    BY DEF PaidInv
<1>4. QED
    BY <1>1, <1>2, <1>3, PTL DEF Spec
-----------------------------------------------------------------------------
(* Sessions and their bills.                                               *)

(* A call that moves on without being charged has an excuse, or had been. *)
HookMoves(call) ==
    \/ hook'[call] = hook[call]
    \/ /\ hook[call] # "unsent" /\ hook'[call] # "unsent"
       /\ hook[call] \in {"writing", "done"} => hook'[call] \in {"writing", "done"}
       /\ \/ hook'[call] \in {"sent", "charging"}
          \/ hook[call] \in {"writing", "done"}
          \/ call[1] \in missed'
          \/ May("lookup")

LEMMA CallsAbout ==
    ASSUME TInv, NEW i \in 1 .. MaxEvents
    PROVE  /\ Sent(i) \subseteq 1 .. Cardinality(Instances)
           /\ \A k \in 1 .. Cardinality(Instances) : <<i, k>> \in Calls
BY DEF Sent, Calls

LEMMA BillStays ==
    ASSUME TInv, LogKept, UNCHANGED faults, missed \subseteq missed',
           NEW i \in 1 .. Len(log), log[i].type = "paused", ChargedOnce(i), charged'[i] = charged[i],
           \A k \in 1 .. Cardinality(Instances) : HookMoves(<<i, k>>)
    PROVE  ChargedOnce(i)'
<1>1. PICK K \in SUBSET Sent(i) :
        /\ charged[i] = Cardinality(K) * CreditsFor(Session(i))
        /\ \A k \in K : hook[<<i, k>>] \in {"writing", "done"}
        /\ i \notin missed /\ ~May("lookup") =>
              \A k \in Sent(i) \ K : hook[<<i, k>>] \in {"sent", "charging"}
    BY DEF ChargedOnce
<1>2. Sent(i)' = Sent(i)
    BY DEF Sent, HookMoves
<1>3. charged'[i] = Cardinality(K) * CreditsFor(Session(i)')
    BY <1>1, SessionKept
<1>4. \A k \in K : hook'[<<i, k>>] \in {"writing", "done"}
    BY <1>1 DEF HookMoves, Sent
<1>5. ASSUME i \notin missed', ~May("lookup"), NEW k \in Sent(i) \ K
      PROVE  hook'[<<i, k>>] \in {"sent", "charging"}
    <2>1. hook[<<i, k>>] \in {"sent", "charging"}
        BY <1>1, <1>5
    <2>2. HookMoves(<<i, k>>) /\ <<i, k>>[1] = i
        BY <1>5 DEF Sent
    <2>3. QED
        BY <1>5, <2>1, <2>2 DEF HookMoves
<1>6. May("lookup")' = May("lookup")
    BY DEF May
<1>7. QED
    BY <1>1, <1>2, <1>3, <1>4, <1>5, <1>6 DEF ChargedOnce, CreditsFor

(* A step that charges nothing. *)
LEMMA BillsStay ==
    ASSUME TInv, TInv', LogKept, Billing, UNCHANGED <<charged, faults, log>>, missed \subseteq missed',
           \A call \in Calls : HookMoves(call)
    PROVE  Billing'
<1> SUFFICES ASSUME NEW i \in 1 .. MaxEvents
             PROVE  IF i <= Len(log) /\ log[i].type = "paused" THEN ChargedOnce(i)' ELSE charged[i] = 0
    BY DEF Billing
<1>1. CASE i <= Len(log) /\ log[i].type = "paused"
    <2>1. i \in 1 .. Len(log)
        BY <1>1 DEF TInv, TypeOK
    <2>2. QED
        BY <1>1, <2>1, BillStays, CallsAbout DEF Billing
<1>2. CASE ~ (i <= Len(log) /\ log[i].type = "paused")
    BY <1>2 DEF Billing
<1>3. QED
    BY <1>1, <1>2

(* An event that happens has cost nothing yet. *)
LEMMA ActsBill ==
    ASSUME TInv, TInv', Billing, LogKept, Acts
    PROVE  Billing'
<1>1. UNCHANGED <<charged, faults>> /\ missed \subseteq missed'
    BY DEF Acts, CreateSandbox, AutoPause, ResumeSandbox, PauseSandbox, Bring, bills, program, records,
       history
<1>2. CASE UNCHANGED <<sandbox, hook>>
    BY <1>1, <1>2, BillsStay DEF HookMoves, sandbox
<1>3. ASSUME NEW type \in EventTypes, Happened(type) PROVE Billing'
    <2> SUFFICES ASSUME NEW i \in 1 .. MaxEvents
                 PROVE  IF i <= Len(log') /\ log'[i].type = "paused" THEN ChargedOnce(i)'
                        ELSE charged'[i] = 0
        BY DEF Billing
    <2>1. Len(log) \in Nat /\ Len(log') = Len(log) + 1
        BY <1>3 DEF Happened, TInv, TypeOK
    <2>2. CASE i \in 1 .. Len(log)
        <3>1. log'[i] = log[i] /\ i <= Len(log')
            BY <2>1, <2>2 DEF LogKept
        <3>2. \A k \in 1 .. Cardinality(Instances) : HookMoves(<<i, k>>)
            BY <1>3, <2>1, <2>2, CallsAbout DEF Happened, HookMoves
        <3>3. CASE log[i].type = "paused"
            BY <1>1, <2>1, <2>2, <3>1, <3>2, <3>3, BillStays DEF Billing
        <3>4. CASE log[i].type # "paused"
            BY <1>1, <2>2, <3>1, <3>4 DEF Billing
        <3>5. QED
            BY <3>3, <3>4
    <2>3. CASE i \notin 1 .. Len(log)
        <3>1. charged'[i] = 0
            BY <1>1, <2>1, <2>3 DEF Billing
        <3>2. ASSUME i <= Len(log'), log'[i].type = "paused" PROVE ChargedOnce(i)'
            <4>1. i \in 1 .. Len(log') /\ i = Len(log')
                BY <2>1, <2>3, <3>2
            <4>2. CreditsFor(Session(i)') \in Nat
                <5>1. log' \in Seq(Event)
                    BY DEF LogKept
                <5>2. i # 1 /\ i - 1 \in 1 .. Len(log')
                    BY <3>2, <4>1 DEF TInv, LogOK
                <5>3. log'[i] \in Event /\ log'[i - 1] \in Event
                    BY <4>1, <5>1, <5>2
                <5>4. Session(i)' \in Int
                    BY <5>3 DEF Event, Session
                <5>5. QED
                    BY <5>4, PriceOfTime
            <4>3. Cardinality({}) * CreditsFor(Session(i)') = 0
                BY <4>2, FS_EmptySet
            <4>4. \A k \in 1 .. Cardinality(Instances) : hook'[<<i, k>>] \in {"unsent", "sent"}
                BY <1>3, <4>1, CallsAbout DEF Happened
            <4>5. QED
                BY <3>1, <4>3, <4>4 DEF ChargedOnce, Sent, CreditsFor
        <3>3. QED
            BY <3>1, <3>2
    <2>4. QED
        BY <2>2, <2>3
<1>4. QED
    BY <1>2, <1>3, ActsHappen

(* A charge is that of the session, and the call's first. *)
LEMMA ChargeBills ==
    ASSUME TInv, TInv', Billing, LogKept, NEW call \in Calls, ChargeSession(call)
    PROVE  Billing'
<1>1. UNCHANGED <<log, faults>> /\ hook[call] = "charging" /\ missed \subseteq missed'
    BY DEF ChargeSession, sandbox, program
<1>2. \A other \in Calls \ {call} : hook'[other] = hook[other]
    BY DEF ChargeSession, TInv, TypeOK
<1>3. CASE UNCHANGED charged /\ call[1] \in missed' /\ hook' = [hook EXCEPT ![call] = "done"]
    <2>1. hook'[call] = "done"
        BY <1>3 DEF TInv, TypeOK
    <2>2. \A other \in Calls : HookMoves(other)
        BY <1>1, <1>2, <1>3, <2>1 DEF HookMoves
    <2>3. QED
        BY <1>1, <1>3, <2>2, BillsStay
<1>4. CASE /\ charged' = [charged EXCEPT ![call[1]] = @ + due[call]]
           /\ hook' = [hook EXCEPT ![call] = "writing"]
           /\ UNCHANGED missed
    <2>1. PICK i \in 1 .. MaxEvents, k \in 1 .. Cardinality(Instances) : call = <<i, k>>
        BY DEF Calls
    <2>2. /\ i \in 1 .. Len(log) /\ log[i].type = "paused" /\ due[call] = CreditsFor(Session(i))
          /\ CreditsFor(Session(i)) \in Nat
        BY <1>1, <2>1, CallMeasures DEF TInv, CallsOK
    <2>3. hook'[call] = "writing"
        BY <1>4 DEF TInv, TypeOK
    <2>4. charged'[i] = charged[i] + CreditsFor(Session(i))
          /\ \A j \in 1 .. MaxEvents \ {i} : charged'[j] = charged[j]
        <3>1. charged' = [charged EXCEPT ![i] = charged[i] + due[call]]
            BY <1>4, <2>1
        <3>2. charged \in [1 .. MaxEvents -> Nat]
            BY DEF TInv, TypeOK
        <3>3. QED
            BY <2>2, <3>1, <3>2
    <2>5. ChargedOnce(i)'
        <3>1. PICK K \in SUBSET Sent(i) :
                /\ charged[i] = Cardinality(K) * CreditsFor(Session(i))
                /\ \A j \in K : hook[<<i, j>>] \in {"writing", "done"}
                /\ i \notin missed /\ ~May("lookup") =>
                      \A j \in Sent(i) \ K : hook[<<i, j>>] \in {"sent", "charging"}
            BY <2>2 DEF Billing, ChargedOnce
        <3>2. k \notin K /\ IsFiniteSet(K)
            <4>1. Sent(i) \subseteq 1 .. Cardinality(Instances)
                BY DEF Sent
            <4>2. IsFiniteSet(1 .. Cardinality(Instances))
                BY InstancesCounted, FS_Interval
            <4>3. QED
                BY <1>1, <2>1, <3>1, <4>1, <4>2, FS_Subset
        <3>3. Cardinality(K \cup {k}) = Cardinality(K) + 1 /\ Cardinality(K) \in Nat
            BY <3>2, FS_AddElement, FS_CardinalityType
        <3>4. charged'[i] = Cardinality(K \cup {k}) * CreditsFor(Session(i))
            <4>1. \A n, p \in Nat : (n + 1) * p = n * p + p
                OBVIOUS
            <4>2. QED
                BY <2>2, <2>4, <3>1, <3>3, <4>1
        <3>5. Sent(i)' = Sent(i) /\ k \in Sent(i)
            BY <1>1, <1>2, <2>1, <2>3, CallsAbout DEF Sent
        <3>6. /\ \A j \in K \cup {k} : hook'[<<i, j>>] \in {"writing", "done"}
              /\ i \notin missed /\ ~May("lookup") =>
                      \A j \in Sent(i) \ (K \cup {k}) : hook'[<<i, j>>] \in {"sent", "charging"}
            <4>1. \A j \in 1 .. Cardinality(Instances) : j # k => hook'[<<i, j>>] = hook[<<i, j>>]
                BY <1>2, <2>1, CallsAbout
            <4>2. QED
                BY <2>1, <2>3, <3>1, <4>1, CallsAbout
        <3>7. Session(i)' = Session(i) /\ May("lookup")' = May("lookup")
            BY <1>1 DEF Session, May
        <3>8. QED
            BY <1>4, <3>4, <3>5, <3>6, <3>7 DEF ChargedOnce, CreditsFor
    <2>6. ASSUME NEW j \in 1 .. MaxEvents, j # i
          PROVE  IF j <= Len(log') /\ log'[j].type = "paused" THEN ChargedOnce(j)' ELSE charged'[j] = 0
        <3>1. \A m \in 1 .. Cardinality(Instances) : HookMoves(<<j, m>>)
            BY <1>2, <2>1, <2>6, CallsAbout DEF HookMoves
        <3>2. CASE j <= Len(log) /\ log[j].type = "paused"
            <4>1. j \in 1 .. Len(log) /\ ChargedOnce(j) /\ charged'[j] = charged[j]
                BY <2>4, <2>6, <3>2 DEF Billing, TInv, TypeOK
            <4>2. QED
                BY <1>1, <3>1, <3>2, <4>1, BillStays
        <3>3. CASE ~ (j <= Len(log) /\ log[j].type = "paused")
            BY <1>1, <2>4, <2>6, <3>3 DEF Billing
        <3>4. QED
            BY <1>1, <3>2, <3>3
    <2>7. QED
        BY <1>1, <2>2, <2>5, <2>6 DEF Billing
<1>5. QED
    BY <1>3, <1>4 DEF ChargeSession

LEMMA StepBills == TInv /\ Billing /\ [Next]_vars => Billing'
<1> SUFFICES ASSUME TInv, Billing, [Next]_vars PROVE Billing'
    OBVIOUS
<1>1. TInv' /\ LogKept
    BY StepTInv
<1>2. ASSUME UNCHANGED <<log, faults, charged, missed, hook>> PROVE Billing'
    BY <1>1, <1>2, BillsStay DEF HookMoves
<1>3. ASSUME NEW call \in Calls, LoseCall(call) \/ MeasureSession(call) \/ RecordEvent(call)
      PROVE  Billing'
    <2>1. UNCHANGED <<log, faults, charged>> /\ missed \subseteq missed'
        BY <1>3 DEF LoseCall, MeasureSession, RecordEvent, sandbox, program, bills, records
    <2>2. \A other \in Calls \ {call} : hook'[other] = hook[other]
        BY <1>3 DEF LoseCall, MeasureSession, RecordEvent, TInv, TypeOK
    <2>3. HookMoves(call)
        <3>1. CASE LoseCall(call) \/ RecordEvent(call)
            BY <3>1 DEF LoseCall, RecordEvent, TInv, TypeOK, HookMoves
        <3>2. CASE MeasureSession(call)
            <4>1. hook[call] = "sent" /\ CreditsFor(Session(call[1])) > 0
                BY <3>2, CallMeasures DEF MeasureSession
            <4>2. hook'[call] = "charging" \/ (hook'[call] = "writing" /\ May("lookup"))
                BY <3>2, <4>1, MeasureDoes DEF TInv, TypeOK
            <4>3. QED
                BY <4>1, <4>2 DEF HookMoves
        <3>3. QED
            BY <1>3, <3>1, <3>2
    <2>4. \A other \in Calls : HookMoves(other)
        BY <2>2, <2>3 DEF HookMoves
    <2>5. QED
        BY <1>1, <2>1, <2>4, BillsStay
<1>4. CASE Crash
    <2>1. UNCHANGED <<log, faults, charged>> /\ missed \subseteq missed'
        BY <1>4 DEF Crash, sandbox
    <2>2. \A call \in Calls : Handling(call) => call[1] \in missed'
        BY <1>4 DEF Crash
    <2>3. \A call \in Calls : HookMoves(call)
        BY <1>4, <2>2 DEF Crash, Handling, HookMoves
    <2>4. QED
        BY <1>1, <2>1, <2>3, BillsStay
<1>5. ASSUME NEW c \in Chats,
             AdmitChat(c) \/ ActivateChat(c) \/ OpenStream(c) \/ EndStream(c) \/ EndChat(c)
      PROVE  Billing'
    BY <1>2, <1>5 DEF AdmitChat, ActivateChat, OpenStream, EndStream, EndChat, ChatKeeps, program,
       sandbox, records
<1>6. CASE \/ \E i \in Instances : ListWebhooks(i) \/ RegisterWebhook(i)
           \/ InsertProject \/ BeginDelete \/ DeleteHistory \/ DeleteRow
           \/ \E r \in Resumes : RecordResume(r)
           \/ \E r \in Pauses : RecordPause(r)
           \/ Tick \/ UNCHANGED vars
    BY <1>2, <1>6 DEF ListWebhooks, RegisterWebhook, StartKeeps, InsertProject, BeginDelete,
       DeleteHistory, DeleteRow, DeleteKeeps, RecordResume, RecordPause, Finish, Tick, vars,
       program, sandbox, records, bills, history
<1>7. QED
    BY <1>1, <1>3, <1>4, <1>5, <1>6, ActsBill, ChargeBills DEF Next, Acts

(* However late, often or partly the webhook is called, an event is        *)
(* charged the price of the session that it ended, once for each           *)
(* registered webhook whose call did not fail (e2b-webhook.service.ts:     *)
(* 410-484).                                                               *)
THEOREM SessionsAreCharged == Spec => []ChargedBySession
<1>1. Init => TInv /\ Billing
    <2>1. Init => Billing
        BY SandboxAssumption DEF Init, Billing
    <2>2. QED
        BY <2>1, InitTInv
<1>2. TInv /\ Billing /\ [Next]_vars => (TInv /\ Billing)'
    BY StepTInv, StepBills
<1>3. TInv /\ Billing => ChargedBySession
    <2> SUFFICES ASSUME TInv, Billing, NEW i \in 1 .. Len(log)
                 PROVE  IF log[i].type = "paused"
                        THEN \E k \in 0 .. Cardinality(Sent(i)) :
                                /\ charged[i] = k * CreditsFor(Session(i))
                                /\ Handled(i) /\ i \notin missed /\ ~May("lookup")
                                      => k = Cardinality(Sent(i))
                        ELSE charged[i] = 0
        BY DEF ChargedBySession
    <2>1. i \in 1 .. MaxEvents
        BY SandboxAssumption DEF TInv, LogOK, TypeOK
    <2>2. CASE log[i].type = "paused"
        <3>1. PICK K \in SUBSET Sent(i) :
                /\ charged[i] = Cardinality(K) * CreditsFor(Session(i))
                /\ i \notin missed /\ ~May("lookup") =>
                      \A k \in Sent(i) \ K : hook[<<i, k>>] \in {"sent", "charging"}
            BY <2>1, <2>2 DEF Billing, ChargedOnce
        <3>2. IsFiniteSet(Sent(i))
            <4>1. IsFiniteSet(1 .. Cardinality(Instances))
                BY InstancesCounted, FS_Interval
            <4>2. QED
                BY <2>1, <4>1, FS_Subset, CallsAbout
        <3>3. Cardinality(K) \in 0 .. Cardinality(Sent(i))
            BY <3>2, FS_Subset, FS_CardinalityType
        <3>4. Handled(i) /\ i \notin missed /\ ~May("lookup") => K = Sent(i)
            BY <3>1 DEF Handled
        <3>5. QED
            BY <2>2, <3>1, <3>3, <3>4
    <2>3. QED
        BY <2>1, <2>2 DEF Billing
<1>4. QED
    BY <1>1, <1>2, <1>3, PTL DEF Spec
-----------------------------------------------------------------------------
(* The row and the sandbox.                                                *)

TellsInv == RowTells /\ EventsFollowed

(* A step that does not write what the row tells. *)
RowStays ==
    /\ basis'["row"] = basis["row"] /\ UNCHANGED <<overtaken, state>>
    /\ project' \in {project, "deleted"}
    /\ project' = "none" => \A r \in Bringing : req'[r] # "called"

(* A writer knows of event n, and writes what was true after it. *)
RowWritten(n) ==
    /\ UNCHANGED log /\ n \in 1 .. Len(log) /\ project' = "stored"
    /\ state' = StateAfter(n) /\ (~ overtaken' => n >= basis["row"])
    /\ basis'["row"] = IF basis["row"] >= n THEN basis["row"] ELSE n

LEMMA RowOnTells ==
    ASSUME TInv, LogKept, RowTells, RowStays
    PROVE  RowTells'
<1>1. basis["row"] \in Nat /\ Len(log) \in Nat /\ Len(log') \in Nat /\ Len(log) <= Len(log')
    BY DEF TInv, TypeOK, LogKept
<1>2. (basis["row"] <= Len(log))'
    BY <1>1 DEF RowTells, RowStays
<1>3. Stored' => Stored /\ basis["row"] \in 1 .. Len(log)
    BY <1>1 DEF RowStays, Stored, RowTells
<1>4. Stored' => log'[basis'["row"]] = log[basis["row"]]
    BY <1>3 DEF RowStays, LogKept
<1>5. QED
    BY <1>2, <1>3, <1>4 DEF RowTells, RowStays, StateAfter

LEMMA RowNewTells ==
    ASSUME TInv, RowTells, NEW n, RowWritten(n)
    PROVE  RowTells'
<1>1. basis["row"] \in Nat /\ n \in Nat /\ n > 0 /\ n <= Len(log)
    BY DEF TInv, TypeOK, RowWritten
<1>2. Stored' /\ basis'["row"] > 0 /\ basis'["row"] <= Len(log')
    BY <1>1 DEF RowWritten, RowTells, Stored
<1>3. ~ overtaken' => basis'["row"] = n
    BY <1>1 DEF RowWritten
<1>4. QED
    BY <1>2, <1>3 DEF RowTells, RowWritten, StateAfter, Stored

(* Nobody who was to tell of an event leaves without having told, or       *)
(* having missed it.                                                       *)
Tells ==
    /\ missed \subseteq missed' /\ basis["row"] <= basis'["row"]
    /\ \A r \in Bringing : req[r] = "called" =>
          \/ req'[r] = "called" /\ basis'[r] = basis[r]
          \/ basis[r] \in missed' \/ basis[r] <= basis'["row"]
    /\ \A call \in Calls : call[1] <= Len(log) =>
          \/ hook'[call] = hook[call]
          \/ /\ hook[call] # "unsent" /\ hook'[call] # "unsent"
             /\ hook'[call] # "done" \/ call[1] \in missed' \/ call[1] <= basis'["row"]
    /\ project = "none" => project' = "none" \/ basis'["row"] >= 1

LEMMA FollowedOn ==
    ASSUME TInv, TInv', LogKept, Tells, NEW i \in 1 .. Len(log), Followed(i)
    PROVE  Followed(i)'
<1>1. basis["row"] \in Nat /\ basis'["row"] \in Nat /\ i \in 1 .. MaxEvents /\ i <= Len(log)
    <2>1. basis["row"] \in Nat
        BY DEF TInv, TypeOK
    <2>2. basis'["row"] \in Nat
        BY DEF TInv, TypeOK
    <2>3. i \in 1 .. MaxEvents /\ i <= Len(log)
        BY SandboxAssumption DEF TInv, TypeOK, LogOK
    <2>4. QED
        BY <2>1, <2>2, <2>3
<1>2. \A k \in 1 .. Cardinality(Instances) : <<i, k>> \in Calls /\ <<i, k>>[1] = i
    BY <1>1, CallsAbout
<1>3. Sent(i)' = Sent(i)
    BY <1>1, <1>2 DEF Tells, Sent
<1>4. CASE i <= basis["row"] \/ i \in missed
    BY <1>1, <1>4 DEF Tells, Followed
<1>5. CASE i = 1 /\ project = "none"
    BY <1>5 DEF Tells, Followed
<1>6. CASE \E r \in Bringing : req[r] = "called" /\ basis[r] = i
    BY <1>6 DEF Tells, Followed
<1>7. CASE log[i].type = "paused" /\ Sent(i) = {}
    BY <1>3, <1>7 DEF LogKept, Followed
<1>8. CASE \E k \in Sent(i) : hook[<<i, k>>] # "done"
    <2>1. PICK k \in Sent(i) : hook[<<i, k>>] # "done"
        BY <1>8
    <2>2. k \in 1 .. Cardinality(Instances)
        BY DEF Sent
    <2>3. hook'[<<i, k>>] # "done" \/ i \in missed' \/ i <= basis'["row"]
        BY <1>1, <1>2, <2>1, <2>2 DEF Tells
    <2>4. QED
        BY <1>3, <2>3 DEF Followed
<1>9. QED
    BY <1>4, <1>5, <1>6, <1>7, <1>8 DEF Followed

LEMMA EventsOn ==
    ASSUME TInv, TInv', LogKept, EventsFollowed, project' # "deleted" => project # "deleted" /\ Tells,
           project' # "deleted" => \A i \in 1 .. Len(log') : i \in 1 .. Len(log) \/ Followed(i)'
    PROVE  EventsFollowed'
BY FollowedOn DEF EventsFollowed

(* Steps that write neither the row nor what is known of events. *)
Aside ==
    /\ UNCHANGED <<log, overtaken, state, missed, hook>> /\ basis' = basis
    /\ \A r \in Bringing : req'[r] = req[r]
    /\ project' \in {project, "deleted"} /\ (project = "deleted" => project' = "deleted")

LEMMA AsideTells ==
    ASSUME TInv, TInv', LogKept, TellsInv, Aside
    PROVE  TellsInv'
<1>1. RowStays
    BY DEF Aside, RowStays, TellsInv, RowTells
<1>2. project' # "deleted" => project # "deleted" /\ Tells
    BY DEF Aside, Tells, TInv, TypeOK
<1>3. QED
    BY <1>1, <1>2, RowOnTells, EventsOn DEF TellsInv, Aside

LEMMA ActsTell ==
    ASSUME TInv, TInv', LogKept, TellsInv, Acts
    PROVE  TellsInv'
<1> TypeOK /\ Bringing \subseteq Requests /\ "create" \notin Bringing /\ "row" \notin Requests
    BY SandboxAssumption, RowIsNoRequest DEF TInv, Bringing, Requests
<1>1. UNCHANGED <<overtaken, state, project>> /\ missed \subseteq missed'
    BY DEF Acts, CreateSandbox, AutoPause, ResumeSandbox, PauseSandbox, Bring, records, history, db
<1>2. CASE CreateSandbox \/ AutoPause
    <2>1. UNCHANGED basis /\ \A r \in Bringing : req'[r] = req[r]
        BY <1>2 DEF CreateSandbox, AutoPause, Goto, TypeOK, records, history
    <2>2. RowStays
        BY <1>1, <2>1 DEF RowStays, TellsInv, RowTells
    <2>3. \A call \in Calls : call[1] <= Len(log) => hook'[call] = hook[call]
        BY ActsHappen DEF Happened, TypeOK
    <2>4. Tells
        BY <1>1, <2>1, <2>3 DEF Tells, TypeOK
    <2>5. ASSUME NEW i \in 1 .. Len(log') PROVE i \in 1 .. Len(log) \/ Followed(i)'
        <3>1. CASE CreateSandbox
            <4>1. project = "none" /\ log = <<>>
                BY <3>1 DEF CreateSandbox, Goto, TInv, CreatedFirst
            <4>2. Len(log') <= Len(log) + 1
                BY ActsHappen DEF Happened, sandbox, TypeOK
            <4>3. i = 1
                BY <2>5, <4>1, <4>2
            <4>4. QED
                BY <1>1, <4>1, <4>3 DEF Followed
        <3>2. CASE AutoPause /\ i \notin 1 .. Len(log)
            <4>1. PICK type \in EventTypes : Happened(type)
                BY <2>5, <3>2, ActsHappen DEF sandbox
            <4>2. i = Len(log')
                BY <2>5, <3>2, <4>1 DEF Happened, TypeOK
            <4>3. log'[i].type = "paused"
                BY <3>2, <4>2 DEF AutoPause, Happens, TypeOK
            <4>4. i \in 1 .. MaxEvents
                BY <2>5, SandboxAssumption DEF TInv, LogOK, LogKept
            <4>5. \A k \in 1 .. Cardinality(Instances) : hook'[<<i, k>>] \in {"unsent", "sent"}
                BY <4>1, <4>2, <4>4, CallsAbout DEF Happened
            <4>6. QED
                BY <4>3, <4>5 DEF Followed, Sent
        <3>3. QED
            BY <1>2, <3>1, <3>2
    <2>6. QED
        BY <1>1, <2>2, <2>4, <2>5, RowOnTells, EventsOn DEF TellsInv, EventsFollowed
<1>3. ASSUME NEW r \in Bringing, ResumeSandbox(r) \/ PauseSandbox(r) PROVE TellsInv'
    <2>1. PICK to \in {"called", "done"} :
             /\ req[r] = "new" /\ req' = [req EXCEPT ![r] = to] /\ basis' = [basis EXCEPT ![r] = Len(log')]
             /\ to = "called" \/ Len(log') \in missed' \/ UNCHANGED log
        BY <1>3 DEF ResumeSandbox, PauseSandbox, Bring, Goto, sandbox
    <2>2. project = "stored"
        BY <1>3 DEF ResumeSandbox, PauseSandbox, Bring, Stored
    <2>3. basis'["row"] = basis["row"] /\ \A o \in Bringing \ {r} : req'[o] = req[o] /\ basis'[o] = basis[o]
        BY <2>1 DEF TypeOK
    <2>4. req'[r] = to /\ basis'[r] = Len(log')
        BY <2>1 DEF TypeOK
    <2>5. RowStays
        BY <1>1, <2>2, <2>3 DEF RowStays
    <2>6. \A call \in Calls : call[1] <= Len(log) => hook'[call] = hook[call]
        BY ActsHappen DEF Happened, TypeOK
    <2>7. Tells
        BY <1>1, <2>1, <2>2, <2>3, <2>6 DEF Tells, TypeOK
    <2>8. ASSUME NEW i \in 1 .. Len(log'), i \notin 1 .. Len(log) PROVE Followed(i)'
        <3>1. i = Len(log') /\ log' # log
            BY <2>8, ActsHappen DEF Happened, sandbox, TypeOK
        <3>2. QED
            BY <2>1, <2>4, <3>1 DEF Followed
    <2>9. QED
        BY <1>1, <2>2, <2>5, <2>7, <2>8, RowOnTells, EventsOn DEF TellsInv
<1>4. QED
    BY <1>2, <1>3 DEF Acts, Bringing

(* The end of a request writes what it knows, if the row is there. *)
LEMMA WritersTell ==
    ASSUME TInv, TInv', LogKept, TellsInv,
           \/ InsertProject
           \/ \E r \in Resumes : RecordResume(r)
           \/ \E r \in Pauses : RecordPause(r)
    PROVE  TellsInv'
<1> TypeOK /\ Bringing \subseteq Requests /\ "create" \notin Bringing /\ Len(log) \in Nat
    /\ basis["row"] \in Nat
    BY SandboxAssumption DEF TInv, TypeOK, Bringing, Requests
<1>1. UNCHANGED <<log, hook, missed>>
    BY DEF InsertProject, RecordResume, RecordPause, Finish, sandbox
<1>2. ASSUME project' # "deleted" => Tells, project' # "deleted" => project # "deleted", RowTells'
      PROVE  TellsInv'
    BY <1>1, <1>2, EventsOn DEF TellsInv
<1>3. CASE InsertProject
    <2>1. req["create"] = "called" /\ req' = [req EXCEPT !["create"] = "done"]
        BY <1>3 DEF InsertProject, Goto
    <2>2. project = "none" /\ log # <<>>
        BY <2>1 DEF TInv, CreatedFirst
    <2>3. \A r \in Bringing : req'[r] = req[r]
        BY <2>1 DEF TypeOK
    <2>4. CASE project' = "stored" /\ Record(1, "RUNNING")
        <3>1. 1 \in 1 .. Len(log) /\ StateAfter(1) = "RUNNING"
            BY <2>2, Logged DEF TInv, LogOK, TypeOK, StateAfter
        <3>2. RowWritten(1)
            BY <1>1, <2>4, <3>1, RecordDoes DEF RowWritten
        <3>3. Tells
            BY <1>1, <2>2, <2>3, <2>4, <3>2, RecordDoes DEF Tells, RowWritten
        <3>4. QED
            BY <1>2, <2>2, <2>4, <3>2, <3>3, RowNewTells DEF TellsInv
    <2>5. CASE UNCHANGED <<db, basis, overtaken>>
        BY <1>1, <2>2, <2>3, <2>5, AsideTells DEF Aside, db
    <2>6. QED
        BY <1>3, <2>4, <2>5 DEF InsertProject
<1>4. ASSUME NEW r \in Bringing, NEW newStatus,
             Finish(r, newStatus, IF r \in Pauses THEN "PAUSED" ELSE "RUNNING")
      PROVE  TellsInv'
    <2>1. req[r] = "called" /\ req' = [req EXCEPT ![r] = "done"] /\ UNCHANGED project
        BY <1>4 DEF Finish, Goto
    <2>2. basis[r] \in 1 .. Len(log) /\ StateAfter(basis[r]) = IF r \in Pauses THEN "PAUSED" ELSE "RUNNING"
        BY <2>1 DEF TInv, RequestsKnow, Knows
    <2>3. \A o \in Bringing \ {r} : req'[o] = req[o]
        BY <2>1 DEF TypeOK
    <2>4. project # "none"
        BY <2>1 DEF TellsInv, RowTells
    <2>5. CASE project = "stored"
        <3>1. Record(basis[r], IF r \in Pauses THEN "PAUSED" ELSE "RUNNING")
            BY <1>4, <2>5 DEF Finish, Stored
        <3>2. /\ RowWritten(basis[r]) /\ basis'["row"] >= basis[r]
              /\ \A o \in Bringing : basis'[o] = basis[o]
            BY <1>1, <2>1, <2>2, <2>5, <3>1, RecordDoes DEF RowWritten
        <3>3. basis["row"] <= basis'["row"]
            BY <2>2, <3>2 DEF RowWritten
        <3>4. Tells
            BY <1>1, <2>3, <2>4, <3>2, <3>3 DEF Tells
        <3>5. QED
            BY <1>2, <2>1, <2>5, <3>2, <3>4, RowNewTells DEF TellsInv
    <2>6. CASE project = "deleted"
        <3>1. UNCHANGED <<state, basis, overtaken>>
            BY <1>4, <2>6 DEF Finish, Stored
        <3>2. RowStays
            BY <2>1, <2>6, <3>1 DEF RowStays
        <3>3. QED
            BY <1>2, <2>1, <2>6, <3>2, RowOnTells DEF TellsInv
    <2>7. QED
        BY <2>4, <2>5, <2>6 DEF TypeOK
<1>5. ASSUME NEW r \in Resumes, RecordResume(r) PROVE TellsInv'
    <2>1. r \in Bringing /\ r \notin Pauses
        BY SandboxAssumption DEF Bringing
    <2>2. QED
        BY <1>4, <1>5, <2>1 DEF RecordResume
<1>6. ASSUME NEW r \in Pauses, RecordPause(r) PROVE TellsInv'
    <2>1. r \in Bringing
        BY DEF Bringing
    <2>2. QED
        BY <1>4, <1>6, <2>1 DEF RecordPause
<1>7. QED
    BY <1>3, <1>5, <1>6

LEMMA CallsTell ==
    ASSUME TInv, TInv', LogKept, TellsInv, NEW call \in Calls,
           LoseCall(call) \/ MeasureSession(call) \/ ChargeSession(call) \/ RecordEvent(call)
    PROVE  TellsInv'
<1> TypeOK /\ Bringing \subseteq Requests /\ Len(log) \in Nat /\ basis["row"] \in Nat
    BY DEF TInv, TypeOK, Bringing, Requests
<1>1. UNCHANGED <<log, req, project>> /\ missed \subseteq missed'
    BY DEF LoseCall, MeasureSession, ChargeSession, RecordEvent, sandbox, db, records
<1>2. \A other \in Calls \ {call} : hook'[other] = hook[other]
    BY DEF LoseCall, MeasureSession, ChargeSession, RecordEvent, TypeOK
<1>3. hook[call] # "unsent" /\ hook'[call] # "unsent"
    <2>1. MeasureSession(call) => hook'[call] # "unsent"
        BY MeasureDoes DEF TypeOK
    <2>2. LoseCall(call) \/ ChargeSession(call) \/ RecordEvent(call) => hook'[call] # "unsent"
        BY DEF LoseCall, ChargeSession, RecordEvent, TypeOK
    <2>3. QED
        BY <2>1, <2>2 DEF LoseCall, MeasureSession, ChargeSession, RecordEvent
<1>4. call[1] \in 1 .. Len(log) /\ log[call[1]].type = "paused"
    BY <1>3, CallMeasures
<1>5. CASE LoseCall(call) \/ MeasureSession(call) \/ ChargeSession(call)
    <2>1. UNCHANGED <<basis, overtaken, state>>
        BY <1>5 DEF LoseCall, MeasureSession, ChargeSession, records, db
    <2>2. RowStays
        BY <1>1, <2>1 DEF RowStays, TellsInv, RowTells
    <2>3. hook'[call] # "done" \/ call[1] \in missed'
        <3>1. MeasureSession(call) => hook'[call] # "done"
            BY MeasureDoes DEF TypeOK
        <3>2. LoseCall(call) \/ ChargeSession(call) => hook'[call] # "done" \/ call[1] \in missed'
            BY DEF LoseCall, ChargeSession, TypeOK
        <3>3. QED
            BY <1>5, <3>1, <3>2
    <2>4. Tells
        BY <1>1, <1>2, <1>3, <2>1, <2>3 DEF Tells
    <2>5. QED
        BY <1>1, <2>2, <2>4, RowOnTells, EventsOn DEF TellsInv, EventsFollowed
<1>6. CASE RecordEvent(call) /\ Stored
    <2>1. Record(call[1], "PAUSED")
        BY <1>6 DEF RecordEvent
    <2>2. /\ RowWritten(call[1]) /\ basis'["row"] >= call[1]
          /\ \A r \in Bringing : basis'[r] = basis[r]
        BY <1>1, <1>4, <1>6, <2>1, RecordDoes DEF RowWritten, Stored, StateAfter
    <2>3. basis["row"] <= basis'["row"]
        BY <1>4, <2>2 DEF RowWritten
    <2>4. Tells
        BY <1>1, <1>2, <1>3, <1>6, <2>2, <2>3 DEF Tells, Stored
    <2>5. QED
        BY <1>1, <1>6, <2>2, <2>4, RowNewTells, EventsOn DEF TellsInv, Stored
<1>7. CASE RecordEvent(call) /\ ~ Stored
    <2>1. UNCHANGED <<state, basis, overtaken>> /\ call[1] \in missed'
        BY <1>7 DEF RecordEvent
    <2>2. RowStays
        BY <1>1, <2>1 DEF RowStays, TellsInv, RowTells
    <2>3. Tells
        BY <1>1, <1>2, <1>3, <2>1 DEF Tells
    <2>4. QED
        BY <1>1, <2>2, <2>3, RowOnTells, EventsOn DEF TellsInv, EventsFollowed
<1>8. QED
    BY <1>5, <1>6, <1>7

LEMMA CrashTells ==
    ASSUME TInv, TInv', LogKept, TellsInv, Crash
    PROVE  TellsInv'
<1> TypeOK /\ Bringing \subseteq Requests
    BY DEF TInv, Bringing, Requests
<1>1. UNCHANGED <<log, basis, overtaken, state, project>> /\ missed \subseteq missed'
    BY DEF Crash, db, sandbox
<1>2. \A r \in Bringing : req'[r] = req[r] \/ (req'[r] = "done" /\ basis[r] \in missed')
    BY DEF Crash, Bringing
<1>3. \A call \in Calls : \/ hook'[call] = hook[call]
                          \/ /\ hook[call] # "unsent" /\ hook'[call] # "unsent"
                             /\ call[1] \in missed'
    <2>1. \A call \in Calls : Handling(call) => call[1] \in missed'
        BY DEF Crash
    <2>2. QED
        BY <2>1 DEF Crash, Handling
<1>4. RowStays
    BY <1>1, <1>2 DEF RowStays, TellsInv, RowTells
<1>5. Tells
    BY <1>1, <1>2, <1>3 DEF Tells, TypeOK
<1>6. QED
    BY <1>1, <1>4, <1>5, RowOnTells, EventsOn DEF TellsInv, EventsFollowed

LEMMA StepTells == TInv /\ TellsInv /\ [Next]_vars => TellsInv'
<1> SUFFICES ASSUME TInv, TellsInv, [Next]_vars PROVE TellsInv'
    OBVIOUS
<1> TypeOK
    BY DEF TInv
<1>1. TInv' /\ LogKept
    BY StepTInv
<1>2. \A r \in Bringing : r \in Requests /\ r # "delete" /\ r \notin Chats
    BY SandboxAssumption DEF Bringing, Requests
<1>3. ASSUME NEW c \in Chats,
             AdmitChat(c) \/ ActivateChat(c) \/ OpenStream(c) \/ EndStream(c) \/ EndChat(c)
      PROVE  TellsInv'
    <2>1. \A r \in Bringing : req'[r] = req[r]
        BY <1>2, <1>3 DEF AdmitChat, ActivateChat, OpenStream, EndStream, EndChat, Goto, TypeOK
    <2>2. ChatKeeps
        BY <1>3 DEF AdmitChat, ActivateChat, OpenStream, EndStream, EndChat
    <2>3. QED
        BY <1>1, <2>1, <2>2, AsideTells DEF Aside, ChatKeeps, sandbox, records
<1>4. CASE BeginDelete \/ DeleteHistory \/ DeleteRow
    <2>1. \A r \in Bringing : req'[r] = req[r]
        BY <1>2, <1>4 DEF BeginDelete, DeleteHistory, DeleteRow, Goto, TypeOK
    <2>2. project' \in {project, "deleted"} /\ (project = "deleted" => project' = "deleted")
        BY <1>4 DEF BeginDelete, DeleteHistory, DeleteRow
    <2>3. UNCHANGED <<log, overtaken, state, missed, hook, basis>>
        BY <1>4 DEF BeginDelete, DeleteHistory, DeleteRow, DeleteKeeps, sandbox, records
    <2>4. QED
        BY <1>1, <2>1, <2>2, <2>3, AsideTells DEF Aside
<1>5. CASE (\E i \in Instances : ListWebhooks(i) \/ RegisterWebhook(i)) \/ Tick \/ UNCHANGED vars
    <2>1. UNCHANGED <<log, overtaken, state, missed, hook, basis, req, project>>
        BY <1>5 DEF ListWebhooks, RegisterWebhook, StartKeeps, Tick, vars, db, sandbox, history
    <2>2. QED
        BY <1>1, <2>1, AsideTells DEF Aside
<1>6. QED
    BY <1>1, <1>3, <1>4, <1>5, ActsTell, WritersTell, CallsTell, CrashTells DEF Next, Acts

(* When nothing is under way the project's row has the state of its        *)
(* sandbox (sandbox.service.ts, e2b-webhook.service.ts), unless its last   *)
(* writer knew less than one before, or the last event was missed or       *)
(* nobody was to be called about it.                                       *)
THEOREM RowToldTheSandbox == Spec => []RowTellsSandbox
<1>1. Init => TInv /\ TellsInv
    <2>1. Init => TellsInv
        BY SandboxAssumption DEF Init, TellsInv, RowTells, EventsFollowed, Stored, Bringing, Requests
    <2>2. QED
        BY <2>1, InitTInv
<1>2. TInv /\ TellsInv /\ [Next]_vars => (TInv /\ TellsInv)'
    BY StepTInv, StepTells
<1>3. TInv /\ TellsInv => RowTellsSandbox
    <2> SUFFICES ASSUME TInv, TellsInv, Stored, Quiet
                 PROVE  \/ state = IF box = "running" THEN "RUNNING" ELSE "PAUSED"
                        \/ overtaken
                        \/ Len(log) \in missed
                        \/ box = "paused" /\ Sent(Len(log)) = {}
        BY DEF RowTellsSandbox
    <2>1. basis["row"] \in 1 .. Len(log) /\ Len(log) \in 1 .. Len(log) /\ Len(log) \in 1 .. MaxEvents
        BY SandboxAssumption DEF TellsInv, RowTells, TInv, TypeOK, LogOK
    <2>2. box = IF log[Len(log)].type = "paused" THEN "paused" ELSE "running"
        BY <2>1 DEF TInv, LogOK, TypeOK
    <2>3. Followed(Len(log))
        BY <2>1 DEF TellsInv, EventsFollowed, Stored
    <2>4. ~ \E r \in Bringing : req[r] = "called"
        BY DEF Quiet, InFlight, Bringing
    <2>5. ~ \E k \in Sent(Len(log)) : hook[<<Len(log), k>>] # "done"
        BY <2>1, CallsAbout DEF Quiet, Sent
    <2>6. CASE Len(log) <= basis["row"]
        <3>1. basis["row"] = Len(log)
            BY <2>1, <2>6
        <3>2. overtaken \/ state = StateAfter(Len(log))
            BY <3>1 DEF TellsInv, RowTells
        <3>3. QED
            BY <2>2, <3>2 DEF StateAfter
    <2>7. QED
        BY <2>2, <2>3, <2>4, <2>5, <2>6 DEF Followed, Stored
<1>4. QED
    BY <1>1, <1>2, <1>3, PTL DEF Spec
=============================================================================
