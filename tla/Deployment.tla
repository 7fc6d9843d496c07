----------------------------- MODULE Deployment -----------------------------
(***************************************************************************)
(* Paid deployments of projects (src/src/deployment/services/              *)
(* deploy.service.ts): the request that charges, replaces the project's    *)
(* previous deployment and queues a job; the Bull worker that runs the     *)
(* job, with retries, timeouts and stalled jobs; the deletion of a         *)
(* deployment by its owner; and the daily cron that bills renewals and     *)
(* terminates deployments which cannot pay.  All of them work on the       *)
(* Deployment row, the Koyeb app and the custom-domain upstreams without   *)
(* any lock, and each step below is what one of them does between two      *)
(* awaits.                                                                 *)
(*                                                                         *)
(* A deployment is identified with the request that made it: every request *)
(* creates a row and an app name of its own.  Credits are counted in       *)
(* deployments; that concurrent charges can be lost is CreditLedger's.     *)
(***************************************************************************)
EXTENDS Integers, FiniteSets, Functions

CONSTANTS
    Deployments, \* the deployment requests of a behaviour
    Project,     \* the project each is for
    Attempts,    \* how often Bull runs a job: 3 in the code
    Budget,      \* the credits the user starts with
    Faults,      \* the faults that occur in this instance, see FaultKinds
    MaxMonths    \* BOUND: how many times renewals may come due

FaultKinds == {
    "charge",    \* a charge fails after deducting (credit.service.ts:217-233)
    "refund",    \* a refund fails
    "create",    \* the INSERT of a row fails although it conflicts with none
    "enqueue",   \* Redis refuses the job
    "ackLost",   \* Redis takes the job and the answer is lost
    "cleanup",   \* a delete at Koyeb or SaaS Custom Domains fails
    "attempt",   \* a step of a run fails
    "domain",    \* attaching the custom domain fails
    "progress",  \* the last job.progress() of a run fails
    "timeout",   \* Bull gives a run up after 30 minutes; its code goes on
    "advance",   \* the billing date cannot be updated
    "mark",      \* the last statement of a teardown fails
    "crash" }    \* the process restarts, once

ASSUME DeploymentAssumption ==
    /\ IsFiniteSet(Deployments)
    /\ Attempts \in Nat \ {0}
    /\ Budget \in Nat
    /\ Faults \subseteq FaultKinds
    /\ MaxMonths \in Nat

May(fault) == fault \in Faults

(* A run of a job: a stalled job may be started once more than Attempts. *)
RunNumbers == 1 .. (Attempts + 1)
Runs == Deployments \X RunNumbers

NoOne == "none"

Requests == {"new", "charged", "replacing", "cleaned", "cleared", "created", "queued",
             "failing", "refunding", "refunded", "unrefunded", "rejected", "lost",
             "abandoned"}
Statuses == {"none", "PROCESSING", "ACTIVE", "FAILED", "DELETED"}
Steps == {"off", "start", "build", "app", "health", "attach", "bind", "finish",
          "report", "caught", "threw"}

VARIABLES
    credits,     \* the user's balance
    req,         \* where each request is
    prev,        \* what a request read of its project's previous deployment
    row,         \* the Deployment rows; status "none" is no row
    apps,        \* Koyeb apps that exist
    upstreams,   \* custom-domain upstreams that exist, by the run that made them
    job,         \* the Bull job of each deployment
    made,        \* attemptsMade of the job
    started,     \* how many runs of it were started
    run,         \* where each run is
    event,       \* deployments with a queue event not yet handled
    del,         \* where the owner's deletion of each deployment is
    cron,        \* the billing cron: its batch and the deployment in hand
    crashed,     \* whether the process has restarted
    \* history variables, which no action reads
    renewals,    \* renewals charged for each deployment
    periods,     \* how often its renewal came due
    overtaken,   \* deployments whose teardown, or next run, began before a run was over
    leaked,      \* apps and upstreams left by a failed delete or attach
    halfDone     \* deployments with a teardown that was cut short

client == <<req, prev>>
cloud == <<apps, upstreams>>
queue == <<job, made, started, run, event>>
history == <<renewals, periods, overtaken, leaked, halfDone>>
vars == <<credits, req, prev, row, apps, upstreams, job, made, started, run, event,
          del, cron, crashed, renewals, periods, overtaken, leaked, halfDone>>

(* What a teardown remembers of a row: the deployment and its upstream. *)
Snapshot(d) == [of |-> d, upstream |-> row[d].upstream]
Nothing == [of |-> NoOne, upstream |-> 0]
Snapshots == [of : Deployments \cup {NoOne}, upstream : {0} \cup RunNumbers]

Rows == [status : Statuses, upstream : {0} \cup RunNumbers, due : {"never", "later", "now"}]
NoRow == [status |-> "none", upstream |-> 0, due |-> "never"]

TypeOK ==
    /\ credits \in Nat
    /\ req \in [Deployments -> Requests]
    /\ prev \in [Deployments -> Snapshots]
    /\ row \in [Deployments -> Rows]
    /\ apps \subseteq Deployments
    /\ upstreams \subseteq Runs
    /\ job \in [Deployments -> {"none", "waiting", "active", "stalled", "completed", "failed"}]
    /\ made \in [Deployments -> 0 .. Attempts]
    /\ started \in [Deployments -> {0} \cup RunNumbers]
    /\ run \in [Runs -> Steps]
    /\ event \in [Deployments -> {"none", "failed", "stalled"}]
    /\ del \in [Deployments -> [phase : {"idle", "read", "cleaned", "done"},
                                upstream : {0} \cup RunNumbers]]
    /\ cron \in [phase : {"idle", "scan", "advance", "terminate", "mark"},
                 batch : SUBSET Snapshots, hand : Snapshots]
    /\ crashed \in BOOLEAN
    /\ renewals \in [Deployments -> Nat]
    /\ periods \in [Deployments -> Nat]
    /\ overtaken \subseteq Deployments
    /\ leaked \subseteq Deployments \cup Runs
    /\ halfDone \subseteq Deployments

-----------------------------------------------------------------------------
Exists(d) == row[d].status # "none"
InFlight(d) == \E k \in RunNumbers : run[<<d, k>>] # "off"

(* Nothing will run for d any more. *)
JobOver(d) == job[d] \in {"completed", "failed"} /\ ~InFlight(d)

(* The last statement of a teardown of d, made or failed. *)
EndTearDown(d, newRow) ==
    \/ row' = [row EXCEPT ![d] = newRow] /\ UNCHANGED halfDone
    \/ May("mark") /\ UNCHANGED row /\ halfDone' = halfDone \cup {d}

(* UPDATE ... SET status, of a row that exists. *)
SetStatus(d, status) == row' = [row EXCEPT ![d].status = status]

(* Variant: the domain's upstream is forgotten. *)
TearDownKeepsUpstream(s) == apps' = apps \ {s.of} /\ UNCHANGED <<upstreams, leaked>>

(* Variant: a domain's upstream is all that is deleted. *)
TearDownKeepsApp(s) ==
    upstreams' = upstreams \ {<<s.of, s.upstream>>} /\ UNCHANGED <<apps, leaked>>

(* The teardown of what a snapshot names: deletes at SaaS Custom Domains   *)
(* and Koyeb, whose failures are swallowed.                                *)
TearDown(s) ==
    LET named == {u \in upstreams : u = <<s.of, s.upstream>>} IN
    \E upstreamGone, appGone \in (IF May("cleanup") THEN BOOLEAN ELSE {TRUE}) :
        /\ upstreams' = IF upstreamGone THEN upstreams \ named ELSE upstreams
        /\ apps' = IF appGone THEN apps \ {s.of} ELSE apps
        /\ leaked' = leaked \cup (IF upstreamGone THEN {} ELSE named)
                            \cup (IF appGone THEN {} ELSE {s.of})

(* A teardown reads the row of d. *)
BeginTearDown(d) == overtaken' = IF JobOver(d) THEN overtaken ELSE overtaken \cup {d}

-----------------------------------------------------------------------------
Init ==
    /\ credits = Budget
    /\ req = [d \in Deployments |-> "new"]
    /\ prev = [d \in Deployments |-> Nothing]
    /\ row = [d \in Deployments |-> NoRow]
    /\ apps = {}
    /\ upstreams = {}
    /\ job = [d \in Deployments |-> "none"]
    /\ made = [d \in Deployments |-> 0]
    /\ started = [d \in Deployments |-> 0]
    /\ run = [r \in Runs |-> "off"]
    /\ event = [d \in Deployments |-> "none"]
    /\ del = [d \in Deployments |-> [phase |-> "idle", upstream |-> 0]]
    /\ cron = [phase |-> "idle", batch |-> {}, hand |-> Nothing]
    /\ crashed = FALSE
    /\ renewals = [d \in Deployments |-> 0]
    /\ periods = [d \in Deployments |-> 0]
    /\ overtaken = {}
    /\ leaked = {}
    /\ halfDone = {}

-----------------------------------------------------------------------------
(* The request: deployToKoyeb and streamDeployToKoyeb.                     *)

Goto(d, from, to) == req[d] = from /\ req' = [req EXCEPT ![d] = to]

(* chargeForDeployment stands outside the block that refunds: if it throws *)
(* after the deduction, the request ends with the credits gone.            *)
Charge(d) ==
    /\ \/ /\ credits > 0
          /\ credits' = credits - 1
          /\ \/ Goto(d, "new", "charged")
             \/ May("charge") /\ Goto(d, "new", "lost")
       \/ /\ credits = 0
          /\ Goto(d, "new", "rejected")
          /\ UNCHANGED credits
    /\ UNCHANGED <<prev, row, cloud, queue, del, cron, crashed, history>>

(* deletePreviousDeployment: find the row of the project, ... *)
ReadPrevious(d) ==
    LET previous == {e \in Deployments : Exists(e) /\ Project[e] = Project[d]} IN
    /\ \/ \E e \in previous :
             /\ Goto(d, "charged", "replacing")
             /\ prev' = [prev EXCEPT ![d] = Snapshot(e)]
             /\ BeginTearDown(e)
       \/ /\ previous = {}
          /\ Goto(d, "charged", "cleared")
          /\ UNCHANGED <<prev, overtaken>>
    /\ UNCHANGED <<credits, row, cloud, queue, del, cron, crashed, renewals, periods,
                   leaked, halfDone>>

(* ... tear down what it names, ... *)
CleanPrevious(d) ==
    /\ Goto(d, "replacing", "cleaned")
    /\ TearDown(prev[d])
    /\ UNCHANGED <<credits, prev, row, queue, del, cron, crashed, renewals, periods,
                   overtaken, halfDone>>

(* ... and delete it; someone else may have, and the error is swallowed.   *)
DeletePreviousRow(d) ==
    /\ Goto(d, "cleaned", "cleared")
    /\ EndTearDown(prev[d].of, NoRow)
    /\ prev' = [prev EXCEPT ![d] = Nothing]
    /\ UNCHANGED <<credits, cloud, queue, del, cron, crashed, renewals, periods,
                   overtaken, leaked>>

(* The INSERT: Deployment.projectId is unique. *)
CreateRow(d) ==
    /\ \/ /\ \A e \in Deployments : Exists(e) => Project[e] # Project[d]
          /\ Goto(d, "cleared", "created")
          /\ SetStatus(d, "PROCESSING")
       \/ /\ May("create") \/ \E e \in Deployments : Exists(e) /\ Project[e] = Project[d]
          /\ Goto(d, "cleared", "failing")
          /\ UNCHANGED row
    /\ UNCHANGED <<credits, prev, cloud, queue, del, cron, crashed, history>>

(* Variant: something that may fail follows deployQueue.add. *)
EnqueueUnconfirmed(d) ==
    /\ Goto(d, "created", "queued") \/ Goto(d, "created", "failing")
    /\ job' = [job EXCEPT ![d] = "waiting"]
    /\ UNCHANGED <<credits, prev, row, cloud, made, started, run, event, del, cron,
                   crashed, history>>

(* deployQueue.add *)
Enqueue(d) ==
    /\ \/ /\ \/ Goto(d, "created", "queued")
             \/ May("ackLost") /\ Goto(d, "created", "failing")
          /\ job' = [job EXCEPT ![d] = "waiting"]
       \/ /\ May("enqueue")
          /\ Goto(d, "created", "failing")
          /\ UNCHANGED job
    /\ UNCHANGED <<credits, prev, row, cloud, made, started, run, event, del, cron,
                   crashed, history>>

(* Variant: the catch block throws where it finds no row. *)
MarkFailedUnguarded(d) ==
    /\ IF Exists(d) THEN Goto(d, "failing", "refunding") /\ SetStatus(d, "FAILED")
                    ELSE Goto(d, "failing", "unrefunded") /\ UNCHANGED row
    /\ UNCHANGED <<credits, prev, cloud, queue, del, cron, crashed, history>>

(* The catch block marks the row FAILED, if it was created and is there, ... *)
MarkFailed(d) ==
    /\ Goto(d, "failing", "refunding")
    /\ IF Exists(d) THEN SetStatus(d, "FAILED") ELSE UNCHANGED row
    /\ UNCHANGED <<credits, prev, cloud, queue, del, cron, crashed, history>>

(* ... and refunds; a refund that fails is only logged. *)
Refund(d) ==
    /\ \/ /\ Goto(d, "refunding", "refunded")
          /\ credits' = credits + 1
       \/ /\ May("refund")
          /\ Goto(d, "refunding", "unrefunded")
          /\ UNCHANGED credits
    /\ UNCHANGED <<prev, row, cloud, queue, del, cron, crashed, history>>

Proceed(d) ==
    \/ ReadPrevious(d) \/ CleanPrevious(d) \/ DeletePreviousRow(d)
    \/ CreateRow(d) \/ Enqueue(d) \/ MarkFailed(d) \/ Refund(d)

-----------------------------------------------------------------------------
(* The worker: handleDeploy and runDeploymentJob.                          *)

Step(d, k, from, to) == run[<<d, k>>] = from /\ run' = [run EXCEPT ![<<d, k>>] = to]

(* What a run's step leaves alone. *)
RunFrame == UNCHANGED <<credits, client, job, made, started, event, del, cron, crashed,
                        renewals, periods, overtaken, halfDone>>

(* Bull hands a waiting job to the worker, which processes one at a time;  *)
(* a run that timed out no longer counts.  The backoff of a retry outlasts *)
(* the one UPDATE by which the failure is recorded.                        *)
StartRun(d) ==
    /\ job[d] = "waiting"
    /\ event[d] = "none"
    /\ \A e \in Deployments : job[e] # "active"
    /\ job' = [job EXCEPT ![d] = "active"]
    /\ started' = [started EXCEPT ![d] = @ + 1]
    /\ run' = [run EXCEPT ![<<d, started[d] + 1>>] = "start"]
    /\ overtaken' = IF InFlight(d) THEN overtaken \cup {d} ELSE overtaken
    /\ UNCHANGED <<credits, client, row, cloud, made, event, del, cron, crashed, renewals,
                   periods, leaked, halfDone>>

(* The row becomes PROCESSING whatever it was; if it is gone the run       *)
(* throws before its try block.                                            *)
MarkProcessing(d, k) ==
    /\ \/ /\ Exists(d)
          /\ Step(d, k, "start", "build")
          /\ SetStatus(d, "PROCESSING")
       \/ /\ ~Exists(d) \/ May("attempt")
          /\ Step(d, k, "start", "threw")
          /\ UNCHANGED row
    /\ UNCHANGED <<cloud, leaked>> /\ RunFrame

(* The project may be gone, or its files cannot be bundled.                *)
NoBundle == May("attempt")

(* The bundle, the repository and its URL on the row, which must exist. *)
Build(d, k) ==
    /\ \/ Exists(d) /\ Step(d, k, "build", "app")
       \/ (~Exists(d) \/ NoBundle) /\ Step(d, k, "build", "caught")
    /\ UNCHANGED <<row, cloud, leaked>> /\ RunFrame

(* Variant: a failed `koyeb app create` goes unnoticed. *)
CreateAppUnchecked(d, k) ==
    /\ Step(d, k, "app", "health")
    /\ \/ apps' = apps \cup {d}
       \/ May("attempt") /\ apps' = apps \ {d}
    /\ UNCHANGED <<row, upstreams, leaked>> /\ RunFrame

(* The Koyeb app is created, after deleting one of that name left by an    *)
(* earlier attempt.  A failure can come before, between and after.         *)
CreateApp(d, k) ==
    /\ \/ /\ Step(d, k, "app", "health")
          /\ apps' = apps \cup {d}
       \/ /\ May("attempt")
          /\ Step(d, k, "app", "caught")
          /\ apps' \in {apps, apps \ {d}, apps \cup {d}}
    /\ UNCHANGED <<row, upstreams, leaked>> /\ RunFrame

(* An app that does not get healthy is a frontend that failed.             *)
NoFrontend == May("attempt")

WaitForHealthy(d, k) ==
    /\ \/ Step(d, k, "health", "attach")
       \/ NoFrontend /\ Step(d, k, "health", "caught")
    /\ UNCHANGED <<row, cloud, leaked>> /\ RunFrame

(* attachCustomDomain: an upstream with the domain on it.  If the domain   *)
(* is refused the upstream is deleted again, or not; errors are swallowed. *)
CreateUpstream(d, k) ==
    /\ \/ /\ Step(d, k, "attach", "bind")
          /\ upstreams' = upstreams \cup {<<d, k>>}
          /\ UNCHANGED leaked
       \/ /\ May("domain")
          /\ Step(d, k, "attach", "finish")
          /\ \/ UNCHANGED <<upstreams, leaked>>
             \/ /\ May("cleanup")
                /\ upstreams' = upstreams \cup {<<d, k>>}
                /\ leaked' = leaked \cup {<<d, k>>}
    /\ UNCHANGED <<row, apps>> /\ RunFrame

(* The row is told; if that fails nobody deletes the upstream. *)
BindUpstream(d, k) ==
    /\ Step(d, k, "bind", "finish")
    /\ \/ /\ Exists(d)
          /\ row' = [row EXCEPT ![d].upstream = k]
          /\ UNCHANGED leaked
       \/ /\ ~Exists(d) \/ May("domain")
          /\ leaked' = leaked \cup {<<d, k>>}
          /\ UNCHANGED row
    /\ UNCHANGED cloud /\ RunFrame

(* The row becomes ACTIVE, whatever it was, and is due in 30 days. *)
Finish(d, k) ==
    /\ \/ /\ Exists(d)
          /\ Step(d, k, "finish", "report")
          /\ row' = [row EXCEPT ![d].status = "ACTIVE", ![d].due = "later"]
       \/ /\ ~Exists(d) \/ May("attempt")
          /\ Step(d, k, "finish", "caught")
          /\ UNCHANGED row
    /\ UNCHANGED <<cloud, leaked>> /\ RunFrame

(* Whether Bull still takes this run for the job's current one. *)
Current(d, k) == job[d] = "active" /\ started[d] = k

(* The attempt has failed: the job waits for its next one or is failed for *)
(* good, and the 'failed' event is emitted.                                *)
FailAttempt(d) ==
    /\ made' = [made EXCEPT ![d] = @ + 1]
    /\ job' = [job EXCEPT ![d] = IF made[d] + 1 < Attempts THEN "waiting" ELSE "failed"]
    /\ event' = [event EXCEPT ![d] = "failed"]

(* The final progress report, still inside the try block, and the end. *)
Report(d, k) ==
    /\ \/ /\ Step(d, k, "report", "off")
          /\ job' = IF Current(d, k) THEN [job EXCEPT ![d] = "completed"] ELSE job
       \/ /\ May("progress")
          /\ Step(d, k, "report", "caught")
          /\ UNCHANGED job
    /\ UNCHANGED <<credits, client, row, cloud, made, started, event, del, cron, crashed,
                   history>>

(* The catch block writes FAILED, if the row is there, and rethrows. *)
Catch(d, k) ==
    /\ Step(d, k, "caught", "threw")
    /\ IF Exists(d) THEN SetStatus(d, "FAILED") ELSE UNCHANGED row
    /\ UNCHANGED <<cloud, leaked>> /\ RunFrame

(* The error reaches Bull, unless it had given the run up. *)
Throw(d, k) ==
    /\ Step(d, k, "threw", "off")
    /\ IF Current(d, k) THEN FailAttempt(d) ELSE UNCHANGED <<job, made, event>>
    /\ UNCHANGED <<credits, client, row, cloud, started, del, cron, crashed, history>>

(* The job's timeout rejects the attempt; the run itself goes on. *)
Timeout(d) ==
    /\ May("timeout")
    /\ job[d] = "active"
    /\ FailAttempt(d)
    /\ UNCHANGED <<credits, client, row, cloud, started, run, del, cron, crashed, history>>

(* Variant: only stalled jobs are listened to. *)
HandleStalledOnly(d) ==
    /\ event[d] # "none"
    /\ event' = [event EXCEPT ![d] = "none"]
    /\ IF event[d] = "stalled" /\ row[d].status = "PROCESSING"
       THEN SetStatus(d, "FAILED") ELSE UNCHANGED row
    /\ UNCHANGED <<credits, client, cloud, job, made, started, run, del, cron, crashed,
                   history>>

(* The 'failed' listener writes FAILED whatever the row's status and       *)
(* whether or not the job will be retried; the 'stalled' listener only     *)
(* over PROCESSING.                                                        *)
HandleEvent(d) ==
    /\ event[d] # "none"
    /\ event' = [event EXCEPT ![d] = "none"]
    /\ IF \/ event[d] = "failed" /\ Exists(d)
          \/ event[d] = "stalled" /\ row[d].status = "PROCESSING"
       THEN SetStatus(d, "FAILED") ELSE UNCHANGED row
    /\ UNCHANGED <<credits, client, cloud, job, made, started, run, del, cron, crashed,
                   history>>

(* Bull finds a job whose lock expired and puts it back. *)
RecoverStalled(d) ==
    /\ job[d] = "stalled"
    /\ job' = [job EXCEPT ![d] = "waiting"]
    /\ event' = [event EXCEPT ![d] = "stalled"]
    /\ UNCHANGED <<credits, client, row, cloud, made, started, run, del, cron, crashed,
                   history>>

RunStep(d, k) ==
    \/ MarkProcessing(d, k) \/ Build(d, k) \/ CreateApp(d, k) \/ WaitForHealthy(d, k)
    \/ CreateUpstream(d, k) \/ BindUpstream(d, k) \/ Finish(d, k) \/ Report(d, k)
    \/ Catch(d, k) \/ Throw(d, k)

-----------------------------------------------------------------------------
(* deleteDeployment, by the owner, whatever the deployment is doing.       *)

ReadForDelete(d) ==
    /\ del[d].phase = "idle"
    /\ Exists(d)
    /\ del' = [del EXCEPT ![d] = [phase |-> "read", upstream |-> row[d].upstream]]
    /\ BeginTearDown(d)
    /\ UNCHANGED <<credits, client, row, cloud, queue, cron, crashed, renewals, periods,
                   leaked, halfDone>>

CleanForDelete(d) ==
    /\ del[d].phase = "read"
    /\ TearDown([of |-> d, upstream |-> del[d].upstream])
    /\ del' = [del EXCEPT ![d].phase = "cleaned"]
    /\ UNCHANGED <<credits, client, row, queue, cron, crashed, renewals, periods,
                   overtaken, halfDone>>

(* The row is kept, DELETED, with no domain; its billing date stays.       *)
MarkDeleted(d) ==
    /\ del[d].phase = "cleaned"
    /\ IF Exists(d)
       THEN EndTearDown(d, [row[d] EXCEPT !.status = "DELETED", !.upstream = 0])
       ELSE UNCHANGED <<row, halfDone>>
    /\ del' = [del EXCEPT ![d] = [phase |-> "done", upstream |-> 0]]
    /\ UNCHANGED <<credits, client, cloud, queue, cron, crashed, renewals, periods,
                   overtaken, leaked>>

Delete(d) == ReadForDelete(d) \/ CleanForDelete(d) \/ MarkDeleted(d)

-----------------------------------------------------------------------------
(* handleDeploymentRenewalBilling, once a day.                             *)

(* The batch is read once: every ACTIVE row whose date has come. *)
CronStart ==
    LET due == {d \in Deployments : row[d].status = "ACTIVE" /\ row[d].due = "now"} IN
    /\ cron.phase = "idle"
    /\ due # {}
    /\ cron' = [cron EXCEPT !.phase = "scan", !.batch = {Snapshot(d) : d \in due}]
    /\ overtaken' = overtaken \cup {d \in due : ~JobOver(d)}
    /\ UNCHANGED <<credits, client, row, cloud, queue, del, crashed, renewals, periods,
                   leaked, halfDone>>

CronFrame == UNCHANGED <<client, queue, del, crashed, periods, overtaken>>

(* On to the next of the batch, or done for today. *)
NextInBatch(batch) ==
    cron' = [phase |-> IF batch = {} THEN "idle" ELSE "scan", batch |-> batch,
             hand |-> Nothing]

(* The renewal is charged for what the batch says, without a second look   *)
(* at the row.                                                             *)
CronCharge(s) ==
    LET rest == cron.batch \ {s} IN
    /\ cron.phase = "scan"
    /\ s \in cron.batch
    /\ \/ /\ credits > 0
          /\ credits' = credits - 1
          /\ renewals' = [renewals EXCEPT ![s.of] = @ + 1]
          /\ \/ cron' = [phase |-> "advance", batch |-> rest, hand |-> s]
             \/ May("charge") /\ NextInBatch(rest)
       \/ /\ credits = 0
          /\ cron' = [phase |-> "terminate", batch |-> rest, hand |-> s]
          /\ UNCHANGED <<credits, renewals>>
    /\ UNCHANGED <<row, cloud, leaked, halfDone>> /\ CronFrame

(* Variant: the charged renewal is due again at once. *)
CronAdvanceSkipped ==
    /\ cron.phase = "advance"
    /\ NextInBatch(cron.batch)
    /\ UNCHANGED <<credits, row, cloud, renewals, leaked, halfDone>> /\ CronFrame

(* Variant: the whole row is written back as it was when due. *)
CronAdvanceReactivates ==
    /\ cron.phase = "advance"
    /\ IF Exists(cron.hand.of)
       THEN row' = [row EXCEPT ![cron.hand.of].due = "later",
                               ![cron.hand.of].status = "ACTIVE"]
       ELSE UNCHANGED row
    /\ NextInBatch(cron.batch)
    /\ UNCHANGED <<credits, cloud, renewals, leaked, halfDone>> /\ CronFrame

(* The date moves on; if the row is gone or the update fails, the error is *)
(* taken for a failed charge: skipped until tomorrow.                      *)
CronAdvance ==
    /\ cron.phase = "advance"
    /\ \/ Exists(cron.hand.of) /\ row' = [row EXCEPT ![cron.hand.of].due = "later"]
       \/ (~Exists(cron.hand.of) \/ May("advance")) /\ UNCHANGED row
    /\ NextInBatch(cron.batch)
    /\ UNCHANGED <<credits, cloud, renewals, leaked, halfDone>> /\ CronFrame

(* terminateDeploymentById, on what the batch says. *)
CronTerminate ==
    /\ cron.phase = "terminate"
    /\ TearDown(cron.hand)
    /\ cron' = [cron EXCEPT !.phase = "mark"]
    /\ UNCHANGED <<credits, row, renewals, halfDone>> /\ CronFrame

(* Variant: a terminated deployment keeps its status. *)
CronMarksNothing ==
    /\ cron.phase = "mark"
    /\ NextInBatch(cron.batch)
    /\ UNCHANGED <<credits, row, cloud, renewals, leaked, halfDone>> /\ CronFrame

(* Its last statement; it writes no more than the status. *)
CronMarkDeleted ==
    /\ cron.phase = "mark"
    /\ LET d == cron.hand.of IN
       IF Exists(d) THEN EndTearDown(d, [row[d] EXCEPT !.status = "DELETED"])
                    ELSE UNCHANGED <<row, halfDone>>
    /\ NextInBatch(cron.batch)
    /\ UNCHANGED <<credits, cloud, renewals, leaked>> /\ CronFrame

Cron ==
    \/ CronStart
    \/ \E s \in cron.batch : CronCharge(s)
    \/ CronAdvance \/ CronTerminate \/ CronMarkDeleted

-----------------------------------------------------------------------------
(* Thirty days after a billing date was set it has come. *)
MonthPasses(d) ==
    /\ row[d].due = "later"
    /\ periods[d] < MaxMonths
    /\ row' = [row EXCEPT ![d].due = "now"]
    /\ periods' = [periods EXCEPT ![d] = @ + 1]
    /\ UNCHANGED <<credits, client, cloud, queue, del, cron, crashed, renewals,
                   overtaken, leaked, halfDone>>

(* Someone is between reading the row of d and writing it. *)
UnderTearDown(d) ==
    \/ \E e \in Deployments : prev[e].of = d
    \/ del[d].phase \in {"read", "cleaned"}
    \/ cron.phase \in {"terminate", "mark"} /\ cron.hand.of = d

(* The process restarts: whatever it had in memory is gone, the upstream   *)
(* of a run that had not told the row yet included; its job stalls.        *)
Crash ==
    /\ May("crash")
    /\ ~crashed
    /\ crashed' = TRUE
    /\ req' = [d \in Deployments |->
                  IF req[d] \in {"charged", "replacing", "cleaned", "cleared", "created",
                                 "failing", "refunding"}
                  THEN "abandoned" ELSE req[d]]
    /\ prev' = [d \in Deployments |-> Nothing]
    /\ job' = [d \in Deployments |-> IF job[d] = "active" THEN "stalled" ELSE job[d]]
    /\ run' = [r \in Runs |-> "off"]
    /\ event' = [d \in Deployments |-> "none"]
    /\ del' = [d \in Deployments |-> [phase |-> IF del[d].phase = "idle" THEN "idle" ELSE "done",
                                      upstream |-> 0]]
    /\ cron' = [phase |-> "idle", batch |-> {}, hand |-> Nothing]
    /\ halfDone' = halfDone \cup {d \in Deployments : UnderTearDown(d)}
    /\ leaked' = leaked \cup {r \in Runs : run[r] = "bind"}
    /\ UNCHANGED <<credits, row, cloud, made, started, renewals, periods, overtaken>>

Next ==
    \/ \E d \in Deployments :
          \/ Charge(d)
          \/ Proceed(d)
          \/ StartRun(d)
          \/ \E k \in RunNumbers : RunStep(d, k)
          \/ Timeout(d)
          \/ HandleEvent(d)
          \/ RecoverStalled(d)
          \/ Delete(d)
          \/ MonthPasses(d)
    \/ Cron
    \/ Crash

Spec == Init /\ [][Next]_vars

(* What has begun goes on: a request, a deletion, a run and the cron once  *)
(* they have started, the worker while jobs wait, the queue's listeners.   *)
(* Nobody has to make a request or to delete anything.                     *)
Fairness ==
    /\ \A d \in Deployments :
          /\ WF_vars(Proceed(d))
          /\ WF_vars(StartRun(d))
          /\ \A k \in RunNumbers : WF_vars(RunStep(d, k))
          /\ WF_vars(HandleEvent(d))
          /\ WF_vars(RecoverStalled(d))
          /\ WF_vars(CleanForDelete(d) \/ MarkDeleted(d))
    /\ WF_vars(Cron)

FairSpec == Spec /\ Fairness
-----------------------------------------------------------------------------
(* Properties. *)

(* Nothing is left running in the cloud for a deployment that is gone,     *)
(* unless a delete there failed, or its teardown had begun while its job   *)
(* could still create more.  It holds from the statement on that makes the *)
(* deployment go, while other teardowns of it are still under way.         *)
NoOrphanedApp ==
    \A d \in apps : row[d].status \in {"none", "DELETED"} => d \in leaked \cup overtaken

(* The same for upstreams, which moreover a later attempt of the job may   *)
(* have replaced on the row.                                               *)
NoOrphanedUpstream ==
    \A d \in Deployments, k \in RunNumbers :
        (/\ <<d, k>> \in upstreams
         /\ row[d].upstream # k
         /\ JobOver(d))
        => <<d, k>> \in leaked \/ d \in overtaken \/ k < started[d]

(* A deployment shown ACTIVE is running, unless its teardown was cut short *)
(* or began while its job was not over.                                    *)
ActiveIsServed ==
    \A d \in Deployments : (row[d].status = "ACTIVE" /\ ~UnderTearDown(d))
        => d \in apps \cup overtaken \cup halfDone

(* No deployment is charged more often than its renewal came due. *)
BilledOncePerPeriod == \A d \in Deployments : renewals[d] <= periods[d]

(* Once its job is over nothing brings a DELETED deployment back.          *)
DeletedIsFinalAfterJob ==
    [][\A d \in Deployments :
          (row[d].status = "DELETED" /\ JobOver(d) /\ event[d] = "none")
              => row'[d].status \in {"DELETED", "none"}]_vars

(* The abstract view of the requests, see DeploymentContract. *)
DealOf(phase) ==
    CASE phase \in {"new", "rejected"} -> "open"
      [] phase = "queued"              -> "delivered"
      [] phase = "refunded"            -> "void"
      [] OTHER                         -> "paid"
Deal == [d \in Deployments |-> DealOf(req[d])]

Contract == INSTANCE DeploymentContract WITH purse <- credits, deal <- Deal

(* Requests pay, deliver, give back and renew as the contract says.        *)
KeepsContract == Contract!Spec

(* A charged request ends with its job queued or its credits given back,   *)
(* unless it died with the process.                                        *)
PaidIsSettled ==
    \A d \in Deployments :
        req[d] = "charged" ~> req[d] \in {"queued", "refunded", "abandoned"}

(* A renewal that has come due is paid, or the deployment ends.            *)
RenewalSettles ==
    \A d \in Deployments :
        (row[d].status = "ACTIVE" /\ row[d].due = "now")
            ~> ~(row[d].status = "ACTIVE" /\ row[d].due = "now")

=============================================================================
