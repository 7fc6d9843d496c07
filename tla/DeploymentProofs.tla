--------------------------- MODULE DeploymentProofs ---------------------------
(***************************************************************************)
(* Deployment for every set of deployments, number of attempts, budget,    *)
(* bound and months, and for every combination of faults that a theorem    *)
(* does not exclude by name.                                               *)
(*                                                                         *)
(* First its types, then what the row of a deployment says and what exists *)
(* for it in the cloud: nothing is left of a deployment that is gone, and  *)
(* what is shown ACTIVE is running, but for the excuses the properties     *)
(* name.                                                                   *)
(*                                                                         *)
(* Next what a request promises: requests keep DeploymentContract, DELETED *)
(* is final once the job is over, and no period is billed twice, each      *)
(* under the faults it survives.  Last what the clients that watch a       *)
(* deployment are told, for every number of them: it is true.              *)
(***************************************************************************)
EXTENDS DeployStream, TLAPS

(* How often the worker may have started a job more than it has failed.    *)
Restarts == IF crashed THEN 1 ELSE 0

(* A job is started at most once for each attempt, and once more after a   *)
(* restart; one that is not over has an attempt left.                      *)
StartsCounted ==
    \A d \in Deployments :
        /\ job[d] = "none" => started[d] = 0 /\ made[d] = 0
        /\ job[d] \in {"waiting", "active", "stalled"} => made[d] < Attempts
        /\ job[d] = "waiting" => started[d] <= made[d] + Restarts
        /\ job[d] = "active" => started[d] <= made[d] + 1 + Restarts
        /\ job[d] = "stalled" => crashed /\ started[d] <= made[d] + 1

(* A job is queued by its request, once. *)
QueuedOnce ==
    \A d \in Deployments :
        req[d] \in {"new", "charged", "replacing", "cleaned", "cleared", "created"}
            => job[d] = "none"

(* A teardown and the billing have a deployment in hand. *)
InHand ==
    /\ \A d \in Deployments :
          req[d] \in {"replacing", "cleaned"} => prev[d].of \in Deployments
    /\ \A s \in cron.batch : s.of \in Deployments
    /\ cron.phase \in {"advance", "terminate", "mark"} => cron.hand.of \in Deployments

TInv == TypeOK /\ StartsCounted /\ QueuedOnce /\ InHand
-----------------------------------------------------------------------------
LEMMA NothingType == Nothing \in Snapshots
BY DEF Nothing, Snapshots

LEMMA NoRowType == NoRow \in Rows
BY DEF NoRow, Rows, Statuses

LEMMA AttemptsAreNumbers == 0 .. Attempts \subseteq Nat /\ {0} \cup RunNumbers \subseteq Nat
BY DeploymentAssumption DEF DeploymentAssumption, RunNumbers

LEMMA InitType == Init => TInv
<1> SUFFICES ASSUME Init PROVE TInv
    OBVIOUS
<1>1. /\ cron \in [phase : {"idle", "scan", "advance", "terminate", "mark"},
                   batch : SUBSET Snapshots, hand : Snapshots]
      /\ prev \in [Deployments -> Snapshots]
      /\ row \in [Deployments -> Rows]
    BY NothingType, NoRowType DEF Init
<1>2. /\ del \in [Deployments -> [phase : {"idle", "read", "cleaned", "done"},
                                  upstream : {0} \cup RunNumbers]]
      /\ req \in [Deployments -> Requests]
      /\ run \in [Runs -> Steps]
    BY DEF Init, Requests, Steps
<1>3. /\ credits \in Nat
      /\ made \in [Deployments -> 0 .. Attempts]
      /\ started \in [Deployments -> {0} \cup RunNumbers]
    BY DeploymentAssumption DEF Init, DeploymentAssumption
<1>4. TypeOK
    BY <1>1, <1>2, <1>3 DEF Init, TypeOK
<1>5. StartsCounted /\ QueuedOnce /\ InHand
    BY DEF Init, StartsCounted, QueuedOnce, InHand
<1>6. QED BY <1>4, <1>5 DEF TInv
-----------------------------------------------------------------------------
(* What the steps of the actions keep of the types. *)

LEMMA SnapshotType ==
    ASSUME TypeOK, NEW d \in Deployments PROVE Snapshot(d) \in Snapshots
BY DEF TypeOK, Snapshot, Snapshots, Rows

LEMMA RowStatusType ==
    ASSUME NEW r \in Rows, NEW status \in Statuses
    PROVE  [r EXCEPT !.status = status] \in Rows
BY DEF Rows

LEMMA RowUpstreamType ==
    ASSUME NEW r \in Rows, NEW k \in RunNumbers
    PROVE  [r EXCEPT !.upstream = k] \in Rows
BY DEF Rows

LEMMA RowDueType ==
    ASSUME NEW r \in Rows, NEW status \in Statuses, NEW due \in {"never", "later", "now"}
    PROVE  /\ [r EXCEPT !.due = due] \in Rows
           /\ [r EXCEPT !.status = status, !.due = due] \in Rows
BY DEF Rows

LEMMA StatusType ==
    ASSUME TypeOK, NEW d \in Deployments, NEW status \in Statuses, SetStatus(d, status)
    PROVE  row' \in [Deployments -> Rows]
<1>1. row[d] \in Rows
    BY DEF TypeOK
<1>2. [row[d] EXCEPT !.status = status] \in Rows
    BY <1>1, RowStatusType
<1>3. QED BY <1>2 DEF TypeOK, SetStatus

LEMMA GotoType ==
    ASSUME TypeOK, NEW d, NEW from, NEW to \in Requests, Goto(d, from, to)
    PROVE  req' \in [Deployments -> Requests]
BY DEF TypeOK, Goto

LEMMA StepType ==
    ASSUME TypeOK, NEW d \in Deployments, NEW k \in RunNumbers, NEW from, NEW to \in Steps,
           Step(d, k, from, to)
    PROVE  run' \in [Runs -> Steps]
BY DEF TypeOK, Step

LEMMA TearDownType ==
    ASSUME TypeOK, NEW s, s.of \in Deployments, TearDown(s)
    PROVE  /\ apps' \subseteq Deployments
           /\ upstreams' \subseteq Runs
           /\ leaked' \subseteq Deployments \cup Runs
<1> DEFINE named == {u \in upstreams : u = <<s.of, s.upstream>>}
<1>1. PICK upstreamGone \in BOOLEAN, appGone \in BOOLEAN :
        /\ upstreams' = IF upstreamGone THEN upstreams \ named ELSE upstreams
        /\ apps' = IF appGone THEN apps \ {s.of} ELSE apps
        /\ leaked' = leaked \cup (IF upstreamGone THEN {} ELSE named)
                            \cup (IF appGone THEN {} ELSE {s.of})
    BY DEF TearDown
<1>2. named \subseteq Runs
    BY DEF TypeOK
<1> HIDE DEF named
<1>3. QED BY <1>1, <1>2 DEF TypeOK

LEMMA EndTearDownType ==
    ASSUME TypeOK, NEW d \in Deployments, NEW new \in Rows, EndTearDown(d, new)
    PROVE  row' \in [Deployments -> Rows] /\ halfDone' \subseteq Deployments
BY DEF TypeOK, EndTearDown

(* Actions that leave the jobs alone keep what is known of them. *)
LEMMA JobsAlone ==
    ASSUME StartsCounted, UNCHANGED <<job, made, started, crashed>>
    PROVE  StartsCounted'
BY DEF StartsCounted, Restarts

(* A request that goes on, but not back, stays without a job. *)
LEMMA RequestGoesOn ==
    ASSUME TypeOK, QueuedOnce, UNCHANGED job, NEW d \in Deployments, NEW from, NEW to, Goto(d, from, to),
           from \in {"new", "charged", "replacing", "cleaned", "cleared", "created"}
             \/ to \notin {"new", "charged", "replacing", "cleaned", "cleared", "created"}
    PROVE  QueuedOnce'
BY DEF TypeOK, QueuedOnce, Goto

LEMMA HandsAlone ==
    ASSUME TypeOK, InHand, UNCHANGED <<prev, cron>>, NEW d \in Deployments, NEW from, NEW to,
           Goto(d, from, to), to \notin {"replacing", "cleaned"} \/ from = "replacing"
    PROVE  InHand'
BY DEF TypeOK, InHand, Goto

LEMMA ChargeType ==
    ASSUME TInv, NEW d \in Deployments, Charge(d) PROVE TInv'
<1> USE DEF TInv
<1>1. PICK to \in {"charged", "lost", "rejected"} : Goto(d, "new", to)
    BY DEF Charge
<1>2. UNCHANGED <<prev, row, apps, upstreams, job, made, started, run, event, del, cron,
                  crashed, renewals, periods, overtaken, leaked, halfDone>>
    BY DEF Charge, cloud, queue, history
<1>3. credits' \in Nat
    BY DEF Charge, TypeOK
<1>4. req' \in [Deployments -> Requests]
    BY <1>1, GotoType DEF Requests
<1>5. TypeOK'
    BY <1>2, <1>3, <1>4 DEF TypeOK
<1>6. StartsCounted'
    BY <1>2, JobsAlone
<1>7. QueuedOnce'
    BY <1>1, <1>2, RequestGoesOn
<1>8. InHand'
    BY <1>1, <1>2, HandsAlone
<1>9. QED BY <1>5, <1>6, <1>7, <1>8

LEMMA ReadPreviousType ==
    ASSUME TInv, NEW d \in Deployments, ReadPrevious(d) PROVE TInv'
<1> USE DEF TInv
<1>1. UNCHANGED <<credits, row, apps, upstreams, job, made, started, run, event, del, cron,
                  crashed, renewals, periods, leaked, halfDone>>
    BY DEF ReadPrevious, cloud, queue
<1>2. StartsCounted'
    BY <1>1, JobsAlone
<1>3. CASE \E e \in Deployments :
               /\ Goto(d, "charged", "replacing")
               /\ prev' = [prev EXCEPT ![d] = Snapshot(e)]
               /\ BeginTearDown(e)
    <2>1. PICK e \in Deployments :
               /\ Goto(d, "charged", "replacing")
               /\ prev' = [prev EXCEPT ![d] = Snapshot(e)]
               /\ BeginTearDown(e)
        BY <1>3
    <2>2. req' \in [Deployments -> Requests]
        BY <2>1, GotoType DEF Requests
    <2>3. prev' \in [Deployments -> Snapshots]
        BY <2>1, SnapshotType DEF TypeOK
    <2>4. overtaken' \subseteq Deployments
        BY <2>1 DEF TypeOK, BeginTearDown
    <2>5. TypeOK'
        BY <1>1, <2>2, <2>3, <2>4 DEF TypeOK
    <2>6. QueuedOnce'
        BY <1>1, <2>1, RequestGoesOn
    <2>7. InHand'
        <3>1. Snapshot(e).of = e
            BY DEF Snapshot
        <3>2. \A c \in Deployments : req'[c] \in {"replacing", "cleaned"} => prev'[c].of \in Deployments
            BY <2>1, <3>1 DEF TypeOK, InHand, Goto
        <3>3. QED BY <1>1, <3>2 DEF InHand
    <2>8. QED BY <1>2, <2>5, <2>6, <2>7
<1>4. CASE Goto(d, "charged", "cleared") /\ UNCHANGED <<prev, overtaken>>
    <2>1. req' \in [Deployments -> Requests]
        BY <1>4, GotoType DEF Requests
    <2>2. TypeOK'
        BY <1>1, <1>4, <2>1 DEF TypeOK
    <2>3. QueuedOnce' /\ InHand'
        BY <1>1, <1>4, RequestGoesOn, HandsAlone
    <2>4. QED BY <1>2, <2>2, <2>3
<1>5. QED BY <1>3, <1>4 DEF ReadPrevious

LEMMA CleanPreviousType ==
    ASSUME TInv, NEW d \in Deployments, CleanPrevious(d) PROVE TInv'
<1> USE DEF TInv
<1>1. /\ Goto(d, "replacing", "cleaned")
      /\ UNCHANGED <<credits, prev, row, job, made, started, run, event, del, cron, crashed,
                     renewals, periods, overtaken, halfDone>>
    BY DEF CleanPrevious, queue
<1>2. /\ apps' \subseteq Deployments
      /\ upstreams' \subseteq Runs
      /\ leaked' \subseteq Deployments \cup Runs
    <2>1. prev[d].of \in Deployments
        BY <1>1 DEF InHand, Goto
    <2>2. TearDown(prev[d])
        BY DEF CleanPrevious
    <2>3. QED BY <2>1, <2>2, TearDownType
<1>3. req' \in [Deployments -> Requests]
    BY <1>1, GotoType DEF Requests
<1>4. TypeOK'
    BY <1>1, <1>2, <1>3 DEF TypeOK
<1>5. QED BY <1>1, <1>4, JobsAlone, RequestGoesOn, HandsAlone

LEMMA DeletePreviousRowType ==
    ASSUME TInv, NEW d \in Deployments, DeletePreviousRow(d) PROVE TInv'
<1> USE DEF TInv
<1>1. /\ Goto(d, "cleaned", "cleared")
      /\ prev' = [prev EXCEPT ![d] = Nothing]
      /\ UNCHANGED <<credits, apps, upstreams, job, made, started, run, event, del, cron,
                     crashed, renewals, periods, overtaken, leaked>>
    BY DEF DeletePreviousRow, cloud, queue
<1>2. row' \in [Deployments -> Rows] /\ halfDone' \subseteq Deployments
    <2>1. prev[d].of \in Deployments
        BY <1>1 DEF InHand, Goto
    <2>2. EndTearDown(prev[d].of, NoRow)
        BY DEF DeletePreviousRow
    <2>3. QED BY <2>1, <2>2, NoRowType, EndTearDownType
<1>3. req' \in [Deployments -> Requests]
    BY <1>1, GotoType DEF Requests
<1>4. prev' \in [Deployments -> Snapshots]
    BY <1>1, NothingType DEF TypeOK
<1>5. TypeOK'
    BY <1>1, <1>2, <1>3, <1>4 DEF TypeOK
<1>6. InHand'
    BY <1>1 DEF TypeOK, InHand, Goto
<1>7. QED BY <1>1, <1>5, <1>6, JobsAlone, RequestGoesOn

LEMMA CreateRowType ==
    ASSUME TInv, NEW d \in Deployments, CreateRow(d) PROVE TInv'
<1> USE DEF TInv
<1>1. PICK to \in {"created", "failing"} : Goto(d, "cleared", to)
    BY DEF CreateRow
<1>2. UNCHANGED <<credits, prev, apps, upstreams, job, made, started, run, event, del, cron,
                  crashed, renewals, periods, overtaken, leaked, halfDone>>
    BY DEF CreateRow, cloud, queue, history
<1>3. row' \in [Deployments -> Rows]
    <2>1. "PROCESSING" \in Statuses
        BY DEF Statuses
    <2>2. QED BY <2>1, StatusType DEF CreateRow, TypeOK
<1>4. req' \in [Deployments -> Requests]
    BY <1>1, GotoType DEF Requests
<1>5. TypeOK'
    BY <1>2, <1>3, <1>4 DEF TypeOK
<1>6. QED BY <1>1, <1>2, <1>5, JobsAlone, RequestGoesOn, HandsAlone

LEMMA EnqueueType ==
    ASSUME TInv, NEW d \in Deployments, Enqueue(d) PROVE TInv'
<1> USE DEF TInv
<1>1. PICK to \in {"queued", "failing"} : Goto(d, "created", to)
    BY DEF Enqueue
<1>2. UNCHANGED <<credits, prev, row, apps, upstreams, made, started, run, event, del, cron,
                  crashed, renewals, periods, overtaken, leaked, halfDone>>
    BY DEF Enqueue, cloud, history
<1>3. job' = [job EXCEPT ![d] = "waiting"] \/ UNCHANGED job
    BY DEF Enqueue
<1>4. req' \in [Deployments -> Requests]
    BY <1>1, GotoType DEF Requests
<1>5. TypeOK'
    BY <1>2, <1>3, <1>4 DEF TypeOK
<1>6. job[d] = "none" /\ started[d] = 0 /\ made[d] = 0
    BY <1>1 DEF QueuedOnce, StartsCounted, Goto
<1>7. StartsCounted'
    BY <1>2, <1>3, <1>6, DeploymentAssumption
       DEF DeploymentAssumption, TypeOK, StartsCounted, Restarts
<1>8. QueuedOnce'
    BY <1>1, <1>3 DEF TypeOK, QueuedOnce, Goto
<1>9. QED BY <1>1, <1>2, <1>5, <1>7, <1>8, HandsAlone

LEMMA MarkFailedType ==
    ASSUME TInv, NEW d \in Deployments, MarkFailed(d) PROVE TInv'
<1> USE DEF TInv
<1>1. /\ Goto(d, "failing", "refunding")
      /\ UNCHANGED <<credits, prev, apps, upstreams, job, made, started, run, event, del, cron,
                     crashed, renewals, periods, overtaken, leaked, halfDone>>
    BY DEF MarkFailed, cloud, queue, history
<1>2. row' \in [Deployments -> Rows]
    <2>1. "FAILED" \in Statuses
        BY DEF Statuses
    <2>2. QED BY <2>1, StatusType DEF MarkFailed, TypeOK
<1>3. req' \in [Deployments -> Requests]
    BY <1>1, GotoType DEF Requests
<1>4. TypeOK'
    BY <1>1, <1>2, <1>3 DEF TypeOK
<1>5. QED BY <1>1, <1>4, JobsAlone, RequestGoesOn, HandsAlone

LEMMA RefundType ==
    ASSUME TInv, NEW d \in Deployments, Refund(d) PROVE TInv'
<1> USE DEF TInv
<1>1. PICK to \in {"refunded", "unrefunded"} : Goto(d, "refunding", to)
    BY DEF Refund
<1>2. UNCHANGED <<prev, row, apps, upstreams, job, made, started, run, event, del, cron,
                  crashed, renewals, periods, overtaken, leaked, halfDone>>
    BY DEF Refund, cloud, queue, history
<1>3. credits' \in Nat
    BY DEF Refund, TypeOK
<1>4. req' \in [Deployments -> Requests]
    BY <1>1, GotoType DEF Requests
<1>5. TypeOK'
    BY <1>2, <1>3, <1>4 DEF TypeOK
<1>6. QED BY <1>1, <1>2, <1>5, JobsAlone, RequestGoesOn, HandsAlone
-----------------------------------------------------------------------------
(* A run's step writes the row and the cloud. *)
LEMMA RunFrameType ==
    ASSUME TInv, RunFrame,
           NEW d \in Deployments, NEW k \in RunNumbers, NEW from, NEW to \in Steps,
           Step(d, k, from, to),
           row' \in [Deployments -> Rows], apps' \subseteq Deployments,
           upstreams' \subseteq Runs, leaked' \subseteq Deployments \cup Runs
    PROVE  TInv'
<1> USE DEF TInv
<1>1. run' \in [Runs -> Steps]
    BY StepType
<1>2. UNCHANGED <<credits, req, prev, job, made, started, event, del, cron, crashed,
                  renewals, periods, overtaken, halfDone>>
    BY DEF RunFrame, client
<1>3. TypeOK'
    BY <1>1, <1>2 DEF TypeOK
<1>4. QueuedOnce' /\ InHand'
    BY <1>2 DEF QueuedOnce, InHand
<1>5. QED BY <1>2, <1>3, <1>4, JobsAlone

(* Those that write no more than the status. *)
LEMMA RunStatusType ==
    ASSUME TInv, RunFrame, UNCHANGED <<cloud, leaked>>,
           NEW d \in Deployments, NEW k \in RunNumbers, NEW from, NEW to \in Steps,
           Step(d, k, from, to),
           UNCHANGED row \/ \E status \in Statuses : SetStatus(d, status)
    PROVE  TInv'
<1>1. row' \in [Deployments -> Rows]
    BY StatusType DEF TInv, TypeOK
<1>2. /\ apps' \subseteq Deployments
      /\ upstreams' \subseteq Runs
      /\ leaked' \subseteq Deployments \cup Runs
    BY DEF TInv, TypeOK, cloud
<1>3. QED BY <1>1, <1>2, RunFrameType

LEMMA RunStepType ==
    ASSUME TInv, NEW d \in Deployments, NEW k \in RunNumbers,
           \/ MarkProcessing(d, k) \/ Build(d, k) \/ CreateApp(d, k) \/ WaitForHealthy(d, k)
           \/ CreateUpstream(d, k) \/ BindUpstream(d, k) \/ Finish(d, k) \/ Catch(d, k)
    PROVE  TInv'
<1> USE DEF Steps, Statuses
<1>1. <<d, k>> \in Runs /\ row[d] \in Rows
    BY DEF Runs, TInv, TypeOK
<1>2. CASE MarkProcessing(d, k)
    <2>1. CASE Step(d, k, "start", "build") /\ SetStatus(d, "PROCESSING")
        BY <1>2, <2>1, RunStatusType DEF MarkProcessing
    <2>2. CASE Step(d, k, "start", "threw") /\ UNCHANGED row
        BY <1>2, <2>2, RunStatusType DEF MarkProcessing
    <2>3. QED BY <1>2, <2>1, <2>2 DEF MarkProcessing
<1>3. CASE Build(d, k)
    <2>1. PICK to \in {"app", "caught"} : Step(d, k, "build", to)
        BY <1>3 DEF Build
    <2>2. QED BY <1>3, <2>1, RunStatusType DEF Build
<1>4. CASE CreateApp(d, k)
    <2>1. PICK to \in {"health", "caught"} : Step(d, k, "app", to)
        BY <1>4 DEF CreateApp
    <2>2. /\ RunFrame
          /\ apps' \subseteq Deployments
          /\ UNCHANGED <<row, upstreams, leaked>>
        BY <1>4 DEF CreateApp, TInv, TypeOK
    <2>3. /\ row' \in [Deployments -> Rows]
          /\ upstreams' \subseteq Runs
          /\ leaked' \subseteq Deployments \cup Runs
        BY <2>2 DEF TInv, TypeOK
    <2>4. QED BY <2>1, <2>2, <2>3, RunFrameType
<1>5. CASE WaitForHealthy(d, k)
    <2>1. PICK to \in {"attach", "caught"} : Step(d, k, "health", to)
        BY <1>5 DEF WaitForHealthy
    <2>2. QED BY <1>5, <2>1, RunStatusType DEF WaitForHealthy
<1>6. CASE CreateUpstream(d, k)
    <2>1. PICK to \in {"bind", "finish"} : Step(d, k, "attach", to)
        BY <1>6 DEF CreateUpstream
    <2>2. /\ RunFrame
          /\ upstreams' \subseteq Runs
          /\ leaked' \subseteq Deployments \cup Runs
          /\ UNCHANGED <<row, apps>>
        BY <1>1, <1>6 DEF CreateUpstream, TInv, TypeOK
    <2>3. row' \in [Deployments -> Rows] /\ apps' \subseteq Deployments
        BY <2>2 DEF TInv, TypeOK
    <2>4. QED BY <2>1, <2>2, <2>3, RunFrameType
<1>7. CASE BindUpstream(d, k)
    <2>1. Step(d, k, "bind", "finish") /\ RunFrame /\ UNCHANGED <<apps, upstreams>>
        BY <1>7 DEF BindUpstream, cloud
    <2>2. leaked' \subseteq Deployments \cup Runs
        BY <1>1, <1>7 DEF BindUpstream, TInv, TypeOK
    <2>3. row' \in [Deployments -> Rows]
        <3>1. [row[d] EXCEPT !.upstream = k] \in Rows
            BY <1>1, RowUpstreamType
        <3>2. QED BY <1>7, <3>1 DEF BindUpstream, TInv, TypeOK
    <2>4. apps' \subseteq Deployments /\ upstreams' \subseteq Runs
        BY <2>1 DEF TInv, TypeOK
    <2>5. QED BY <2>1, <2>2, <2>3, <2>4, RunFrameType
<1>8. CASE Finish(d, k)
    <2>1. PICK to \in {"report", "caught"} : Step(d, k, "finish", to)
        BY <1>8 DEF Finish
    <2>2. RunFrame /\ UNCHANGED <<apps, upstreams, leaked>>
        BY <1>8 DEF Finish, cloud
    <2>3. row' \in [Deployments -> Rows]
        <3>1. [row[d] EXCEPT !.status = "ACTIVE", !.due = "later"] \in Rows
            BY <1>1, RowDueType
        <3>2. QED BY <1>8, <3>1 DEF Finish, TInv, TypeOK
    <2>4. /\ apps' \subseteq Deployments
          /\ upstreams' \subseteq Runs
          /\ leaked' \subseteq Deployments \cup Runs
        BY <2>2 DEF TInv, TypeOK
    <2>5. QED BY <2>1, <2>2, <2>3, <2>4, RunFrameType
<1>9. CASE Catch(d, k)
    <2>1. Step(d, k, "caught", "threw")
        BY <1>9 DEF Catch
    <2>2. UNCHANGED row \/ SetStatus(d, "FAILED")
        BY <1>9 DEF Catch
    <2>3. QED BY <1>9, <2>1, <2>2, RunStatusType DEF Catch
<1>10. QED BY <1>2, <1>3, <1>4, <1>5, <1>6, <1>7, <1>8, <1>9
-----------------------------------------------------------------------------
(* The jobs in Bull. *)

LEMMA StartRunType ==
    ASSUME TInv, NEW d \in Deployments, StartRun(d) PROVE TInv'
<1> USE DEF TInv
<1>1. /\ job[d] = "waiting"
      /\ job' = [job EXCEPT ![d] = "active"]
      /\ started' = [started EXCEPT ![d] = @ + 1]
      /\ run' = [run EXCEPT ![<<d, started[d] + 1>>] = "start"]
      /\ UNCHANGED <<credits, req, prev, row, apps, upstreams, made, event, del, cron, crashed,
                     renewals, periods, leaked, halfDone>>
      /\ overtaken' \in {overtaken, overtaken \cup {d}}
    BY DEF StartRun, client, cloud
<1>2. /\ made[d] \in Nat /\ made[d] < Attempts
      /\ started[d] \in Nat /\ started[d] <= made[d] + Restarts
      /\ Restarts \in {0, 1} /\ Restarts' = Restarts
    <2>1. made[d] \in Nat /\ started[d] \in Nat
        BY AttemptsAreNumbers DEF TypeOK
    <2>2. made[d] < Attempts /\ started[d] <= made[d] + Restarts
        BY <1>1 DEF StartsCounted
    <2>3. Restarts \in {0, 1} /\ Restarts' = Restarts
        BY <1>1 DEF Restarts
    <2>4. QED BY <2>1, <2>2, <2>3
<1>3. started[d] + 1 \in RunNumbers
    BY <1>2, DeploymentAssumption DEF DeploymentAssumption, RunNumbers
<1>4. TypeOK'
    BY <1>1, <1>3 DEF TypeOK, Steps, Runs
<1>5. StartsCounted'
    BY <1>1, <1>2 DEF TypeOK, StartsCounted
<1>6. QueuedOnce' /\ InHand'
    BY <1>1 DEF TypeOK, QueuedOnce, InHand
<1>7. QED BY <1>4, <1>5, <1>6

(* An attempt that failed leaves the job with one attempt less. *)
LEMMA FailAttemptType ==
    ASSUME TInv, NEW d \in Deployments, job[d] = "active", FailAttempt(d),
           UNCHANGED <<req, prev, started, cron, crashed>>
    PROVE  /\ job' \in [Deployments -> {"none", "waiting", "active", "stalled", "completed", "failed"}]
           /\ made' \in [Deployments -> 0 .. Attempts]
           /\ event' \in [Deployments -> {"none", "failed", "stalled"}]
           /\ StartsCounted' /\ QueuedOnce' /\ InHand'
<1> USE DEF TInv
<1>1. /\ made[d] \in Nat /\ made[d] < Attempts
      /\ started[d] \in Nat /\ started[d] <= made[d] + 1 + Restarts
      /\ Restarts \in {0, 1} /\ Restarts' = Restarts
    <2>1. made[d] \in Nat /\ started[d] \in Nat
        BY AttemptsAreNumbers DEF TypeOK
    <2>2. made[d] < Attempts /\ started[d] <= made[d] + 1 + Restarts
        BY DEF StartsCounted
    <2>3. Restarts \in {0, 1} /\ Restarts' = Restarts
        BY DEF Restarts
    <2>4. QED BY <2>1, <2>2, <2>3
<1>2. /\ made' = [made EXCEPT ![d] = made[d] + 1]
      /\ job' = [job EXCEPT ![d] = IF made[d] + 1 < Attempts THEN "waiting" ELSE "failed"]
      /\ event' = [event EXCEPT ![d] = "failed"]
    BY DEF FailAttempt
<1>3. made' \in [Deployments -> 0 .. Attempts]
    BY <1>1, <1>2, DeploymentAssumption DEF DeploymentAssumption, TypeOK
<1>4. StartsCounted'
    BY <1>1, <1>2, DeploymentAssumption DEF DeploymentAssumption, TypeOK, StartsCounted
<1>5. QueuedOnce' /\ InHand'
    BY <1>2 DEF TypeOK, QueuedOnce, InHand
<1>6. QED BY <1>2, <1>3, <1>4, <1>5 DEF TypeOK

(* A run ends well or in the hands of Bull, or Bull gives it up. *)
LEMMA EndOfRunType ==
    ASSUME TInv, NEW d \in Deployments,
           \/ \E k \in RunNumbers : Report(d, k) \/ Throw(d, k)
           \/ Timeout(d)
    PROVE  TInv'
<1> USE DEF TInv
<1>1. CASE \E k \in RunNumbers : Report(d, k)
    <2>1. PICK k \in RunNumbers : Report(d, k)
        BY <1>1
    <2>2. UNCHANGED <<credits, req, prev, row, apps, upstreams, made, started, event, del, cron,
                      crashed, renewals, periods, overtaken, leaked, halfDone>>
        BY <2>1 DEF Report, client, cloud, history
    <2>3. run' \in [Runs -> Steps]
        <3>1. PICK to \in {"off", "caught"} : Step(d, k, "report", to)
            BY <2>1 DEF Report
        <3>2. QED BY <3>1, StepType DEF Steps
    <2>4. UNCHANGED job \/ (job[d] = "active" /\ job' = [job EXCEPT ![d] = "completed"])
        BY <2>1 DEF Report, Current
    <2>5. TypeOK'
        BY <2>2, <2>3, <2>4 DEF TypeOK
    <2>6. StartsCounted'
        BY <2>2, <2>4 DEF TypeOK, StartsCounted, Restarts
    <2>7. QueuedOnce' /\ InHand'
        BY <2>2, <2>4 DEF TypeOK, QueuedOnce, InHand
    <2>8. QED BY <2>5, <2>6, <2>7
<1>2. CASE \E k \in RunNumbers : Throw(d, k)
    <2>1. PICK k \in RunNumbers : Throw(d, k)
        BY <1>2
    <2>2. UNCHANGED <<credits, req, prev, row, apps, upstreams, started, del, cron,
                      crashed, renewals, periods, overtaken, leaked, halfDone>>
        BY <2>1 DEF Throw, client, cloud, history
    <2>3. run' \in [Runs -> Steps]
        BY <2>1, StepType DEF Throw, Steps
    <2>4. CASE Current(d, k) /\ FailAttempt(d)
        BY <2>2, <2>3, <2>4, FailAttemptType DEF TypeOK, Current
    <2>5. CASE UNCHANGED <<job, made, event>>
        <3>1. TypeOK' /\ QueuedOnce' /\ InHand'
            BY <2>2, <2>3, <2>5 DEF TypeOK, QueuedOnce, InHand
        <3>2. QED BY <2>2, <2>5, <3>1, JobsAlone
    <2>6. QED BY <2>1, <2>4, <2>5 DEF Throw
<1>3. CASE Timeout(d)
    <2>1. UNCHANGED <<credits, req, prev, row, apps, upstreams, started, run, del, cron,
                      crashed, renewals, periods, overtaken, leaked, halfDone>>
        BY <1>3 DEF Timeout, client, cloud, history
    <2>2. job[d] = "active" /\ FailAttempt(d)
        BY <1>3 DEF Timeout
    <2>3. QED BY <2>1, <2>2, FailAttemptType DEF TypeOK
<1>4. QED BY <1>1, <1>2, <1>3

LEMMA HandleEventType ==
    ASSUME TInv, NEW d \in Deployments, HandleEvent(d) PROVE TInv'
<1> USE DEF TInv
<1>1. /\ event' = [event EXCEPT ![d] = "none"]
      /\ UNCHANGED <<credits, req, prev, apps, upstreams, job, made, started, run, del, cron,
                     crashed, renewals, periods, overtaken, leaked, halfDone>>
    BY DEF HandleEvent, client, cloud, history
<1>2. row' \in [Deployments -> Rows]
    <2>1. SetStatus(d, "FAILED") \/ UNCHANGED row
        BY DEF HandleEvent
    <2>2. QED BY <2>1, StatusType DEF TypeOK, Statuses
<1>3. TypeOK' /\ QueuedOnce' /\ InHand'
    BY <1>1, <1>2 DEF TypeOK, QueuedOnce, InHand
<1>4. QED BY <1>1, <1>3, JobsAlone

LEMMA RecoverStalledType ==
    ASSUME TInv, NEW d \in Deployments, RecoverStalled(d) PROVE TInv'
<1> USE DEF TInv
<1>1. /\ job[d] = "stalled"
      /\ job' = [job EXCEPT ![d] = "waiting"]
      /\ event' = [event EXCEPT ![d] = "stalled"]
      /\ UNCHANGED <<credits, req, prev, row, apps, upstreams, made, started, run, del, cron,
                     crashed, renewals, periods, overtaken, leaked, halfDone>>
    BY DEF RecoverStalled, client, cloud, history
<1>2. TypeOK' /\ QueuedOnce' /\ InHand'
    BY <1>1 DEF TypeOK, QueuedOnce, InHand
<1>3. StartsCounted'
    BY <1>1 DEF TypeOK, StartsCounted, Restarts
<1>4. QED BY <1>2, <1>3
-----------------------------------------------------------------------------
(* The owner's deletion. *)

LEMMA DeleteType ==
    ASSUME TInv, NEW d \in Deployments, Delete(d) PROVE TInv'
<1> USE DEF TInv
<1>1. UNCHANGED <<credits, req, prev, job, made, started, run, event, cron, crashed,
                  renewals, periods>>
    BY DEF Delete, ReadForDelete, CleanForDelete, MarkDeleted, client, queue
<1>2. QueuedOnce' /\ InHand' /\ StartsCounted'
    BY <1>1, JobsAlone DEF QueuedOnce, InHand
<1>3. row[d] \in Rows /\ row[d].upstream \in {0} \cup RunNumbers
    BY DEF TypeOK, Rows
<1>4. CASE ReadForDelete(d)
    <2>1. /\ del' = [del EXCEPT ![d] = [phase |-> "read", upstream |-> row[d].upstream]]
          /\ UNCHANGED <<row, apps, upstreams, leaked, halfDone>>
        BY <1>4 DEF ReadForDelete, cloud
    <2>2. overtaken' \subseteq Deployments
        BY <1>4 DEF ReadForDelete, BeginTearDown, TypeOK
    <2>3. QED BY <1>1, <1>2, <1>3, <2>1, <2>2 DEF TypeOK
<1>5. CASE CleanForDelete(d)
    <2>1. /\ del' = [del EXCEPT ![d].phase = "cleaned"]
          /\ UNCHANGED <<row, overtaken, halfDone>>
        BY <1>5 DEF CleanForDelete
    <2>2. /\ apps' \subseteq Deployments
          /\ upstreams' \subseteq Runs
          /\ leaked' \subseteq Deployments \cup Runs
        BY <1>5, TearDownType DEF CleanForDelete
    <2>3. QED BY <1>1, <1>2, <2>1, <2>2 DEF TypeOK
<1>6. CASE MarkDeleted(d)
    <2>1. /\ del' = [del EXCEPT ![d] = [phase |-> "done", upstream |-> 0]]
          /\ UNCHANGED <<apps, upstreams, overtaken, leaked>>
        BY <1>6 DEF MarkDeleted, cloud
    <2>2. [row[d] EXCEPT !.status = "DELETED", !.upstream = 0] \in Rows
        BY <1>3 DEF Rows, Statuses
    <2>3. row' \in [Deployments -> Rows] /\ halfDone' \subseteq Deployments
        BY <1>6, <2>2, EndTearDownType DEF MarkDeleted, TypeOK
    <2>4. QED BY <1>1, <1>2, <2>1, <2>3 DEF TypeOK
<1>7. QED BY <1>4, <1>5, <1>6 DEF Delete
-----------------------------------------------------------------------------
(* The cron. *)

CronTypeOK == cron \in [phase : {"idle", "scan", "advance", "terminate", "mark"},
                        batch : SUBSET Snapshots, hand : Snapshots]

LEMMA CronFrameType ==
    ASSUME TInv, CronFrame, CronTypeOK',
           \A s \in cron'.batch : s.of \in Deployments,
           cron'.phase \in {"advance", "terminate", "mark"} => cron'.hand.of \in Deployments
    PROVE  /\ StartsCounted' /\ QueuedOnce' /\ InHand'
           /\ (/\ credits' \in Nat
               /\ row' \in [Deployments -> Rows]
               /\ apps' \subseteq Deployments
               /\ upstreams' \subseteq Runs
               /\ renewals' \in [Deployments -> Nat]
               /\ leaked' \subseteq Deployments \cup Runs
               /\ halfDone' \subseteq Deployments)
              => TypeOK'
<1> USE DEF TInv
<1>1. UNCHANGED <<req, prev, job, made, started, run, event, del, crashed, periods, overtaken>>
    BY DEF CronFrame, client, queue
<1>2. StartsCounted' /\ QueuedOnce' /\ InHand'
    BY <1>1, JobsAlone DEF QueuedOnce, InHand
<1>3. QED BY <1>1, <1>2 DEF TypeOK, CronTypeOK

LEMMA NextInBatchType ==
    ASSUME NEW batch \in SUBSET Snapshots, NextInBatch(batch)
    PROVE  /\ CronTypeOK'
           /\ cron'.batch = batch
           /\ cron'.phase \in {"idle", "scan"}
BY NothingType DEF NextInBatch, CronTypeOK

LEMMA CronType ==
    ASSUME TInv, Cron PROVE TInv'
<1> USE DEF TInv
<1>1. /\ cron \in [phase : {"idle", "scan", "advance", "terminate", "mark"},
                   batch : SUBSET Snapshots, hand : Snapshots]
      /\ cron.batch \in SUBSET Snapshots /\ cron.hand \in Snapshots
    BY DEF TypeOK
<1>2. CASE CronStart
    <2> DEFINE due == {d \in Deployments : row[d].status = "ACTIVE" /\ row[d].due = "now"}
    <2>1. /\ cron' = [cron EXCEPT !.phase = "scan", !.batch = {Snapshot(d) : d \in due}]
          /\ overtaken' = overtaken \cup {d \in due : ~JobOver(d)}
          /\ UNCHANGED <<credits, req, prev, row, apps, upstreams, job, made, started, run, event,
                         del, crashed, renewals, periods, leaked, halfDone>>
        BY <1>2 DEF CronStart, client, cloud, queue
    <2>2. {Snapshot(d) : d \in due} \in SUBSET Snapshots
        BY SnapshotType
    <2>3. \A s \in {Snapshot(d) : d \in due} : s.of \in Deployments
        BY DEF Snapshot
    <2> HIDE DEF due
    <2>4. /\ cron' \in [phase : {"idle", "scan", "advance", "terminate", "mark"},
                        batch : SUBSET Snapshots, hand : Snapshots]
          /\ cron'.batch = {Snapshot(d) : d \in due} /\ cron'.phase = "scan"
        BY <1>1, <2>1, <2>2
    <2>5. overtaken' \subseteq Deployments
        BY <2>1 DEF due, TypeOK
    <2>6. TypeOK'
        BY <2>1, <2>4, <2>5 DEF TypeOK
    <2>7. QueuedOnce' /\ InHand'
        BY <2>1, <2>3, <2>4 DEF QueuedOnce, InHand
    <2>8. QED BY <2>1, <2>6, <2>7, JobsAlone
<1>3. CASE \E s \in cron.batch : CronCharge(s)
    <2>1. PICK s \in cron.batch : CronCharge(s)
        BY <1>3
    <2>2. s \in Snapshots /\ s.of \in Deployments /\ cron.batch \ {s} \in SUBSET Snapshots
        BY <1>1 DEF InHand
    <2>3. /\ credits' \in Nat
          /\ renewals' \in [Deployments -> Nat]
          /\ CronFrame
          /\ UNCHANGED <<row, apps, upstreams, leaked, halfDone>>
        BY <2>1, <2>2 DEF CronCharge, TypeOK, cloud
    <2>4. /\ CronTypeOK'
          /\ cron'.batch = cron.batch \ {s}
          /\ cron'.phase \in {"advance", "terminate", "mark"} => cron'.hand.of \in Deployments
        <3>1. CASE cron' = [phase |-> "advance", batch |-> cron.batch \ {s}, hand |-> s]
            BY <2>2, <3>1 DEF CronTypeOK
        <3>2. CASE cron' = [phase |-> "terminate", batch |-> cron.batch \ {s}, hand |-> s]
            BY <2>2, <3>2 DEF CronTypeOK
        <3>3. CASE NextInBatch(cron.batch \ {s})
            BY <2>2, <3>3, NextInBatchType
        <3>4. QED BY <2>1, <3>1, <3>2, <3>3 DEF CronCharge
    <2>5. \A t \in cron'.batch : t.of \in Deployments
        BY <2>4 DEF InHand
    <2>6. QED BY <2>3, <2>4, <2>5, CronFrameType DEF TypeOK
<1>4. CASE CronAdvance
    <2>1. /\ cron.phase = "advance"
          /\ NextInBatch(cron.batch) /\ CronFrame
          /\ UNCHANGED <<credits, apps, upstreams, renewals, leaked, halfDone>>
        BY <1>4 DEF CronAdvance, cloud
    <2>2. row' \in [Deployments -> Rows]
        <3>1. cron.hand.of \in Deployments
            BY <2>1 DEF InHand
        <3>2. [row[cron.hand.of] EXCEPT !.due = "later"] \in Rows
            BY <3>1, RowDueType DEF TypeOK, Statuses
        <3>3. QED BY <1>4, <3>1, <3>2 DEF CronAdvance, TypeOK
    <2>3. /\ CronTypeOK' /\ cron'.batch = cron.batch
          /\ cron'.phase \notin {"advance", "terminate", "mark"}
        BY <1>1, <2>1, NextInBatchType
    <2>4. \A t \in cron'.batch : t.of \in Deployments
        BY <2>3 DEF InHand
    <2>5. QED BY <2>1, <2>2, <2>3, <2>4, CronFrameType DEF TypeOK
<1>5. CASE CronTerminate
    <2>1. /\ cron.phase = "terminate"
          /\ cron' = [cron EXCEPT !.phase = "mark"] /\ CronFrame
          /\ UNCHANGED <<credits, row, renewals, halfDone>>
        BY <1>5 DEF CronTerminate
    <2>2. cron.hand.of \in Deployments
        BY <2>1 DEF InHand
    <2>3. /\ apps' \subseteq Deployments
          /\ upstreams' \subseteq Runs
          /\ leaked' \subseteq Deployments \cup Runs
        BY <1>5, <2>2, TearDownType DEF CronTerminate
    <2>4. CronTypeOK' /\ cron'.batch = cron.batch /\ cron'.hand = cron.hand
        BY <1>1, <2>1 DEF CronTypeOK
    <2>5. \A t \in cron'.batch : t.of \in Deployments
        BY <2>4 DEF InHand
    <2>6. QED BY <2>1, <2>2, <2>3, <2>4, <2>5, CronFrameType DEF TypeOK
<1>6. CASE CronMarkDeleted
    <2>1. /\ cron.phase = "mark"
          /\ NextInBatch(cron.batch) /\ CronFrame
          /\ UNCHANGED <<credits, apps, upstreams, renewals, leaked>>
        BY <1>6 DEF CronMarkDeleted, cloud
    <2>2. row' \in [Deployments -> Rows] /\ halfDone' \subseteq Deployments
        <3>1. cron.hand.of \in Deployments
            BY <2>1 DEF InHand
        <3>2. [row[cron.hand.of] EXCEPT !.status = "DELETED"] \in Rows
            BY <3>1, RowStatusType DEF TypeOK, Statuses
        <3>3. QED BY <1>6, <3>1, <3>2, EndTearDownType DEF CronMarkDeleted, TypeOK
    <2>3. /\ CronTypeOK' /\ cron'.batch = cron.batch
          /\ cron'.phase \notin {"advance", "terminate", "mark"}
        BY <1>1, <2>1, NextInBatchType
    <2>4. \A t \in cron'.batch : t.of \in Deployments
        BY <2>3 DEF InHand
    <2>5. QED BY <2>1, <2>2, <2>3, <2>4, CronFrameType DEF TypeOK
<1>7. QED BY <1>2, <1>3, <1>4, <1>5, <1>6 DEF Cron
-----------------------------------------------------------------------------
(* Time and the restart. *)

LEMMA MonthPassesType ==
    ASSUME TInv, NEW d \in Deployments, MonthPasses(d) PROVE TInv'
<1> USE DEF TInv
<1>1. UNCHANGED <<credits, req, prev, apps, upstreams, job, made, started, run, event, del,
                  cron, crashed, renewals, overtaken, leaked, halfDone>>
    BY DEF MonthPasses, client, cloud, queue
<1>2. periods' \in [Deployments -> Nat]
    BY DEF MonthPasses, TypeOK
<1>3. row' \in [Deployments -> Rows]
    <2>1. [row[d] EXCEPT !.due = "now"] \in Rows
        BY RowDueType DEF TypeOK, Statuses
    <2>2. QED BY <2>1 DEF MonthPasses, TypeOK
<1>4. TypeOK' /\ QueuedOnce' /\ InHand'
    BY <1>1, <1>2, <1>3 DEF TypeOK, QueuedOnce, InHand
<1>5. QED BY <1>1, <1>4, JobsAlone

LEMMA CrashType ==
    ASSUME TInv, Crash PROVE TInv'
<1> USE DEF TInv
<1>1. /\ ~crashed /\ crashed' = TRUE
      /\ req' = [d \in Deployments |->
                    IF req[d] \in {"charged", "replacing", "cleaned", "cleared", "created",
                                   "failing", "refunding"}
                    THEN "abandoned" ELSE req[d]]
      /\ prev' = [d \in Deployments |-> Nothing]
      /\ job' = [d \in Deployments |-> IF job[d] = "active" THEN "stalled" ELSE job[d]]
      /\ run' = [r \in Runs |-> "off"]
      /\ event' = [d \in Deployments |-> "none"]
      /\ del' = [d \in Deployments |->
                    [phase |-> IF del[d].phase = "idle" THEN "idle" ELSE "done", upstream |-> 0]]
      /\ cron' = [phase |-> "idle", batch |-> {}, hand |-> Nothing]
      /\ halfDone' = halfDone \cup {d \in Deployments : UnderTearDown(d)}
      /\ leaked' = leaked \cup {r \in Runs : run[r] = "bind"}
      /\ UNCHANGED <<credits, row, apps, upstreams, made, started, renewals, periods, overtaken>>
    BY DEF Crash, cloud
<1>2. req' \in [Deployments -> Requests] /\ prev' \in [Deployments -> Snapshots]
    BY <1>1, NothingType DEF TypeOK, Requests
<1>3. cron' \in [phase : {"idle", "scan", "advance", "terminate", "mark"},
                batch : SUBSET Snapshots, hand : Snapshots]
    BY <1>1, NothingType
<1>4. del' \in [Deployments -> [phase : {"idle", "read", "cleaned", "done"},
                               upstream : {0} \cup RunNumbers]]
    BY <1>1
<1>5. job' \in [Deployments -> {"none", "waiting", "active", "stalled", "completed", "failed"}]
    BY <1>1 DEF TypeOK
<1>6. TypeOK'
    BY <1>1, <1>2, <1>3, <1>4, <1>5 DEF TypeOK, Steps
<1>7. StartsCounted'
    <2>1. \A d \in Deployments : made[d] \in Nat /\ started[d] \in Nat
        BY AttemptsAreNumbers DEF TypeOK
    <2>2. Restarts = 0 /\ Restarts' = 1
        BY <1>1 DEF Restarts
    <2>3. QED BY <1>1, <2>1, <2>2 DEF TypeOK, StartsCounted
<1>8. QueuedOnce' /\ InHand'
    BY <1>1 DEF QueuedOnce, InHand
<1>9. QED BY <1>6, <1>7, <1>8

(* Every action, named. *)
LEMMA ByAction ==
    ASSUME Next
    PROVE  \/ \E d \in Deployments :
                 \/ Charge(d) \/ ReadPrevious(d) \/ CleanPrevious(d) \/ DeletePreviousRow(d)
                 \/ CreateRow(d) \/ Enqueue(d) \/ MarkFailed(d) \/ Refund(d)
                 \/ StartRun(d) \/ Timeout(d) \/ HandleEvent(d) \/ RecoverStalled(d)
                 \/ Delete(d) \/ MonthPasses(d)
           \/ \E d \in Deployments, k \in RunNumbers :
                 \/ MarkProcessing(d, k) \/ Build(d, k) \/ CreateApp(d, k)
                 \/ WaitForHealthy(d, k) \/ CreateUpstream(d, k) \/ BindUpstream(d, k)
                 \/ Finish(d, k) \/ Catch(d, k) \/ Report(d, k) \/ Throw(d, k)
           \/ Cron
           \/ Crash
BY DEF Next, Proceed, RunStep

LEMMA StutterType == TInv /\ UNCHANGED vars => TInv'
<1> SUFFICES ASSUME TInv, UNCHANGED vars PROVE TInv'
    OBVIOUS
<1>1. UNCHANGED <<credits, req, prev, row, apps, upstreams, job, made, started, run, event,
                  del, cron, crashed, renewals, periods, overtaken, leaked, halfDone>>
    BY DEF vars
<1>2. TypeOK'
    BY <1>1 DEF TInv, TypeOK
<1>3. QueuedOnce' /\ InHand' /\ StartsCounted'
    BY <1>1, JobsAlone DEF TInv, QueuedOnce, InHand
<1>4. QED BY <1>2, <1>3 DEF TInv

LEMMA NextType == TInv /\ [Next]_vars => TInv'
<1> SUFFICES ASSUME TInv, Next PROVE TInv'
    BY StutterType
<1>1. ASSUME NEW d \in Deployments,
             \/ Charge(d) \/ ReadPrevious(d) \/ CleanPrevious(d) \/ DeletePreviousRow(d)
             \/ CreateRow(d) \/ Enqueue(d) \/ MarkFailed(d) \/ Refund(d)
      PROVE  TInv'
    BY <1>1, ChargeType, ReadPreviousType, CleanPreviousType, DeletePreviousRowType,
       CreateRowType, EnqueueType, MarkFailedType, RefundType
<1>2. ASSUME NEW d \in Deployments,
             \/ StartRun(d) \/ Timeout(d) \/ HandleEvent(d) \/ RecoverStalled(d)
             \/ Delete(d) \/ MonthPasses(d)
      PROVE  TInv'
    BY <1>2, StartRunType, EndOfRunType, HandleEventType, RecoverStalledType, DeleteType,
       MonthPassesType
<1>3. ASSUME NEW d \in Deployments, NEW k \in RunNumbers,
             \/ MarkProcessing(d, k) \/ Build(d, k) \/ CreateApp(d, k)
             \/ WaitForHealthy(d, k) \/ CreateUpstream(d, k) \/ BindUpstream(d, k)
             \/ Finish(d, k) \/ Catch(d, k) \/ Report(d, k) \/ Throw(d, k)
      PROVE  TInv'
    BY <1>3, RunStepType, EndOfRunType
<1>4. CASE Cron \/ Crash
    BY <1>4, CronType, CrashType
<1>5. QED BY <1>1, <1>2, <1>3, <1>4, ByAction

(* The variables of a deployment keep their types; in particular Bull      *)
(* never starts a job more often than its attempts and one restart allow.  *)
THEOREM TypeInvariance == Spec => []TInv
<1>1. Init => TInv
    BY InitType
<1>2. TInv /\ [Next]_vars => TInv'
    BY NextType
<1>3. QED BY <1>1, <1>2, PTL DEF Spec

(* TypeOK of Deployment (deploy.service.ts), for any number of requests,   *)
(* attempts and faults.                                                    *)
THEOREM TypeCorrectness == Spec => []TypeOK
<1>1. TInv => TypeOK
    BY DEF TInv
<1>2. QED BY <1>1, TypeInvariance, PTL
-----------------------------------------------------------------------------
(* The rows and the cloud.                                                 *)
(*                                                                         *)
(* Teardowns are told apart by how far they are: one that has read a row   *)
(* is Pending, one that has deleted what the row named has Cleaned.  The   *)
(* argument is that a deployment whose teardown does not overtake its job  *)
(* has no job left to create anything when it is read, and never will.     *)

(* What teardowns and the billing have read and not yet acted upon, and    *)
(* the deployments whose teardown has only its last statement to make.     *)
Pending ==
    {prev[d] : d \in {e \in Deployments : req[e] = "replacing"}}
    \cup {[of |-> d, upstream |-> del[d].upstream] :
             d \in {e \in Deployments : del[e].phase = "read"}}
    \cup cron.batch
    \cup {s \in {cron.hand} : cron.phase \in {"advance", "terminate"}}

Cleaned ==
    {prev[d].of : d \in {e \in Deployments : req[e] = "cleaned"}}
    \cup {d \in Deployments : del[d].phase = "cleaned"}
    \cup {d \in {cron.hand.of} : cron.phase = "mark"}

Doomed(d) == (\E s \in Pending : s.of = d) \/ d \in Cleaned

(* A job is there, or is about to be, to create something for d. *)
Live(d) == req[d] = "created" \/ job[d] \in {"waiting", "active", "stalled"} \/ InFlight(d)

Gone(d) == row[d].status \in {"none", "DELETED"}

Undisturbed == Deployments \ overtaken

(* What is torn down has no job; what has one has a row; and one run of it *)
(* at most is under way, the last that was started.                        *)
Standing ==
    \A d \in Undisturbed :
        /\ Doomed(d) => JobOver(d)
        /\ Live(d) => ~Gone(d)
        /\ \A k \in RunNumbers : run[<<d, k>>] # "off" => k = started[d]

(* The app is there from its creation until a teardown, and ACTIVE is      *)
(* written while it is.                                                    *)
AppFollowsRow ==
    \A d \in Undisturbed :
        /\ (d \in Cleaned \/ Gone(d)) /\ d \in apps => d \in leaked
        /\ \A k \in RunNumbers :
              /\ run[<<d, k>>] \in {"health", "attach", "bind", "finish"} => d \in apps
              /\ run[<<d, k>>] \in {"build", "app"} => row[d].status # "ACTIVE"
        /\ row[d].status = "ACTIVE" => d \in apps \cup Cleaned \cup halfDone

(* The last upstream of d is the one its row, or a run about to tell it,   *)
(* and whoever has read the row, know of.                                  *)
UpstreamFollowsRow ==
    \A d \in Undisturbed, k \in RunNumbers :
        <<d, k>> \in upstreams =>
            /\ k <= started[d]
            /\ k = started[d] /\ <<d, k>> \notin leaked =>
                   /\ run[<<d, k>>] = "bind" \/ row[d].upstream = k
                   /\ \A s \in Pending : s.of = d => s.upstream = k
                   /\ d \notin Cleaned

CloudInv == TInv /\ Standing /\ AppFollowsRow /\ UpstreamFollowsRow
-----------------------------------------------------------------------------
LEMMA InitCloud == Init => Standing /\ AppFollowsRow /\ UpstreamFollowsRow
<1> SUFFICES ASSUME Init PROVE Standing /\ AppFollowsRow /\ UpstreamFollowsRow
    OBVIOUS
<1>1. Pending = {} /\ Cleaned = {}
    BY DEF Init, Pending, Cleaned
<1>2. \A d \in Deployments : ~Live(d) /\ row[d].status = "none"
    BY DEF Init, Live, InFlight, Runs, NoRow
<1>3. \A r \in Runs : run[r] = "off"
    BY DEF Init
<1>4. \A d \in Deployments, k \in RunNumbers : <<d, k>> \in Runs
    BY DEF Runs
<1>5. QED
    BY <1>1, <1>2, <1>3, <1>4
       DEF Init, Standing, AppFollowsRow, UpstreamFollowsRow, Doomed, Undisturbed
-----------------------------------------------------------------------------
(* The kinds of steps, as far as the cloud is concerned. *)

(* What only the worker and the queue change. *)
NoWork == UNCHANGED <<job, run, started>> /\ \A d \in Deployments : req'[d] = "created" => req[d] = "created"

(* A row, or a batch of them, is read. *)
Begins ==
    /\ NoWork
    /\ UNCHANGED <<row, apps, upstreams, leaked, halfDone>>
    /\ overtaken \subseteq overtaken'
    /\ Cleaned' = Cleaned
    /\ \A s \in Pending' \ Pending :
          s.upstream = row[s.of].upstream /\ (s.of \in overtaken' \/ JobOver(s.of))

(* What has been read is deleted in the cloud. *)
Cleans ==
    \E s \in Pending :
        /\ NoWork
        /\ UNCHANGED <<row, overtaken, halfDone>>
        /\ s.of \in Deployments
        /\ TearDown(s)
        /\ Pending' \subseteq Pending
        /\ Cleaned' = Cleaned \cup {s.of}

(* The last statement is made, or fails, or has nothing to do. *)
Ends ==
    \E d \in Cleaned :
        /\ NoWork
        /\ UNCHANGED <<apps, upstreams, leaked, overtaken>>
        /\ Pending' \subseteq Pending
        /\ Cleaned \ {d} \subseteq Cleaned' /\ Cleaned' \subseteq Cleaned
        /\ halfDone \subseteq halfDone'
        /\ \A e \in Deployments : e # d => row'[e] = row[e]
        /\ row'[d].status \in {"none", "DELETED"} \/ (row'[d] = row[d] /\ d \in halfDone')

(* Requests and the billing go about their business. *)
Passes ==
    /\ UNCHANGED <<apps, upstreams, leaked, run, started, overtaken, halfDone>>
    /\ Pending' \subseteq Pending
    /\ Cleaned' = Cleaned
    /\ \A d \in Deployments :
          /\ JobOver(d) => JobOver(d)'
          /\ Live(d)' => Live(d) \/ row'[d].status = "PROCESSING"
          /\ row'[d].upstream = row[d].upstream
          /\ \/ row'[d].status = row[d].status
             \/ row'[d].status = "FAILED"
             \/ row'[d].status = "PROCESSING" /\ ~JobOver(d)

LEMMA BeginsKeeps ==
    ASSUME CloudInv, Begins PROVE Standing' /\ AppFollowsRow' /\ UpstreamFollowsRow'
<1> USE DEF CloudInv
<1>1. \A d \in Deployments :
         /\ d \in Undisturbed' => d \in Undisturbed
         /\ JobOver(d)' = JobOver(d)
         /\ Live(d)' => Live(d)
         /\ Gone(d)' = Gone(d)
    BY DEF Begins, NoWork, Undisturbed, JobOver, InFlight, Live, Gone
<1>2. ASSUME NEW d \in Undisturbed', Doomed(d)' PROVE JobOver(d)
    <2>1. CASE Doomed(d)
        BY <1>1, <1>2, <2>1 DEF Standing, Undisturbed
    <2>2. CASE ~Doomed(d)
        <3>1. PICK s \in Pending' \ Pending : s.of = d
            BY <1>2, <2>2 DEF Doomed, Begins
        <3>2. QED BY <3>1, <1>2 DEF Begins, Undisturbed
    <2>3. QED BY <2>1, <2>2
<1>3. Standing'
    BY <1>1, <1>2 DEF Standing, Undisturbed, Begins, NoWork
<1>4. AppFollowsRow'
    BY <1>1 DEF AppFollowsRow, Undisturbed, Begins, NoWork
<1>5. UpstreamFollowsRow'
    <2> SUFFICES ASSUME NEW d \in Undisturbed', NEW k \in RunNumbers, <<d, k>> \in upstreams',
                        k = started'[d], <<d, k>> \notin leaked',
                        NEW s \in Pending', s.of = d
                 PROVE  s.upstream = k
        BY <1>1 DEF UpstreamFollowsRow, Undisturbed, Begins, NoWork
    <2>1. /\ d \in Undisturbed /\ <<d, k>> \in upstreams
          /\ k = started[d] /\ <<d, k>> \notin leaked
        BY <1>1 DEF Begins, NoWork, Undisturbed
    <2>2. CASE s \in Pending
        BY <2>1, <2>2 DEF UpstreamFollowsRow
    <2>3. CASE s \notin Pending
        <3>1. JobOver(d) /\ s.upstream = row[d].upstream
            BY <2>3 DEF Begins, Undisturbed
        <3>2. run[<<d, k>>] # "bind"
            BY <3>1 DEF JobOver, InFlight
        <3>3. QED BY <2>1, <3>1, <3>2 DEF UpstreamFollowsRow
    <2>4. QED BY <2>2, <2>3
<1>6. QED BY <1>3, <1>4, <1>5

(* What a teardown leaves of what it names is counted as leaked. *)
LEMMA TornOff ==
    ASSUME NEW s, TearDown(s)
    PROVE  /\ apps' \subseteq apps /\ upstreams' \subseteq upstreams /\ leaked \subseteq leaked'
           /\ \A d : d \in apps /\ d # s.of => d \in apps'
           /\ s.of \in apps' => s.of \in leaked'
           /\ <<s.of, s.upstream>> \in upstreams' => <<s.of, s.upstream>> \in leaked'
<1> DEFINE named == {u \in upstreams : u = <<s.of, s.upstream>>}
<1>1. PICK upstreamGone \in BOOLEAN, appGone \in BOOLEAN :
        /\ upstreams' = IF upstreamGone THEN upstreams \ named ELSE upstreams
        /\ apps' = IF appGone THEN apps \ {s.of} ELSE apps
        /\ leaked' = leaked \cup (IF upstreamGone THEN {} ELSE named)
                            \cup (IF appGone THEN {} ELSE {s.of})
    BY DEF TearDown
<1>2. QED BY <1>1

LEMMA CleansKeeps ==
    ASSUME CloudInv, Cleans PROVE Standing' /\ AppFollowsRow' /\ UpstreamFollowsRow'
<1> USE DEF CloudInv
<1>1. PICK s \in Pending :
        /\ NoWork
        /\ UNCHANGED <<row, overtaken, halfDone>>
        /\ s.of \in Deployments
        /\ TearDown(s)
        /\ Pending' \subseteq Pending
        /\ Cleaned' = Cleaned \cup {s.of}
    BY DEF Cleans
<1>2. /\ apps' \subseteq apps /\ upstreams' \subseteq upstreams /\ leaked \subseteq leaked'
      /\ \A d : d \in apps /\ d # s.of => d \in apps'
      /\ s.of \in apps' => s.of \in leaked'
      /\ <<s.of, s.upstream>> \in upstreams' => <<s.of, s.upstream>> \in leaked'
    BY <1>1, TornOff
<1>3. \A d \in Deployments :
         /\ d \in Undisturbed' => d \in Undisturbed
         /\ JobOver(d)' = JobOver(d)
         /\ Live(d)' => Live(d)
         /\ Gone(d)' = Gone(d)
         /\ Doomed(d)' => Doomed(d)
    BY <1>1 DEF NoWork, Undisturbed, JobOver, InFlight, Live, Gone, Doomed
<1>4. Standing'
    BY <1>1, <1>3 DEF Standing, NoWork, Undisturbed
<1>5. s.of \in Undisturbed => \A k \in RunNumbers : run[<<s.of, k>>] = "off"
    BY DEF Standing, Doomed, JobOver, InFlight, Undisturbed
<1>6. AppFollowsRow'
    BY <1>1, <1>2, <1>3, <1>5 DEF AppFollowsRow, NoWork, Undisturbed
<1>7. UpstreamFollowsRow'
    BY <1>1, <1>2, <1>3 DEF UpstreamFollowsRow, NoWork, Undisturbed
<1>8. QED BY <1>4, <1>6, <1>7

LEMMA EndsKeeps ==
    ASSUME CloudInv, Ends PROVE Standing' /\ AppFollowsRow' /\ UpstreamFollowsRow'
<1> USE DEF CloudInv
<1>1. PICK d \in Cleaned :
        /\ NoWork
        /\ UNCHANGED <<apps, upstreams, leaked, overtaken>>
        /\ Pending' \subseteq Pending
        /\ Cleaned \ {d} \subseteq Cleaned' /\ Cleaned' \subseteq Cleaned
        /\ halfDone \subseteq halfDone'
        /\ \A e \in Deployments : e # d => row'[e] = row[e]
        /\ row'[d].status \in {"none", "DELETED"} \/ (row'[d] = row[d] /\ d \in halfDone')
    BY DEF Ends
<1>2. \A e \in Deployments :
         /\ e \in Undisturbed' => e \in Undisturbed
         /\ JobOver(e)' = JobOver(e)
         /\ Live(e)' => Live(e)
         /\ e # d => Gone(e)' = Gone(e)
         /\ Doomed(e)' => Doomed(e)
    BY <1>1 DEF NoWork, Undisturbed, JobOver, InFlight, Live, Gone, Doomed
<1>3. d \in Undisturbed => ~Live(d) /\ \A k \in RunNumbers : run[<<d, k>>] = "off"
    <2> SUFFICES ASSUME d \in Undisturbed
                 PROVE  ~Live(d) /\ \A k \in RunNumbers : run[<<d, k>>] = "off"
        OBVIOUS
    <2>1. JobOver(d)
        BY DEF Standing, Doomed
    <2>2. req[d] # "created"
        BY <2>1 DEF TInv, QueuedOnce, JobOver, Undisturbed
    <2>3. QED BY <2>1, <2>2 DEF Live, JobOver, InFlight
<1>4. Standing'
    BY <1>1, <1>2, <1>3 DEF Standing, NoWork, Undisturbed
<1>5. AppFollowsRow'
    BY <1>1, <1>2, <1>3 DEF AppFollowsRow, NoWork, Undisturbed
<1>6. UpstreamFollowsRow'
    BY <1>1, <1>2 DEF UpstreamFollowsRow, NoWork, Undisturbed
<1>7. QED BY <1>4, <1>5, <1>6

LEMMA PassesKeeps ==
    ASSUME CloudInv, Passes PROVE Standing' /\ AppFollowsRow' /\ UpstreamFollowsRow'
<1> USE DEF CloudInv
<1>1. \A d \in Deployments :
         /\ d \in Undisturbed' => d \in Undisturbed
         /\ Doomed(d)' => Doomed(d)
    BY DEF Passes, Undisturbed, Doomed
<1>2. Standing'
    BY <1>1 DEF Passes, Standing, Undisturbed, Gone
<1>3. AppFollowsRow'
    BY <1>1 DEF Passes, AppFollowsRow, Undisturbed, Gone
<1>4. UpstreamFollowsRow'
    BY <1>1 DEF Passes, UpstreamFollowsRow, Undisturbed
<1>5. QED BY <1>2, <1>3, <1>4
-----------------------------------------------------------------------------
(* A run of d takes a step: it knows only its own row, app and upstream.   *)
Past == {"health", "attach", "bind", "finish"}

Works(d, k) ==
    /\ UNCHANGED <<Pending, Cleaned, req, started, overtaken, halfDone>>
    /\ run[<<d, k>>] # "off"
    /\ \A r \in Runs : r # <<d, k>> => run'[r] = run[r]
    /\ \A e \in Deployments : e # d =>
          row'[e] = row[e] /\ job'[e] = job[e] /\ (e \in apps' <=> e \in apps)
    /\ leaked \subseteq leaked'
    /\ upstreams \subseteq upstreams' /\ upstreams' \subseteq upstreams \cup {<<d, k>>}
    /\ ~Gone(d) => row'[d].status \notin {"none", "DELETED"}
    /\ run'[<<d, k>>] \in Past => d \in apps' \/ (run[<<d, k>>] \in Past /\ apps' = apps)
    /\ run'[<<d, k>>] \in {"build", "app"} =>
          \/ row'[d].status = "PROCESSING"
          \/ run[<<d, k>>] \in {"build", "app"} /\ row' = row
    /\ row'[d].status = "ACTIVE" =>
          \/ row[d].status = "ACTIVE" /\ (apps' = apps \/ run[<<d, k>>] = "app")
          \/ run[<<d, k>>] = "finish" /\ apps' = apps
    /\ \/ run'[<<d, k>>] = "bind" \/ row'[d].upstream = k
       \/ <<d, k>> \in upstreams' => <<d, k>> \in leaked'
       \/ upstreams' = upstreams /\ run[<<d, k>>] # "bind"
    /\ row'[d].upstream = row[d].upstream \/ (run[<<d, k>>] = "bind" /\ row'[d].upstream = k)

LEMMA WorksKeeps ==
    ASSUME CloudInv, NEW d \in Deployments, NEW k \in RunNumbers, Works(d, k)
    PROVE  Standing' /\ AppFollowsRow' /\ UpstreamFollowsRow'
<1> USE DEF CloudInv
<1>1. \A e \in Deployments, j \in RunNumbers :
         <<e, j>> \in Runs /\ (<<e, j>> = <<d, k>> <=> e = d /\ j = k)
    BY DEF Runs
<1>2. /\ InFlight(d) /\ Live(d) /\ ~JobOver(d)
      /\ Undisturbed' = Undisturbed
    BY DEF Works, InFlight, Live, JobOver, Undisturbed
<1>3. \A e \in Deployments : Doomed(e)' = Doomed(e)
    BY DEF Works, Doomed
<1>4. d \in Undisturbed =>
         /\ ~Doomed(d) /\ ~Gone(d) /\ k = started[d]
         /\ \A j \in RunNumbers : j # k => run[<<d, j>>] = "off" /\ run'[<<d, j>>] = "off"
    BY <1>1, <1>2 DEF Standing, Works, Undisturbed
<1>5. \A e \in Deployments : e # d =>
         /\ JobOver(e)' = JobOver(e)
         /\ Live(e)' = Live(e)
         /\ Gone(e)' = Gone(e)
         /\ \A j \in RunNumbers : run'[<<e, j>>] = run[<<e, j>>]
    BY <1>1 DEF Works, JobOver, InFlight, Live, Gone
<1>6. Gone(d) \/ ~Gone(d)'
    BY DEF Works, Gone
<1>7. Standing'
    <2> SUFFICES ASSUME NEW e \in Undisturbed
                 PROVE  /\ Doomed(e)' => JobOver(e)'
                        /\ Live(e)' => ~Gone(e)'
                        /\ \A j \in RunNumbers : run'[<<e, j>>] # "off" => j = started'[e]
        BY <1>2 DEF Standing
    <2>1. CASE e = d
        BY <1>3, <1>4, <1>6, <2>1 DEF Works
    <2>2. CASE e # d
        BY <1>3, <1>5, <2>2 DEF Standing, Undisturbed, Works
    <2>3. QED BY <2>1, <2>2
<1>8. AppFollowsRow'
    <2> SUFFICES ASSUME NEW e \in Undisturbed
                 PROVE  /\ (e \in Cleaned' \/ Gone(e)') /\ e \in apps' => e \in leaked'
                        /\ \A j \in RunNumbers :
                              /\ run'[<<e, j>>] \in Past => e \in apps'
                              /\ run'[<<e, j>>] \in {"build", "app"} => row'[e].status # "ACTIVE"
                        /\ row'[e].status = "ACTIVE" => e \in apps' \cup Cleaned' \cup halfDone'
        BY <1>2 DEF AppFollowsRow, Past
    <2>1. CASE e = d
        <3>1. d \notin Cleaned' /\ ~Gone(d)'
            BY <1>4, <1>6, <2>1 DEF Works, Doomed
        <3>2. run'[<<d, k>>] \in Past => d \in apps'
            BY <2>1 DEF AppFollowsRow, Works, Past
        <3>3. run'[<<d, k>>] \in {"build", "app"} => row'[d].status # "ACTIVE"
            BY <2>1 DEF AppFollowsRow, Works
        <3>4. row'[d].status = "ACTIVE" => d \in apps' \cup Cleaned' \cup halfDone'
            BY <2>1 DEF AppFollowsRow, Works
        <3>5. QED BY <1>4, <2>1, <3>1, <3>2, <3>3, <3>4 DEF Past
    <2>2. CASE e # d
        BY <1>5, <2>2 DEF AppFollowsRow, Undisturbed, Works, Past
    <2>3. QED BY <2>1, <2>2
<1>9. UpstreamFollowsRow'
    <2> SUFFICES ASSUME NEW e \in Undisturbed, NEW j \in RunNumbers, <<e, j>> \in upstreams'
                 PROVE  /\ j <= started'[e]
                        /\ j = started'[e] /\ <<e, j>> \notin leaked' =>
                              /\ run'[<<e, j>>] = "bind" \/ row'[e].upstream = j
                              /\ \A s \in Pending' : s.of = e => s.upstream = j
                              /\ e \notin Cleaned'
        BY <1>2 DEF UpstreamFollowsRow
    <2>1. CASE e = d
        <3>1. <<e, j>> \in upstreams \/ j = k
            BY <1>1, <2>1 DEF Works
        <3>2. j <= started'[e]
            <4>1. started[d] \in Nat
                BY AttemptsAreNumbers DEF TInv, TypeOK
            <4>2. QED BY <1>4, <2>1, <3>1, <4>1 DEF UpstreamFollowsRow, Works
        <3>3. ASSUME j = started'[e], <<e, j>> \notin leaked'
              PROVE  run'[<<e, j>>] = "bind" \/ row'[e].upstream = j
            <4>1. j = k
                BY <1>4, <2>1, <3>3 DEF Works
            <4>2. CASE upstreams' = upstreams /\ run[<<d, k>>] # "bind"
                BY <1>4, <2>1, <3>3, <4>1, <4>2 DEF UpstreamFollowsRow, Works
            <4>3. QED BY <2>1, <3>3, <4>1, <4>2 DEF Works
        <3>4. (\A s \in Pending' : s.of # e) /\ e \notin Cleaned'
            BY <1>3, <1>4, <2>1 DEF Doomed
        <3>5. QED BY <3>2, <3>3, <3>4
    <2>2. CASE e # d
        <3>1. <<e, j>> \in upstreams
            BY <1>1, <2>2 DEF Works, Undisturbed
        <3>2. row'[e] = row[e] /\ run'[<<e, j>>] = run[<<e, j>>]
            BY <1>1, <2>2 DEF Works, Undisturbed
        <3>3. QED BY <3>1, <3>2 DEF UpstreamFollowsRow, Works
    <2>3. QED BY <2>1, <2>2
<1>10. QED BY <1>7, <1>8, <1>9
-----------------------------------------------------------------------------
(* The variables teardowns are told by. *)
LEMMA PendingAlone ==
    ASSUME UNCHANGED <<prev, del, cron>>,
           \A d \in Deployments : \/ req'[d] = req[d]
                                  \/ {req[d], req'[d]} \cap {"replacing", "cleaned"} = {}
    PROVE  UNCHANGED <<Pending, Cleaned>>
<1>1. /\ {e \in Deployments : req'[e] = "replacing"} = {e \in Deployments : req[e] = "replacing"}
      /\ {e \in Deployments : req'[e] = "cleaned"} = {e \in Deployments : req[e] = "cleaned"}
    OBVIOUS
<1>2. QED BY <1>1 DEF Pending, Cleaned

LEMMA ChargePasses ==
    ASSUME CloudInv, NEW d \in Deployments, Charge(d) PROVE Passes
<1>1. PICK to \in {"charged", "lost", "rejected"} : Goto(d, "new", to)
    BY DEF Charge
<1>2. UNCHANGED <<prev, row, apps, upstreams, job, started, run, del, cron, overtaken, leaked, halfDone>>
    BY DEF Charge, cloud, queue, history
<1>3. \A e \in Deployments : req'[e] = req[e] \/ (req[e] = "new" /\ req'[e] = to)
    BY <1>1 DEF Goto, CloudInv, TInv, TypeOK
<1>4. UNCHANGED <<Pending, Cleaned>>
    BY <1>2, <1>3, PendingAlone
<1>5. \A e \in Deployments : JobOver(e)' = JobOver(e) /\ (Live(e)' => Live(e))
    BY <1>2, <1>3 DEF JobOver, InFlight, Live
<1>6. QED BY <1>2, <1>4, <1>5 DEF Passes

LEMMA CreateRowPasses ==
    ASSUME CloudInv, NEW d \in Deployments, CreateRow(d) PROVE Passes
<1> TypeOK /\ QueuedOnce
    BY DEF CloudInv, TInv
<1>1. /\ \/ Goto(d, "cleared", "created") /\ SetStatus(d, "PROCESSING")
         \/ Goto(d, "cleared", "failing") /\ UNCHANGED row
      /\ UNCHANGED <<prev, apps, upstreams, job, started, run, del, cron, overtaken, leaked, halfDone>>
    BY DEF CreateRow, cloud, queue, history
<1>2. /\ \A e \in Deployments : e # d => req'[e] = req[e] /\ row'[e] = row[e]
      /\ req[d] = "cleared" /\ req'[d] \in {"created", "failing"}
      /\ row'[d].upstream = row[d].upstream
      /\ req'[d] = "created" => row'[d].status = "PROCESSING"
      /\ row'[d].status \in {row[d].status, "PROCESSING"}
    BY <1>1 DEF Goto, TypeOK, SetStatus, Rows
<1>3. UNCHANGED <<Pending, Cleaned>>
    BY <1>1, <1>2, PendingAlone
<1>4. job[d] = "none" /\ ~JobOver(d)
    BY <1>2 DEF QueuedOnce, JobOver
<1>5. \A e \in Deployments : /\ JobOver(e)' = JobOver(e)
                             /\ Live(e)' => Live(e) \/ row'[e].status = "PROCESSING"
    BY <1>1, <1>2 DEF JobOver, InFlight, Live
<1>6. QED BY <1>1, <1>2, <1>3, <1>4, <1>5 DEF Passes

LEMMA EnqueuePasses ==
    ASSUME CloudInv, NEW d \in Deployments, Enqueue(d) PROVE Passes
<1> TypeOK /\ QueuedOnce
    BY DEF CloudInv, TInv
<1>1. PICK to \in {"queued", "failing"} : Goto(d, "created", to)
    BY DEF Enqueue
<1>2. /\ UNCHANGED <<prev, row, apps, upstreams, started, run, del, cron, overtaken, leaked, halfDone>>
      /\ UNCHANGED job \/ job' = [job EXCEPT ![d] = "waiting"]
    BY DEF Enqueue, cloud, history
<1>3. /\ \A e \in Deployments : e # d => req'[e] = req[e] /\ job'[e] = job[e]
      /\ req[d] = "created" /\ req'[d] = to
    BY <1>1, <1>2 DEF Goto, TypeOK
<1>4. UNCHANGED <<Pending, Cleaned>>
    BY <1>2, <1>3, PendingAlone
<1>5. job[d] = "none" /\ ~JobOver(d) /\ Live(d)
    BY <1>3 DEF QueuedOnce, JobOver, Live
<1>6. \A e \in Deployments : /\ JobOver(e) => JobOver(e)'
                             /\ Live(e)' => Live(e)
    BY <1>2, <1>3, <1>5 DEF JobOver, InFlight, Live
<1>7. QED BY <1>2, <1>4, <1>6 DEF Passes

LEMMA GiveUpPasses ==
    ASSUME CloudInv, NEW d \in Deployments, MarkFailed(d) \/ Refund(d) PROVE Passes
<1> TypeOK
    BY DEF CloudInv, TInv
<1>1. PICK from \in {"failing", "refunding"}, to \in {"refunding", "refunded", "unrefunded"} :
         Goto(d, from, to)
    BY DEF MarkFailed, Refund
<1>2. /\ UNCHANGED <<prev, apps, upstreams, job, started, run, del, cron, overtaken, leaked, halfDone>>
      /\ UNCHANGED row \/ SetStatus(d, "FAILED")
    BY DEF MarkFailed, Refund, cloud, queue, history
<1>3. /\ \A e \in Deployments : e # d => req'[e] = req[e] /\ row'[e] = row[e]
      /\ req[d] = from /\ req'[d] = to
      /\ row'[d].upstream = row[d].upstream
      /\ row'[d].status \in {row[d].status, "FAILED"}
    BY <1>1, <1>2 DEF Goto, TypeOK, SetStatus, Rows
<1>4. UNCHANGED <<Pending, Cleaned>>
    BY <1>2, <1>3, PendingAlone
<1>5. \A e \in Deployments : JobOver(e)' = JobOver(e) /\ (Live(e)' => Live(e))
    BY <1>2, <1>3 DEF JobOver, InFlight, Live
<1>6. QED BY <1>2, <1>3, <1>4, <1>5 DEF Passes

LEMMA QueuePasses ==
    ASSUME CloudInv, NEW d \in Deployments, Timeout(d) \/ HandleEvent(d) \/ RecoverStalled(d)
    PROVE  Passes
<1> TypeOK
    BY DEF CloudInv, TInv
<1>1. /\ UNCHANGED <<req, prev, apps, upstreams, started, run, del, cron, overtaken, leaked, halfDone>>
      /\ UNCHANGED row \/ SetStatus(d, "FAILED")
      /\ UNCHANGED job \/ (/\ job[d] \in {"active", "stalled"}
                           /\ \A e \in Deployments : e # d => job'[e] = job[e])
    BY DEF Timeout, HandleEvent, RecoverStalled, FailAttempt, client, cloud, history, TypeOK
<1>2. /\ \A e \in Deployments : e # d => row'[e] = row[e]
      /\ row'[d].upstream = row[d].upstream
      /\ row'[d].status \in {row[d].status, "FAILED"}
    BY <1>1 DEF TypeOK, SetStatus, Rows
<1>3. UNCHANGED <<Pending, Cleaned>>
    BY <1>1, PendingAlone
<1>4. \A e \in Deployments : (JobOver(e) => JobOver(e)') /\ (Live(e)' => Live(e))
    BY <1>1 DEF JobOver, InFlight, Live
<1>5. QED BY <1>1, <1>2, <1>3, <1>4 DEF Passes

LEMMA MonthPassesPasses ==
    ASSUME CloudInv, NEW d \in Deployments, MonthPasses(d) PROVE Passes
<1>1. /\ row' = [row EXCEPT ![d].due = "now"]
      /\ UNCHANGED <<req, prev, apps, upstreams, job, started, run, del, cron, overtaken, leaked, halfDone>>
    BY DEF MonthPasses, client, cloud, queue
<1>2. \A e \in Deployments : row'[e].status = row[e].status /\ row'[e].upstream = row[e].upstream
    BY <1>1 DEF CloudInv, TInv, TypeOK, Rows
<1>3. UNCHANGED <<Pending, Cleaned>>
    BY <1>1, PendingAlone
<1>4. \A e \in Deployments : JobOver(e)' = JobOver(e) /\ Live(e)' = Live(e)
    BY <1>1 DEF JobOver, InFlight, Live
<1>5. QED BY <1>1, <1>2, <1>3, <1>4 DEF Passes
-----------------------------------------------------------------------------
(* The teardown of the project's previous deployment. *)

LEMMA ReadPreviousKind ==
    ASSUME CloudInv, NEW d \in Deployments, ReadPrevious(d) PROVE Begins
<1> TypeOK
    BY DEF CloudInv, TInv
<1>1. UNCHANGED <<row, apps, upstreams, job, started, run, del, cron, leaked, halfDone>>
    BY DEF ReadPrevious, cloud, queue
<1>2. ASSUME NEW e \in Deployments, Goto(d, "charged", "replacing"),
             prev' = [prev EXCEPT ![d] = Snapshot(e)], BeginTearDown(e)
      PROVE  Begins
    <2>1. /\ \A c \in Deployments : c # d => req'[c] = req[c] /\ prev'[c] = prev[c]
          /\ req[d] = "charged" /\ req'[d] = "replacing" /\ prev'[d] = Snapshot(e)
        BY <1>2 DEF Goto, TypeOK
    <2>2. Pending' \subseteq Pending \cup {Snapshot(e)}
        BY <1>1, <2>1 DEF Pending
    <2>3. Cleaned' = Cleaned
        <3>1. {c \in Deployments : req'[c] = "cleaned"} = {c \in Deployments : req[c] = "cleaned"}
            BY <2>1
        <3>2. \A c \in Deployments : req[c] = "cleaned" => prev'[c] = prev[c]
            BY <2>1
        <3>3. QED BY <1>1, <3>1, <3>2 DEF Cleaned
    <2>4. overtaken \subseteq overtaken' /\ (e \in overtaken' \/ JobOver(e))
        BY <1>2 DEF BeginTearDown
    <2>5. Snapshot(e).of = e /\ Snapshot(e).upstream = row[e].upstream
        BY DEF Snapshot
    <2>6. NoWork
        BY <1>1, <2>1 DEF NoWork
    <2>7. QED BY <1>1, <2>2, <2>3, <2>4, <2>5, <2>6 DEF Begins
<1>3. CASE Goto(d, "charged", "cleared") /\ UNCHANGED <<prev, overtaken>>
    <2>1. \A c \in Deployments : req'[c] = req[c] \/ (req[c] = "charged" /\ req'[c] = "cleared")
        BY <1>3 DEF Goto, TypeOK
    <2>2. UNCHANGED <<Pending, Cleaned>>
        BY <1>1, <1>3, <2>1, PendingAlone
    <2>3. NoWork
        BY <1>1, <2>1 DEF NoWork
    <2>4. QED BY <1>1, <1>3, <2>2, <2>3 DEF Begins
<1>4. QED BY <1>2, <1>3 DEF ReadPrevious

LEMMA CleanPreviousKind ==
    ASSUME CloudInv, NEW d \in Deployments, CleanPrevious(d) PROVE Cleans
<1> TypeOK /\ InHand
    BY DEF CloudInv, TInv
<1>1. /\ Goto(d, "replacing", "cleaned") /\ TearDown(prev[d])
      /\ UNCHANGED <<prev, row, job, started, run, del, cron, overtaken, halfDone>>
    BY DEF CleanPrevious, queue
<1>2. /\ \A c \in Deployments : c # d => req'[c] = req[c]
      /\ req[d] = "replacing" /\ req'[d] = "cleaned"
    BY <1>1 DEF Goto, TypeOK
<1>3. prev[d] \in Pending /\ prev[d].of \in Deployments
    BY <1>2 DEF Pending, InHand
<1>4. Pending' \subseteq Pending
    BY <1>1, <1>2 DEF Pending
<1>5. Cleaned' = Cleaned \cup {prev[d].of}
    <2>1. {c \in Deployments : req'[c] = "cleaned"} = {c \in Deployments : req[c] = "cleaned"} \cup {d}
        BY <1>2
    <2>2. QED BY <1>1, <2>1 DEF Cleaned
<1>6. NoWork
    BY <1>1, <1>2 DEF NoWork
<1>7. QED BY <1>1, <1>3, <1>4, <1>5, <1>6 DEF Cleans

(* The last statement of a teardown, and what it leaves behind. *)
LEMMA LastStatement ==
    ASSUME TypeOK, NEW d \in Deployments, NEW new, new.status \in {"none", "DELETED"},
           EndTearDown(d, new)
    PROVE  /\ \A e \in Deployments : e # d => row'[e] = row[e]
           /\ row'[d].status \in {"none", "DELETED"} \/ (row'[d] = row[d] /\ d \in halfDone')
           /\ halfDone \subseteq halfDone'
BY DEF TypeOK, EndTearDown

LEMMA DeletePreviousRowKind ==
    ASSUME CloudInv, NEW d \in Deployments, DeletePreviousRow(d) PROVE Ends
<1> TypeOK /\ InHand
    BY DEF CloudInv, TInv
<1>1. /\ Goto(d, "cleaned", "cleared") /\ EndTearDown(prev[d].of, NoRow)
      /\ prev' = [prev EXCEPT ![d] = Nothing]
      /\ UNCHANGED <<apps, upstreams, job, started, run, del, cron, overtaken, leaked>>
    BY DEF DeletePreviousRow, cloud, queue
<1>2. /\ \A c \in Deployments : c # d => req'[c] = req[c] /\ prev'[c] = prev[c]
      /\ req[d] = "cleaned" /\ req'[d] = "cleared"
    BY <1>1 DEF Goto, TypeOK
<1>3. prev[d].of \in Cleaned /\ prev[d].of \in Deployments
    BY <1>2 DEF Cleaned, InHand
<1>4. Pending' \subseteq Pending
    BY <1>1, <1>2 DEF Pending
<1>5. Cleaned \ {prev[d].of} \subseteq Cleaned' /\ Cleaned' \subseteq Cleaned
    BY <1>1, <1>2 DEF Cleaned
<1>6. NoWork
    BY <1>1, <1>2 DEF NoWork
<1>7. NoRow.status = "none"
    BY DEF NoRow
<1>8. QED BY <1>1, <1>3, <1>4, <1>5, <1>6, <1>7, LastStatement DEF Ends

(* The owner's deletion. *)
LEMMA DeleteKind ==
    ASSUME CloudInv, NEW d \in Deployments, Delete(d) PROVE Begins \/ Cleans \/ Ends \/ Passes
<1> TypeOK
    BY DEF CloudInv, TInv
<1>1. UNCHANGED <<req, prev, job, started, run, cron>> /\ NoWork
    BY DEF Delete, ReadForDelete, CleanForDelete, MarkDeleted, client, queue, NoWork
<1>2. CASE ReadForDelete(d)
    <2>1. /\ del' = [del EXCEPT ![d] = [phase |-> "read", upstream |-> row[d].upstream]]
          /\ del[d].phase = "idle"
          /\ UNCHANGED <<row, apps, upstreams, leaked, halfDone>>
        BY <1>2 DEF ReadForDelete, cloud
    <2>2. /\ \A c \in Deployments : c # d => del'[c] = del[c]
          /\ del'[d] = [phase |-> "read", upstream |-> row[d].upstream]
        BY <2>1 DEF TypeOK
    <2>3. overtaken \subseteq overtaken' /\ (d \in overtaken' \/ JobOver(d))
        BY <1>2 DEF ReadForDelete, BeginTearDown
    <2>4. Pending' \subseteq Pending \cup {[of |-> d, upstream |-> row[d].upstream]}
        BY <1>1, <2>2 DEF Pending
    <2>5. Cleaned' = Cleaned
        <3>1. {c \in Deployments : del'[c].phase = "cleaned"} = {c \in Deployments : del[c].phase = "cleaned"}
            BY <2>1, <2>2
        <3>2. QED BY <1>1, <3>1 DEF Cleaned
    <2>6. QED BY <1>1, <2>1, <2>3, <2>4, <2>5 DEF Begins
<1>3. CASE CleanForDelete(d)
    <2> DEFINE s == [of |-> d, upstream |-> del[d].upstream]
    <2>1. /\ del' = [del EXCEPT ![d].phase = "cleaned"] /\ del[d].phase = "read" /\ TearDown(s)
          /\ UNCHANGED <<row, overtaken, halfDone>>
        BY <1>3 DEF CleanForDelete
    <2>2. /\ \A c \in Deployments : c # d => del'[c] = del[c]
          /\ del'[d].phase = "cleaned"
        BY <2>1 DEF TypeOK
    <2>3. s \in Pending /\ s.of = d
        BY <2>1 DEF Pending
    <2>4. Pending' \subseteq Pending
        BY <1>1, <2>2 DEF Pending
    <2>5. Cleaned' = Cleaned \cup {d}
        <3>1. {c \in Deployments : del'[c].phase = "cleaned"}
                  = {c \in Deployments : del[c].phase = "cleaned"} \cup {d}
            BY <2>2
        <3>2. QED BY <1>1, <3>1 DEF Cleaned
    <2> HIDE DEF s
    <2>6. QED BY <1>1, <2>1, <2>3, <2>4, <2>5 DEF Cleans
<1>4. CASE MarkDeleted(d)
    <2>1. /\ del' = [del EXCEPT ![d] = [phase |-> "done", upstream |-> 0]] /\ del[d].phase = "cleaned"
          /\ UNCHANGED <<apps, upstreams, overtaken, leaked>>
        BY <1>4 DEF MarkDeleted, cloud
    <2>2. /\ \A c \in Deployments : c # d => del'[c] = del[c]
          /\ del'[d].phase = "done"
        BY <2>1 DEF TypeOK
    <2>3. d \in Cleaned
        BY <2>1 DEF Cleaned
    <2>4. Pending' \subseteq Pending /\ Cleaned \ {d} \subseteq Cleaned' /\ Cleaned' \subseteq Cleaned
        BY <1>1, <2>2 DEF Pending, Cleaned
    <2>5. [row[d] EXCEPT !.status = "DELETED", !.upstream = 0].status = "DELETED"
        BY DEF TypeOK, Rows
    <2>6. /\ \A e \in Deployments : e # d => row'[e] = row[e]
          /\ row'[d].status \in {"none", "DELETED"} \/ (row'[d] = row[d] /\ d \in halfDone')
          /\ halfDone \subseteq halfDone'
        <3>1. CASE Exists(d)
            <4> DEFINE new == [row[d] EXCEPT !.status = "DELETED", !.upstream = 0]
            <4>1. EndTearDown(d, new) /\ new.status = "DELETED"
                BY <1>4, <2>5, <3>1 DEF MarkDeleted
            <4> HIDE DEF new
            <4>2. QED BY <4>1, LastStatement
        <3>2. CASE ~Exists(d)
            BY <1>4, <3>2 DEF MarkDeleted, Exists
        <3>3. QED BY <3>1, <3>2
    <2>7. QED BY <1>1, <2>1, <2>3, <2>4, <2>6 DEF Ends
<1>5. QED BY <1>2, <1>3, <1>4 DEF Delete

(* The cron: it reads a batch, and takes one of it in hand at a time. *)
LEMMA CronAlone ==
    ASSUME UNCHANGED <<req, prev, del, job, run, started>>
    PROVE  /\ NoWork
           /\ \A d \in Deployments : JobOver(d)' = JobOver(d) /\ Live(d)' = Live(d)
           /\ Pending' = {prev[d] : d \in {e \in Deployments : req[e] = "replacing"}}
                  \cup {[of |-> d, upstream |-> del[d].upstream] :
                           d \in {e \in Deployments : del[e].phase = "read"}}
                  \cup cron'.batch
                  \cup {s \in {cron'.hand} : cron'.phase \in {"advance", "terminate"}}
           /\ Cleaned' = {prev[d].of : d \in {e \in Deployments : req[e] = "cleaned"}}
                  \cup {d \in Deployments : del[d].phase = "cleaned"}
                  \cup {d \in {cron'.hand.of} : cron'.phase = "mark"}
BY DEF NoWork, JobOver, InFlight, Live, Pending, Cleaned

LEMMA CronKind ==
    ASSUME CloudInv, Cron PROVE Begins \/ Cleans \/ Ends \/ Passes
<1> TypeOK /\ InHand
    BY DEF CloudInv, TInv
<1>1. UNCHANGED <<req, prev, del, job, run, started>>
    BY DEF Cron, CronStart, CronCharge, CronAdvance, CronTerminate, CronMarkDeleted, CronFrame,
           client, queue
<1> DEFINE P == {prev[d] : d \in {e \in Deployments : req[e] = "replacing"}}
                \cup {[of |-> d, upstream |-> del[d].upstream] :
                         d \in {e \in Deployments : del[e].phase = "read"}}
           C == {prev[d].of : d \in {e \in Deployments : req[e] = "cleaned"}}
                \cup {d \in Deployments : del[d].phase = "cleaned"}
<1>2. /\ NoWork
      /\ \A d \in Deployments : JobOver(d)' = JobOver(d) /\ Live(d)' = Live(d)
      /\ Pending' = P \cup cron'.batch \cup {s \in {cron'.hand} : cron'.phase \in {"advance", "terminate"}}
      /\ Cleaned' = C \cup {d \in {cron'.hand.of} : cron'.phase = "mark"}
    BY <1>1, CronAlone
<1>3. /\ Pending = P \cup cron.batch \cup {s \in {cron.hand} : cron.phase \in {"advance", "terminate"}}
      /\ Cleaned = C \cup {d \in {cron.hand.of} : cron.phase = "mark"}
    BY DEF Pending, Cleaned
<1> HIDE DEF P, C
<1>4. cron = [phase |-> cron.phase, batch |-> cron.batch, hand |-> cron.hand]
    BY DEF TypeOK
<1>5. CASE CronStart
    <2> DEFINE due == {d \in Deployments : row[d].status = "ACTIVE" /\ row[d].due = "now"}
               read == {Snapshot(d) : d \in due}
    <2>1. /\ cron.phase = "idle"
          /\ cron' = [cron EXCEPT !.phase = "scan", !.batch = read]
          /\ overtaken' = overtaken \cup {d \in due : ~JobOver(d)}
          /\ UNCHANGED <<row, apps, upstreams, leaked, halfDone>>
        BY <1>5 DEF CronStart, cloud
    <2>2. \A s \in read : s.of \in due /\ s.upstream = row[s.of].upstream
        BY DEF Snapshot
    <2> HIDE DEF due, read
    <2>3. cron'.phase = "scan" /\ cron'.batch = read
        BY <1>4, <2>1
    <2>4. Pending' \subseteq Pending \cup read /\ Cleaned' = Cleaned
        BY <1>2, <1>3, <2>1, <2>3
    <2>5. QED BY <1>2, <2>1, <2>2, <2>4 DEF Begins
<1>6. ASSUME NEW s \in cron.batch, CronCharge(s) PROVE Passes
    <2>1. /\ cron.phase = "scan"
          /\ UNCHANGED <<row, apps, upstreams, leaked, halfDone, overtaken>>
          /\ cron'.batch = cron.batch \ {s}
          /\ cron'.phase \in {"advance", "terminate"} => cron'.hand = s
          /\ cron'.phase # "mark"
        BY <1>6 DEF CronCharge, CronFrame, NextInBatch, cloud
    <2>2. Pending' \subseteq Pending /\ Cleaned' = Cleaned
        BY <1>2, <1>3, <2>1
    <2>3. QED BY <1>1, <1>2, <2>1, <2>2 DEF Passes
<1>7. CASE CronAdvance
    <2>1. /\ cron.phase = "advance"
          /\ cron' = [phase |-> IF cron.batch = {} THEN "idle" ELSE "scan", batch |-> cron.batch,
                      hand |-> Nothing]
          /\ UNCHANGED row \/ row' = [row EXCEPT ![cron.hand.of].due = "later"]
          /\ UNCHANGED <<apps, upstreams, leaked, halfDone, overtaken>>
        BY <1>7 DEF CronAdvance, CronFrame, NextInBatch, cloud
    <2>2. cron'.batch = cron.batch /\ cron'.phase \in {"idle", "scan"}
        BY <2>1
    <2>3. Pending' \subseteq Pending /\ Cleaned' = Cleaned
        BY <1>2, <1>3, <2>1, <2>2
    <2>4. \A d \in Deployments : row'[d].status = row[d].status /\ row'[d].upstream = row[d].upstream
        <3>1. cron.hand.of \in Deployments
            BY <2>1 DEF InHand
        <3>2. CASE row' = [row EXCEPT ![cron.hand.of].due = "later"]
            BY <3>1, <3>2 DEF TypeOK, Rows
        <3>3. QED BY <2>1, <3>2
    <2>5. QED BY <1>1, <1>2, <2>1, <2>3, <2>4 DEF Passes
<1>8. CASE CronTerminate
    <2>1. /\ cron.phase = "terminate" /\ TearDown(cron.hand)
          /\ cron' = [cron EXCEPT !.phase = "mark"]
          /\ UNCHANGED <<row, halfDone, overtaken>>
        BY <1>8 DEF CronTerminate, CronFrame
    <2>2. cron'.batch = cron.batch /\ cron'.hand = cron.hand /\ cron'.phase = "mark"
        BY <1>4, <2>1
    <2>3. cron.hand \in Pending /\ cron.hand.of \in Deployments
        BY <1>3, <2>1 DEF InHand
    <2>4. Pending' \subseteq Pending /\ Cleaned' = Cleaned \cup {cron.hand.of}
        BY <1>2, <1>3, <2>1, <2>2
    <2>5. QED BY <1>2, <2>1, <2>3, <2>4 DEF Cleans
<1>9. CASE CronMarkDeleted
    <2> DEFINE d == cron.hand.of
    <2>1. /\ cron.phase = "mark" /\ d \in Deployments
          /\ cron' = [phase |-> IF cron.batch = {} THEN "idle" ELSE "scan", batch |-> cron.batch,
                      hand |-> Nothing]
          /\ UNCHANGED <<apps, upstreams, leaked, overtaken>>
        BY <1>9 DEF CronMarkDeleted, CronFrame, NextInBatch, cloud, InHand
    <2>2. /\ IF Exists(d) THEN EndTearDown(d, [row[d] EXCEPT !.status = "DELETED"])
                          ELSE UNCHANGED <<row, halfDone>>
        BY <1>9 DEF CronMarkDeleted
    <2>3. d \in Cleaned
        BY <1>3, <2>1
    <2> HIDE DEF d
    <2>4. cron'.batch = cron.batch /\ cron'.phase \in {"idle", "scan"}
        BY <2>1
    <2>5. Pending' \subseteq Pending /\ Cleaned \ {d} \subseteq Cleaned' /\ Cleaned' \subseteq Cleaned
        BY <1>2, <1>3, <2>1, <2>4 DEF d
    <2>6. /\ \A e \in Deployments : e # d => row'[e] = row[e]
          /\ row'[d].status \in {"none", "DELETED"} \/ (row'[d] = row[d] /\ d \in halfDone')
          /\ halfDone \subseteq halfDone'
        <3>1. CASE Exists(d)
            <4> DEFINE new == [row[d] EXCEPT !.status = "DELETED"]
            <4>1. new.status = "DELETED"
                BY <2>1 DEF TypeOK, Rows
            <4>2. EndTearDown(d, new)
                BY <2>2, <3>1
            <4> HIDE DEF new
            <4>3. QED BY <2>1, <4>1, <4>2, LastStatement
        <3>2. CASE ~Exists(d)
            BY <2>2, <3>2 DEF Exists
        <3>3. QED BY <3>1, <3>2
    <2>7. QED BY <1>2, <2>1, <2>3, <2>5, <2>6 DEF Ends
<1>10. QED BY <1>5, <1>6, <1>7, <1>8, <1>9 DEF Cron
-----------------------------------------------------------------------------
(* The steps of a run. *)

LEMMA RunAlone ==
    ASSUME TypeOK, NEW d \in Deployments, NEW k \in RunNumbers, NEW from, NEW to,
           Step(d, k, from, to)
    PROVE  /\ run[<<d, k>>] = from /\ run'[<<d, k>>] = to
           /\ \A r \in Runs : r # <<d, k>> => run'[r] = run[r]
BY DEF Step, TypeOK, Runs

LEMMA FrameAlone ==
    ASSUME RunFrame
    PROVE  UNCHANGED <<Pending, Cleaned, req, job, started, overtaken, halfDone>>
<1>1. UNCHANGED <<req, prev, job, started, del, cron, overtaken, halfDone>>
    BY DEF RunFrame, client
<1>2. QED BY <1>1, PendingAlone

(* Those that touch the row alone, and of it the status. *)
LEMMA StatusWorks ==
    ASSUME CloudInv, RunFrame, UNCHANGED <<cloud, leaked>>,
           NEW d \in Deployments, NEW k \in RunNumbers, NEW from, NEW to, Step(d, k, from, to),
           \/ from = "start" /\ to = "build" /\ SetStatus(d, "PROCESSING")
           \/ from = "start" /\ to = "threw" /\ UNCHANGED row
           \/ from = "build" /\ to \in {"app", "caught"} /\ UNCHANGED row
           \/ from = "health" /\ to \in {"attach", "caught"} /\ UNCHANGED row
           \/ from = "caught" /\ to = "threw" /\ (UNCHANGED row \/ SetStatus(d, "FAILED"))
    PROVE  Works(d, k)
<1> TypeOK
    BY DEF CloudInv, TInv
<1>1. UNCHANGED <<Pending, Cleaned, req, job, started, overtaken, halfDone, apps, upstreams, leaked>>
    BY FrameAlone DEF cloud
<1>2. /\ run[<<d, k>>] = from /\ run'[<<d, k>>] = to
      /\ \A r \in Runs : r # <<d, k>> => run'[r] = run[r]
    BY RunAlone
<1>3. \A status : SetStatus(d, status) =>
          /\ row'[d].status = status /\ row'[d].upstream = row[d].upstream
          /\ \A e \in Deployments : e # d => row'[e] = row[e]
    BY DEF SetStatus, TypeOK, Rows
<1>4. QED BY <1>1, <1>2, <1>3 DEF Works, Past, Gone

LEMMA StepWorks ==
    ASSUME CloudInv, NEW d \in Deployments, NEW k \in RunNumbers,
           \/ MarkProcessing(d, k) \/ Build(d, k) \/ CreateApp(d, k) \/ WaitForHealthy(d, k)
           \/ CreateUpstream(d, k) \/ BindUpstream(d, k) \/ Finish(d, k) \/ Catch(d, k)
    PROVE  Works(d, k)
<1> TypeOK
    BY DEF CloudInv, TInv
<1>1. CASE MarkProcessing(d, k)
    BY <1>1, StatusWorks DEF MarkProcessing
<1>2. CASE Build(d, k)
    BY <1>2, StatusWorks DEF Build
<1>3. CASE CreateApp(d, k)
    <2>1. PICK to \in {"health", "caught"} : Step(d, k, "app", to) /\ (to = "health" => d \in apps')
        BY <1>3 DEF CreateApp
    <2>2. /\ UNCHANGED <<row, upstreams, leaked>>
          /\ apps' \in {apps, apps \ {d}, apps \cup {d}}
        BY <1>3 DEF CreateApp
    <2>3. /\ run[<<d, k>>] = "app" /\ run'[<<d, k>>] = to
          /\ \A r \in Runs : r # <<d, k>> => run'[r] = run[r]
        BY <2>1, RunAlone
    <2>4. UNCHANGED <<Pending, Cleaned, req, job, started, overtaken, halfDone>>
        BY <1>3, FrameAlone DEF CreateApp
    <2>5. QED BY <2>1, <2>2, <2>3, <2>4 DEF Works, Past, Gone
<1>4. CASE WaitForHealthy(d, k)
    BY <1>4, StatusWorks DEF WaitForHealthy
<1>5. CASE CreateUpstream(d, k)
    <2>1. PICK to \in {"bind", "finish"} :
             /\ Step(d, k, "attach", to)
             /\ \/ to = "bind" /\ upstreams' = upstreams \cup {<<d, k>>} /\ UNCHANGED leaked
                \/ UNCHANGED <<upstreams, leaked>>
                \/ upstreams' = upstreams \cup {<<d, k>>} /\ leaked' = leaked \cup {<<d, k>>}
        BY <1>5 DEF CreateUpstream
    <2>2. UNCHANGED <<row, apps>>
        BY <1>5 DEF CreateUpstream
    <2>3. /\ run[<<d, k>>] = "attach" /\ run'[<<d, k>>] = to
          /\ \A r \in Runs : r # <<d, k>> => run'[r] = run[r]
        BY <2>1, RunAlone
    <2>4. UNCHANGED <<Pending, Cleaned, req, job, started, overtaken, halfDone>>
        BY <1>5, FrameAlone DEF CreateUpstream
    <2>5. QED BY <2>1, <2>2, <2>3, <2>4 DEF Works, Past, Gone
<1>6. CASE BindUpstream(d, k)
    <2>1. /\ Step(d, k, "bind", "finish")
          /\ UNCHANGED <<apps, upstreams>>
          /\ \/ row' = [row EXCEPT ![d].upstream = k] /\ UNCHANGED leaked
             \/ leaked' = leaked \cup {<<d, k>>} /\ UNCHANGED row
        BY <1>6 DEF BindUpstream, cloud
    <2>2. /\ run[<<d, k>>] = "bind" /\ run'[<<d, k>>] = "finish"
          /\ \A r \in Runs : r # <<d, k>> => run'[r] = run[r]
        BY <2>1, RunAlone
    <2>3. /\ \A e \in Deployments : e # d => row'[e] = row[e]
          /\ row'[d].status = row[d].status
          /\ row'[d].upstream = k \/ (row' = row /\ <<d, k>> \in leaked')
        BY <2>1 DEF TypeOK, Rows
    <2>4. UNCHANGED <<Pending, Cleaned, req, job, started, overtaken, halfDone>>
        BY <1>6, FrameAlone DEF BindUpstream
    <2>5. QED BY <2>1, <2>2, <2>3, <2>4 DEF Works, Past, Gone
<1>7. CASE Finish(d, k)
    <2>1. PICK to \in {"report", "caught"} : Step(d, k, "finish", to)
        BY <1>7 DEF Finish
    <2>2. /\ UNCHANGED <<apps, upstreams, leaked>>
          /\ \/ row' = [row EXCEPT ![d].status = "ACTIVE", ![d].due = "later"]
             \/ UNCHANGED row
        BY <1>7 DEF Finish, cloud
    <2>3. /\ run[<<d, k>>] = "finish" /\ run'[<<d, k>>] = to
          /\ \A r \in Runs : r # <<d, k>> => run'[r] = run[r]
        BY <2>1, RunAlone
    <2>4. /\ \A e \in Deployments : e # d => row'[e] = row[e]
          /\ row'[d].status \in {row[d].status, "ACTIVE"} /\ row'[d].upstream = row[d].upstream
        BY <2>2 DEF TypeOK, Rows
    <2>5. UNCHANGED <<Pending, Cleaned, req, job, started, overtaken, halfDone>>
        BY <1>7, FrameAlone DEF Finish
    <2>6. QED BY <2>2, <2>3, <2>4, <2>5 DEF Works, Past, Gone
<1>8. CASE Catch(d, k)
    BY <1>8, StatusWorks DEF Catch
<1>9. QED BY <1>1, <1>2, <1>3, <1>4, <1>5, <1>6, <1>7, <1>8

LEMMA EndOfRunWorks ==
    ASSUME CloudInv, NEW d \in Deployments, NEW k \in RunNumbers, Report(d, k) \/ Throw(d, k)
    PROVE  Works(d, k)
<1> TypeOK
    BY DEF CloudInv, TInv
<1>1. PICK from \in {"report", "threw"}, to \in {"off", "caught"} : Step(d, k, from, to)
    BY DEF Report, Throw
<1>2. /\ UNCHANGED <<req, prev, row, apps, upstreams, started, del, cron, overtaken, leaked, halfDone>>
      /\ \A e \in Deployments : e # d => job'[e] = job[e]
    BY DEF Report, Throw, FailAttempt, client, cloud, history, TypeOK
<1>3. UNCHANGED <<Pending, Cleaned>>
    BY <1>2, PendingAlone
<1>4. /\ run[<<d, k>>] = from /\ run'[<<d, k>>] = to
      /\ \A r \in Runs : r # <<d, k>> => run'[r] = run[r]
    BY <1>1, RunAlone
<1>5. QED BY <1>2, <1>3, <1>4 DEF Works, Past, Gone
-----------------------------------------------------------------------------
(* A run is started: the one before it, if it is not over, marks d. *)
LEMMA StartRunKeeps ==
    ASSUME CloudInv, NEW d \in Deployments, StartRun(d)
    PROVE  Standing' /\ AppFollowsRow' /\ UpstreamFollowsRow'
<1> USE DEF CloudInv
<1> TypeOK
    BY DEF TInv
<1>1. /\ job[d] = "waiting" /\ job' = [job EXCEPT ![d] = "active"]
      /\ started' = [started EXCEPT ![d] = @ + 1]
      /\ run' = [run EXCEPT ![<<d, started[d] + 1>>] = "start"]
      /\ overtaken' = IF InFlight(d) THEN overtaken \cup {d} ELSE overtaken
      /\ UNCHANGED <<req, prev, row, apps, upstreams, del, cron, leaked, halfDone>>
    BY DEF StartRun, client, cloud
<1>2. UNCHANGED <<Pending, Cleaned>>
    BY <1>1, PendingAlone
<1>3. /\ \A e \in Deployments, k \in RunNumbers :
            /\ <<e, k>> \in Runs
            /\ run'[<<e, k>>] = IF e = d /\ k = started[d] + 1 THEN "start" ELSE run[<<e, k>>]
      /\ \A e \in Deployments : e # d => job'[e] = job[e] /\ started'[e] = started[e]
      /\ job'[d] = "active" /\ started'[d] = started[d] + 1 /\ started[d] \in Nat
      /\ \A k \in RunNumbers : k \in Nat
    BY <1>1, AttemptsAreNumbers DEF TypeOK, Runs
<1>4. \A e \in Deployments :
         /\ e \in Undisturbed' => e \in Undisturbed /\ (e = d => ~InFlight(d))
         /\ Gone(e)' = Gone(e) /\ Doomed(e)' = Doomed(e)
    BY <1>1, <1>2 DEF Undisturbed, Gone, Doomed
<1>5. d \in Undisturbed => ~Doomed(d) /\ ~Gone(d)
    BY <1>1 DEF Standing, JobOver, Live
<1>6. Standing'
    <2> SUFFICES ASSUME NEW e \in Undisturbed'
                 PROVE  /\ Doomed(e)' => JobOver(e)'
                        /\ Live(e)' => ~Gone(e)'
                        /\ \A k \in RunNumbers : run'[<<e, k>>] # "off" => k = started'[e]
        BY DEF Standing
    <2>1. CASE e = d
        BY <1>3, <1>4, <1>5, <2>1 DEF InFlight
    <2>2. CASE e # d
        <3>1. JobOver(e)' = JobOver(e) /\ Live(e)' = Live(e)
            BY <1>1, <1>3, <2>2 DEF JobOver, InFlight, Live, Undisturbed
        <3>2. QED BY <1>3, <1>4, <2>2, <3>1 DEF Standing, Undisturbed
    <2>3. QED BY <2>1, <2>2
<1>7. AppFollowsRow'
    BY <1>1, <1>2, <1>3, <1>4, <1>5 DEF AppFollowsRow, Undisturbed, Gone
<1>8. UpstreamFollowsRow'
    <2> SUFFICES ASSUME NEW e \in Undisturbed', NEW k \in RunNumbers, <<e, k>> \in upstreams
                 PROVE  /\ k <= started'[e]
                        /\ k = started'[e] /\ <<e, k>> \notin leaked =>
                              /\ run'[<<e, k>>] = "bind" \/ row[e].upstream = k
                              /\ \A s \in Pending : s.of = e => s.upstream = k
                              /\ e \notin Cleaned
        BY <1>1, <1>2 DEF UpstreamFollowsRow
    <2>1. e \in Undisturbed
        BY <1>4 DEF Undisturbed
    <2>2. k <= started[e]
        BY <2>1 DEF UpstreamFollowsRow
    <2>3. CASE e = d
        BY <1>3, <2>2, <2>3
    <2>4. CASE e # d
        <3>1. started'[e] = started[e] /\ run'[<<e, k>>] = run[<<e, k>>]
            BY <1>3, <2>1, <2>4 DEF Undisturbed
        <3>2. QED BY <2>1, <2>2, <3>1 DEF UpstreamFollowsRow
    <2>5. QED BY <2>3, <2>4
<1>9. QED BY <1>6, <1>7, <1>8

(* The restart ends every teardown and every run where they are. *)
LEMMA CrashKeeps ==
    ASSUME CloudInv, Crash
    PROVE  Standing' /\ AppFollowsRow' /\ UpstreamFollowsRow'
<1> USE DEF CloudInv
<1> TypeOK /\ InHand
    BY DEF TInv
<1>1. /\ req' = [d \in Deployments |->
                    IF req[d] \in {"charged", "replacing", "cleaned", "cleared", "created",
                                   "failing", "refunding"}
                    THEN "abandoned" ELSE req[d]]
      /\ job' = [d \in Deployments |-> IF job[d] = "active" THEN "stalled" ELSE job[d]]
      /\ run' = [r \in Runs |-> "off"]
      /\ del' = [d \in Deployments |->
                    [phase |-> IF del[d].phase = "idle" THEN "idle" ELSE "done", upstream |-> 0]]
      /\ cron' = [phase |-> "idle", batch |-> {}, hand |-> Nothing]
      /\ halfDone' = halfDone \cup {d \in Deployments : UnderTearDown(d)}
      /\ leaked' = leaked \cup {r \in Runs : run[r] = "bind"}
      /\ UNCHANGED <<row, apps, upstreams, started, overtaken>>
    BY DEF Crash, cloud
<1>2. Pending' = {} /\ Cleaned' = {}
    <2>1. \A d \in Deployments : /\ req'[d] \notin {"replacing", "cleaned", "created"}
                                /\ del'[d].phase \notin {"read", "cleaned"}
        <3> SUFFICES ASSUME NEW d \in Deployments
                     PROVE  /\ req'[d] \notin {"replacing", "cleaned", "created"}
                            /\ del'[d].phase \notin {"read", "cleaned"}
            OBVIOUS
        <3>1. req'[d] \notin {"replacing", "cleaned", "created"}
            BY <1>1
        <3>2. del'[d].phase \in {"idle", "done"}
            BY <1>1
        <3>3. QED BY <3>1, <3>2
    <2>2. cron'.batch = {} /\ cron'.phase = "idle"
        BY <1>1
    <2>3. QED BY <2>1, <2>2 DEF Pending, Cleaned
<1>3. Cleaned \subseteq halfDone'
    <2> SUFFICES ASSUME NEW d \in Cleaned PROVE d \in Deployments /\ UnderTearDown(d)
        BY <1>1
    <2>1. d \in Deployments
        BY DEF Cleaned, InHand
    <2>2. QED BY <2>1 DEF Cleaned, UnderTearDown
<1>4. \A d \in Deployments :
         /\ d \in Undisturbed' => d \in Undisturbed
         /\ Gone(d)' = Gone(d) /\ (Live(d)' => Live(d)) /\ ~Doomed(d)'
         /\ \A k \in RunNumbers : <<d, k>> \in Runs /\ run'[<<d, k>>] = "off"
    <2>1. \A d \in Deployments, k \in RunNumbers : <<d, k>> \in Runs
        BY DEF Runs
    <2>2. \A d \in Deployments : ~InFlight(d)'
        BY <1>1, <2>1 DEF InFlight
    <2>3. \A d \in Deployments : req'[d] # "created"
        BY <1>1
    <2>4. \A d \in Deployments : job'[d] \in {"waiting", "active", "stalled"}
                                   => job[d] \in {"waiting", "active", "stalled"}
        BY <1>1
    <2>5. QED BY <1>1, <1>2, <2>1, <2>2, <2>3, <2>4 DEF Undisturbed, Gone, Live, Doomed
<1>5. Standing'
    BY <1>1, <1>4 DEF Standing, Undisturbed
<1>6. AppFollowsRow'
    BY <1>1, <1>2, <1>3, <1>4 DEF AppFollowsRow, Undisturbed
<1>7. UpstreamFollowsRow'
    BY <1>1, <1>2, <1>4 DEF UpstreamFollowsRow, Undisturbed
<1>8. QED BY <1>5, <1>6, <1>7

LEMMA StutterCloud ==
    ASSUME CloudInv, UNCHANGED vars PROVE Standing' /\ AppFollowsRow' /\ UpstreamFollowsRow'
<1> USE DEF CloudInv
<1>1. UNCHANGED <<req, prev, row, apps, upstreams, job, started, run, del, cron, overtaken,
                  leaked, halfDone>>
    BY DEF vars
<1>2. UNCHANGED <<Pending, Cleaned>>
    BY <1>1, PendingAlone
<1>3. \A d \in Deployments : JobOver(d)' = JobOver(d) /\ Live(d)' = Live(d)
    BY <1>1 DEF JobOver, InFlight, Live
<1>4. QED BY <1>1, <1>2, <1>3, PassesKeeps DEF Passes

LEMMA NextCloud == CloudInv /\ [Next]_vars => CloudInv'
<1> SUFFICES ASSUME CloudInv, [Next]_vars PROVE Standing' /\ AppFollowsRow' /\ UpstreamFollowsRow'
    BY NextType DEF CloudInv
<1>1. CASE UNCHANGED vars
    BY <1>1, StutterCloud
<1>2. CASE Passes
    BY <1>2, PassesKeeps
<1>3. CASE Begins \/ Cleans \/ Ends
    BY <1>3, BeginsKeeps, CleansKeeps, EndsKeeps
<1>4. CASE \E d \in Deployments :
              \/ Charge(d) \/ CreateRow(d) \/ Enqueue(d) \/ MarkFailed(d) \/ Refund(d)
              \/ Timeout(d) \/ HandleEvent(d) \/ RecoverStalled(d) \/ MonthPasses(d)
    BY <1>2, <1>4, ChargePasses, CreateRowPasses, EnqueuePasses, GiveUpPasses, QueuePasses,
       MonthPassesPasses
<1>5. CASE \E d \in Deployments :
              ReadPrevious(d) \/ CleanPrevious(d) \/ DeletePreviousRow(d) \/ Delete(d)
    BY <1>2, <1>3, <1>5, ReadPreviousKind, CleanPreviousKind, DeletePreviousRowKind, DeleteKind
<1>6. CASE \E d \in Deployments : StartRun(d)
    BY <1>6, StartRunKeeps
<1>7. CASE \E d \in Deployments, k \in RunNumbers :
              \/ MarkProcessing(d, k) \/ Build(d, k) \/ CreateApp(d, k)
              \/ WaitForHealthy(d, k) \/ CreateUpstream(d, k) \/ BindUpstream(d, k)
              \/ Finish(d, k) \/ Catch(d, k) \/ Report(d, k) \/ Throw(d, k)
    BY <1>7, StepWorks, EndOfRunWorks, WorksKeeps
<1>8. CASE Cron \/ Crash
    BY <1>2, <1>3, <1>8, CronKind, CrashKeeps
<1>9. QED BY <1>1, <1>4, <1>5, <1>6, <1>7, <1>8, ByAction

(* What is in the cloud for a deployment agrees with its row, in the words *)
(* of CloudInv: no job is left for what is being torn down, the app is     *)
(* there from its creation until a teardown, and the last upstream is one  *)
(* that the row, or a run about to tell it, knows of.                      *)
THEOREM CloudInvariance == Spec => []CloudInv
<1>1. Init => CloudInv
    BY InitType, InitCloud DEF CloudInv
<1>2. CloudInv /\ [Next]_vars => CloudInv'
    BY NextCloud
<1>3. QED BY <1>1, <1>2, PTL DEF Spec

(* What CloudInv says to whoever looks at the rows. *)
LEMMA CloudShows == CloudInv => NoOrphanedApp /\ NoOrphanedUpstream /\ ActiveIsServed
<1> SUFFICES ASSUME CloudInv PROVE NoOrphanedApp /\ NoOrphanedUpstream /\ ActiveIsServed
    OBVIOUS
<1> USE DEF CloudInv
<1> TypeOK /\ InHand
    BY DEF TInv
<1>1. NoOrphanedApp
    BY DEF NoOrphanedApp, AppFollowsRow, Undisturbed, Gone, TypeOK
<1>2. NoOrphanedUpstream
    <2> SUFFICES ASSUME NEW d \in Deployments, NEW k \in RunNumbers, <<d, k>> \in upstreams,
                        row[d].upstream # k, JobOver(d), <<d, k>> \notin leaked,
                        d \notin overtaken
                 PROVE  k < started[d]
        BY DEF NoOrphanedUpstream
    <2>1. run[<<d, k>>] # "bind"
        BY DEF JobOver, InFlight
    <2>2. k <= started[d] /\ k # started[d]
        BY <2>1 DEF UpstreamFollowsRow, Undisturbed
    <2>3. k \in Nat /\ started[d] \in Nat
        BY AttemptsAreNumbers DEF TypeOK
    <2>4. QED BY <2>2, <2>3
<1>3. ActiveIsServed
    <2>1. \A d \in Deployments : d \in Cleaned => UnderTearDown(d)
        BY DEF Cleaned, UnderTearDown
    <2>2. QED BY <2>1 DEF ActiveIsServed, AppFollowsRow, Undisturbed
<1>4. QED BY <1>1, <1>2, <1>3

(* No Koyeb app outlives its deployment, unless its delete failed or the   *)
(* teardown began while the job could still create it (deleteDeployment,   *)
(* deletePreviousDeployment, terminateDeploymentById).                     *)
THEOREM NoAppIsOrphaned == Spec => []NoOrphanedApp
BY CloudInvariance, CloudShows, PTL

(* The same for the upstreams of a custom domain, but for those a later    *)
(* attempt of the job has replaced on the row (attachCustomDomain).        *)
THEOREM NoUpstreamIsOrphaned == Spec => []NoOrphanedUpstream
BY CloudInvariance, CloudShows, PTL

(* What is shown ACTIVE runs, whatever happened to its job, its owner's    *)
(* deletion and its billing (runDeploymentJob, onFailed).                  *)
THEOREM ActiveRuns == Spec => []ActiveIsServed
BY CloudInvariance, CloudShows, PTL

-----------------------------------------------------------------------------
(* What a request promises, and what its watchers are told. *)

(* Who may write the row of e in a step, and what. *)
RowStep(e) ==
    \/ row'[e] = row[e]
    \/ row'[e] = NoRow
    \/ Exists(e) /\ row'[e].status = "DELETED" /\ row'[e].due = row[e].due
    \/ req[e] = "cleared" /\ row'[e].status = "PROCESSING" /\ row'[e].due = row[e].due
    \/ req[e] = "failing" /\ Exists(e) /\ row'[e].status = "FAILED" /\ row'[e].due = row[e].due
    \/ event[e] # "none" /\ Exists(e) /\ row'[e].status = "FAILED" /\ row'[e].due = row[e].due
    \/ /\ InFlight(e)
       /\ Exists(e)
       /\ row'[e].status \in {row[e].status, "PROCESSING", "ACTIVE", "FAILED"}
       /\ row'[e].due \in {row[e].due, "later"}
       /\ row'[e].status = "ACTIVE" => row[e].status = "ACTIVE" \/ row'[e].due = "later"
    \/ /\ cron.phase = "advance"
       /\ cron.hand.of = e
       /\ Exists(e)
       /\ row'[e].status = row[e].status
       /\ row'[e].due = "later"
    \/ MonthPasses(e) /\ row'[e].status = row[e].status /\ row'[e].due = "now"

(* A change of status is seen in that row alone. *)
LEMMA StatusWritten ==
    ASSUME TypeOK, NEW d \in Deployments, NEW status, SetStatus(d, status)
    PROVE  /\ \A e \in Deployments : e # d => row'[e] = row[e]
           /\ row'[d].status = status /\ row'[d].due = row[d].due
BY DEF TypeOK, SetStatus, Rows

(* So is the end of a teardown. *)
LEMMA TornDown ==
    ASSUME TypeOK, NEW d \in Deployments, NEW new, EndTearDown(d, new)
    PROVE  /\ \A e \in Deployments : e # d => row'[e] = row[e]
           /\ row'[d] = row[d] \/ row'[d] = new
BY DEF TypeOK, EndTearDown

LEMMA RowWritten ==
    ASSUME TInv, [Next]_vars, NEW e \in Deployments
    PROVE  RowStep(e)
<1> TypeOK /\ InHand
    BY DEF TInv
<1> /\ row \in [Deployments -> Rows]
    /\ \A d \in Deployments : row[d] \in Rows
    BY DEF TypeOK
<1>1. CASE UNCHANGED vars
    BY <1>1 DEF vars, RowStep
<1>2. ASSUME NEW d \in Deployments,
             \/ Charge(d) \/ ReadPrevious(d) \/ CleanPrevious(d) \/ Enqueue(d) \/ Refund(d)
             \/ StartRun(d) \/ Timeout(d) \/ RecoverStalled(d)
             \/ ReadForDelete(d) \/ CleanForDelete(d)
             \/ \E k \in RunNumbers :
                   CreateApp(d, k) \/ WaitForHealthy(d, k) \/ CreateUpstream(d, k)
                   \/ Build(d, k) \/ Report(d, k) \/ Throw(d, k)
      PROVE  RowStep(e)
    <2>1. UNCHANGED row
        BY <1>2 DEF Charge, ReadPrevious, CleanPrevious, Enqueue, Refund, StartRun, Timeout,
                    RecoverStalled, ReadForDelete, CleanForDelete, CreateApp, WaitForHealthy,
                    CreateUpstream, Build, Report, Throw
    <2>2. QED BY <2>1 DEF RowStep
<1>3. ASSUME NEW d \in Deployments, DeletePreviousRow(d) PROVE RowStep(e)
    <2>1. prev[d].of \in Deployments
        BY <1>3 DEF DeletePreviousRow, Goto, InHand
    <2>2. EndTearDown(prev[d].of, NoRow)
        BY <1>3 DEF DeletePreviousRow
    <2>3. QED BY <2>1, <2>2, TornDown DEF RowStep
<1>4. ASSUME NEW d \in Deployments, CreateRow(d) PROVE RowStep(e)
    <2>1. req[d] = "cleared" /\ (UNCHANGED row \/ SetStatus(d, "PROCESSING"))
        BY <1>4 DEF CreateRow, Goto
    <2>2. QED BY <2>1, StatusWritten DEF RowStep
<1>5. ASSUME NEW d \in Deployments, MarkFailed(d) PROVE RowStep(e)
    <2>1. req[d] = "failing" /\ (UNCHANGED row \/ (Exists(d) /\ SetStatus(d, "FAILED")))
        BY <1>5 DEF MarkFailed, Goto
    <2>2. QED BY <2>1, StatusWritten DEF RowStep
<1>6. ASSUME NEW d \in Deployments, HandleEvent(d) PROVE RowStep(e)
    <2>1. /\ event[d] # "none"
          /\ UNCHANGED row \/ (Exists(d) /\ SetStatus(d, "FAILED"))
        BY <1>6 DEF HandleEvent, Exists
    <2>2. QED BY <2>1, StatusWritten DEF RowStep
<1>7. ASSUME NEW d \in Deployments, MarkDeleted(d) PROVE RowStep(e)
    <2>1. \/ UNCHANGED row
          \/ Exists(d) /\ EndTearDown(d, [row[d] EXCEPT !.status = "DELETED", !.upstream = 0])
        BY <1>7 DEF MarkDeleted
    <2>2. /\ [row[d] EXCEPT !.status = "DELETED", !.upstream = 0].status = "DELETED"
          /\ [row[d] EXCEPT !.status = "DELETED", !.upstream = 0].due = row[d].due
        BY DEF Rows
    <2>3. QED BY <2>1, <2>2, TornDown DEF RowStep
<1>8. ASSUME NEW d \in Deployments, NEW k \in RunNumbers,
             \/ MarkProcessing(d, k) \/ BindUpstream(d, k) \/ Finish(d, k) \/ Catch(d, k)
      PROVE  RowStep(e)
    <2>1. InFlight(d)
        BY <1>8 DEF MarkProcessing, BindUpstream, Finish, Catch, Step, InFlight
    <2>2. \/ UNCHANGED row
          \/ /\ Exists(d)
             /\ \/ SetStatus(d, "PROCESSING") \/ SetStatus(d, "FAILED")
                \/ row' = [row EXCEPT ![d].upstream = k]
                \/ row' = [row EXCEPT ![d].status = "ACTIVE", ![d].due = "later"]
        BY <1>8 DEF MarkProcessing, BindUpstream, Finish, Catch
    <2>3. CASE Exists(d) /\ row' = [row EXCEPT ![d].upstream = k]
        BY <2>1, <2>3 DEF RowStep, Rows
    <2>4. CASE Exists(d) /\ row' = [row EXCEPT ![d].status = "ACTIVE", ![d].due = "later"]
        <3>1. /\ [row[d] EXCEPT !.status = "ACTIVE", !.due = "later"].status = "ACTIVE"
              /\ [row[d] EXCEPT !.status = "ACTIVE", !.due = "later"].due = "later"
            BY DEF Rows
        <3>2. QED BY <2>1, <2>4, <3>1 DEF RowStep
    <2>5. QED BY <2>1, <2>2, <2>3, <2>4, StatusWritten DEF RowStep
<1>9. CASE Cron
    <2>1. CASE CronStart \/ CronTerminate \/ \E s \in cron.batch : CronCharge(s)
        BY <2>1 DEF CronStart, CronTerminate, CronCharge, RowStep
    <2>2. CASE CronAdvance
        <3>1. cron.phase = "advance" /\ cron.hand.of \in Deployments
            BY <2>2 DEF CronAdvance, InHand
        <3>2. \/ UNCHANGED row
              \/ Exists(cron.hand.of) /\ row' = [row EXCEPT ![cron.hand.of].due = "later"]
            BY <2>2 DEF CronAdvance
        <3>3. QED BY <3>1, <3>2 DEF RowStep, Rows
    <2>3. CASE CronMarkDeleted
        <3>1. cron.hand.of \in Deployments
            BY <2>3 DEF CronMarkDeleted, InHand
        <3>2. \/ UNCHANGED row
              \/ /\ Exists(cron.hand.of)
                 /\ EndTearDown(cron.hand.of, [row[cron.hand.of] EXCEPT !.status = "DELETED"])
            BY <2>3 DEF CronMarkDeleted
        <3>3. /\ [row[cron.hand.of] EXCEPT !.status = "DELETED"].status = "DELETED"
              /\ [row[cron.hand.of] EXCEPT !.status = "DELETED"].due = row[cron.hand.of].due
            BY <3>1 DEF Rows
        <3>4. QED BY <3>1, <3>2, <3>3, TornDown DEF RowStep
    <2>4. QED BY <1>9, <2>1, <2>2, <2>3 DEF Cron
<1>10. ASSUME NEW d \in Deployments, MonthPasses(d) PROVE RowStep(e)
    <2>1. row' = [row EXCEPT ![d].due = "now"]
        BY <1>10 DEF MonthPasses
    <2>2. QED BY <1>10, <2>1 DEF RowStep, Rows
<1>11. CASE Crash
    BY <1>11 DEF Crash, RowStep
<1>12. QED
    BY <1>1, <1>2, <1>3, <1>4, <1>5, <1>6, <1>7, <1>8, <1>9, <1>10, <1>11, ByAction
       DEF Delete
-----------------------------------------------------------------------------
(* Unless an acknowledgement is lost, whatever has a job, is in a worker's *)
(* hands, was deployed or is about to be billed belongs to a request that  *)
(* knows its job to be queued.                                             *)
Confirmed ==
    \A d \in Deployments :
        \/ job[d] # "none"
        \/ InFlight(d)
        \/ row[d].status = "ACTIVE"
        \/ \E s \in cron.batch : s.of = d
        => req[d] = "queued"

CInv == TInv /\ Confirmed

LEMMA InitConfirmed == Init => Confirmed
<1> SUFFICES ASSUME Init, NEW d \in Deployments
             PROVE  /\ job[d] = "none" /\ ~InFlight(d)
                    /\ row[d].status # "ACTIVE" /\ cron.batch = {}
    BY DEF Confirmed
<1>1. \A k \in RunNumbers : run[<<d, k>>] = "off"
    BY DEF Init, Runs
<1>2. QED BY <1>1 DEF Init, InFlight, NoRow

(* A request that is queued has nothing more to do. *)
LEMMA QueuedStays ==
    ASSUME TInv, [Next]_vars, NEW e \in Deployments, req[e] = "queued"
    PROVE  req'[e] = "queued"
<1>1. CASE UNCHANGED req
    BY <1>1
<1>2. ASSUME NEW d \in Deployments, NEW from, NEW to, Goto(d, from, to), from # "queued"
      PROVE  req'[e] = "queued"
    BY <1>2 DEF Goto
<1>3. ASSUME NEW d \in Deployments,
             \/ Charge(d) \/ ReadPrevious(d) \/ CleanPrevious(d) \/ DeletePreviousRow(d)
             \/ CreateRow(d) \/ Enqueue(d) \/ MarkFailed(d) \/ Refund(d)
      PROVE  req'[e] = "queued"
    <2>1. CASE Charge(d)
        BY <1>2, <2>1 DEF Charge
    <2>2. CASE ReadPrevious(d)
        BY <1>2, <2>2 DEF ReadPrevious
    <2>3. CASE CleanPrevious(d) \/ DeletePreviousRow(d) \/ MarkFailed(d)
        BY <1>2, <2>3 DEF CleanPrevious, DeletePreviousRow, MarkFailed
    <2>4. CASE CreateRow(d) \/ Enqueue(d) \/ Refund(d)
        BY <1>2, <2>4 DEF CreateRow, Enqueue, Refund
    <2>5. QED BY <1>3, <2>1, <2>2, <2>3, <2>4
<1>4. ASSUME NEW d \in Deployments,
             \/ StartRun(d) \/ Timeout(d) \/ HandleEvent(d) \/ RecoverStalled(d)
             \/ Delete(d) \/ MonthPasses(d)
      PROVE  UNCHANGED req
    BY <1>4 DEF StartRun, Timeout, HandleEvent, RecoverStalled, Delete, ReadForDelete,
                CleanForDelete, MarkDeleted, MonthPasses, client
<1>5. ASSUME NEW d \in Deployments, NEW k \in RunNumbers,
             \/ MarkProcessing(d, k) \/ Build(d, k) \/ CreateApp(d, k)
             \/ WaitForHealthy(d, k) \/ CreateUpstream(d, k) \/ BindUpstream(d, k)
             \/ Finish(d, k) \/ Catch(d, k) \/ Report(d, k) \/ Throw(d, k)
      PROVE  UNCHANGED req
    BY <1>5 DEF MarkProcessing, Build, CreateApp, WaitForHealthy, CreateUpstream, BindUpstream,
                Finish, Catch, Report, Throw, RunFrame, client
<1>6. CASE Cron
    BY <1>1, <1>6 DEF Cron, CronStart, CronCharge, CronAdvance, CronTerminate, CronMarkDeleted,
                      CronFrame, client
<1>7. CASE Crash
    BY <1>7 DEF Crash
<1>8. CASE UNCHANGED vars
    BY <1>1, <1>8 DEF vars
<1>9. QED BY <1>1, <1>3, <1>4, <1>5, <1>6, <1>7, <1>8, ByAction

(* Only a request's Enqueue makes a job; without a lost acknowledgement it *)
(* then knows.                                                             *)
LEMMA JobAppears ==
    ASSUME "ackLost" \notin Faults, TInv, [Next]_vars, NEW e \in Deployments,
           job[e] = "none", job'[e] # "none"
    PROVE  req'[e] = "queued"
<1> TypeOK
    BY DEF TInv
<1>1. ASSUME NEW d \in Deployments,
             \/ Charge(d) \/ ReadPrevious(d) \/ CleanPrevious(d) \/ DeletePreviousRow(d)
             \/ CreateRow(d) \/ MarkFailed(d) \/ Refund(d)
             \/ HandleEvent(d) \/ Delete(d) \/ MonthPasses(d)
      PROVE  UNCHANGED job
    BY <1>1 DEF Charge, ReadPrevious, CleanPrevious, DeletePreviousRow, CreateRow, MarkFailed,
                Refund, HandleEvent, Delete, ReadForDelete, CleanForDelete, MarkDeleted,
                MonthPasses, queue
<1>2. ASSUME NEW d \in Deployments,
             StartRun(d) \/ Timeout(d) \/ RecoverStalled(d) \/ \E k \in RunNumbers : Throw(d, k) \/ Report(d, k)
      PROVE  job'[e] = job[e] \/ job[e] # "none"
    BY <1>2 DEF StartRun, Timeout, RecoverStalled, FailAttempt, Throw, Report, Current, TypeOK
<1>3. ASSUME NEW d \in Deployments, Enqueue(d) PROVE req'[e] = "queued"
    <2>1. Goto(d, "created", "queued") \/ UNCHANGED job
        BY <1>3 DEF Enqueue, May
    <2>2. job' = [job EXCEPT ![d] = "waiting"]
        BY <1>3 DEF Enqueue
    <2>3. QED BY <2>1, <2>2 DEF Goto, TypeOK
<1>4. ASSUME NEW d \in Deployments, NEW k \in RunNumbers,
             \/ MarkProcessing(d, k) \/ Build(d, k) \/ CreateApp(d, k)
             \/ WaitForHealthy(d, k) \/ CreateUpstream(d, k) \/ BindUpstream(d, k)
             \/ Finish(d, k) \/ Catch(d, k)
      PROVE  UNCHANGED job
    BY <1>4 DEF MarkProcessing, Build, CreateApp, WaitForHealthy, CreateUpstream, BindUpstream,
                Finish, Catch, RunFrame
<1>5. Cron \/ UNCHANGED vars => UNCHANGED job
    BY DEF Cron, CronStart, CronCharge, CronAdvance, CronTerminate, CronMarkDeleted, CronFrame,
           queue, vars
<1>6. ~Crash
    BY DEF Crash
<1>7. QED BY <1>1, <1>2, <1>3, <1>4, <1>5, <1>6, ByAction

(* Only a waiting job is started. *)
LEMMA RunAppears ==
    ASSUME TInv, [Next]_vars, NEW e \in Deployments, ~InFlight(e), InFlight(e)'
    PROVE  job[e] # "none"
<1> TypeOK
    BY DEF TInv
<1>1. PICK k \in RunNumbers : run[<<e, k>>] = "off" /\ run'[<<e, k>>] # "off"
    BY DEF InFlight
<1>2. ASSUME NEW d \in Deployments, NEW n \in RunNumbers, NEW from, NEW to,
             Step(d, n, from, to), from # "off"
      PROVE  FALSE
    BY <1>1, <1>2 DEF Step, InFlight, TypeOK, Runs
<1>3. ASSUME NEW d \in Deployments, NEW n \in RunNumbers,
             \/ MarkProcessing(d, n) \/ Build(d, n) \/ CreateApp(d, n)
             \/ WaitForHealthy(d, n) \/ CreateUpstream(d, n) \/ BindUpstream(d, n)
             \/ Finish(d, n) \/ Catch(d, n) \/ Report(d, n) \/ Throw(d, n)
      PROVE  FALSE
    <2>1. CASE MarkProcessing(d, n) \/ Build(d, n) \/ CreateApp(d, n) \/ WaitForHealthy(d, n)
        BY <1>2, <2>1 DEF MarkProcessing, Build, CreateApp, WaitForHealthy
    <2>2. CASE CreateUpstream(d, n) \/ BindUpstream(d, n) \/ Finish(d, n)
        BY <1>2, <2>2 DEF CreateUpstream, BindUpstream, Finish
    <2>3. CASE Catch(d, n) \/ Report(d, n) \/ Throw(d, n)
        BY <1>2, <2>3 DEF Catch, Report, Throw
    <2>4. QED BY <1>3, <2>1, <2>2, <2>3
<1>4. ASSUME NEW d \in Deployments, StartRun(d) PROVE job[e] # "none"
    BY <1>1, <1>4 DEF StartRun, TypeOK
<1>5. ASSUME NEW d \in Deployments,
             \/ Charge(d) \/ ReadPrevious(d) \/ CleanPrevious(d) \/ DeletePreviousRow(d)
             \/ CreateRow(d) \/ Enqueue(d) \/ MarkFailed(d) \/ Refund(d)
             \/ Timeout(d) \/ HandleEvent(d) \/ RecoverStalled(d) \/ Delete(d) \/ MonthPasses(d)
      PROVE  UNCHANGED run
    BY <1>5 DEF Charge, ReadPrevious, CleanPrevious, DeletePreviousRow, CreateRow, Enqueue,
                MarkFailed, Refund, Timeout, HandleEvent, RecoverStalled, Delete, ReadForDelete,
                CleanForDelete, MarkDeleted, MonthPasses, queue
<1>6. Cron \/ UNCHANGED vars => UNCHANGED run
    BY DEF Cron, CronStart, CronCharge, CronAdvance, CronTerminate, CronMarkDeleted, CronFrame,
           queue, vars
<1>7. Crash => run' = [r \in Runs |-> "off"]
    BY DEF Crash
<1>8. QED BY <1>1, <1>3, <1>4, <1>5, <1>6, <1>7, ByAction DEF Runs

(* The cron's batch takes in rows that are ACTIVE and loses others. *)
LEMMA BatchAppears ==
    ASSUME TInv, [Next]_vars, NEW s \in cron'.batch, s \notin cron.batch
    PROVE  \E d \in Deployments :
               CronStart /\ s = Snapshot(d) /\ row[d].status = "ACTIVE" /\ row[d].due = "now"
<1> TypeOK
    BY DEF TInv
<1>1. ASSUME NEW d \in Deployments,
             \/ Charge(d) \/ ReadPrevious(d) \/ CleanPrevious(d) \/ DeletePreviousRow(d)
             \/ CreateRow(d) \/ Enqueue(d) \/ MarkFailed(d) \/ Refund(d) \/ StartRun(d)
             \/ Timeout(d) \/ HandleEvent(d) \/ RecoverStalled(d) \/ Delete(d) \/ MonthPasses(d)
      PROVE  UNCHANGED cron
    BY <1>1 DEF Charge, ReadPrevious, CleanPrevious, DeletePreviousRow, CreateRow, Enqueue,
                MarkFailed, Refund, StartRun, Timeout, HandleEvent, RecoverStalled, Delete,
                ReadForDelete, CleanForDelete, MarkDeleted, MonthPasses
<1>2. ASSUME NEW d \in Deployments, NEW n \in RunNumbers,
             \/ MarkProcessing(d, n) \/ Build(d, n) \/ CreateApp(d, n)
             \/ WaitForHealthy(d, n) \/ CreateUpstream(d, n) \/ BindUpstream(d, n)
             \/ Finish(d, n) \/ Catch(d, n) \/ Report(d, n) \/ Throw(d, n)
      PROVE  UNCHANGED cron
    BY <1>2 DEF MarkProcessing, Build, CreateApp, WaitForHealthy, CreateUpstream, BindUpstream,
                Finish, Catch, Report, Throw, RunFrame
<1>3. ASSUME NEW t, CronCharge(t) PROVE FALSE
    BY <1>3 DEF CronCharge, NextInBatch
<1>4. CASE CronAdvance \/ CronTerminate \/ CronMarkDeleted
    BY <1>4 DEF CronAdvance, CronTerminate, CronMarkDeleted, NextInBatch, TypeOK
<1>5. CASE CronStart
    BY <1>5 DEF CronStart, TypeOK
<1>6. ~Crash
    BY DEF Crash
<1>7. ~UNCHANGED vars
    BY DEF vars
<1>8. QED BY <1>1, <1>2, <1>3, <1>4, <1>5, <1>6, <1>7, ByAction DEF Cron

LEMMA NextConfirmed ==
    ASSUME "ackLost" \notin Faults, TInv, Confirmed, [Next]_vars
    PROVE  Confirmed'
<1> SUFFICES ASSUME NEW d \in Deployments,
                    \/ job'[d] # "none"
                    \/ InFlight(d)'
                    \/ row'[d].status = "ACTIVE"
                    \/ \E s \in cron'.batch : s.of = d
             PROVE  req'[d] = "queued"
    BY DEF Confirmed
<1>1. CASE req[d] = "queued"
    BY <1>1, QueuedStays
<1>2. CASE job'[d] # "none"
    BY <1>1, <1>2, JobAppears DEF Confirmed
<1>3. CASE InFlight(d)'
    BY <1>1, <1>3, RunAppears DEF Confirmed
<1>4. CASE row'[d].status = "ACTIVE"
    <2>1. RowStep(d)
        BY RowWritten
    <2>2. row[d].status = "ACTIVE" \/ InFlight(d)
        BY <1>4, <2>1 DEF RowStep, NoRow
    <2>3. QED BY <1>1, <2>2 DEF Confirmed
<1>5. CASE \E s \in cron'.batch : s.of = d
    <2>1. PICK s \in cron'.batch : s.of = d
        BY <1>5
    <2>2. CASE s \in cron.batch
        BY <1>1, <2>1, <2>2 DEF Confirmed
    <2>3. CASE s \notin cron.batch
        BY <1>1, <2>1, <2>3, BatchAppears DEF Confirmed, Snapshot
    <2>4. QED BY <2>2, <2>3
<1>6. QED BY <1>2, <1>3, <1>4, <1>5

THEOREM QueueConfirmed ==
    ASSUME "ackLost" \notin Faults
    PROVE  Spec => []CInv
<1>1. Init => CInv
    BY InitType, InitConfirmed DEF CInv
<1>2. CInv /\ [Next]_vars => CInv'
    BY NextType, NextConfirmed DEF CInv
<1>3. QED BY <1>1, <1>2, PTL DEF Spec
-----------------------------------------------------------------------------
(* Every step is one of the contract's, or none of its business.           *)

LEMMA DealMoves ==
    ASSUME TypeOK, NEW d \in Deployments, NEW from, NEW to, Goto(d, from, to)
    PROVE  /\ Deal[d] = DealOf(from)
           /\ Deal' = [Deal EXCEPT ![d] = DealOf(to)]
           /\ DealOf(from) = DealOf(to) => UNCHANGED Deal
BY DEF TypeOK, Deal, Goto

LEMMA Deals ==
    /\ DealOf("new") = "open" /\ DealOf("rejected") = "open"
    /\ DealOf("queued") = "delivered" /\ DealOf("refunded") = "void"
    /\ \A phase \in {"charged", "replacing", "cleaned", "cleared", "created", "failing",
                    "refunding", "unrefunded", "lost", "abandoned"} : DealOf(phase) = "paid"
BY DEF DealOf

LEMMA InitRefines == Init => Contract!Init
BY Deals DEF Init, Contract!Init, Deal

(* The steps that are the contract's. *)
LEMMA ChargePays ==
    ASSUME TInv, NEW d \in Deployments, Charge(d)
    PROVE  Contract!Pay(d) \/ UNCHANGED <<credits, Deal>>
<1> TypeOK
    BY DEF TInv
<1>1. CASE /\ credits > 0 /\ credits' = credits - 1
           /\ Goto(d, "new", "charged") \/ Goto(d, "new", "lost")
    <2>1. Deal[d] = "open" /\ Deal' = [Deal EXCEPT ![d] = "paid"]
        BY <1>1, Deals, DealMoves
    <2>2. QED BY <1>1, <2>1 DEF Contract!Pay, Contract!Move
<1>2. CASE Goto(d, "new", "rejected") /\ UNCHANGED credits
    BY <1>2, Deals, DealMoves
<1>3. QED BY <1>1, <1>2 DEF Charge

LEMMA EnqueueDelivers ==
    ASSUME TInv, NEW d \in Deployments, Enqueue(d)
    PROVE  Contract!Deliver(d) \/ UNCHANGED <<credits, Deal>>
<1> TypeOK
    BY DEF TInv
<1>1. UNCHANGED credits /\ (Goto(d, "created", "queued") \/ Goto(d, "created", "failing"))
    BY DEF Enqueue
<1>2. CASE Goto(d, "created", "queued")
    BY <1>1, <1>2, Deals, DealMoves DEF Contract!Deliver, Contract!Move
<1>3. CASE Goto(d, "created", "failing")
    BY <1>1, <1>3, Deals, DealMoves
<1>4. QED BY <1>1, <1>2, <1>3

LEMMA RefundGivesBack ==
    ASSUME TInv, NEW d \in Deployments, Refund(d)
    PROVE  Contract!GiveBack(d) \/ UNCHANGED <<credits, Deal>>
<1> TypeOK
    BY DEF TInv
<1>1. CASE Goto(d, "refunding", "refunded") /\ credits' = credits + 1
    BY <1>1, Deals, DealMoves DEF Contract!GiveBack, Contract!Move
<1>2. CASE Goto(d, "refunding", "unrefunded") /\ UNCHANGED credits
    BY <1>2, Deals, DealMoves
<1>3. QED BY <1>1, <1>2 DEF Refund

(* What the cron bills was delivered: this is what Confirmed is for. *)
LEMMA CronRenews ==
    ASSUME CInv, Cron
    PROVE  (\E d \in Deployments : Contract!Renew(d)) \/ UNCHANGED <<credits, Deal>>
<1> TypeOK /\ InHand /\ Confirmed
    BY DEF CInv, TInv
<1>1. UNCHANGED req
    BY DEF Cron, CronStart, CronCharge, CronAdvance, CronTerminate, CronMarkDeleted, CronFrame,
           client
<1>2. UNCHANGED Deal
    BY <1>1 DEF Deal
<1>3. CASE \E s \in cron.batch : CronCharge(s)
    <2>1. PICK s \in cron.batch : CronCharge(s)
        BY <1>3
    <2>2. s.of \in Deployments /\ req[s.of] = "queued"
        BY DEF InHand, Confirmed
    <2>3. Deal[s.of] = "delivered"
        BY <2>2, Deals DEF Deal
    <2>4. UNCHANGED credits \/ (credits > 0 /\ credits' = credits - 1)
        BY <2>1 DEF CronCharge
    <2>5. QED BY <1>2, <2>2, <2>3, <2>4 DEF Contract!Renew
<1>4. CASE CronStart \/ CronAdvance \/ CronTerminate \/ CronMarkDeleted
    BY <1>2, <1>4 DEF CronStart, CronAdvance, CronTerminate, CronMarkDeleted
<1>5. QED BY <1>3, <1>4 DEF Cron

(* A request that dies with the process stays paid. *)
LEMMA CrashLeavesDeals ==
    ASSUME Crash PROVE UNCHANGED <<credits, Deal>>
<1>1. /\ UNCHANGED credits
      /\ req' = [d \in Deployments |->
                    IF req[d] \in {"charged", "replacing", "cleaned", "cleared", "created",
                                   "failing", "refunding"}
                    THEN "abandoned" ELSE req[d]]
    BY DEF Crash
<1>2. ASSUME NEW d \in Deployments PROVE DealOf(req'[d]) = DealOf(req[d])
    BY <1>1, Deals
<1>3. QED BY <1>1, <1>2 DEF Deal

LEMMA StepRefines ==
    ASSUME CInv, [Next]_vars
    PROVE  [Contract!Next]_<<credits, Deal>>
<1> TInv /\ TypeOK
    BY DEF CInv, TInv
<1>1. ASSUME NEW d \in Deployments, Charge(d) \/ Enqueue(d) \/ Refund(d)
      PROVE  [Contract!Next]_<<credits, Deal>>
    BY <1>1, ChargePays, EnqueueDelivers, RefundGivesBack DEF Contract!Next
<1>2. ASSUME NEW d \in Deployments,
             \/ ReadPrevious(d) \/ CleanPrevious(d) \/ DeletePreviousRow(d)
             \/ CreateRow(d) \/ MarkFailed(d)
      PROVE  UNCHANGED <<credits, Deal>>
    <2>1. UNCHANGED credits
        BY <1>2 DEF ReadPrevious, CleanPrevious, DeletePreviousRow, CreateRow, MarkFailed
    <2>2. PICK from \in {"charged", "replacing", "cleaned", "cleared", "failing"},
               to \in {"replacing", "cleaned", "cleared", "created", "failing", "refunding"} :
               Goto(d, from, to)
        BY <1>2 DEF ReadPrevious, CleanPrevious, DeletePreviousRow, CreateRow, MarkFailed
    <2>3. QED BY <2>1, <2>2, Deals, DealMoves
<1>3. ASSUME NEW d \in Deployments,
             \/ StartRun(d) \/ Timeout(d) \/ HandleEvent(d) \/ RecoverStalled(d)
             \/ Delete(d) \/ MonthPasses(d)
      PROVE  UNCHANGED <<credits, req>>
    BY <1>3 DEF StartRun, Timeout, HandleEvent, RecoverStalled, Delete, ReadForDelete,
                CleanForDelete, MarkDeleted, MonthPasses, client
<1>4. ASSUME NEW d \in Deployments, NEW k \in RunNumbers,
             \/ MarkProcessing(d, k) \/ Build(d, k) \/ CreateApp(d, k)
             \/ WaitForHealthy(d, k) \/ CreateUpstream(d, k) \/ BindUpstream(d, k)
             \/ Finish(d, k) \/ Catch(d, k) \/ Report(d, k) \/ Throw(d, k)
      PROVE  UNCHANGED <<credits, req>>
    BY <1>4 DEF MarkProcessing, Build, CreateApp, WaitForHealthy, CreateUpstream, BindUpstream,
                Finish, Catch, Report, Throw, RunFrame, client
<1>5. UNCHANGED <<credits, req>> => UNCHANGED <<credits, Deal>>
    BY DEF Deal
<1>6. UNCHANGED vars => UNCHANGED <<credits, req>>
    BY DEF vars
<1>7. CASE Cron \/ Crash
    BY <1>7, CronRenews, CrashLeavesDeals DEF Contract!Next
<1>8. QED BY <1>1, <1>2, <1>3, <1>4, <1>5, <1>6, <1>7, ByAction

(* deployToKoyeb and the renewal cron implement DeploymentContract: a      *)
(* request is paid once, then delivered or given back, and only what was   *)
(* delivered is renewed.  Whatever else fails, a request whose job was     *)
(* stored without its knowing is the one exception.                        *)
THEOREM ContractKept ==
    ASSUME "ackLost" \notin Faults
    PROVE  Spec => KeepsContract
<1>1. Init => Contract!Init
    BY InitRefines
<1>2. CInv /\ [Next]_vars => [Contract!Next]_<<credits, Deal>>
    BY StepRefines
<1>3. QED BY <1>1, <1>2, QueueConfirmed, PTL DEF Spec, KeepsContract, Contract!Spec
-----------------------------------------------------------------------------
(* DELETED is final once the job is over. *)

LEMMA DeletedStays ==
    ASSUME CInv, [Next]_vars, NEW d \in Deployments,
           row[d].status = "DELETED", JobOver(d), event[d] = "none"
    PROVE  row'[d].status \in {"DELETED", "none"}
<1>1. RowStep(d)
    BY RowWritten DEF CInv
<1>2. req[d] = "queued" /\ ~InFlight(d)
    BY DEF CInv, Confirmed, JobOver
<1>3. QED BY <1>1, <1>2 DEF RowStep, NoRow

(* The owner's and the cron's DELETED (deploy.service.ts:351, 2442) is not *)
(* taken back by anything but the deployment's own job: not by another     *)
(* request of the project, the listeners or the billing.                   *)
THEOREM DeletionIsFinal ==
    ASSUME "ackLost" \notin Faults
    PROVE  Spec => DeletedIsFinalAfterJob
<1>1. CInv /\ [Next]_vars
        => [\A d \in Deployments :
               (row[d].status = "DELETED" /\ JobOver(d) /\ event[d] = "none")
                   => row'[d].status \in {"DELETED", "none"}]_vars
    BY DeletedStays
<1>2. QED BY <1>1, QueueConfirmed, PTL DEF Spec, DeletedIsFinalAfterJob
-----------------------------------------------------------------------------
(* No period is billed twice, where a charge and the date that follows it  *)
(* are not torn apart.                                                     *)

(* The renewal of d was charged and its date not yet moved on. *)
Advancing(d) == cron.phase = "advance" /\ cron.hand.of = d

(* What is due, or about to be billed, is not yet paid. *)
BInv ==
    /\ BilledOncePerPeriod
    /\ \A d \in Deployments :
          row[d].due = "now" /\ ~Advancing(d) => renewals[d] < periods[d]
    /\ \A d \in Deployments : row[d].status = "none" => row[d].due = "never"
    /\ \A s \in cron.batch : renewals[s.of] < periods[s.of] /\ ~Advancing(s.of)
    /\ \A s, t \in cron.batch : s.of = t.of => s = t

LEMMA InitBilled == Init => BInv
BY DEF Init, BInv, BilledOncePerPeriod, NoRow

(* Only the billing charges renewals, only time makes them due. *)
LEMMA BillsUntouched ==
    ASSUME [Next]_vars, ~Cron
    PROVE  /\ UNCHANGED renewals
           /\ UNCHANGED cron \/ Crash
           /\ UNCHANGED periods \/ \E d \in Deployments : MonthPasses(d)
<1>1. ASSUME NEW d \in Deployments,
             \/ Charge(d) \/ ReadPrevious(d) \/ CleanPrevious(d) \/ DeletePreviousRow(d)
             \/ CreateRow(d) \/ Enqueue(d) \/ MarkFailed(d) \/ Refund(d) \/ StartRun(d)
             \/ Timeout(d) \/ HandleEvent(d) \/ RecoverStalled(d) \/ Delete(d)
      PROVE  UNCHANGED <<renewals, cron, periods>>
    BY <1>1 DEF Charge, ReadPrevious, CleanPrevious, DeletePreviousRow, CreateRow, Enqueue,
                MarkFailed, Refund, StartRun, Timeout, HandleEvent, RecoverStalled, Delete,
                ReadForDelete, CleanForDelete, MarkDeleted, history
<1>2. ASSUME NEW d \in Deployments, NEW n \in RunNumbers,
             \/ MarkProcessing(d, n) \/ Build(d, n) \/ CreateApp(d, n)
             \/ WaitForHealthy(d, n) \/ CreateUpstream(d, n) \/ BindUpstream(d, n)
             \/ Finish(d, n) \/ Catch(d, n) \/ Report(d, n) \/ Throw(d, n)
      PROVE  UNCHANGED <<renewals, cron, periods>>
    BY <1>2 DEF MarkProcessing, Build, CreateApp, WaitForHealthy, CreateUpstream, BindUpstream,
                Finish, Catch, Report, Throw, RunFrame, history
<1>3. ASSUME NEW d \in Deployments, MonthPasses(d) PROVE UNCHANGED <<renewals, cron>>
    BY <1>3 DEF MonthPasses
<1>4. Crash => UNCHANGED <<renewals, periods>>
    BY DEF Crash
<1>5. UNCHANGED vars => UNCHANGED <<renewals, cron, periods>>
    BY DEF vars
<1>6. QED BY <1>1, <1>2, <1>3, <1>4, <1>5, ByAction

(* A row that becomes due does so with time; one that is gone is not due.  *)
LEMMA DueWritten ==
    ASSUME TInv, BInv, [Next]_vars, NEW d \in Deployments
    PROVE  /\ row'[d].due = "now" => row[d].due = "now" \/ MonthPasses(d)
           /\ row'[d].status = "none" => row'[d].due = "never"
<1>1. RowStep(d)
    BY RowWritten
<1>2. CASE MonthPasses(d) /\ row'[d].status = row[d].status /\ row'[d].due = "now"
    BY <1>2 DEF BInv, MonthPasses
<1>3. QED BY <1>1, <1>2 DEF RowStep, BInv, NoRow, Exists

LEMMA CronBilled ==
    ASSUME {"charge", "advance"} \cap Faults = {}, TInv, BInv, Cron
    PROVE  BInv'
<1> /\ TypeOK /\ InHand
    /\ renewals \in [Deployments -> Nat] /\ periods \in [Deployments -> Nat]
    /\ cron \in [phase : {"idle", "scan", "advance", "terminate", "mark"},
                 batch : SUBSET Snapshots, hand : Snapshots]
    BY DEF TInv, TypeOK
<1>1. UNCHANGED periods
    BY DEF Cron, CronStart, CronCharge, CronAdvance, CronTerminate, CronMarkDeleted, CronFrame
<1>2. ~\E d \in Deployments : MonthPasses(d)
    BY <1>1 DEF MonthPasses
<1>3. \A d \in Deployments :
          /\ row'[d].due = "now" => row[d].due = "now"
          /\ row'[d].status = "none" => row'[d].due = "never"
    BY <1>2, DueWritten DEF Next
<1>4. CASE CronStart
    <2> DEFINE due == {d \in Deployments : row[d].status = "ACTIVE" /\ row[d].due = "now"}
    <2>1. /\ UNCHANGED renewals
          /\ cron.phase = "idle" /\ cron'.phase = "scan"
          /\ cron'.batch = {Snapshot(d) : d \in due}
        BY <1>4 DEF CronStart
    <2>2. \A d \in due : renewals[d] < periods[d]
        BY <2>1 DEF BInv, Advancing
    <2>3. \A s \in cron'.batch : renewals[s.of] < periods[s.of] /\ s.of \in Deployments
        BY <2>1, <2>2 DEF Snapshot
    <2>4. \A s, t \in cron'.batch : s.of = t.of => s = t
        BY <2>1 DEF Snapshot
    <2>5. \A d \in Deployments : ~Advancing(d) /\ ~Advancing(d)'
        BY <2>1 DEF Advancing
    <2>6. QED BY <1>1, <1>3, <2>1, <2>3, <2>4, <2>5 DEF BInv, BilledOncePerPeriod
<1>5. CASE \E s \in cron.batch : CronCharge(s)
    <2>1. PICK s \in cron.batch : CronCharge(s)
        BY <1>5
    <2>2. /\ s.of \in Deployments /\ renewals[s.of] < periods[s.of]
          /\ cron.phase = "scan" /\ cron'.batch = cron.batch \ {s}
        BY <2>1 DEF InHand, BInv, CronCharge, NextInBatch
    <2>3. \A t \in cron'.batch : t.of \in Deployments /\ t.of # s.of /\ renewals[t.of] < periods[t.of]
        BY <2>2 DEF InHand, BInv
    <2>4. CASE /\ renewals' = [renewals EXCEPT ![s.of] = @ + 1]
               /\ cron' = [phase |-> "advance", batch |-> cron.batch \ {s}, hand |-> s]
        <3>1. \A d \in Deployments : ~Advancing(d) /\ (Advancing(d)' <=> d = s.of)
            BY <2>2, <2>4 DEF Advancing
        <3>2. BilledOncePerPeriod'
            BY <1>1, <2>2, <2>4 DEF BInv, BilledOncePerPeriod
        <3>3. \A d \in Deployments : row'[d].due = "now" /\ ~Advancing(d)' => renewals'[d] < periods'[d]
            BY <1>1, <1>3, <2>2, <2>4, <3>1 DEF BInv
        <3>4. \A t \in cron'.batch : renewals'[t.of] < periods'[t.of] /\ ~Advancing(t.of)'
            BY <1>1, <2>3, <2>4, <3>1
        <3>5. QED BY <1>3, <2>2, <3>2, <3>3, <3>4 DEF BInv
    <2>5. CASE UNCHANGED renewals /\ cron'.phase = "terminate"
        <3>1. \A d \in Deployments : ~Advancing(d) /\ ~Advancing(d)'
            BY <2>2, <2>5 DEF Advancing
        <3>2. QED BY <1>1, <1>3, <2>2, <2>3, <2>5, <3>1 DEF BInv, BilledOncePerPeriod
    <2>6. QED BY <2>1, <2>4, <2>5 DEF CronCharge, May
<1>6. CASE CronAdvance
    <2>1. /\ UNCHANGED renewals
          /\ cron.phase = "advance" /\ cron.hand.of \in Deployments
          /\ cron'.batch = cron.batch /\ cron'.phase \in {"idle", "scan"}
        BY <1>6 DEF CronAdvance, NextInBatch, InHand
    <2>2. row'[cron.hand.of].due # "now"
        <3>1. CASE Exists(cron.hand.of) /\ row' = [row EXCEPT ![cron.hand.of].due = "later"]
            BY <2>1, <3>1 DEF TypeOK, Rows
        <3>2. CASE ~Exists(cron.hand.of) /\ UNCHANGED row
            BY <2>1, <3>2 DEF BInv, Exists
        <3>3. QED BY <1>6, <3>1, <3>2 DEF CronAdvance, May
    <2>3. \A d \in Deployments : ~Advancing(d)' /\ (Advancing(d) <=> d = cron.hand.of)
        BY <2>1 DEF Advancing
    <2>4. \A s \in cron.batch : s.of \in Deployments
        BY DEF InHand
    <2>5. QED BY <1>1, <1>3, <2>1, <2>2, <2>3, <2>4 DEF BInv, BilledOncePerPeriod
<1>7. CASE CronTerminate \/ CronMarkDeleted
    <2>1. /\ UNCHANGED renewals
          /\ cron.phase \in {"terminate", "mark"}
          /\ cron'.batch = cron.batch /\ cron'.phase # "advance"
        BY <1>7 DEF CronTerminate, CronMarkDeleted, NextInBatch
    <2>2. \A d \in Deployments : ~Advancing(d) /\ ~Advancing(d)'
        BY <2>1 DEF Advancing
    <2>3. \A s \in cron.batch : s.of \in Deployments
        BY DEF InHand
    <2>4. QED BY <1>1, <1>3, <2>1, <2>2, <2>3 DEF BInv, BilledOncePerPeriod
<1>8. QED BY <1>4, <1>5, <1>6, <1>7 DEF Cron

LEMMA NextBilled ==
    ASSUME {"charge", "advance", "crash"} \cap Faults = {}, TInv, BInv, [Next]_vars
    PROVE  BInv'
<1> /\ renewals \in [Deployments -> Nat] /\ periods \in [Deployments -> Nat] /\ InHand
    BY DEF TInv, TypeOK
<1>1. CASE Cron
    BY <1>1, CronBilled
<1>2. CASE ~Cron
    <2>1. UNCHANGED <<renewals, cron>>
        BY <1>2, BillsUntouched DEF Crash, May
    <2>2. \A d \in Deployments :
              /\ renewals[d] \in Nat /\ periods[d] \in Nat /\ periods'[d] \in Nat
              /\ periods'[d] >= periods[d]
              /\ MonthPasses(d) => periods'[d] > periods[d]
        <3>1. ASSUME NEW d \in Deployments, NEW e \in Deployments, MonthPasses(e)
              PROVE  /\ periods'[d] \in Nat /\ periods'[d] >= periods[d]
                     /\ (d = e => periods'[d] > periods[d])
            BY <3>1 DEF MonthPasses
        <3>2. QED BY <1>2, <3>1, BillsUntouched
    <2>3. \A d \in Deployments : Advancing(d)' = Advancing(d)
        BY <2>1 DEF Advancing
    <2>4. \A s \in cron.batch : s.of \in Deployments
        BY DEF InHand
    <2>5. \A d \in Deployments :
              row'[d].due = "now" /\ ~Advancing(d)' => renewals'[d] < periods'[d]
        BY <2>1, <2>2, <2>3, DueWritten DEF BInv, BilledOncePerPeriod
    <2>6. BilledOncePerPeriod'
        BY <2>1, <2>2 DEF BInv, BilledOncePerPeriod
    <2>7. \A s \in cron'.batch : renewals'[s.of] < periods'[s.of] /\ ~Advancing(s.of)'
        BY <2>1, <2>2, <2>3, <2>4 DEF BInv
    <2>8. QED BY <2>1, <2>5, <2>6, <2>7, DueWritten DEF BInv
<1>3. QED BY <1>1, <1>2

(* handleDeploymentRenewalBilling bills a period once, whatever else       *)
(* happens to the deployment meanwhile: redeployment, deletion, runs that  *)
(* time out and come back.  What it takes is that neither a failure nor a  *)
(* restart separates the charge from the update of the date.               *)
THEOREM RenewalsAreDue ==
    ASSUME {"charge", "advance", "crash"} \cap Faults = {}
    PROVE  Spec => []BilledOncePerPeriod
<1>1. Init => BInv
    BY InitBilled
<1>2. TInv /\ BInv /\ [Next]_vars => BInv'
    BY NextBilled
<1>3. BInv => BilledOncePerPeriod
    BY DEF BInv
<1>4. QED BY <1>1, <1>2, <1>3, TypeInvariance, PTL DEF Spec
-----------------------------------------------------------------------------
(* What viewers are told.                                                  *)

(* d has been ACTIVE, unless its row is gone. *)
Due(d) == ~Exists(d) \/ row[d].due # "never"

(* A run is at its last report, and a job completed, only after the row    *)
(* was ACTIVE; and runs and queued requests have a job.                    *)
ReportedWhenDue ==
    \A d \in Deployments :
        /\ row[d].status = "ACTIVE" => Due(d)
        /\ job[d] = "completed" => Due(d)
        /\ \A k \in RunNumbers : run[<<d, k>>] = "report" => Due(d)
        /\ req[d] = "queued" \/ InFlight(d) => job[d] # "none"

(* What a poll has read of the job can only have become older. *)
ToldWhenDue ==
    \A d \in Deployments :
        /\ watch[d] \in {"complete", "completed"} => Due(d)
        /\ watch[d] \in {"complete"} \cup JobStates => job[d] # "none"

SInv == TInv /\ ReportedWhenDue /\ ToldWhenDue

LEMMA InitDue == Init => ReportedWhenDue
<1> SUFFICES ASSUME Init PROVE ReportedWhenDue
    OBVIOUS
<1>1. \A d \in Deployments : /\ row[d].status = "none" /\ job[d] = "none" /\ req[d] = "new"
                             /\ \A k \in RunNumbers : run[<<d, k>>] = "off"
    BY DEF Init, NoRow, Runs
<1>2. QED BY <1>1 DEF ReportedWhenDue, InFlight

(* Once it has a job, the row of e is not made anew. *)
LEMMA DueStays ==
    ASSUME TInv, [Next]_vars, NEW e \in Deployments, Due(e), job[e] # "none"
    PROVE  Due(e)'
<1>1. req[e] # "cleared"
    BY DEF TInv, QueuedOnce
<1>2. RowStep(e)
    BY RowWritten
<1>3. QED BY <1>1, <1>2 DEF RowStep, Due, Exists, NoRow, MonthPasses, TInv

(* A run gets to its last report over the row that it makes ACTIVE, and a  *)
(* job is completed by a run that has reported.                            *)
JobStep(e) ==
    /\ job[e] # "none" => job'[e] # "none"
    /\ job'[e] = "completed" => \/ job[e] = "completed"
                               \/ \E k \in RunNumbers : run[<<e, k>>] = "report"
    /\ \A k \in RunNumbers :
          run'[<<e, k>>] = "report" => run[<<e, k>>] = "report" \/ Due(e)'
    /\ req'[e] = "queued" => req[e] = "queued" \/ job'[e] # "none"

LEMMA JobMoves ==
    ASSUME TInv, [Next]_vars, NEW e \in Deployments
    PROVE  JobStep(e)
<1> TypeOK
    BY DEF TInv
<1> \A k \in RunNumbers : <<e, k>> \in Runs
    BY DEF Runs
<1>1. ASSUME NEW d \in Deployments,
             \/ Charge(d) \/ ReadPrevious(d) \/ CleanPrevious(d) \/ DeletePreviousRow(d)
             \/ CreateRow(d) \/ MarkFailed(d) \/ Refund(d)
      PROVE  JobStep(e)
    <2>1. UNCHANGED <<job, run>>
        BY <1>1 DEF Charge, ReadPrevious, CleanPrevious, DeletePreviousRow, CreateRow, MarkFailed,
                    Refund, queue
    <2>2. \E from, to : Goto(d, from, to) /\ to # "queued"
        BY <1>1 DEF Charge, ReadPrevious, CleanPrevious, DeletePreviousRow, CreateRow, MarkFailed,
                    Refund
    <2>3. req'[e] = "queued" => req[e] = "queued"
        BY <2>2 DEF Goto, TypeOK
    <2>4. QED BY <2>1, <2>3 DEF JobStep
<1>2. ASSUME NEW d \in Deployments, Enqueue(d) PROVE JobStep(e)
    <2>1. /\ \/ Goto(d, "created", "queued") /\ job' = [job EXCEPT ![d] = "waiting"]
             \/ Goto(d, "created", "failing") /\ job' \in {job, [job EXCEPT ![d] = "waiting"]}
          /\ UNCHANGED run
        BY <1>2 DEF Enqueue
    <2>2. QED BY <2>1 DEF JobStep, Goto, TypeOK
<1>3. ASSUME NEW d \in Deployments,
             Timeout(d) \/ HandleEvent(d) \/ RecoverStalled(d) \/ Delete(d) \/ MonthPasses(d)
      PROVE  JobStep(e)
    <2>1. /\ UNCHANGED <<req, run>>
          /\ job' = job \/ \E to \in {"waiting", "failed"} : job' = [job EXCEPT ![d] = to]
        BY <1>3 DEF Timeout, FailAttempt, HandleEvent, RecoverStalled, Delete, ReadForDelete,
                    CleanForDelete, MarkDeleted, MonthPasses, client, queue
    <2>2. QED BY <2>1 DEF JobStep, TypeOK
<1>4. ASSUME NEW d \in Deployments, StartRun(d) PROVE JobStep(e)
    <2>1. /\ UNCHANGED req
          /\ job' = [job EXCEPT ![d] = "active"]
          /\ run' = [run EXCEPT ![<<d, started[d] + 1>>] = "start"]
        BY <1>4 DEF StartRun, client
    <2>2. QED BY <2>1 DEF JobStep, TypeOK
<1>5. ASSUME NEW d \in Deployments, NEW n \in RunNumbers,
             \/ MarkProcessing(d, n) \/ Build(d, n) \/ CreateApp(d, n)
             \/ WaitForHealthy(d, n) \/ CreateUpstream(d, n) \/ BindUpstream(d, n)
             \/ Catch(d, n)
      PROVE  JobStep(e)
    <2>1. UNCHANGED <<req, job>>
        BY <1>5 DEF MarkProcessing, Build, CreateApp, WaitForHealthy, CreateUpstream, BindUpstream,
                    Catch, RunFrame, client
    <2>2. \E to : to # "report" /\ run' = [run EXCEPT ![<<d, n>>] = to]
        BY <1>5 DEF MarkProcessing, Build, CreateApp, WaitForHealthy, CreateUpstream, BindUpstream,
                    Catch, Step
    <2>3. QED BY <2>1, <2>2 DEF JobStep, TypeOK
<1>6. ASSUME NEW d \in Deployments, NEW n \in RunNumbers, Finish(d, n) PROVE JobStep(e)
    <2>1. UNCHANGED <<req, job>>
        BY <1>6 DEF Finish, RunFrame, client
    <2>2. \/ /\ Step(d, n, "finish", "report")
             /\ row' = [row EXCEPT ![d].status = "ACTIVE", ![d].due = "later"]
          \/ Step(d, n, "finish", "caught")
        BY <1>6 DEF Finish
    <2>3. row' = [row EXCEPT ![d].status = "ACTIVE", ![d].due = "later"] => row'[d].due = "later"
        BY DEF TypeOK, Rows
    <2>4. \A k \in RunNumbers :
             run'[<<e, k>>] = "report" => run[<<e, k>>] = "report" \/ Due(e)'
        BY <2>2, <2>3 DEF Step, TypeOK, Runs, Due
    <2>5. QED BY <2>1, <2>4 DEF JobStep
<1>7. ASSUME NEW d \in Deployments, NEW n \in RunNumbers, Report(d, n) \/ Throw(d, n)
      PROVE  JobStep(e)
    <2>1. /\ UNCHANGED req
          /\ \E to \in {"off", "caught"} : run' = [run EXCEPT ![<<d, n>>] = to]
          /\ \/ job' = job
             \/ run[<<d, n>>] = "report" /\ job' = [job EXCEPT ![d] = "completed"]
             \/ \E to \in {"waiting", "failed"} : job' = [job EXCEPT ![d] = to]
        BY <1>7 DEF Report, Throw, FailAttempt, Step, client
    <2>2. QED BY <2>1 DEF JobStep, TypeOK
<1>8. CASE Cron \/ UNCHANGED vars
    BY <1>8 DEF Cron, CronStart, CronCharge, CronAdvance, CronTerminate, CronMarkDeleted, CronFrame,
                queue, client, vars, JobStep
<1>9. CASE Crash
    <2>1. /\ req'[e] = "queued" => req[e] = "queued"
          /\ job'[e] = IF job[e] = "active" THEN "stalled" ELSE job[e]
          /\ run' = [r \in Runs |-> "off"]
        BY <1>9 DEF Crash
    <2>2. QED BY <2>1 DEF JobStep
<1>10. QED BY <1>1, <1>2, <1>3, <1>4, <1>5, <1>6, <1>7, <1>8, <1>9, ByAction

LEMMA NextDue ==
    ASSUME TInv, ReportedWhenDue, [Next]_vars PROVE ReportedWhenDue'
<1> SUFFICES ASSUME NEW d \in Deployments
             PROVE  /\ row'[d].status = "ACTIVE" => Due(d)'
                    /\ job'[d] = "completed" => Due(d)'
                    /\ \A k \in RunNumbers : run'[<<d, k>>] = "report" => Due(d)'
                    /\ req'[d] = "queued" \/ InFlight(d)' => job'[d] # "none"
    BY DEF ReportedWhenDue
<1>1. JobStep(d)
    BY JobMoves
<1>2. InFlight(d)' => InFlight(d) \/ job[d] # "none"
    BY RunAppears
<1>3. /\ job[d] = "completed" => Due(d)'
      /\ \A k \in RunNumbers : run[<<d, k>>] = "report" => Due(d)'
    BY DueStays DEF ReportedWhenDue, InFlight
<1>4. row'[d].status = "ACTIVE" => Due(d)'
    <2>1. RowStep(d)
        BY RowWritten
    <2>2. QED BY <2>1 DEF RowStep, ReportedWhenDue, Due, Exists, NoRow, MonthPasses
<1>5. QED BY <1>1, <1>2, <1>3, <1>4 DEF JobStep, ReportedWhenDue
-----------------------------------------------------------------------------
LEMMA StreamStep ==
    ASSUME SInv, StreamTypeOK, [StreamNext]_<<vars, told>>
    PROVE  SInv' /\ StreamTypeOK'
<1> USE DEF SInv
<1>1. [Next]_vars
    BY DEF StreamNext, TellFailure, PollJob, PollRow, Leave, FollowLogs, EndLogs, LeaveLogs
<1>2. TInv' /\ ReportedWhenDue'
    BY <1>1, NextType, NextDue
<1>3. \A d \in Deployments : /\ job[d] # "none" => job'[d] # "none"
                             /\ job[d] # "none" /\ Due(d) => Due(d)'
    BY <1>1, JobMoves, DueStays DEF JobStep
<1>4. Next /\ CloseWithProcess => ToldWhenDue' /\ StreamTypeOK'
    <2> SUFFICES ASSUME Next, CloseWithProcess PROVE ToldWhenDue' /\ StreamTypeOK'
        OBVIOUS
    <2>1. /\ \A d \in Deployments : watch'[d] \in {watch[d], "closed"}
          /\ StreamTypeOK'
        BY DEF CloseWithProcess, told, StreamTypeOK
    <2>2. QED BY <1>2, <1>3, <2>1 DEF ToldWhenDue, JobStates
<1>5. ASSUME NEW d \in Deployments, TellFailure(d) \/ PollJob(d) \/ PollRow(d) \/ Leave(d)
      PROVE  ToldWhenDue' /\ StreamTypeOK'
    <2>1. UNCHANGED <<vars, logs>>
        BY <1>5 DEF TellFailure, PollJob, PollRow, Leave
    <2>2. PICK to \in {"open", "complete", "error", "closed"} \cup JobStates :
             /\ Watch(d, to)
             /\ to \in {"complete", "completed"} => Due(d)
             /\ to \in {"complete"} \cup JobStates => job[d] # "none"
        <3>1. CASE TellFailure(d) \/ Leave(d)
            BY <3>1 DEF TellFailure, Leave, JobStates
        <3>2. CASE PollJob(d)
            <4>1. Watch(d, job[d]) /\ job[d] \in JobStates /\ job[d] # "none"
                BY <3>2 DEF PollJob, ReportedWhenDue, TInv, TypeOK, JobStates
            <4>2. job[d] # "complete"
                BY DEF TInv, TypeOK
            <4>3. QED BY <4>1, <4>2 DEF ReportedWhenDue
        <3>3. CASE PollRow(d)
            <4>1. watch[d] \in JobStates /\ job[d] # "none"
                BY <3>3 DEF PollRow, ToldWhenDue
            <4>2. watch[d] = "completed" \/ row[d].status = "ACTIVE" => Due(d)
                BY DEF ToldWhenDue, ReportedWhenDue
            <4>3. \/ (watch[d] = "completed" \/ row[d].status = "ACTIVE") /\ Watch(d, "complete")
                  \/ Watch(d, "error") \/ Watch(d, "open")
                BY <3>3 DEF PollRow
            <4>4. QED BY <4>1, <4>2, <4>3 DEF JobStates
        <3>4. QED BY <1>5, <3>1, <3>2, <3>3
    <2>3. watch' = [watch EXCEPT ![d] = to]
        BY <2>2 DEF Watch
    <2>4. /\ \A e \in Deployments : e # d => watch'[e] = watch[e]
          /\ watch'[d] = to
          /\ StreamTypeOK'
        BY <2>1, <2>3 DEF StreamTypeOK
    <2>5. ToldWhenDue'
        BY <1>3, <2>1, <2>2, <2>4 DEF ToldWhenDue, Due, Exists, vars
    <2>6. QED BY <2>4, <2>5
<1>6. ASSUME NEW v \in Viewers, FollowLogs(v) \/ EndLogs(v) \/ LeaveLogs(v)
      PROVE  ToldWhenDue' /\ StreamTypeOK'
    <2>1. UNCHANGED <<vars, watch>>
        BY <1>6 DEF FollowLogs, EndLogs, LeaveLogs
    <2>2. \E from, to : Log(v, from, to) /\ to \in {"new", "left", "following", "forgotten", "ended", "closed"}
        BY <1>6 DEF FollowLogs, EndLogs, LeaveLogs
    <2>3. StreamTypeOK'
        BY <2>1, <2>2 DEF StreamTypeOK, Log
    <2>4. QED BY <2>1, <2>3 DEF ToldWhenDue, Due, Exists, vars
<1>7. UNCHANGED <<vars, told>> => ToldWhenDue' /\ StreamTypeOK'
    BY DEF ToldWhenDue, Due, Exists, vars, told, StreamTypeOK
<1>8. ToldWhenDue' /\ StreamTypeOK'
    <2>1. CASE StreamNext
        BY <1>4, <1>5, <1>6, <2>1 DEF StreamNext
    <2>2. QED BY <1>7, <2>1
<1>9. QED BY <1>2, <1>8

(* What streams have read, and their types, are invariants.               *)
THEOREM StreamInvariance == StreamSpec => [](SInv /\ StreamTypeOK)
<1>1. StreamInit => SInv /\ StreamTypeOK
    <2> SUFFICES ASSUME StreamInit PROVE SInv /\ StreamTypeOK
        OBVIOUS
    <2>1. TInv /\ ReportedWhenDue
        BY InitType, InitDue DEF StreamInit
    <2>2. StreamTypeOK /\ \A d \in Deployments : watch[d] \in {"open", "closed"}
        BY DEF StreamInit, StreamTypeOK
    <2>3. QED BY <2>1, <2>2 DEF SInv, ToldWhenDue, JobStates
<1>2. (SInv /\ StreamTypeOK) /\ [StreamNext]_<<vars, told>> => (SInv /\ StreamTypeOK)'
    BY StreamStep
<1>3. QED BY <1>1, <1>2, PTL DEF StreamSpec

(* "complete" is told of what was ACTIVE (streamDeployToKoyeb), for every  *)
(* order of its two reads, the job's runs, the teardowns and a restart.    *)
THEOREM ToldCompleteWhenItWas == StreamSpec => []CompleteIsTrue
<1>1. SInv => CompleteIsTrue
    BY DEF SInv, ToldWhenDue, CompleteIsTrue, Due
<1>2. QED BY <1>1, StreamInvariance, PTL

(* Type correctness of the streams, for any deployments and viewers.       *)
THEOREM StreamTypes == StreamSpec => []StreamTypeOK
<1>1. QED BY StreamInvariance, PTL
=============================================================================
