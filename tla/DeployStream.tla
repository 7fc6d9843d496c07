---------------------------- MODULE DeployStream ----------------------------
(***************************************************************************)
(* What a client is told of a deployment while the modules of Deployment   *)
(* work on it (src/src/deployment/services/deploy.service.ts): the stream  *)
(* of streamDeployToKoyeb, which polls the job and the row every two       *)
(* seconds; the one of streamDeploymentLogs, which lets the Koyeb client   *)
(* write its logs to it; and the answer of getDeploymentStatus.            *)
(*                                                                         *)
(* A poll that fails is a poll less, and one that is under way is not      *)
(* overtaken by the next (BOUND).                                          *)
(***************************************************************************)
EXTENDS Deployment

CONSTANTS
    Viewers, \* the requests for logs
    LogsOf,  \* the deployment each is about
    Views    \* who is there in a behaviour: the requests made as a stream, and the viewers

ASSUME StreamAssumption ==
    /\ Deployments \cap Viewers = {}
    /\ LogsOf \in [Viewers -> Deployments]
    /\ Views \subseteq SUBSET (Deployments \cup Viewers)

VARIABLES
    watch, \* where the stream of each request is, and the job's state a poll has read
    logs   \* where each request for logs is

told == <<watch, logs>>

JobStates == {"none", "waiting", "active", "stalled", "completed", "failed"}

StreamTypeOK ==
    /\ watch \in [Deployments -> {"open", "complete", "error", "closed"} \cup JobStates]
    /\ logs \in [Viewers -> {"new", "left", "following", "forgotten", "ended", "closed"}]

StreamInit ==
    /\ Init
    /\ \E there \in Views :
          /\ watch = [d \in Deployments |-> IF d \in there THEN "open" ELSE "closed"]
          /\ logs = [v \in Viewers |-> IF v \in there THEN "new" ELSE "closed"]

-----------------------------------------------------------------------------
Watch(d, state) == watch' = [watch EXCEPT ![d] = state]

(* A request that comes to nothing is told so, and its stream ends.        *)
TellFailure(d) ==
    /\ watch[d] = "open"
    /\ req[d] \in {"rejected", "lost", "refunded", "unrefunded"}
    /\ Watch(d, "error")
    /\ UNCHANGED <<vars, logs>>

(* A poll reads the job's state, *)
PollJob(d) ==
    /\ watch[d] = "open" /\ req[d] = "queued"
    /\ Watch(d, job[d])
    /\ UNCHANGED <<vars, logs>>

(* Variant: a row that is FAILED is taken for an attempt that has failed.  *)
PollRowPatiently(d) ==
    /\ watch[d] \in JobStates
    /\ Watch(d, IF row[d].status = "ACTIVE" THEN "complete" ELSE "open")
    /\ UNCHANGED <<vars, logs>>

(* Variant: a deployment counts as complete when nothing of it is queued.  *)
PollRowTrusting(d) ==
    /\ watch[d] \in JobStates
    /\ Watch(d, IF watch[d] # "waiting" /\ row[d].status # "FAILED" THEN "complete"
                ELSE IF row[d].status = "FAILED" THEN "error" ELSE "open")
    /\ UNCHANGED <<vars, logs>>

(* and then the row: either may say that it is over.                       *)
PollRow(d) ==
    LET seen == watch[d] IN
    /\ seen \in JobStates
    /\ Watch(d, CASE seen = "completed" \/ row[d].status = "ACTIVE" -> "complete"
                  [] ~(seen = "completed" \/ row[d].status = "ACTIVE")
                     /\ (seen = "failed" \/ row[d].status = "FAILED") -> "error"
                  [] OTHER -> "open")
    /\ UNCHANGED <<vars, logs>>

(* The listeners for a client that leaves are there once the job is queued; *)
(* before that its leaving changes nothing.                                *)
Leave(d) ==
    /\ watch[d] \in {"open"} \cup JobStates /\ req[d] = "queued"
    /\ Watch(d, "closed")
    /\ UNCHANGED <<vars, logs>>

-----------------------------------------------------------------------------
Log(v, from, to) == logs[v] = from /\ logs' = [logs EXCEPT ![v] = to]

(* A deployment that is there has a frontend with build and runtime logs.  *)
HasLogs(d) == Exists(d)

(* streamDeploymentLogs reads the row, starts the processes, and only then *)
(* listens for its client: those of one that has left go on.               *)
FollowLogs(v) ==
    /\ IF HasLogs(LogsOf[v]) THEN Log(v, "new", "following") \/ Log(v, "left", "forgotten")
                             ELSE Log(v, "new", "closed") \/ Log(v, "left", "closed")
    /\ UNCHANGED <<vars, watch>>

(* The processes end with the app they follow; the stream does not.        *)
EndLogs(v) ==
    /\ LogsOf[v] \notin apps
    /\ Log(v, "following", "ended") \/ Log(v, "forgotten", "closed")
    /\ UNCHANGED <<vars, watch>>

LeaveLogs(v) ==
    /\ Log(v, "new", "left") \/ Log(v, "following", "closed") \/ Log(v, "ended", "closed")
    /\ UNCHANGED <<vars, watch>>

(* With the process go its connections and the processes it started.       *)
CloseWithProcess ==
    IF crashed' # crashed
    THEN /\ watch' = [d \in Deployments |-> IF watch[d] \in {"complete", "error"}
                                            THEN watch[d] ELSE "closed"]
         /\ logs' = [v \in Viewers |-> "closed"]
    ELSE UNCHANGED told

StreamNext ==
    \/ Next /\ CloseWithProcess
    \/ \E d \in Deployments : TellFailure(d) \/ PollJob(d) \/ PollRow(d) \/ Leave(d)
    \/ \E v \in Viewers : FollowLogs(v) \/ EndLogs(v) \/ LeaveLogs(v)

StreamSpec == StreamInit /\ [][StreamNext]_<<vars, told>>

(* The timer goes on polling as long as its stream is open.                *)
FairStreamSpec ==
    /\ StreamSpec
    /\ Fairness
    /\ \A d \in Deployments : WF_<<vars, told>>(TellFailure(d) \/ PollJob(d) \/ PollRow(d))

-----------------------------------------------------------------------------
(* getDeploymentStatus: what is told of a row that is there.               *)
StatusAnswer(d) ==
    [isComplete |-> row[d].status \in {"ACTIVE", "FAILED", "DELETED"},
     hasError   |-> row[d].status = "FAILED"]

(* "complete" is only told of a deployment that was ACTIVE, whichever of   *)
(* the job's state and the row said so, and whatever was deleted, retried  *)
(* or restarted between the two reads (streamDeployToKoyeb).               *)
CompleteIsTrue ==
    \A d \in Deployments : watch[d] = "complete" => ~Exists(d) \/ row[d].due # "never"

(* Every stream of a request ends: it tells complete or error, or its      *)
(* client left, or its process died; none polls on for ever for a job that *)
(* has failed, is gone over by a restart, or whose row was deleted         *)
(* (streamDeployToKoyeb's poll and catch).                                 *)
StreamEnds ==
    \A d \in Deployments :
        (watch[d] = "open" /\ req[d] # "new") ~> watch[d] \in {"complete", "error", "closed"}

(* Whoever asks for the status of a deployment that is PROCESSING is told  *)
(* one day that it is complete, or not there, through failing attempts,    *)
(* stalled jobs and a restart, unless the request died with the process    *)
(* (getDeploymentStatus, setupQueueListeners).                             *)
StatusCompletes ==
    \A d \in Deployments :
        row[d].status = "PROCESSING"
            ~> (~Exists(d) \/ StatusAnswer(d).isComplete \/ req[d] = "abandoned")
=============================================================================
