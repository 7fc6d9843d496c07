------------------------------- MODULE Showcase -------------------------------
(***************************************************************************)
(* The community showcase: the list of public, active deployments, which   *)
(* is kept in Redis for a day                                              *)
(* (src/src/community-showcase/services/community-showcase.service.ts),    *)
(* and what the deployments do to it (deploy.service.ts): each change of a *)
(* row that should be seen is followed by an invalidation, by another      *)
(* call, which may fail or come before somebody stores an older list.      *)
(* Listing writes too: a missing screenshot is taken and stored on the     *)
(* way, also when the owner lists their own deployments.  The status of a  *)
(* deployment's domain is written in the same manner, after a call of SaaS *)
(* Custom Domains.                                                         *)
(***************************************************************************)
EXTENDS RequestSteps, Integers, FiniteSets

CONSTANTS
    Deployments,
    Public,      \* those whose visibility is "pb"
    Listings,    \* getAllDeployedApps requests ...
    KeyOf,       \* ... and the cache key of each
    Owners,      \* getUserDeployments requests
    Deletes,     \* deleteDeployment requests ...
    Terminations,\* terminateDeploymentById, of the renewal billing or a project's deletion ...
    Verifies,    \* verifyCustomDomain requests ...
    TargetOf,    \* ... and the deployment of each
    Clears,      \* DELETE /community-showcase/cache requests
    ShowcaseScenarios  \* which requests are made and which faults occur together

ShowcaseFaults == {
    "progress",  \* Redis fails between the write of ACTIVE and the invalidation
    "redis",     \* a call of the cache fails
    "pagespeed", \* a screenshot cannot be taken
    "domain",    \* the domain cannot be attached
    "expiry",    \* a day passes
    "replaced",  \* a new deployment of the project takes the place of the row
    "crash" }    \* the process dies between a write and its invalidation

Keys == {"all", "landingpage"}
Readers == Listings \cup Owners
ShowcaseRequests == Deployments \cup Readers \cup Deletes \cup Terminations \cup Verifies \cup Clears

ASSUME ShowcaseAssumption ==
    /\ Public \subseteq Deployments
    /\ KeyOf \in [Listings -> Keys]
    /\ TargetOf \in [Deletes \cup Terminations \cup Verifies -> Deployments]
    /\ LET kinds == <<Deployments, Listings, Owners, Deletes, Terminations, Verifies, Clears>>
       IN  \A i, j \in 1 .. 7 : i # j => kinds[i] \cap kinds[j] = {}
    /\ ShowcaseScenarios \subseteq [requests : SUBSET ShowcaseRequests, faults : SUBSET ShowcaseFaults]

Nothing == {"nothing"}

VARIABLES
    status,   \* of each deployment's row, "gone" when there is none
    shot,     \* rows with a screenshot
    domain,   \* their domainStatus
    cache,    \* what is cached under each key
    answer,   \* the deployments each reader has read
    todo,     \* those among them it has yet to take a screenshot of
    \* history variables, which no action reads
    dated,    \* readers since whose read the public list has changed
    excused,  \* keys with a list older than a change that was not, or not soon enough, announced
    late      \* deployments that were deleted while somebody was working on their domain

shownRows == <<status, shot, domain>>
reading == <<answer, todo>>
showcaseVars == <<faults, req, shownRows, cache, reading, dated, excused, late>>

ShowcaseSteps == {"never", "new", "read", "attached", "pictured", "blank",
          "written", "clearing", "half", "done", "failed"}

ShowcaseTypeOK ==
    /\ faults \subseteq ShowcaseFaults
    /\ req \in [ShowcaseRequests -> ShowcaseSteps]
    /\ status \in [Deployments -> {"PROCESSING", "ACTIVE", "FAILED", "DELETED", "gone"}]
    /\ shot \subseteq Deployments
    /\ domain \in [Deployments -> {"null", "PENDING", "ACTIVE", "FAILED_DNS"}]
    /\ cache \in [Keys -> (SUBSET Public) \cup {Nothing}]
    /\ answer \in [Readers -> SUBSET Deployments]
    /\ todo \in [Readers -> SUBSET Deployments]
    /\ dated \subseteq Readers
    /\ excused \subseteq Keys
    /\ late \subseteq Deployments

ShowcaseInit ==
    /\ \E scenario \in ShowcaseScenarios :
          /\ faults = scenario.faults
          /\ req = [r \in ShowcaseRequests |-> IF r \in scenario.requests THEN "new" ELSE "never"]
    /\ status = [d \in Deployments |-> "PROCESSING"]
    /\ shot = {}
    /\ domain = [d \in Deployments |-> "null"]
    /\ cache = [k \in Keys |-> Nothing]
    /\ answer = [r \in Readers |-> {}]
    /\ todo = [r \in Readers |-> {}]
    /\ dated = {} /\ excused = {} /\ late = {}

-----------------------------------------------------------------------------
Exists(d) == status[d] # "gone"

Visible == {d \in Public : status[d] = "ACTIVE"}

(* A row changes.  Whoever has read the list already has an old one then,  *)
(* and so has the cache if nobody is going to say so.                      *)
Change(d, to, announced) ==
    /\ status' = [status EXCEPT ![d] = to]
    /\ IF d \in Public /\ "ACTIVE" \in {status[d], to} /\ status[d] # to
       THEN /\ dated' = dated \cup {r \in Readers : req[r] = "read"}
            /\ excused' = IF announced THEN excused ELSE Keys
       ELSE UNCHANGED <<dated, excused>>

-----------------------------------------------------------------------------
(* The cache. *)

(* invalidateCache: one key, then the other.  An error ends it, and is     *)
(* logged.                                                                 *)
ClearAll(w) ==
    /\ \/ /\ Goto(w, "clearing", "half")
          /\ cache' = [cache EXCEPT !["all"] = Nothing]
          /\ excused' = excused \ {"all"}
       \/ /\ May("redis")
          /\ Goto(w, "clearing", "done")
          /\ excused' = Keys
          /\ UNCHANGED cache
    /\ UNCHANGED <<faults, shownRows, reading, dated, late>>

ClearLandingpage(w) ==
    /\ \/ /\ Goto(w, "half", "done")
          /\ cache' = [cache EXCEPT !["landingpage"] = Nothing]
          /\ excused' = excused \ {"landingpage"}
       \/ /\ May("redis")
          /\ Goto(w, "half", "done")
          /\ excused' = excused \cup {"landingpage"}
          /\ UNCHANGED cache
    /\ UNCHANGED <<faults, shownRows, reading, dated, late>>

(* The endpoint that does only that. *)
StartClear(w) ==
    /\ w \in Clears
    /\ Goto(w, "new", "clearing")
    /\ UNCHANGED <<faults, shownRows, cache, reading, dated, excused, late>>

Expire(k) ==
    /\ May("expiry")
    /\ cache[k] # Nothing
    /\ cache' = [cache EXCEPT ![k] = Nothing]
    /\ excused' = excused \ {k}
    /\ UNCHANGED <<faults, req, shownRows, reading, dated, late>>

Crash(w) ==
    /\ May("crash")
    /\ req[w] \in {"clearing", "half"}
    /\ req' = [req EXCEPT ![w] = "done"]
    /\ excused' = Keys
    /\ UNCHANGED <<faults, shownRows, cache, reading, dated, late>>

-----------------------------------------------------------------------------
(* Listing. *)

Read(r, found) ==
    /\ answer' = [answer EXCEPT ![r] = found]
    /\ todo' = [todo EXCEPT ![r] = found \ shot]
    /\ dated' = dated \ {r}
    /\ UNCHANGED <<faults, shownRows, cache, excused, late>>

(* getAllDeployedApps: a cached list is the answer, unless it cannot be    *)
(* had; otherwise the rows are read.                                       *)
List(r) ==
    /\ r \in Listings
    /\ \/ /\ cache[KeyOf[r]] # Nothing
          /\ Goto(r, "new", "done")
          /\ UNCHANGED <<faults, shownRows, cache, reading, dated, excused, late>>
       \/ /\ \/ cache[KeyOf[r]] = Nothing
             \/ May("redis")
          /\ Goto(r, "new", "read")
          /\ Read(r, Visible)

(* getUserDeployments *)
ListOwn(r) ==
    /\ r \in Owners
    /\ Goto(r, "new", "read")
    /\ Read(r, {d \in Deployments : status[d] = "ACTIVE"})

(* captureAndStoreScreenshot tries three times. *)
Screenshot == IF May("pagespeed") THEN BOOLEAN ELSE {TRUE}

(* The row is told of a screenshot.  A row that has gone ends the whole *)
(* request.                                                                *)
Shoot(r, d) ==
    /\ req[r] = "read"
    /\ d \in todo[r]
    /\ todo' = [todo EXCEPT ![r] = @ \ {d}]
    /\ \E taken \in Screenshot :
          /\ shot' = IF taken /\ Exists(d) THEN shot \cup {d} ELSE shot
          /\ IF taken /\ ~Exists(d) THEN Goto(r, "read", "failed") ELSE UNCHANGED req
    /\ UNCHANGED <<faults, status, domain, cache, answer, dated, excused, late>>

(* The list is stored for a day, whatever has become of it meanwhile. *)
Store(r) ==
    /\ r \in Listings
    /\ todo[r] = {}
    /\ Goto(r, "read", "done")
    /\ \/ /\ cache' = [cache EXCEPT ![KeyOf[r]] = answer[r]]
          /\ excused' = IF r \in dated THEN excused \cup {KeyOf[r]} ELSE excused \ {KeyOf[r]}
       \/ May("redis") /\ UNCHANGED <<cache, excused>>
    /\ UNCHANGED <<faults, shownRows, reading, dated, late>>

AnswerOwn(r) ==
    /\ r \in Owners
    /\ todo[r] = {}
    /\ Goto(r, "read", "done")
    /\ UNCHANGED <<faults, shownRows, cache, reading, dated, excused, late>>

-----------------------------------------------------------------------------
(* Deployments. *)

(* The job attaches the domain, as far as SaaS Custom Domains and the row  *)
(* allow; it goes on in any case.                                          *)
AttachDomain(d) ==
    /\ d \in Deployments
    /\ Goto(d, "new", "attached")
    /\ \/ Exists(d) /\ domain' = [domain EXCEPT ![d] = "PENDING"]
       \/ (~Exists(d) \/ May("domain")) /\ UNCHANGED domain
    /\ UNCHANGED <<faults, status, shot, cache, reading, dated, excused, late>>

(* The job's own copy of captureAndStoreScreenshot. *)
Photograph(d) ==
    /\ d \in Deployments
    /\ \/ Goto(d, "attached", "pictured")
       \/ May("pagespeed") /\ Goto(d, "attached", "blank")
    /\ UNCHANGED <<faults, shownRows, cache, reading, dated, excused, late>>

(* Variant: the cache is cleared before the row is written. *)
ActivateAfterClear(d) ==
    /\ d \in Deployments
    /\ Exists(d)
    /\ cache' = [k \in Keys |-> Nothing]
    /\ Goto(d, "pictured", "done")
    /\ status' = [status EXCEPT ![d] = "ACTIVE"]
    /\ UNCHANGED <<faults, shot, domain, reading, dated, excused, late>>

(* The deployment becomes ACTIVE, even one that was deleted meanwhile, but *)
(* not one whose row is gone.  Its screenshot is written in any case.      *)
Activate(d) ==
    /\ d \in Deployments
    /\ req[d] \in {"pictured", "blank"}
    /\ req' = [req EXCEPT ![d] = IF Exists(d) THEN "written" ELSE "failed"]
    /\ IF Exists(d)
       THEN /\ Change(d, "ACTIVE", d \in Public)
            /\ shot' = IF req[d] = "pictured" THEN shot \cup {d} ELSE shot \ {d}
       ELSE UNCHANGED <<status, shot, dated, excused>>
    /\ UNCHANGED <<faults, domain, cache, reading, late>>

(* A public one is announced, unless Redis fails before: then the row is   *)
(* FAILED, and nobody says so.                                             *)
Announce(d) ==
    /\ d \in Deployments
    /\ \/ /\ Goto(d, "written", IF d \in Public THEN "clearing" ELSE "done")
          /\ UNCHANGED <<status, dated, excused>>
       \/ /\ May("progress")
          /\ Goto(d, "written", "failed")
          /\ IF Exists(d)
             THEN Change(d, "FAILED", FALSE)
             ELSE UNCHANGED <<status, dated, excused>>
    /\ UNCHANGED <<faults, shot, domain, cache, reading, late>>

(* deletePreviousDeployment drops the row and does not say so. *)
Replace(d) ==
    /\ May("replaced")
    /\ req[d] # "never"
    /\ Exists(d)
    /\ Change(d, "gone", FALSE)
    /\ UNCHANGED <<faults, req, shot, domain, cache, reading, late>>

(* deleteDeployment reads the row, tears everything down, and marks it;    *)
(* only a public one is announced.                                         *)
StartDelete(w) ==
    /\ w \in Deletes
    /\ Goto(w, "new", IF Exists(TargetOf[w]) THEN "read" ELSE "failed")
    /\ UNCHANGED <<faults, shownRows, cache, reading, dated, excused, late>>

(* Variant: the status of the domain is kept. *)
MarkDeletedOnly(w) ==
    /\ w \in Deletes
    /\ LET d == TargetOf[w]
       IN  /\ Exists(d)
           /\ Goto(w, "read", IF d \in Public THEN "clearing" ELSE "done")
           /\ Change(d, "DELETED", TRUE)
    /\ UNCHANGED <<faults, shot, domain, cache, reading, late>>

Working(d) == req[d] = "new" \/ \E v \in Verifies : TargetOf[v] = d /\ req[v] = "read"

MarkDeleted(w) ==
    /\ w \in Deletes
    /\ LET d == TargetOf[w]
       IN  IF Exists(d)
           THEN /\ Goto(w, "read", IF d \in Public THEN "clearing" ELSE "done")
                /\ Change(d, "DELETED", TRUE)
                /\ domain' = [domain EXCEPT ![d] = "null"]
                /\ late' = IF Working(d) THEN late \cup {d} ELSE late
           ELSE /\ Goto(w, "read", "failed")
                /\ UNCHANGED <<status, domain, dated, excused, late>>
    /\ UNCHANGED <<faults, shot, cache, reading>>

(* terminateDeploymentById leaves the domain and always announces. *)
Terminate(w) ==
    /\ w \in Terminations
    /\ Goto(w, "new", "clearing")
    /\ IF Exists(TargetOf[w])
       THEN Change(TargetOf[w], "DELETED", TRUE)
       ELSE UNCHANGED <<status, dated, excused>>
    /\ UNCHANGED <<faults, shot, domain, cache, reading, late>>

(* verifyCustomDomain needs a domain, asks for its DNS, and writes what it *)
(* is told to whatever the row is by then.                                 *)
StartVerify(v) ==
    /\ v \in Verifies
    /\ Goto(v, "new", IF Exists(TargetOf[v]) /\ domain[TargetOf[v]] # "null" THEN "read" ELSE "failed")
    /\ UNCHANGED <<faults, shownRows, cache, reading, dated, excused, late>>

RecordVerify(v) ==
    /\ v \in Verifies
    /\ \/ /\ Exists(TargetOf[v])
          /\ Goto(v, "read", "done")
          /\ \E dns \in {"PENDING", "ACTIVE", "FAILED_DNS"} : domain' = [domain EXCEPT ![TargetOf[v]] = dns]
       \/ /\ ~Exists(TargetOf[v]) \/ May("domain")
          /\ Goto(v, "read", "failed")
          /\ UNCHANGED domain
    /\ UNCHANGED <<faults, status, shot, cache, reading, dated, excused, late>>

ShowcaseNext ==
    \/ \E w \in ShowcaseRequests : ClearAll(w) \/ ClearLandingpage(w) \/ Crash(w)
    \/ \E w \in Clears : StartClear(w)
    \/ \E k \in Keys : Expire(k)
    \/ \E r \in Listings : List(r) \/ Store(r)
    \/ \E r \in Owners : ListOwn(r) \/ AnswerOwn(r)
    \/ \E r \in Readers, d \in Deployments : Shoot(r, d)
    \/ \E d \in Deployments : AttachDomain(d) \/ Photograph(d) \/ Activate(d) \/ Announce(d)
                                  \/ Replace(d)
    \/ \E w \in Deletes : StartDelete(w) \/ MarkDeleted(w)
    \/ \E w \in Terminations : Terminate(w)
    \/ \E v \in Verifies : StartVerify(v) \/ RecordVerify(v)

ShowcaseSpec == ShowcaseInit /\ [][ShowcaseNext]_showcaseVars
-----------------------------------------------------------------------------
(* Properties. *)

(* A list that is answered from the cache is the list of public and active *)
(* deployments, unless an invalidation is on its way; or it was read       *)
(* before a change and stored after it; or the change was one that nobody  *)
(* announces, or whose announcement failed                                 *)
(* (community-showcase.service.ts 60-95 and 366-387).                      *)
Announced(k) ==
    \/ \E d \in Public : req[d] = "written"
    \/ \E w \in ShowcaseRequests : req[w] = "clearing"
    \/ k = "landingpage" /\ \E w \in ShowcaseRequests : req[w] = "half"

CachedIsTrue ==
    \A k \in Keys \ excused : cache[k] \in {Nothing, Visible} \/ Announced(k)

(* A deployment that its owner deleted has no domain status left, unless a *)
(* verification or the job was at work on the domain when it was deleted   *)
(* (deploy.service.ts 2441-2452 and 2553).                                 *)
DeletedHasNoDomain ==
    \A w \in Deletes :
        LET d == TargetOf[w]
        IN  req[w] \in {"clearing", "half", "done"} /\ d \notin late => domain[d] = "null"
=============================================================================
