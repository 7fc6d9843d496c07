----------------------------- MODULE ProjectRepos -----------------------------
(***************************************************************************)
(* The GitHub repositories of one project.  The owner pushes its code to a *)
(* repository of their own (src/src/github/services/github.service.ts);    *)
(* each deployment's job puts it into one of the deploy bot, under a name  *)
(* made of the user, the project and the app, and writes that to the       *)
(* deployment's row (deploy.service.ts 1074-1150); the deletion of a       *)
(* deployment or of the project removes what the rows name, as they were   *)
(* read at its beginning (deploy.service.ts 2358-2470, projects.service.ts *)
(* 347-465).  Beside that the owner clones repositories to the disk.       *)
(*                                                                         *)
(* GitHub is external: a name is taken or free, and the bot's token can    *)
(* delete the bot's repositories only.                                     *)
(***************************************************************************)
EXTENDS RequestSteps, Integers, FiniteSets, Functions

CONSTANTS
    Pushes,     \* pushToGithub requests ...
    RepoName,   \* ... and the repository each would create for the owner
    Deploys,    \* 1, 2, ..: the project's deployments, each replacing the last ...
    BotName,    \* ... and the repository name of each
    Undeploys,  \* deleteDeployment requests
    Clones,     \* cloneRepo requests, and deleteClonedRepo of the same clone
    Deletion,   \* the deleteProject request
    Link,       \* the OAuth callback, and later disconnectGithub
    RepoScenarios,  \* which requests are made and which faults occur together
    Tries       \* BOUND: on the attempts of a job (the queue's attempts)

RepoFaults == {
    "python",  \* the project's code cannot be had
    "github",  \* a call of GitHub, or git, fails
    "koyeb",   \* the job fails after it has pushed
    "db" }     \* a statement fails

RepoRequests == Pushes \cup Deploys \cup Undeploys \cup Clones \cup {Deletion, Link}

(* A name is one that a push or an attempt of a job makes. *)
None == <<>>
Own(p) == <<RepoName[p], 0, 0>>
PlainName(k) == <<BotName[k], 0, 0>>
OwnNames == {Own(p) : p \in Pushes}
JobNames(k) == {PlainName(k)} \cup {<<BotName[k], k, n>> : n \in 1 .. Tries}
Names == OwnNames \cup UNION {JobNames(k) : k \in Deploys}
Bots(name) == name # None /\ name[1] \in Range(BotName)

(* A request is of one kind; the owner's repositories are not the bot's. *)
ASSUME ReposAssumption ==
    /\ LET kinds == <<Pushes, Deploys, Undeploys, Clones, {Deletion}, {Link}>>
       IN  \A i, j \in 1 .. 6 : i # j => kinds[i] \cap kinds[j] = {}
    /\ Deploys \subseteq Nat \ {0}
    /\ DOMAIN RepoName = Pushes /\ DOMAIN BotName = Deploys
    /\ Range(RepoName) \cap Range(BotName) = {}
    /\ Clones \cap Names = {}
    /\ Tries \in Nat \ {0}
    /\ RepoScenarios \subseteq [requests : SUBSET RepoRequests, faults : SUBSET RepoFaults]

VARIABLES
    tries,       \* the attempts of each job
    connected,   \* whether the owner has a GitHub token
    hasProject,  \* whether the project's row is there
    projectUrl,  \* its githubRepoUrl
    row,         \* the deployment whose row the project has, 0 for none
    rowUrl,      \* its githubRepoUrl
    repos,       \* the repositories there are, and whose code is in each, 0 for nobody's
    hand,        \* the repositories each request works with
    disk,        \* cloned directories
    cloneRows,   \* and the rows that name them
    \* history variables, which no action reads
    left,        \* repositories and directories that somebody gave up
    disturbed    \* deployments with whose repository another request worked too

db == <<hasProject, projectUrl, row, rowUrl>>
github == <<repos, left, disturbed>>
clones == <<disk, cloneRows>>
reposVars == <<faults, req, tries, connected, db, github, hand, clones>>

ReposInit ==
    /\ \E scenario \in RepoScenarios :
          /\ faults = scenario.faults
          /\ req = [r \in RepoRequests |-> IF r \in scenario.requests THEN "new" ELSE "never"]
    /\ tries = [k \in Deploys |-> 0]
    /\ connected = (req[Link] = "never")
    /\ hasProject = TRUE /\ projectUrl = None
    /\ row = 0 /\ rowUrl = None
    /\ repos = <<>>
    /\ hand = [r \in RepoRequests |-> {}]
    /\ disk = {} /\ cloneRows = {}
    /\ left = {} /\ disturbed = {}

-----------------------------------------------------------------------------
Hold(r, names) == hand' = [hand EXCEPT ![r] = names \ {None}]

Taken(name) == name \in DOMAIN repos

Create(name) ==
    /\ repos' = [n \in DOMAIN repos \cup {name} |-> IF n = name THEN 0 ELSE repos[n]]
    /\ left' = left \ {name}

Push(name, r) == repos' = [repos EXCEPT ![name] = r]

Remove(names) == repos' = Restrict(repos, DOMAIN repos \ names)

Keep == UNCHANGED <<faults, clones>>

-----------------------------------------------------------------------------
(* The owner connects GitHub, and may disconnect it again. *)
Connect ==
    /\ Goto(Link, "new", "done")
    /\ connected' = TRUE
    /\ Keep /\ UNCHANGED <<tries, db, github, hand>>

Disconnect ==
    /\ Goto(Link, "done", "ended")
    /\ connected' = FALSE
    /\ Keep /\ UNCHANGED <<tries, db, github, hand>>

PushKeeps == Keep /\ UNCHANGED <<tries, connected, hasProject, row>>

(* pushToGithub reads the token and the project's URL. *)
StartPush(p) ==
    /\ p \in Pushes
    /\ Goto(p, "new", IF connected /\ hasProject THEN "exporting" ELSE "failed")
    /\ Hold(p, {projectUrl})
    /\ PushKeeps /\ UNCHANGED <<projectUrl, rowUrl, github>>

(* createZipFile and extractZipFile, before anything is changed. *)
ExportProject(p) ==
    /\ p \in Pushes
    /\ \/ Goto(p, "exporting", IF hand[p] = {} THEN "creating" ELSE "pushing")
       \/ May("python") /\ Goto(p, "exporting", "failed")
    /\ PushKeeps /\ UNCHANGED <<projectUrl, rowUrl, github, hand>>

(* A repository that exists already ends the request. *)
CreateOwnRepo(p) ==
    /\ p \in Pushes
    /\ \/ /\ ~Taken(Own(p))
          /\ Goto(p, "creating", "filling")
          /\ Hold(p, {Own(p)})
          /\ Create(Own(p))
       \/ /\ Taken(Own(p)) \/ May("github")
          /\ Goto(p, "creating", "failed")
          /\ UNCHANGED <<repos, left, hand>>
    /\ PushKeeps /\ UNCHANGED <<projectUrl, rowUrl, disturbed>>

(* Variant: a push that fails is only logged. *)
FillRepoOrGoOn(p, from, to) ==
    /\ \E name \in hand[p] :
          /\ Goto(p, from, to)
          /\ \/ Taken(name) /\ Push(name, p)
             \/ May("github") /\ UNCHANGED repos
    /\ PushKeeps /\ UNCHANGED <<projectUrl, rowUrl, hand, left, disturbed>>

(* initializeGitAndPush, by force: to the new repository, which is given   *)
(* up if that fails, or to the one the project had.                        *)
FillRepo(p, from, to) ==
    /\ \E name \in hand[p] :
          \/ Goto(p, from, to) /\ Taken(name) /\ Push(name, p) /\ UNCHANGED left
          \/ /\ May("github")
             /\ Goto(p, from, "failed")
             /\ left' = IF from = "filling" THEN left \cup {name} ELSE left
             /\ UNCHANGED repos
    /\ PushKeeps /\ UNCHANGED <<projectUrl, rowUrl, hand, disturbed>>

FillOwnRepo(p) == p \in Pushes /\ FillRepo(p, "filling", "filled")

(* pushToExistingRepo *)
PushAgain(p) == p \in Pushes /\ FillRepo(p, "pushing", "done")

(* The project is told of its repository, whatever it has been told since. *)
TellProject(p) ==
    /\ p \in Pushes
    /\ \/ /\ hasProject
          /\ Goto(p, "filled", "telling")
          /\ \E name \in hand[p] : projectUrl' = name /\ left' = left \cup ({projectUrl} \ {None, name})
       \/ /\ ~hasProject \/ May("db")
          /\ Goto(p, "filled", "failed")
          /\ left' = left \cup hand[p]
          /\ UNCHANGED projectUrl
    /\ PushKeeps /\ UNCHANGED <<rowUrl, repos, hand, disturbed>>

(* So is its deployment, if that named none when it was read. *)
ReadDeployment(p) ==
    /\ p \in Pushes
    /\ Goto(p, "telling", IF row # 0 /\ rowUrl = None THEN "sharing" ELSE "done")
    /\ PushKeeps /\ UNCHANGED <<projectUrl, rowUrl, github, hand>>

TellDeployment(p) ==
    /\ p \in Pushes
    /\ \/ /\ row # 0
          /\ Goto(p, "sharing", "done")
          /\ \E name \in hand[p] : rowUrl' = name
          /\ left' = left \cup ({rowUrl} \ {None})
          /\ disturbed' = IF rowUrl = None THEN disturbed ELSE disturbed \cup {row}
       \/ /\ row = 0 \/ May("db")
          /\ Goto(p, "sharing", "failed")
          /\ UNCHANGED <<rowUrl, left, disturbed>>
    /\ PushKeeps /\ UNCHANGED <<projectUrl, repos, hand>>

-----------------------------------------------------------------------------
(* Deployments. *)
Running(k) == req[k] \in {"queued", "exported", "replacing", "suffixing", "created", "stored"}
Deleting(r) == req[r] \in {"reading", "removing", "marking"}
Deleters == Undeploys \cup {Deletion}

(* A request replaces the project's deployment; the old one's repository   *)
(* is not looked at (deletePreviousDeployment).  A job of the same app, or *)
(* a deletion, that is under way works with the same name from now on.     *)
Deploy(k) ==
    /\ k \in Deploys
    /\ hasProject
    /\ \A j \in 1 .. k - 1 : req[j] # "new"
    /\ Goto(k, "new", "queued")
    /\ row' = k /\ rowUrl' = None
    /\ left' = left \cup ({rowUrl} \ {None})
    /\ disturbed' =
          LET rivals == {j \in Deploys : Running(j) /\ BotName[j] = BotName[k]}
          IN  disturbed \cup rivals
                 \cup IF rivals # {} \/ \E r \in Deleters : Deleting(r) /\ PlainName(k) \in hand[r]
                      THEN {k} ELSE {}
    /\ Keep /\ UNCHANGED <<tries, connected, hasProject, projectUrl, repos, hand>>

JobKeeps == Keep /\ UNCHANGED <<connected, hasProject, projectUrl, row, disturbed>>

(* An attempt begins with the project's code. *)
ExportApp(k) ==
    /\ k \in Deploys
    /\ tries' = [tries EXCEPT ![k] = @ + 1]
    /\ \/ Goto(k, "queued", "exported")
       \/ May("python") /\ Goto(k, "queued", "failed")
    /\ JobKeeps /\ UNCHANGED <<rowUrl, repos, hand, left>>

(* Variant: a name that is taken is avoided. *)
CreateBotRepoBeside(k) ==
    /\ k \in Deploys
    /\ \/ ~Taken(PlainName(k)) /\ Goto(k, "exported", "created") /\ Create(PlainName(k)) /\ Hold(k, {PlainName(k)})
       \/ Taken(PlainName(k)) /\ Goto(k, "exported", "suffixing") /\ UNCHANGED <<repos, left, hand>>
    /\ JobKeeps /\ UNCHANGED <<tries, rowUrl>>

(* The job creates its repository.  One of that name, from an earlier      *)
(* attempt or deployment, is deleted first; it stays if it cannot be.      *)
CreateBotRepo(k) ==
    /\ k \in Deploys
    /\ \/ /\ ~Taken(PlainName(k))
          /\ Goto(k, "exported", "created")
          /\ Create(PlainName(k))
          /\ Hold(k, {PlainName(k)})
       \/ /\ Taken(PlainName(k))
          /\ Goto(k, "exported", "replacing")
          /\ Remove({PlainName(k)})
          /\ UNCHANGED <<left, hand>>
       \/ /\ May("github")
          /\ Goto(k, "exported", IF Taken(PlainName(k)) THEN "suffixing" ELSE "failed")
          /\ left' = left \cup ({PlainName(k)} \cap DOMAIN repos)
          /\ UNCHANGED <<repos, hand>>
    /\ JobKeeps /\ UNCHANGED <<tries, rowUrl>>

(* Two seconds later it is created again, unless somebody else was faster. *)
RecreateBotRepo(k) ==
    /\ k \in Deploys
    /\ \/ /\ ~Taken(PlainName(k))
          /\ Goto(k, "replacing", "created")
          /\ Create(PlainName(k))
          /\ Hold(k, {PlainName(k)})
       \/ /\ Taken(PlainName(k)) \/ May("github")
          /\ Goto(k, "replacing", "suffixing")
          /\ UNCHANGED <<repos, left, hand>>
    /\ JobKeeps /\ UNCHANGED <<tries, rowUrl>>

(* Any failure of that leads to a name nobody else has. *)
CreateSuffixed(k) ==
    /\ k \in Deploys
    /\ LET name == <<BotName[k], k, tries[k]>>
       IN  \/ Goto(k, "suffixing", "created") /\ Create(name) /\ Hold(k, {name})
           \/ May("github") /\ Goto(k, "suffixing", "failed") /\ UNCHANGED <<repos, left, hand>>
    /\ JobKeeps /\ UNCHANGED <<tries, rowUrl>>

(* Variant: the row names the repository the job asked for first. *)
StoreBaseName(k) ==
    /\ k \in Deploys
    /\ row = k
    /\ Goto(k, "created", "stored")
    /\ rowUrl' = PlainName(k)
    /\ JobKeeps /\ UNCHANGED <<tries, repos, hand, left>>

(* The row is told, if it is still there.  A name with a suffix that an     *)
(* earlier attempt had is forgotten by that.                               *)
Suffixed(name) == name # None /\ name[2] # 0

StoreUrl(k) ==
    /\ k \in Deploys
    /\ \/ /\ row = k
          /\ Goto(k, "created", "stored")
          /\ \E name \in hand[k] : rowUrl' = name
          /\ left' = left \cup {name \in {rowUrl} : Suffixed(name)}
       \/ /\ row # k \/ May("db")
          /\ Goto(k, "created", "failed")
          /\ left' = left \cup hand[k]
          /\ UNCHANGED rowUrl
    /\ JobKeeps /\ UNCHANGED <<tries, repos, hand>>

(* git push, not by force: a repository with other code in it refuses.     *)
Accepts(name) == Taken(name) /\ repos[name] = 0

PushCode(k) ==
    /\ k \in Deploys
    /\ \E name \in hand[k] :
          \/ /\ Accepts(name)
             /\ Goto(k, "stored", "done")
             /\ Push(name, k)
          \/ /\ May("github") \/ ~Accepts(name)
             /\ Goto(k, "stored", "failed")
             /\ UNCHANGED repos
    /\ JobKeeps /\ UNCHANGED <<tries, rowUrl, hand, left>>

(* A job that failed is taken up again; its repository may be there.       *)
RetryJob(k) ==
    /\ k \in Deploys
    /\ tries[k] < Tries
    /\ \/ Goto(k, "failed", "queued")
       \/ May("koyeb") /\ Goto(k, "done", "queued")
    /\ disturbed' = disturbed \cup {j \in Deploys \ {k} :
                        BotName[j] = BotName[k] /\ req[j] \notin {"new", "never"}}
    /\ Keep /\ UNCHANGED <<tries, connected, db, repos, hand, left>>

-----------------------------------------------------------------------------
(* Deletions. *)
DeleterKeeps == Keep /\ UNCHANGED <<tries, connected>>

(* deleteDeployment reads the row. *)
FindDeployment(r) ==
    /\ r \in Undeploys
    /\ row # 0
    /\ Goto(r, "new", "removing")
    /\ Hold(r, {rowUrl})
    /\ disturbed' = disturbed \cup {row}
    /\ DeleterKeeps /\ UNCHANGED <<db, repos, left>>

(* What was read is deleted, as far as the bot may; a failure is logged.   *)
RemoveRepos(r) ==
    /\ r \in Deleters
    /\ Goto(r, "removing", "marking")
    /\ \E kept \in IF May("github") THEN SUBSET hand[r] ELSE {{}} :
          Remove({name \in hand[r] \ kept : Bots(name)})
    /\ DeleterKeeps /\ UNCHANGED <<db, hand, left, disturbed>>

(* The row is marked DELETED and keeps the URL, or it is gone and the      *)
(* request fails: it makes no difference to the repositories.              *)
MarkUndeployed(r) ==
    /\ r \in Undeploys
    /\ Goto(r, "marking", "done")
    /\ DeleterKeeps /\ UNCHANGED <<db, github, hand>>

(* deleteProject reads the project and then its deployment, and removes    *)
(* the project's own repository too if it is another one.                  *)
FindProject ==
    /\ hasProject
    /\ Goto(Deletion, "new", "reading")
    /\ Hold(Deletion, {projectUrl})
    /\ DeleterKeeps /\ UNCHANGED <<db, github>>

FindItsDeployment ==
    /\ Goto(Deletion, "reading", "removing")
    /\ Hold(Deletion, hand[Deletion] \cup {rowUrl})
    /\ disturbed' = disturbed \cup {row}
    /\ DeleterKeeps /\ UNCHANGED <<db, repos, left>>

(* The rows go, and with them what named the rest. *)
ForgetProject ==
    /\ \/ /\ Goto(Deletion, "marking", "done")
          /\ hasProject' = FALSE /\ row' = 0
          /\ projectUrl' = None /\ rowUrl' = None
          /\ left' = left \cup ({projectUrl, rowUrl} \ {None})
       \/ /\ May("db")
          /\ Goto(Deletion, "marking", "failed")
          /\ UNCHANGED <<db, left>>
    /\ DeleterKeeps /\ UNCHANGED <<repos, hand, disturbed>>

-----------------------------------------------------------------------------
(* Clones: the directory before the row, in both directions. *)
CloneKeeps == UNCHANGED <<faults, tries, connected, db, repos, hand, disturbed>>

CloneRepo(c) ==
    /\ c \in Clones
    /\ \/ connected /\ Goto(c, "new", "cloned") /\ disk' = disk \cup {c}
       \/ (~connected \/ May("github")) /\ Goto(c, "new", "failed") /\ UNCHANGED disk
    /\ CloneKeeps /\ UNCHANGED <<cloneRows, left>>

StoreClone(c) ==
    /\ c \in Clones
    /\ \/ Goto(c, "cloned", "kept") /\ cloneRows' = cloneRows \cup {c} /\ UNCHANGED left
       \/ /\ May("db")
          /\ Goto(c, "cloned", "failed")
          /\ left' = left \cup {c}
          /\ UNCHANGED cloneRows
    /\ CloneKeeps /\ UNCHANGED disk

(* deleteClonedRepo, which can be asked for again when the row stays.      *)
DeleteClone(c) ==
    /\ c \in Clones
    /\ Goto(c, "kept", "dropping")
    /\ disk' = disk \ {c}
    /\ CloneKeeps /\ UNCHANGED <<cloneRows, left>>

DropClone(c) ==
    /\ c \in Clones
    /\ \/ Goto(c, "dropping", "done") /\ cloneRows' = cloneRows \ {c}
       \/ May("db") /\ Goto(c, "dropping", "kept") /\ UNCHANGED cloneRows
    /\ CloneKeeps /\ UNCHANGED <<disk, left>>

ReposNext ==
    \/ Connect \/ Disconnect
    \/ \E p \in Pushes : StartPush(p) \/ ExportProject(p) \/ CreateOwnRepo(p) \/ FillOwnRepo(p)
                            \/ PushAgain(p) \/ TellProject(p) \/ ReadDeployment(p)
                            \/ TellDeployment(p)
    \/ \E k \in Deploys : Deploy(k) \/ ExportApp(k) \/ CreateBotRepo(k) \/ RecreateBotRepo(k)
                             \/ CreateSuffixed(k) \/ StoreUrl(k) \/ PushCode(k) \/ RetryJob(k)
    \/ \E r \in Undeploys : FindDeployment(r) \/ MarkUndeployed(r)
    \/ \E r \in Deleters : RemoveRepos(r)
    \/ FindProject \/ FindItsDeployment \/ ForgetProject
    \/ \E c \in Clones : CloneRepo(c) \/ StoreClone(c) \/ DeleteClone(c) \/ DropClone(c)

ReposSpec == ReposInit /\ [][ReposNext]_reposVars
-----------------------------------------------------------------------------
(* Properties. *)

(* What is held, told or given up is a name (or a cloned directory); code  *)
(* belongs to a push or a deployment and the row to one that has been      *)
(* asked for.                                                              *)
RepoSteps == {
    "never", "new", "failed", "done", "ended",
    "exporting", "creating", "filling", "pushing", "filled", "telling", "sharing",
    "queued", "exported", "replacing", "suffixing", "created", "stored",
    "reading", "removing", "marking",
    "cloned", "kept", "dropping" }

ReposTypeOK ==
    /\ faults \subseteq RepoFaults
    /\ req \in [RepoRequests -> RepoSteps]
    /\ tries \in [Deploys -> 0 .. Tries]
    /\ {connected, hasProject} \subseteq BOOLEAN
    /\ {projectUrl, rowUrl} \subseteq Names \cup {None}
    /\ row # 0 => row \in Deploys /\ req[row] \notin {"new", "never"}
    /\ DOMAIN repos \subseteq Names
    /\ repos \in [DOMAIN repos -> Pushes \cup Deploys \cup {0}]
    /\ hand \in [RepoRequests -> SUBSET Names]
    /\ disk \subseteq Clones /\ cloneRows \subseteq Clones
    /\ left \subseteq Names \cup Clones
    /\ disturbed \subseteq Deploys \cup {0}

(* A deployment whose job is through is built from its own code, in the    *)
(* repository its row names, unless another request has worked with that   *)
(* repository: a job of the same app that was still running or tried       *)
(* again, a push that gave the row its own, or a deletion                  *)
(* (deploy.service.ts 1074-1150).                                          *)
BuiltFromOwnCode ==
    \A k \in Deploys \ disturbed :
        row = k /\ req[k] = "done" => Taken(rowUrl) /\ repos[rowUrl] = k

(* Nothing is forgotten without a trace: a repository is named by the      *)
(* project or by its deployment, some request has it in hand, or it was    *)
(* given up at one of the places that do so: however often a job is tried  *)
(* it leaves no second repository of the plain name behind.  A cloned      *)
(* directory has its row.                                                  *)
InHand == UNION {hand[r] : r \in {q \in Pushes \cup Deploys :
                    req[q] \in {"filling", "filled", "created"}}}
Cloning == {c \in Clones : req[c] = "cloned"}

NothingForgotten ==
    /\ DOMAIN repos \subseteq {projectUrl, rowUrl} \cup InHand \cup left
    /\ disk \subseteq cloneRows \cup Cloning \cup left

(* The repository of a project that has been pushed to is there and holds  *)
(* the code of some push, never of a deployment: whatever becomes of the   *)
(* deployments that were told of it, the bot's token removes only its own. *)
ProjectHasItsCode ==
    projectUrl # None => Taken(projectUrl) /\ repos[projectUrl] \in Pushes
=============================================================================
