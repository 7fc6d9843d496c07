---------------------------- MODULE ProjectAssets ----------------------------
(***************************************************************************)
(* The files a project and its owner have in S3                            *)
(* (src/src/projects/services/assets.service.ts, generation.service.ts).   *)
(* Documents and images that are uploaded are listed in the project's      *)
(* metadata, one JSON value that every writer reads, changes and writes    *)
(* back whole; a generated image is named by the row of its generation.    *)
(* Between the read and the write, and between a file and the row that     *)
(* names it, there is always somebody else to wait for.                    *)
(*                                                                         *)
(* S3 and the Python service are external; each call of them is part of    *)
(* the step of the code that makes it.                                     *)
(***************************************************************************)
EXTENDS RequestSteps, Integers, FiniteSets

CONSTANTS
    Uploads,     \* documents and images of the project, each uploaded once
    Batch,       \* those that come in one batch
    Removals,    \* deleteAsset requests ...
    Target,      \* ... and what each removes
    Resumes,     \* resumeProject requests
    Images,      \* generations of the owner
    Results,     \* what completes them: the waiting request or fal.ai's webhook ...
    ImageOf,     \* ... and which generation each completes
    Purges,      \* deleteAllUserAssets requests
    Plain,       \* files whose key is the same after a way through a URL
    Scenarios    \* which requests are made and which faults occur together

FaultKinds == {
    "s3",      \* a call of S3 fails
    "python",  \* the Python service refuses a call
    "db",      \* a statement fails
    "delete" } \* the owner deletes the project

Requests == Uploads \cup Removals \cup Resumes \cup Results \cup Purges

ASSUME AssetsAssumption ==
    /\ Batch \subseteq Uploads
    /\ LET kinds == <<Uploads, Removals, Resumes, Results, Purges>> IN
       \A i, j \in 1 .. 5 : i # j => kinds[i] \cap kinds[j] = {}
    /\ Target \in [Removals -> Uploads]
    /\ ImageOf \in [Results -> Images]
    /\ Plain \subseteq Uploads \cup Results
    /\ "none" \notin Results
    /\ Scenarios \subseteq [requests : SUBSET Requests, faults : SUBSET FaultKinds]

VARIABLES
    project,  \* whether the project's row is there
    metadata, \* the uploads its metadata lists
    seen,     \* the uploads, or the files of images, that a request has read of
    files,    \* the files in S3, each named after the request that put it
    image,    \* the status of each image's row
    url,      \* whose file the row names
    \* history variables, which no action reads
    behind,   \* requests whose read of the metadata is out of date
    raced     \* the metadata was written from such a read

list == <<project, metadata, behind, raced>>
rows == <<image, url>>
vars == <<faults, req, list, seen, files, rows>>

Steps == {"never", "new", "stored", "processed", "read", "written", "done", "failed"}

TypeOK ==
    /\ faults \subseteq FaultKinds
    /\ req \in [Requests -> Steps]
    /\ project \in BOOLEAN
    /\ metadata \subseteq Uploads
    /\ seen \in [Requests -> SUBSET (Uploads \cup Results)]
    /\ files \subseteq Uploads \cup Results
    /\ image \in [Images -> {"PROCESSING", "COMPLETED", "gone"}]
    /\ url \in [Images -> Results \cup {"none"}]
    /\ behind \subseteq Requests
    /\ raced \in BOOLEAN

Init ==
    /\ \E scenario \in Scenarios :
          /\ faults = scenario.faults
          /\ req = [r \in Requests |-> IF r \in scenario.requests THEN "new" ELSE "never"]
    /\ project = TRUE
    /\ metadata = {} /\ files = {}
    /\ seen = [r \in Requests |-> {}]
    /\ image = [i \in Images |-> "PROCESSING"]
    /\ url = [i \in Images |-> "none"]
    /\ behind = {} /\ raced = FALSE

-----------------------------------------------------------------------------
GotoAll(from, to) ==
    /\ Batch # {}
    /\ \A u \in Batch : req[u] = from
    /\ req' = [r \in Requests |-> IF r \in Batch THEN to[r] ELSE req[r]]

(* The key of a file that is deleted comes out of its URL; a file whose    *)
(* name the URL encodes keeps its file, and S3 does not mind.              *)
KeysOf(urls) == urls \cap Plain

Put(new) == files' = files \cup new

Delete(urls) == files' = files \ KeysOf(urls)

(* Of one file the Python service makes something, or the call fails; of   *)
(* a batch it says what it made something of, and it may be nothing.       *)
Refused == May("python")

Accepted == IF May("python") THEN SUBSET Batch ELSE {Batch}

-----------------------------------------------------------------------------
(* Uploads: the file first, then the Python service, then the metadata. *)

PutFile(u) ==
    /\ u \in Uploads \ Batch
    /\ \/ Goto(u, "new", "stored") /\ Put({u})
       \/ May("s3") /\ Goto(u, "new", "failed") /\ UNCHANGED files
    /\ UNCHANGED <<faults, list, seen, rows>>

(* A batch is put in parallel, and one failure fails it. *)
PutBatch ==
    /\ \/ GotoAll("new", [u \in Batch |-> "stored"]) /\ Put(Batch)
       \/ /\ May("s3")
          /\ GotoAll("new", [u \in Batch |-> "failed"])
          /\ \E put \in SUBSET Batch \ {Batch} : Put(put)
    /\ UNCHANGED <<faults, list, seen, rows>>

Process(u) ==
    /\ u \in Uploads \ Batch
    /\ \/ Goto(u, "stored", "processed")
       \/ Refused /\ Goto(u, "stored", "failed")
    /\ UNCHANGED <<faults, list, seen, files, rows>>

(* Some documents of a batch may be refused and the others go on. *)
ProcessBatch ==
    /\ \E good \in Accepted :
          GotoAll("stored", [u \in Batch |-> IF u \in good THEN "processed" ELSE "failed"])
    /\ UNCHANGED <<faults, list, seen, files, rows>>

(* The project's row is read, or the request fails. *)
ReadRow(r, from, found) ==
    /\ \/ /\ project /\ found
          /\ Goto(r, from, "read")
          /\ seen' = [seen EXCEPT ![r] = metadata]
       \/ /\ ~project \/ ~found \/ May("db")
          /\ Goto(r, from, "failed")
          /\ UNCHANGED seen
    /\ UNCHANGED <<faults, list, files, rows>>

(* The metadata is replaced by what r makes of its read. *)
WriteRow(r, content, to) ==
    /\ \/ /\ project
          /\ Goto(r, "read", to)
          /\ metadata' = content
          /\ raced' = (raced \/ r \in behind)
          /\ behind' = behind \cup {q \in Requests \ {r} : req[q] = "read"}
       \/ /\ ~project \/ May("db")
          /\ Goto(r, "read", "failed")
          /\ UNCHANGED <<metadata, raced, behind>>
    /\ UNCHANGED <<faults, project, seen, files, rows>>

(* Each document of a batch is added by a read and a write of its own. *)
ReadForUpload(u) == u \in Uploads /\ ReadRow(u, "processed", TRUE)

AddAsset(u) == u \in Uploads /\ WriteRow(u, seen[u] \cup {u}, "done")

-----------------------------------------------------------------------------
(* deleteAsset: the metadata first, then the file, whose loss is logged. *)
FindAsset(r) == r \in Removals /\ ReadRow(r, "new", Target[r] \in metadata)

(* Variant: the file goes even if the metadata could not be written. *)
DropAssetOrGoOn(r) ==
    /\ r \in Removals
    /\ \/ WriteRow(r, seen[r] \ {Target[r]}, "written")
       \/ /\ May("db")
          /\ Goto(r, "read", "written")
          /\ UNCHANGED <<faults, list, seen, files, rows>>

DropAsset(r) == r \in Removals /\ WriteRow(r, seen[r] \ {Target[r]}, "written")

DeleteFile(r) ==
    /\ r \in Removals
    /\ Goto(r, "written", "done")
    /\ \/ Delete({Target[r]})
       \/ May("s3") /\ UNCHANGED files
    /\ UNCHANGED <<faults, list, seen, rows>>

(* resumeProject writes the metadata it read before it woke the sandbox. *)
ReadForResume(r) == r \in Resumes /\ ReadRow(r, "new", TRUE)

(* Variant: only the sandbox's URLs are kept. *)
WriteUrlsOnly(r) == r \in Resumes /\ WriteRow(r, {}, "done")

WriteResumed(r) == r \in Resumes /\ WriteRow(r, seen[r], "done")

RefuseResume(r) ==
    /\ r \in Resumes
    /\ May("python")
    /\ Goto(r, "read", "failed")
    /\ UNCHANGED <<faults, list, seen, files, rows>>

(* deleteProject, as far as it matters here: no asset's row names a        *)
(* project, so that none is found, and the files of the metadata stay.     *)
DeleteProject ==
    /\ May("delete")
    /\ project
    /\ project' = FALSE
    /\ UNCHANGED <<faults, req, metadata, behind, raced, seen, files, rows>>

-----------------------------------------------------------------------------
(* A generated image is copied to S3, and the first to say so completes    *)
(* its row.                                                                *)
CopyImage(c) ==
    /\ c \in Results
    /\ \/ Goto(c, "new", "stored") /\ Put({c})
       \/ May("s3") /\ Goto(c, "new", "failed") /\ UNCHANGED files
    /\ UNCHANGED <<faults, list, seen, rows>>

CompleteImage(c) ==
    /\ c \in Results
    /\ Goto(c, "stored", "done")
    /\ IF image[ImageOf[c]] = "PROCESSING"
       THEN /\ image' = [image EXCEPT ![ImageOf[c]] = "COMPLETED"]
            /\ url' = [url EXCEPT ![ImageOf[c]] = c]
       ELSE UNCHANGED rows
    /\ UNCHANGED <<faults, list, seen, files>>

(* deleteAllUserAssets: the images with a file are looked up, the files    *)
(* are deleted, and then the rows of all generations, whatever these have  *)
(* become meanwhile.                                                       *)
FindImages(p) ==
    /\ p \in Purges
    /\ Goto(p, "new", "read")
    /\ seen' = [seen EXCEPT ![p] = {url[i] : i \in {j \in Images : image[j] = "COMPLETED"}}]
    /\ UNCHANGED <<faults, list, files, rows>>

DeleteImages(p) ==
    /\ p \in Purges
    /\ Goto(p, "read", "written")
    /\ \E kept \in IF May("s3") THEN SUBSET seen[p] ELSE {{}} : Delete(seen[p] \ kept)
    /\ UNCHANGED <<faults, list, seen, rows>>

DeleteRows(p) ==
    /\ p \in Purges
    /\ \/ /\ Goto(p, "written", "done")
          /\ image' = [i \in Images |-> "gone"]
       \/ /\ May("db")
          /\ Goto(p, "written", "failed")
          /\ UNCHANGED image
    /\ UNCHANGED <<faults, list, seen, files, url>>

Next ==
    \/ PutBatch \/ ProcessBatch \/ DeleteProject
    \/ \E u \in Uploads : PutFile(u) \/ Process(u) \/ ReadForUpload(u) \/ AddAsset(u)
    \/ \E r \in Removals : FindAsset(r) \/ DropAsset(r) \/ DeleteFile(r)
    \/ \E r \in Resumes : ReadForResume(r) \/ WriteResumed(r) \/ RefuseResume(r)
    \/ \E c \in Results : CopyImage(c) \/ CompleteImage(c)
    \/ \E p \in Purges : FindImages(p) \/ DeleteImages(p) \/ DeleteRows(p)

Spec == Init /\ [][Next]_vars
-----------------------------------------------------------------------------
(* Properties. *)

(* The metadata lists what was uploaded and not removed, no more and no    *)
(* less, unless some request wrote it back from a read that another had    *)
(* overtaken (assets.service.ts 780-833, projects.service.ts 259-266).     *)
Added == {u \in Uploads : req[u] = "done"}
Removed == {Target[r] : r \in {q \in Removals : req[q] \in {"written", "done"}}}

MetadataIsExact == raced \/ metadata = Added \ Removed

(* What is shown to the owner can be opened: a listed asset has its file,  *)
(* also while it is being removed and when the removal fails half way,     *)
(* unless an outdated write has listed it again; the row of an image names *)
(* a file unless a purge had begun with it and is not finished or failed.  *)
Purging(c) == \E p \in Purges : c \in seen[p] /\ req[p] \in {"written", "failed"}

ShownHasFile ==
    /\ raced \/ metadata \subseteq files
    /\ \A i \in Images : image[i] = "COMPLETED" => url[i] \in files \/ Purging(url[i])
=============================================================================
