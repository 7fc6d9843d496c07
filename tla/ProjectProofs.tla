---------------------------- MODULE ProjectProofs -----------------------------
(***************************************************************************)
(* What is kept of a project: its assets (ProjectAssets), the public list  *)
(* of deployed projects it may be in (Showcase) and its repositories       *)
(* (ProjectRepos), for any requests and every combination of faults.       *)
(*                                                                         *)
(* The assets, for any uploads, batches, removals, resumes, generations    *)
(* and purges: the metadata is exact and what is shown has its file, but   *)
(* for the excuses the properties name.  A read of the metadata is what    *)
(* the metadata is, or it is out of date.  What is removed was added, so   *)
(* an upload that is still to be added was not removed; and a purge        *)
(* deletes only files of generations that are completed, never one whose   *)
(* row is still to name it.                                                *)
(*                                                                         *)
(* The list: what is cached and not excused is right, or whoever made it   *)
(* wrong is still to clear it; and who still works on a domain of a        *)
(* deleted deployment was working on it before.                            *)
(*                                                                         *)
(* The repositories: names do not cross, so what a push filled stays; what *)
(* a row stops naming is given up at that place or in the hand of the      *)
(* request that goes on; and a deployment nobody disturbed is alone with   *)
(* the names its job makes.                                                *)
(***************************************************************************)
EXTENDS ProjectAssets, Showcase, ProjectRepos, TLAPS

(* A request is of one kind. *)
LEMMA Kinds ==
    /\ Uploads \cap Removals = {} /\ Uploads \cap Resumes = {} /\ Uploads \cap Results = {}
    /\ Uploads \cap Purges = {} /\ Removals \cap Resumes = {} /\ Removals \cap Results = {}
    /\ Removals \cap Purges = {} /\ Resumes \cap Results = {} /\ Resumes \cap Purges = {}
    /\ Results \cap Purges = {}
<1> DEFINE kinds == <<Uploads, Removals, Resumes, Results, Purges>>
<1>1. \A i, j \in 1 .. 5 : i # j => kinds[i] \cap kinds[j] = {}
    BY AssetsAssumption
<1>2. /\ kinds[1] = Uploads /\ kinds[2] = Removals /\ kinds[3] = Resumes
      /\ kinds[4] = Results /\ kinds[5] = Purges
    OBVIOUS
<1> HIDE DEF kinds
<1>3. /\ kinds[1] \cap kinds[2] = {} /\ kinds[1] \cap kinds[3] = {} /\ kinds[1] \cap kinds[4] = {}
      /\ kinds[1] \cap kinds[5] = {} /\ kinds[2] \cap kinds[3] = {} /\ kinds[2] \cap kinds[4] = {}
      /\ kinds[2] \cap kinds[5] = {} /\ kinds[3] \cap kinds[4] = {} /\ kinds[3] \cap kinds[5] = {}
      /\ kinds[4] \cap kinds[5] = {}
    BY <1>1
<1>4. QED
    BY <1>2, <1>3

(* What the requests name. *)
LEMMA Named ==
    /\ Batch \subseteq Uploads
    /\ \A r \in Removals : Target[r] \in Uploads
    /\ \A c \in Results : ImageOf[c] \in Images
    BY AssetsAssumption

-----------------------------------------------------------------------------
(* Types.  An image that is completed names the file of one of its         *)
(* results, and so does all that a purge has read.                         *)

CompletedOK ==
    \A i \in Images : image[i] = "COMPLETED" => url[i] \in Results /\ req[url[i]] = "done"

PurgesOK == \A p \in Purges : \A c \in seen[p] : c \in Results /\ req[c] = "done"

(* Who writes the metadata has read uploads. *)
Writers == Uploads \cup Removals \cup Resumes

WritersOK == \A r \in Writers : seen[r] \subseteq Uploads

TInv == TypeOK /\ CompletedOK /\ PurgesOK /\ WritersOK

(* One request goes on, and may have read something. *)
Moves(r) ==
    /\ req' \in [Requests -> Steps]
    /\ seen' \in [Requests -> SUBSET (Uploads \cup Results)]
    /\ \A q \in Requests \ {r} : req'[q] = req[q] /\ seen'[q] = seen[q]

LEMMA GoesOn ==
    ASSUME TypeOK, NEW r \in Requests, NEW from, NEW to, Goto(r, from, to), to \in Steps
    PROVE  /\ req' \in [Requests -> Steps]
           /\ req[r] = from /\ req'[r] = to
           /\ \A q \in Requests \ {r} : req'[q] = req[q]
    BY DEF Goto, TypeOK

(* The batch goes on together, the others stay. *)
BatchMoves ==
    /\ req' \in [Requests -> Steps]
    /\ \A q \in Requests \ Batch : req'[q] = req[q]

(* What a read of the row does ... *)
LEMMA ReadDoes ==
    ASSUME TypeOK, NEW r \in Requests, NEW from, NEW found, ReadRow(r, from, found)
    PROVE  /\ Moves(r)
           /\ req[r] = from
           /\ \/ project /\ found /\ req'[r] = "read" /\ seen'[r] = metadata
              \/ req'[r] = "failed" /\ seen'[r] = seen[r]
           /\ UNCHANGED <<faults, list, files, rows>>
<1>1. UNCHANGED <<faults, list, files, rows>>
    BY DEF ReadRow
<1>2. CASE project /\ found /\ Goto(r, from, "read") /\ seen' = [seen EXCEPT ![r] = metadata]
    BY <1>1, <1>2, GoesOn DEF Moves, Steps, TypeOK
<1>3. CASE Goto(r, from, "failed") /\ UNCHANGED seen
    BY <1>1, <1>3, GoesOn DEF Moves, Steps, TypeOK
<1>4. QED
    BY <1>2, <1>3 DEF ReadRow

(* ... and a write. *)
LEMMA WriteDoes ==
    ASSUME TypeOK, NEW r \in Requests, NEW content, NEW to \in Steps, WriteRow(r, content, to)
    PROVE  /\ Moves(r) /\ seen' = seen
           /\ req[r] = "read"
           /\ \/ /\ req'[r] = to
                 /\ metadata' = content
                 /\ raced' = (raced \/ r \in behind)
                 /\ behind' = behind \cup {q \in Requests \ {r} : req[q] = "read"}
              \/ req'[r] = "failed" /\ UNCHANGED <<metadata, raced, behind>>
           /\ UNCHANGED <<faults, project, files, rows>>
<1>1. seen' = seen /\ UNCHANGED <<faults, project, files, rows>>
    BY DEF WriteRow
<1>2. CASE /\ Goto(r, "read", to)
           /\ metadata' = content
           /\ raced' = (raced \/ r \in behind)
           /\ behind' = behind \cup {q \in Requests \ {r} : req[q] = "read"}
    BY <1>1, <1>2, GoesOn DEF Moves, TypeOK
<1>3. CASE Goto(r, "read", "failed") /\ UNCHANGED <<metadata, raced, behind>>
    BY <1>1, <1>3, GoesOn DEF Moves, Steps, TypeOK
<1>4. QED
    BY <1>2, <1>3 DEF WriteRow

(* The actions by what they are about. *)
Reads(r) == ReadForUpload(r) \/ FindAsset(r) \/ ReadForResume(r)
Writes(r) == AddAsset(r) \/ DropAsset(r) \/ WriteResumed(r)
Uploading(u) == u \in Uploads \ Batch /\ (PutFile(u) \/ Process(u))
Batching == PutBatch \/ ProcessBatch
Completing(c) == CopyImage(c) \/ CompleteImage(c)
Purge(p) == FindImages(p) \/ DeleteImages(p) \/ DeleteRows(p)

LEMMA NextParts ==
    ASSUME [Next]_vars
    PROVE  \/ \E r \in Writers : Reads(r) \/ Writes(r)
           \/ \E u \in Uploads : Uploading(u)
           \/ Batching \/ DeleteProject
           \/ \E r \in Removals : DeleteFile(r)
           \/ \E r \in Resumes : RefuseResume(r)
           \/ \E c \in Results : Completing(c)
           \/ \E p \in Purges : Purge(p)
           \/ UNCHANGED vars
    BY DEF Next, Writers, Reads, Writes, Uploading, Batching, Completing, Purge, PutFile, Process

(* Whoever is about the metadata does this to the requests. *)
LEMMA WriterMoves ==
    ASSUME TypeOK, NEW r \in Writers,
           Reads(r) \/ Writes(r) \/ Uploading(r)
              \/ (r \in Removals /\ DeleteFile(r)) \/ (r \in Resumes /\ RefuseResume(r))
    PROVE  Moves(r) /\ UNCHANGED <<faults, project, rows>> /\ r \in Requests
<1>0. r \in Requests
    BY DEF Writers, Requests
<1>1. CASE Reads(r)
    BY <1>0, <1>1, ReadDoes DEF Reads, ReadForUpload, FindAsset, ReadForResume, list
<1>2. CASE Writes(r)
    BY <1>0, <1>2, WriteDoes DEF Writes, AddAsset, DropAsset, WriteResumed, Steps
<1>3. CASE Uploading(r)
    BY <1>0, <1>3, GoesOn DEF Uploading, PutFile, Process, Moves, Steps, TypeOK, list
<1>4. CASE r \in Removals /\ DeleteFile(r)
    BY <1>0, <1>4, GoesOn DEF DeleteFile, Moves, Steps, TypeOK, list
<1>5. CASE r \in Resumes /\ RefuseResume(r)
    BY <1>0, <1>5, GoesOn DEF RefuseResume, Moves, Steps, TypeOK, list
<1>6. QED
    BY <1>0, <1>1, <1>2, <1>3, <1>4, <1>5

LEMMA WriterList ==
    ASSUME TInv, NEW r \in Writers,
           Reads(r) \/ Writes(r) \/ Uploading(r)
              \/ (r \in Removals /\ DeleteFile(r)) \/ (r \in Resumes /\ RefuseResume(r))
    PROVE  /\ metadata' \subseteq Uploads /\ behind' \subseteq Requests /\ raced' \in BOOLEAN
           /\ files' \subseteq Uploads \cup Results
           /\ seen'[r] \subseteq Uploads
<1> USE DEF TInv
<1>0. r \in Requests /\ seen[r] \subseteq Uploads
    BY DEF Writers, Requests, WritersOK
<1>1. CASE Reads(r)
    BY <1>0, <1>1, ReadDoes DEF Reads, ReadForUpload, FindAsset, ReadForResume, list, TypeOK
<1>2. CASE Writes(r)
    <2>1. PICK content \in SUBSET Uploads, to \in Steps : WriteRow(r, content, to)
        BY <1>0, <1>2, Named DEF Writes, AddAsset, DropAsset, WriteResumed, Steps
    <2>2. /\ seen' = seen /\ UNCHANGED files
          /\ \/ /\ metadata' = content
                /\ raced' = (raced \/ r \in behind)
                /\ behind' = behind \cup {q \in Requests \ {r} : req[q] = "read"}
             \/ UNCHANGED <<metadata, raced, behind>>
        BY <1>0, <2>1, WriteDoes
    <2>3. raced' \in BOOLEAN
        <3>1. CASE raced' = (raced \/ r \in behind)
            BY <3>1, Zenon
        <3>2. CASE raced' = raced
            BY <3>2 DEF TypeOK
        <3>3. QED
            BY <2>2, <3>1, <3>2
    <2>4. QED
        BY <1>0, <2>2, <2>3 DEF TypeOK
<1>3. CASE Uploading(r)
    BY <1>0, <1>3, Named DEF Uploading, PutFile, Process, Put, TypeOK, list
<1>4. CASE r \in Removals /\ DeleteFile(r)
    BY <1>0, <1>4 DEF DeleteFile, Delete, KeysOf, TypeOK, list
<1>5. CASE r \in Resumes /\ RefuseResume(r)
    BY <1>0, <1>5 DEF RefuseResume, TypeOK, list
<1>6. QED
    BY <1>1, <1>2, <1>3, <1>4, <1>5

(* The three parts beside the types are kept where the files that images   *)
(* and purges name are those of results that stay done.                    *)
LEMMA NamesKept ==
    ASSUME CompletedOK, PurgesOK, UNCHANGED url,
           \A i \in Images : image'[i] = "COMPLETED" => image[i] = "COMPLETED",
           \A p \in Purges : seen'[p] = seen[p],
           \A c \in Results : req[c] = "done" => req'[c] = "done"
    PROVE  CompletedOK' /\ PurgesOK'
<1>1. CompletedOK'
    BY DEF CompletedOK
<1>2. PurgesOK'
    BY DEF PurgesOK
<1>3. QED
    BY <1>1, <1>2

LEMMA WriterTypes ==
    ASSUME TInv, NEW r \in Writers,
           Reads(r) \/ Writes(r) \/ Uploading(r)
              \/ (r \in Removals /\ DeleteFile(r)) \/ (r \in Resumes /\ RefuseResume(r))
    PROVE  TInv'
<1>1. r \in Requests /\ r \notin Purges /\ r \notin Results /\ Moves(r)
      /\ UNCHANGED <<faults, project, rows>>
    BY WriterMoves, Kinds DEF Writers, TInv
<1>2. TypeOK'
    BY <1>1, WriterList DEF TInv, TypeOK, Moves, rows
<1>3. CompletedOK' /\ PurgesOK'
    BY <1>1, NamesKept DEF TInv, Moves, rows, Requests
<1>4. WritersOK'
    BY <1>1, WriterList DEF TInv, WritersOK, Moves, Writers, Requests
<1>5. QED
    BY <1>2, <1>3, <1>4 DEF TInv

LEMMA BatchTypes ==
    ASSUME TInv, Batching
    PROVE  TInv' /\ BatchMoves /\ UNCHANGED <<faults, list, seen, rows>>
<1>1. UNCHANGED <<faults, list, seen, rows>>
    BY DEF Batching, PutBatch, ProcessBatch
<1>2. PICK to \in [Batch -> Steps] :
          req' = [q \in Requests |-> IF q \in Batch THEN to[q] ELSE req[q]]
    <2>1. /\ [u \in Batch |-> "stored"] \in [Batch -> Steps]
          /\ [u \in Batch |-> "failed"] \in [Batch -> Steps]
          /\ \A good : [u \in Batch |-> IF u \in good THEN "processed" ELSE "failed"]
                          \in [Batch -> Steps]
        BY DEF Steps
    <2>2. QED
        BY <2>1 DEF Batching, PutBatch, ProcessBatch, GotoAll
<1>3. BatchMoves
    BY <1>2, Named DEF BatchMoves, TInv, TypeOK
<1>4. files' \subseteq Uploads \cup Results
    BY Named DEF Batching, PutBatch, ProcessBatch, Put, TInv, TypeOK
<1>5. TypeOK'
    BY <1>1, <1>3, <1>4 DEF TInv, TypeOK, BatchMoves, list, rows
<1>6. CompletedOK' /\ PurgesOK'
    BY <1>1, <1>3, NamesKept, Kinds, Named DEF TInv, BatchMoves, rows, Requests
<1>7. QED
    BY <1>1, <1>3, <1>5, <1>6 DEF TInv, WritersOK

LEMMA ImageTypes ==
    ASSUME TInv, NEW c \in Results, Completing(c)
    PROVE  TInv' /\ Moves(c) /\ UNCHANGED <<faults, list, seen>>
<1> c \in Requests /\ ImageOf[c] \in Images
    BY Named DEF Requests
<1> USE DEF TInv
<1>1. UNCHANGED <<faults, list, seen>>
    BY DEF Completing, CopyImage, CompleteImage
<1>2. Moves(c) /\ req[c] # "done"
    BY <1>1, GoesOn DEF Completing, CopyImage, CompleteImage, Moves, Steps, TypeOK
<1>3. files' \subseteq Uploads \cup Results
    BY DEF Completing, CopyImage, CompleteImage, Put, TypeOK
<1>4. CASE UNCHANGED rows
    <2>1. TypeOK'
        BY <1>1, <1>2, <1>3, <1>4 DEF TypeOK, Moves, list, rows
    <2>2. CompletedOK' /\ PurgesOK'
        BY <1>1, <1>2, <1>4, NamesKept DEF Moves, rows, Requests
    <2>3. QED
        BY <1>1, <1>2, <2>1, <2>2 DEF WritersOK
<1>5. CASE CompleteImage(c) /\ ~UNCHANGED rows
    <2>1. /\ req'[c] = "done"
          /\ image' = [image EXCEPT ![ImageOf[c]] = "COMPLETED"]
          /\ url' = [url EXCEPT ![ImageOf[c]] = c]
        BY <1>5, GoesOn DEF CompleteImage, Steps
    <2>2. TypeOK'
        BY <1>1, <1>2, <1>3, <2>1 DEF TypeOK, Moves, list
    <2>3. CompletedOK'
        BY <1>2, <2>1 DEF CompletedOK, Moves, TypeOK, Requests
    <2>4. PurgesOK'
        BY <1>1, <1>2 DEF PurgesOK, Moves, Requests
    <2>5. QED
        BY <1>1, <1>2, <2>2, <2>3, <2>4 DEF WritersOK
<1>6. QED
    BY <1>4, <1>5 DEF Completing, CopyImage

LEMMA PurgeTypes ==
    ASSUME TInv, NEW p \in Purges, Purge(p)
    PROVE  TInv' /\ Moves(p) /\ UNCHANGED <<faults, list, url>>
<1> p \in Requests /\ p \notin Results /\ p \notin Writers
    BY Kinds DEF Requests, Writers
<1> USE DEF TInv
<1>1. UNCHANGED <<faults, list, url>>
    BY DEF Purge, FindImages, DeleteImages, DeleteRows, rows
<1>2. Moves(p) /\ \A c \in seen'[p] : c \in Results /\ req[c] = "done"
    <2>1. CASE FindImages(p)
        <3>1. /\ req' \in [Requests -> Steps] /\ \A q \in Requests \ {p} : req'[q] = req[q]
              /\ seen' = [seen EXCEPT ![p] = {url[i] : i \in {j \in Images : image[j] = "COMPLETED"}}]
            BY <2>1, GoesOn DEF FindImages, Steps
        <3>2. {url[i] : i \in {j \in Images : image[j] = "COMPLETED"}} \subseteq {c \in Results : req[c] = "done"}
            BY DEF CompletedOK
        <3>3. QED
            BY <3>1, <3>2 DEF Moves, TypeOK
    <2>2. CASE DeleteImages(p) \/ DeleteRows(p)
        BY <2>2, GoesOn DEF DeleteImages, DeleteRows, Moves, Steps, TypeOK, PurgesOK
    <2>3. QED
        BY <2>1, <2>2 DEF Purge
<1>3. files' \subseteq Uploads \cup Results
    BY DEF Purge, FindImages, DeleteImages, DeleteRows, Delete, KeysOf, TypeOK
<1>4. /\ image' \in [Images -> {"PROCESSING", "COMPLETED", "gone"}]
      /\ \A i \in Images : image'[i] = "COMPLETED" => image[i] = "COMPLETED"
    BY DEF Purge, FindImages, DeleteImages, DeleteRows, TypeOK, rows
<1>5. TypeOK'
    BY <1>1, <1>2, <1>3, <1>4 DEF TypeOK, Moves, list
<1>6. CompletedOK'
    BY <1>1, <1>2, <1>4 DEF CompletedOK, Moves, Requests
<1>7. PurgesOK'
    BY <1>2 DEF PurgesOK, Moves, Requests
<1>8. WritersOK'
    BY <1>2 DEF WritersOK, Moves, Writers, Requests
<1>9. QED
    BY <1>1, <1>2, <1>5, <1>6, <1>7, <1>8

LEMMA StepTypes == TInv /\ [Next]_vars => TInv'
<1> SUFFICES ASSUME TInv, [Next]_vars PROVE TInv'
    OBVIOUS
<1>1. CASE DeleteProject \/ UNCHANGED vars
    <2>1. /\ project' \in BOOLEAN
          /\ UNCHANGED <<faults, req, metadata, seen, files, image, url, behind, raced>>
        BY <1>1 DEF DeleteProject, vars, list, rows, TInv, TypeOK
    <2>2. QED
        BY <2>1 DEF TInv, TypeOK, CompletedOK, PurgesOK, WritersOK
<1>2. QED
    BY <1>1, NextParts, WriterTypes, BatchTypes, ImageTypes, PurgeTypes DEF Writers

LEMMA InitTypes == Init => TInv
<1> SUFFICES ASSUME Init PROVE TInv
    OBVIOUS
<1>1. faults \subseteq FaultKinds /\ req \in [Requests -> Steps]
    BY AssetsAssumption DEF Init, Steps
<1>2. TypeOK
    BY <1>1 DEF Init, TypeOK
<1>3. QED
    BY <1>2 DEF Init, TInv, CompletedOK, PurgesOK, WritersOK, Writers, Requests

(* Every variable keeps its type: in particular the metadata lists uploads *)
(* of the project, though it is one value that every writer replaces       *)
(* whole, and a purge reads no file but of completed generations           *)
(* (assets.service.ts, generation.service.ts).                             *)
THEOREM AssetTypes == Spec => []TypeOK
<1>1. TInv => TypeOK
    BY DEF TInv
<1>2. QED
    BY <1>1, InitTypes, StepTypes, PTL DEF Spec

-----------------------------------------------------------------------------
(* The metadata.                                                           *)

(* Unless a write was outdated, the metadata is exact, whoever has read it *)
(* and was not overtaken has read it as it is, and what is being removed   *)
(* was added.                                                              *)
Current ==
    \A r \in Writers : req[r] = "read" => r \in behind \/ seen[r] = metadata

RemovedWasAdded ==
    \A r \in Removals : req[r] \in {"read", "written", "done"} => Target[r] \in Added

ExactInv == MetadataIsExact /\ (raced \/ (Current /\ RemovedWasAdded))

(* A step that leaves the metadata alone, apart from reading it. *)
Unwritten ==
    /\ UNCHANGED <<metadata, raced, behind>>
    /\ \A u \in Uploads : req[u] = "done" <=> req'[u] = "done"
    /\ \A r \in Removals : req[r] \in {"written", "done"} <=> req'[r] \in {"written", "done"}
    /\ \A r \in Removals : req'[r] = "read" => req[r] = "read" \/ Target[r] \in metadata
    /\ \A r \in Writers : req'[r] = "read" =>
          seen'[r] = metadata \/ (req[r] = "read" /\ seen'[r] = seen[r])

LEMMA UnwrittenKeeps == ASSUME ExactInv, Unwritten PROVE ExactInv'
<1>1. Added' = Added
    BY DEF Added, Unwritten
<1>2. Removed' = Removed
    BY DEF Removed, Unwritten
<1>3. MetadataIsExact'
    BY <1>1, <1>2 DEF ExactInv, MetadataIsExact, Unwritten
<1>4. ASSUME ~raced' PROVE Current'
    BY <1>4 DEF ExactInv, Current, Unwritten
<1>5. ASSUME ~raced' PROVE RemovedWasAdded'
    <2>1. ~raced /\ RemovedWasAdded /\ metadata = Added \ Removed
        BY <1>5 DEF ExactInv, MetadataIsExact, Unwritten
    <2>2. QED
        BY <1>1, <2>1 DEF RemovedWasAdded, Unwritten
<1>6. QED
    BY <1>3, <1>4, <1>5 DEF ExactInv

(* A write that was made changes the list as it says, or is outdated. *)
LEMMA ContentExact ==
    ASSUME TInv, ExactInv, NEW r \in Writers, NEW content, NEW to \in {"done", "written"},
           WriteRow(r, content, to),
           \/ r \in Uploads /\ content = seen[r] \cup {r} /\ to = "done"
           \/ r \in Removals /\ content = seen[r] \ {Target[r]} /\ to = "written"
           \/ r \in Resumes /\ content = seen[r] /\ to = "done"
    PROVE  ExactInv'
<1> r \in Requests
    BY DEF Writers, Requests
<1>2. /\ Moves(r) /\ seen' = seen
      /\ req[r] = "read"
      /\ \/ /\ req'[r] = to
            /\ metadata' = content
            /\ raced' = (raced \/ r \in behind)
            /\ behind' = behind \cup {q \in Requests \ {r} : req[q] = "read"}
         \/ req'[r] = "failed" /\ UNCHANGED <<metadata, raced, behind>>
    BY WriteDoes DEF TInv, Steps
<1>3. CASE req'[r] = "failed" /\ UNCHANGED <<metadata, raced, behind>>
    <2>1. Unwritten
        BY <1>2, <1>3 DEF Unwritten, Moves, Writers, Requests
    <2>2. QED
        BY <2>1, UnwrittenKeeps
<1>4. CASE /\ req'[r] = to
           /\ metadata' = content
           /\ raced' = (raced \/ r \in behind)
           /\ behind' = behind \cup {q \in Requests \ {r} : req[q] = "read"}
    <2>1. CASE raced'
        BY <2>1 DEF ExactInv, MetadataIsExact
    <2>2. CASE ~raced'
        <3>1. ~raced /\ r \notin behind
            BY <1>4, <2>2
        <3>2. metadata = Added \ Removed /\ Current /\ RemovedWasAdded /\ seen[r] = metadata
            BY <1>2, <3>1 DEF ExactInv, MetadataIsExact, Current
        <3>3. Current'
            <4> SUFFICES ASSUME NEW q \in Writers, req'[q] = "read"
                         PROVE  q \in behind'
                BY DEF Current
            <4>1. q # r
                BY <1>4
            <4>2. req[q] = "read" /\ q \in Requests
                BY <1>2, <4>1 DEF Moves, Writers, Requests
            <4>3. QED
                BY <1>4, <4>1, <4>2
        <3>4. RemovedWasAdded' /\ Added \subseteq Added'
            <4>1. Added \subseteq Added'
                BY <1>2 DEF Added, Moves, Requests
            <4>2. ASSUME NEW q \in Removals, req'[q] \in {"read", "written", "done"}
                  PROVE  req[q] \in {"read", "written", "done"}
                BY <1>2, <4>2 DEF Moves, Requests
            <4>3. QED
                BY <3>2, <4>1, <4>2 DEF RemovedWasAdded
        <3>5. metadata' = Added' \ Removed'
            <4>1. CASE r \in Uploads
                <5>1. content = metadata \cup {r} /\ to = "done" /\ r \notin Removals
                    BY <3>2, <4>1, Kinds
                <5>2. Added' = Added \cup {r} /\ r \notin Added
                    BY <1>2, <1>4, <4>1, <5>1 DEF Added, Moves, Requests
                <5>3. Removed' = Removed
                    BY <1>2, <5>1 DEF Removed, Moves, Requests
                <5>4. r \notin Removed
                    BY <3>2, <5>2 DEF Removed, RemovedWasAdded
                <5>5. QED
                    BY <1>4, <3>2, <5>1, <5>2, <5>3, <5>4
            <4>2. CASE r \in Removals
                <5>1. content = metadata \ {Target[r]} /\ to = "written" /\ r \notin Uploads
                    BY <3>2, <4>2, Kinds
                <5>2. Added' = Added
                    BY <1>2, <5>1 DEF Added, Moves, Requests
                <5>3. Removed' = Removed \cup {Target[r]}
                    BY <1>2, <1>4, <4>2, <5>1 DEF Removed, Moves, Requests
                <5>4. QED
                    BY <1>4, <3>2, <5>1, <5>2, <5>3
            <4>3. CASE r \in Resumes
                <5>1. content = metadata /\ r \notin Uploads /\ r \notin Removals
                    BY <3>2, <4>3, Kinds
                <5>2. Added' = Added /\ Removed' = Removed
                    BY <1>2, <5>1 DEF Added, Removed, Moves, Requests
                <5>3. QED
                    BY <1>4, <3>2, <5>1, <5>2
            <4>4. QED
                BY <4>1, <4>2, <4>3 DEF Writers
        <3>6. QED
            BY <3>3, <3>4, <3>5 DEF ExactInv, MetadataIsExact
    <2>3. QED
        BY <2>1, <2>2
<1>5. QED
    BY <1>2, <1>3, <1>4

LEMMA WriteExact ==
    ASSUME TInv, ExactInv, NEW r \in Writers, Writes(r)
    PROVE  ExactInv'
<1>1. CASE AddAsset(r)
    <2>1. r \in Uploads /\ WriteRow(r, seen[r] \cup {r}, "done")
        BY <1>1 DEF AddAsset
    <2>2. QED
        BY <2>1, ContentExact
<1>2. CASE DropAsset(r)
    <2>1. r \in Removals /\ WriteRow(r, seen[r] \ {Target[r]}, "written")
        BY <1>2 DEF DropAsset
    <2>2. QED
        BY <2>1, ContentExact
<1>3. CASE WriteResumed(r)
    <2>1. r \in Resumes /\ WriteRow(r, seen[r], "done")
        BY <1>3 DEF WriteResumed
    <2>2. QED
        BY <2>1, ContentExact
<1>4. QED
    BY <1>1, <1>2, <1>3 DEF Writes

LEMMA ReadExact ==
    ASSUME TInv, ExactInv, NEW r \in Writers, Reads(r)
    PROVE  ExactInv'
<1>1. r \in Requests
    BY DEF Writers, Requests
<1>2. /\ Moves(r) /\ req[r] \in {"new", "processed"}
      /\ \/ req'[r] = "read" /\ seen'[r] = metadata
         \/ req'[r] = "failed"
      /\ UNCHANGED <<metadata, raced, behind>>
      /\ r \in Removals => req[r] = "new" /\ (req'[r] = "read" => Target[r] \in metadata)
    <2>1. CASE ReadForUpload(r)
        BY <1>1, <2>1, ReadDoes, Kinds DEF ReadForUpload, TInv, list
    <2>2. CASE FindAsset(r)
        <3>1. ReadRow(r, "new", Target[r] \in metadata) /\ TypeOK
            BY <2>2 DEF FindAsset, TInv
        <3>2. Moves(r) /\ req[r] = "new" /\ UNCHANGED <<metadata, raced, behind>>
            BY <1>1, <3>1, ReadDoes DEF list
        <3>3. \/ /\ Target[r] \in metadata /\ Goto(r, "new", "read")
                 /\ seen' = [seen EXCEPT ![r] = metadata]
              \/ Goto(r, "new", "failed")
            BY <3>1 DEF ReadRow
        <3>4. \/ Target[r] \in metadata /\ req'[r] = "read" /\ seen'[r] = metadata
              \/ req'[r] = "failed"
            BY <1>1, <3>1, <3>3 DEF Goto, TypeOK
        <3>5. QED
            BY <3>2, <3>4
    <2>3. CASE ReadForResume(r)
        BY <1>1, <2>3, ReadDoes, Kinds DEF ReadForResume, TInv, list
    <2>4. QED
        BY <2>1, <2>2, <2>3 DEF Reads
<1>3. Unwritten
    BY <1>1, <1>2 DEF Unwritten, Moves, Writers, Requests
<1>4. QED
    BY <1>3, UnwrittenKeeps

LEMMA StepExact == TInv /\ ExactInv /\ [Next]_vars => ExactInv'
<1> SUFFICES ASSUME TInv, ExactInv, [Next]_vars PROVE ExactInv'
    OBVIOUS
<1>1. ASSUME NEW u \in Uploads, Uploading(u) PROVE ExactInv'
    <2>1. u \in Writers /\ u \in Requests /\ Moves(u)
        BY <1>1, WriterMoves DEF Writers, TInv
    <2>2. /\ req[u] # "done" /\ req'[u] \notin {"done", "read"}
          /\ UNCHANGED <<metadata, raced, behind, seen>>
        BY <1>1, <2>1, GoesOn DEF Uploading, PutFile, Process, TInv, Steps, list
    <2>3. u \notin Removals
        BY Kinds
    <2>4. Unwritten
        BY <2>1, <2>2, <2>3 DEF Unwritten, Moves, Writers, Requests
    <2>5. QED
        BY <2>4, UnwrittenKeeps
<1>2. CASE Batching
    <2>1. BatchMoves /\ UNCHANGED <<list, seen>>
        BY <1>2, BatchTypes
    <2>2. \A u \in Batch : req[u] # "done" /\ req'[u] \notin {"done", "read"} /\ u \in Requests
        BY <1>2, Named DEF Batching, PutBatch, ProcessBatch, GotoAll, Requests
    <2>3. Batch \cap Removals = {} /\ Batch \cap Resumes = {}
        BY Kinds, Named
    <2>4. Unwritten
        BY <2>1, <2>2, <2>3 DEF Unwritten, BatchMoves, Writers, Requests, list
    <2>5. QED
        BY <2>4, UnwrittenKeeps
<1>3. ASSUME NEW r \in Removals, DeleteFile(r) PROVE ExactInv'
    <2>1. /\ r \in Requests /\ r \notin Uploads /\ req[r] = "written" /\ req'[r] = "done"
          /\ \A q \in Requests \ {r} : req'[q] = req[q]
          /\ UNCHANGED <<metadata, raced, behind>> /\ seen' = seen
        BY <1>3, Kinds, GoesOn DEF DeleteFile, TInv, Steps, Requests, list
    <2>2. \A q \in Writers \ {r} : req'[q] = req[q]
        BY <2>1 DEF Writers, Requests
    <2>3. \A u \in Uploads : req[u] = "done" <=> req'[u] = "done"
        BY <2>1, <2>2 DEF Writers
    <2>4. \A q \in Removals : req[q] \in {"written", "done"} <=> req'[q] \in {"written", "done"}
        BY <2>1, <2>2 DEF Writers
    <2>5. \A q \in Writers : req'[q] = "read" => req[q] = "read"
        BY <2>1, <2>2
    <2>6. \A q \in Removals : q \in Writers
        BY DEF Writers
    <2>7. \A q \in Removals : req'[q] = "read" => req[q] = "read" \/ Target[q] \in metadata
        BY <2>5, <2>6
    <2>8. \A q \in Writers : req'[q] = "read" =>
             seen'[q] = metadata \/ (req[q] = "read" /\ seen'[q] = seen[q])
        BY <2>1, <2>5
    <2>9. Unwritten
        BY <2>1, <2>3, <2>4, <2>7, <2>8 DEF Unwritten
    <2>10. QED
        BY <2>9, UnwrittenKeeps
<1>4. ASSUME NEW r \in Resumes, RefuseResume(r) PROVE ExactInv'
    <2>1. /\ r \in Requests /\ r \notin Uploads /\ r \notin Removals /\ req'[r] = "failed"
          /\ \A q \in Requests \ {r} : req'[q] = req[q]
          /\ UNCHANGED <<metadata, raced, behind>> /\ seen' = seen
        BY <1>4, Kinds, GoesOn DEF RefuseResume, TInv, Steps, Requests, list
    <2>2. \A q \in Writers \ {r} : req'[q] = req[q]
        BY <2>1 DEF Writers, Requests
    <2>3. \A u \in Uploads : req[u] = "done" <=> req'[u] = "done"
        BY <2>1, <2>2 DEF Writers
    <2>4. \A q \in Removals : req[q] \in {"written", "done"} <=> req'[q] \in {"written", "done"}
        BY <2>1, <2>2 DEF Writers
    <2>5. \A q \in Writers : req'[q] = "read" => req[q] = "read"
        BY <2>1, <2>2
    <2>6. \A q \in Removals : q \in Writers
        BY DEF Writers
    <2>7. \A q \in Removals : req'[q] = "read" => req[q] = "read" \/ Target[q] \in metadata
        BY <2>5, <2>6
    <2>8. \A q \in Writers : req'[q] = "read" =>
             seen'[q] = metadata \/ (req[q] = "read" /\ seen'[q] = seen[q])
        BY <2>1, <2>5
    <2>9. Unwritten
        BY <2>1, <2>3, <2>4, <2>7, <2>8 DEF Unwritten
    <2>10. QED
        BY <2>9, UnwrittenKeeps
<1>5. ASSUME NEW q \in Results \cup Purges, Moves(q), UNCHANGED list
      PROVE  ExactInv'
    <2>1. Moves(q) /\ UNCHANGED list
        BY <1>5
    <2>2. q \in Requests /\ q \notin Writers
        BY Kinds DEF Requests, Writers
    <2>3. Unwritten
        BY <2>1, <2>2 DEF Unwritten, Moves, Writers, Requests, list
    <2>4. QED
        BY <2>3, UnwrittenKeeps
<1>6. CASE DeleteProject \/ UNCHANGED vars
    <2>1. UNCHANGED <<metadata, raced, behind, seen, req>>
        BY <1>6 DEF DeleteProject, vars, list
    <2>2. Unwritten
        BY <2>1 DEF Unwritten
    <2>3. QED
        BY <2>2, UnwrittenKeeps
<1>7. ASSUME NEW c \in Results, Completing(c) PROVE ExactInv'
    BY <1>5, <1>7, ImageTypes
<1>8. ASSUME NEW p \in Purges, Purge(p) PROVE ExactInv'
    BY <1>5, <1>8, PurgeTypes
<1>9. QED
    BY <1>1, <1>2, <1>3, <1>4, <1>6, <1>7, <1>8, NextParts, ReadExact, WriteExact

LEMMA InitExact == Init => ExactInv
<1> SUFFICES ASSUME Init PROVE ExactInv
    OBVIOUS
<1>1. \A r \in Requests : req[r] \in {"new", "never"}
    BY DEF Init
<1>2. Added = {}
    BY <1>1 DEF Added, Requests
<1>3. metadata = {} /\ Current /\ RemovedWasAdded
    BY <1>1 DEF Init, Current, RemovedWasAdded, Writers, Requests
<1>4. QED
    BY <1>2, <1>3 DEF ExactInv, MetadataIsExact

(* The metadata lists exactly what was uploaded and not removed, for any   *)
(* uploads, batches, removals and resumes and whatever fails, unless an    *)
(* outdated write has replaced it (assets.service.ts 780-833,              *)
(* projects.service.ts 259-266).                                           *)
THEOREM MetadataExact == Spec => []MetadataIsExact
<1>1. ExactInv => MetadataIsExact
    BY DEF ExactInv
<1>2. QED
    BY <1>1, InitExact, InitTypes, StepTypes, StepExact, PTL DEF Spec

-----------------------------------------------------------------------------
(* The files.                                                              *)

Stays == {"stored", "processed", "read", "done"}

(* An upload that was put and not removed has its file, and so has a       *)
(* result whose row is still to name it.                                   *)
StoredOK == \A u \in Uploads : req[u] \in Stays /\ u \notin Removed => u \in files
CopiedOK == \A c \in Results : req[c] = "stored" => c \in files
NamedOK == \A i \in Images : image[i] = "COMPLETED" => url[i] \in files \/ Purging(url[i])

FilesInv == StoredOK /\ CopiedOK /\ NamedOK

(* What a step of the uploads' side leaves to the images'. *)
LEMMA NamedKept ==
    ASSUME TInv, NamedOK, CopiedOK, UNCHANGED rows,
           \A c \in Results : req'[c] = req[c],
           \A p \in Purges : req'[p] = req[p] /\ seen'[p] = seen[p],
           files \cap Results \subseteq files'
    PROVE  NamedOK' /\ CopiedOK'
<1>1. CopiedOK'
    BY DEF CopiedOK
<1>2. ASSUME NEW i \in Images, image'[i] = "COMPLETED"
      PROVE  url'[i] \in files' \/ Purging(url[i])'
    <2>1. image[i] = "COMPLETED" /\ url'[i] = url[i] /\ url[i] \in Results
        BY <1>2 DEF rows, TInv, CompletedOK
    <2>2. CASE url[i] \in files
        BY <2>1, <2>2
    <2>3. CASE Purging(url[i])
        <3>1. PICK p \in Purges : url[i] \in seen[p] /\ req[p] \in {"written", "failed"}
            BY <2>3 DEF Purging
        <3>2. url'[i] \in seen'[p] /\ req'[p] \in {"written", "failed"}
            BY <2>1, <3>1
        <3>3. QED
            BY <3>2 DEF Purging
    <2>4. QED
        BY <2>1, <2>2, <2>3 DEF NamedOK
<1>3. QED
    BY <1>1, <1>2 DEF NamedOK

LEMMA StoredKept ==
    ASSUME StoredOK,
           \A r \in Removals : req[r] \in {"written", "done"} => req'[r] \in {"written", "done"},
           \A u \in Uploads : req'[u] \in Stays =>
               u \in files' \/ (req[u] \in Stays /\ (u \in files => u \in files' \/ u \in Removed))
    PROVE  StoredOK'
<1>1. Removed \subseteq Removed'
    BY DEF Removed
<1>2. QED
    BY <1>1 DEF StoredOK

LEMMA WriterFiles ==
    ASSUME TInv, FilesInv, NEW r \in Writers,
           Reads(r) \/ Writes(r) \/ Uploading(r)
              \/ (r \in Removals /\ DeleteFile(r)) \/ (r \in Resumes /\ RefuseResume(r))
    PROVE  FilesInv'
<1>1. /\ r \in Requests /\ Moves(r) /\ UNCHANGED rows
      /\ r \notin Results /\ r \notin Purges
    BY WriterMoves, Kinds DEF TInv, Writers
<1>2. \A q \in Requests \ {r} : req'[q] = req[q] /\ seen'[q] = seen[q]
    BY <1>1 DEF Moves
<1>3. /\ \A c \in Results : req'[c] = req[c]
      /\ \A p \in Purges : req'[p] = req[p] /\ seen'[p] = seen[p]
    BY <1>1, <1>2 DEF Requests
<1>4. CASE Reads(r) \/ Writes(r)
    <2>1. UNCHANGED files /\ req[r] \in {"new", "processed", "read"}
        BY <1>4 DEF Reads, ReadForUpload, FindAsset, ReadForResume, ReadRow,
           Writes, AddAsset, DropAsset, WriteResumed, WriteRow, Goto
    <2>2. r \in Uploads => req[r] \in Stays
        BY <1>4, Kinds DEF Reads, ReadForUpload, FindAsset, ReadForResume, ReadRow,
           Writes, AddAsset, DropAsset, WriteResumed, WriteRow, Goto, Stays
    <2>3. StoredOK'
        <3>1. \A q \in Removals : req[q] \in {"written", "done"} => req'[q] \in {"written", "done"}
            BY <1>2, <2>1 DEF Requests
        <3>2. \A u \in Uploads : req'[u] \in Stays => req[u] \in Stays
            BY <1>2, <2>2 DEF Requests
        <3>3. QED
            BY <2>1, <3>1, <3>2, StoredKept DEF FilesInv
    <2>4. QED
        BY <1>1, <1>3, <2>1, <2>3, NamedKept DEF FilesInv
<1>5. CASE Uploading(r)
    <2>1. /\ r \in Uploads /\ r \notin Removals
          /\ files \subseteq files'
          /\ req'[r] \in Stays => r \in files' \/ req[r] \in Stays
        BY <1>1, <1>5, GoesOn, Kinds DEF Uploading, PutFile, Process, Put, TInv, Steps, Stays
    <2>2. StoredOK'
        <3>1. \A q \in Removals : req[q] \in {"written", "done"} => req'[q] \in {"written", "done"}
            BY <1>2, <2>1 DEF Requests
        <3>2. \A u \in Uploads : req'[u] \in Stays =>
                  \/ u \in files'
                  \/ req[u] \in Stays /\ (u \in files => u \in files' \/ u \in Removed)
            BY <1>2, <2>1 DEF Requests
        <3>3. QED
            BY <3>1, <3>2, StoredKept DEF FilesInv
    <2>3. QED
        BY <1>1, <1>3, <2>1, <2>2, NamedKept DEF FilesInv
<1>6. CASE r \in Removals /\ DeleteFile(r)
    <2>1. /\ req[r] = "written" /\ req'[r] = "done"
          /\ files \ {Target[r]} \subseteq files'
          /\ r \notin Uploads
        BY <1>1, <1>6, GoesOn, Kinds DEF DeleteFile, Delete, KeysOf, TInv, Steps
    <2>2. Target[r] \in Removed /\ Target[r] \notin Results
        BY <1>6, <2>1, Named, Kinds DEF Removed
    <2>3. StoredOK'
        <3>1. \A q \in Removals : req[q] \in {"written", "done"} => req'[q] \in {"written", "done"}
            BY <1>2, <2>1 DEF Requests
        <3>2. \A u \in Uploads : req'[u] \in Stays =>
                  \/ u \in files'
                  \/ req[u] \in Stays /\ (u \in files => u \in files' \/ u \in Removed)
            BY <1>2, <2>1, <2>2 DEF Requests
        <3>3. QED
            BY <3>1, <3>2, StoredKept DEF FilesInv
    <2>4. files \cap Results \subseteq files'
        BY <2>1, <2>2
    <2>5. QED
        BY <1>1, <1>3, <2>3, <2>4, NamedKept DEF FilesInv
<1>7. CASE r \in Resumes /\ RefuseResume(r)
    <2>1. UNCHANGED files /\ r \notin Uploads /\ r \notin Removals
        BY <1>7, Kinds DEF RefuseResume
    <2>2. StoredOK'
        <3>1. \A q \in Removals : req[q] \in {"written", "done"} => req'[q] \in {"written", "done"}
            BY <1>2, <2>1 DEF Requests
        <3>2. \A u \in Uploads : req'[u] \in Stays => req[u] \in Stays
            BY <1>2, <2>1 DEF Requests
        <3>3. QED
            BY <2>1, <3>1, <3>2, StoredKept DEF FilesInv
    <2>3. QED
        BY <1>1, <1>3, <2>1, <2>2, NamedKept DEF FilesInv
<1>8. QED
    BY <1>4, <1>5, <1>6, <1>7

LEMMA BatchFiles == ASSUME TInv, FilesInv, Batching PROVE FilesInv'
<1>1. BatchMoves /\ UNCHANGED <<seen, rows>>
    BY BatchTypes
<1>2. Batch \cap Removals = {} /\ Batch \cap Results = {} /\ Batch \cap Purges = {}
    BY Named, Kinds
<1>3. /\ \A c \in Results : req'[c] = req[c]
      /\ \A p \in Purges : req'[p] = req[p] /\ seen'[p] = seen[p]
      /\ \A q \in Removals : req'[q] = req[q]
    BY <1>1, <1>2 DEF BatchMoves, Requests
<1>4. files \subseteq files'
    BY DEF Batching, PutBatch, ProcessBatch, Put
<1>5. \A u \in Batch : req'[u] \in Stays => u \in files' \/ req[u] \in Stays
    BY Named DEF Batching, PutBatch, ProcessBatch, Put, GotoAll, Stays, Requests
<1>6. \A u \in Uploads \ Batch : req'[u] = req[u]
    BY <1>1 DEF BatchMoves, Requests
<1>7. StoredOK'
    BY <1>3, <1>4, <1>5, <1>6, StoredKept DEF FilesInv
<1>8. QED
    BY <1>1, <1>3, <1>4, <1>7, NamedKept DEF FilesInv, rows

LEMMA ImageFiles ==
    ASSUME TInv, FilesInv, NEW c \in Results, Completing(c)
    PROVE  FilesInv'
<1> c \in Requests /\ c \notin Uploads /\ c \notin Removals /\ c \notin Purges
    BY Kinds DEF Requests
<1>1. Moves(c) /\ UNCHANGED <<list, seen>>
    BY ImageTypes
<1>2. \A q \in Requests \ {c} : req'[q] = req[q]
    BY <1>1 DEF Moves
<1>3. files \subseteq files' /\ (req'[c] = "stored" => c \in files') /\ req[c] \in {"new", "stored"}
    BY GoesOn DEF Completing, CopyImage, CompleteImage, Put, TInv, Steps
<1>4. StoredOK'
    <2>1. \A q \in Removals : req'[q] = req[q]
        BY <1>2 DEF Requests
    <2>2. \A u \in Uploads : req'[u] = req[u]
        BY <1>2 DEF Requests
    <2>3. QED
        BY <1>3, <2>1, <2>2, StoredKept DEF FilesInv
<1>5. CopiedOK'
    BY <1>2, <1>3 DEF CopiedOK, FilesInv, Requests
<1>6. NamedOK'
    <2> SUFFICES ASSUME NEW i \in Images, image'[i] = "COMPLETED"
                 PROVE  url'[i] \in files' \/ Purging(url[i])'
        BY DEF NamedOK
    <2>1. CASE image'[i] = image[i] /\ url'[i] = url[i]
        <3>1. CASE url[i] \in files
            BY <1>3, <2>1, <3>1
        <3>2. CASE Purging(url[i])
            <4>1. PICK p \in Purges : url[i] \in seen[p] /\ req[p] \in {"written", "failed"}
                BY <3>2 DEF Purging
            <4>2. url'[i] \in seen'[p] /\ req'[p] \in {"written", "failed"}
                BY <1>1, <1>2, <2>1, <4>1 DEF Requests
            <4>3. QED
                BY <4>2 DEF Purging
        <3>3. QED
            BY <2>1, <3>1, <3>2 DEF FilesInv, NamedOK
    <2>2. CASE ~(image'[i] = image[i] /\ url'[i] = url[i])
        <3>1. url'[i] = c /\ req[c] = "stored"
            BY <2>2 DEF Completing, CopyImage, CompleteImage, Goto, rows, TInv, TypeOK
        <3>2. QED
            BY <1>3, <3>1 DEF FilesInv, CopiedOK
    <2>3. QED
        BY <2>1, <2>2
<1>7. QED
    BY <1>4, <1>5, <1>6 DEF FilesInv

LEMMA PurgeFiles ==
    ASSUME TInv, FilesInv, NEW p \in Purges, Purge(p)
    PROVE  FilesInv'
<1> p \in Requests /\ p \notin Uploads /\ p \notin Removals /\ p \notin Results
    BY Kinds DEF Requests
<1>1. Moves(p) /\ UNCHANGED url
    BY PurgeTypes
<1>2. \A q \in Requests \ {p} : req'[q] = req[q] /\ seen'[q] = seen[q]
    BY <1>1 DEF Moves
<1>3. files \ seen[p] \subseteq files'
    BY DEF Purge, FindImages, DeleteImages, DeleteRows, Delete, KeysOf
<1>4. \A c \in seen[p] : c \in Results /\ req[c] = "done" /\ c \notin Uploads
    BY Kinds DEF TInv, PurgesOK
<1>5. StoredOK'
    <2>1. \A q \in Removals : req'[q] = req[q]
        BY <1>2 DEF Requests
    <2>2. \A u \in Uploads : req'[u] = req[u] /\ (u \in files => u \in files')
        BY <1>2, <1>3, <1>4 DEF Requests
    <2>3. QED
        BY <2>1, <2>2, StoredKept DEF FilesInv
<1>6. CopiedOK'
    <2>1. \A c \in Results : req'[c] = req[c]
        BY <1>2 DEF Requests
    <2>2. QED
        BY <1>3, <1>4, <2>1 DEF FilesInv, CopiedOK
<1>7. NamedOK'
    <2> SUFFICES ASSUME NEW i \in Images, image'[i] = "COMPLETED"
                 PROVE  url'[i] \in files' \/ Purging(url[i])'
        BY DEF NamedOK
    <2>1. image[i] = "COMPLETED" /\ image' # [j \in Images |-> "gone"]
        BY DEF Purge, FindImages, DeleteImages, DeleteRows, rows
    <2>2. CASE FindImages(p)
        <3>1. UNCHANGED files /\ req[p] = "new"
            BY <2>2 DEF FindImages, Goto
        <3>2. CASE Purging(url[i])
            <4>1. PICK q \in Purges : url[i] \in seen[q] /\ req[q] \in {"written", "failed"}
                BY <3>2 DEF Purging
            <4>2. q # p
                BY <3>1, <4>1
            <4>3. url'[i] \in seen'[q] /\ req'[q] \in {"written", "failed"}
                BY <1>1, <1>2, <4>1, <4>2 DEF Requests
            <4>4. QED
                BY <4>3 DEF Purging
        <3>3. QED
            BY <1>1, <2>1, <3>1, <3>2 DEF FilesInv, NamedOK
    <2>3. CASE DeleteImages(p) \/ DeleteRows(p)
        <3>1. /\ seen' = seen
              /\ req[p] \in {"read", "written"} /\ req'[p] \in {"written", "failed"}
            BY <2>1, <2>3, GoesOn DEF DeleteImages, DeleteRows, TInv, Steps
        <3>2. CASE url[i] \in seen[p]
            BY <1>1, <3>1, <3>2 DEF Purging
        <3>3. CASE url[i] \notin seen[p] /\ url[i] \in files
            BY <1>1, <1>3, <3>3
        <3>4. CASE url[i] \notin seen[p] /\ Purging(url[i])
            <4>1. PICK q \in Purges : url[i] \in seen[q] /\ req[q] \in {"written", "failed"}
                BY <3>4 DEF Purging
            <4>2. q # p
                BY <3>4, <4>1
            <4>3. url'[i] \in seen'[q] /\ req'[q] \in {"written", "failed"}
                BY <1>1, <1>2, <4>1, <4>2 DEF Requests
            <4>4. QED
                BY <4>3 DEF Purging
        <3>5. QED
            BY <2>1, <3>2, <3>3, <3>4 DEF FilesInv, NamedOK
    <2>4. QED
        BY <2>2, <2>3 DEF Purge
<1>8. QED
    BY <1>5, <1>6, <1>7 DEF FilesInv

LEMMA StepFiles == TInv /\ FilesInv /\ [Next]_vars => FilesInv'
<1> SUFFICES ASSUME TInv, FilesInv, [Next]_vars PROVE FilesInv'
    OBVIOUS
<1>1. CASE DeleteProject \/ UNCHANGED vars
    <2>1. UNCHANGED <<req, seen, files, image, url>>
        BY <1>1 DEF DeleteProject, vars, rows
    <2>2. QED
        BY <2>1 DEF FilesInv, StoredOK, CopiedOK, NamedOK, Removed, Purging
<1>2. QED
    BY <1>1, NextParts, WriterFiles, BatchFiles, ImageFiles, PurgeFiles DEF Writers

LEMMA FilesShown == ExactInv /\ FilesInv => ShownHasFile
<1>1. ASSUME ExactInv, FilesInv, ~raced PROVE metadata \subseteq files
    <2>1. metadata = Added \ Removed
        BY <1>1 DEF ExactInv, MetadataIsExact
    <2>2. \A u \in Added : u \in Uploads /\ req[u] \in Stays
        BY DEF Added, Stays
    <2>3. QED
        BY <1>1, <2>1, <2>2 DEF FilesInv, StoredOK
<1>2. QED
    BY <1>1 DEF FilesInv, NamedOK, ShownHasFile

(* A listed asset has its file and a completed image names one, whatever   *)
(* fails, but for an outdated write of the metadata and for a purge that   *)
(* is not finished: a purge never takes the file of an image whose row is  *)
(* written after the purge has looked (generation.service.ts).             *)
THEOREM ShownCanBeOpened == Spec => []ShownHasFile
<1>1. Init => FilesInv
    <2> SUFFICES ASSUME Init PROVE FilesInv
        OBVIOUS
    <2>1. \A r \in Requests : req[r] \in {"new", "never"}
        BY DEF Init
    <2>2. QED
        BY <2>1 DEF Init, FilesInv, StoredOK, CopiedOK, NamedOK, Stays, Requests
<1>2. QED
    BY <1>1, FilesShown, InitTypes, InitExact, StepTypes, StepExact, StepFiles, PTL DEF Spec

-----------------------------------------------------------------------------
(* The public list, of the Showcase. *)

(* What is listed for everybody is public. *)
Listed == \A r \in Listings : answer[r] \subseteq Public

BoardTypes == ShowcaseTypeOK /\ Listed

Statuses == {"PROCESSING", "ACTIVE", "FAILED", "DELETED", "gone"}

LEMMA Apart ==
    /\ Deletes \cap (Deployments \cup Readers \cup Terminations \cup Verifies \cup Clears) = {}
    /\ Verifies \cap (Deployments \cup Readers \cup Deletes \cup Terminations \cup Clears)
         = {}
    /\ Deployments \cap (Readers \cup Deletes \cup Terminations \cup Verifies \cup Clears) = {}
    /\ Readers \cap (Deletes \cup Terminations \cup Verifies \cup Clears) = {}
    /\ Listings \cap Owners = {}
<1> DEFINE kinds == <<Deployments, Listings, Owners, Deletes, Terminations, Verifies, Clears>>
<1>1. \A i, j \in 1 .. 7 : i # j => kinds[i] \cap kinds[j] = {}
    BY ShowcaseAssumption
<1>2. /\ kinds[1] = Deployments /\ kinds[2] = Listings /\ kinds[3] = Owners /\ kinds[4] = Deletes
      /\ kinds[5] = Terminations /\ kinds[6] = Verifies /\ kinds[7] = Clears
    OBVIOUS
<1> HIDE DEF kinds
<1>3. /\ Deployments \cap Listings = {} /\ Deployments \cap Owners = {}
      /\ Deployments \cap Deletes = {} /\ Deployments \cap Terminations = {}
      /\ Deployments \cap Verifies = {} /\ Deployments \cap Clears = {}
    BY <1>1, <1>2
<1>4. /\ Listings \cap Owners = {} /\ Listings \cap Deletes = {}
      /\ Listings \cap Terminations = {} /\ Listings \cap Verifies = {}
      /\ Listings \cap Clears = {}
    BY <1>1, <1>2
<1>5. /\ Owners \cap Deletes = {} /\ Owners \cap Terminations = {}
      /\ Owners \cap Verifies = {} /\ Owners \cap Clears = {}
    BY <1>1, <1>2
<1>6. /\ Deletes \cap Terminations = {} /\ Deletes \cap Verifies = {} /\ Deletes \cap Clears = {}
      /\ Terminations \cap Verifies = {} /\ Verifies \cap Clears = {}
    BY <1>1, <1>2
<1>7. QED
    BY <1>3, <1>4, <1>5, <1>6 DEF Readers

LEMMA Known ==
    /\ Public \subseteq Deployments /\ KeyOf \in [Listings -> Keys]
    /\ \A w \in Deletes \cup Terminations \cup Verifies : TargetOf[w] \in Deployments
BY ShowcaseAssumption

(* One request goes on, the others stay. *)
LEMMA Going ==
    ASSUME ShowcaseTypeOK, NEW r \in ShowcaseRequests, NEW from, NEW to \in ShowcaseSteps, Goto(r, from, to)
    PROVE  /\ req' \in [ShowcaseRequests -> ShowcaseSteps]
           /\ req[r] = from /\ req'[r] = to
           /\ \A q \in ShowcaseRequests : q # r => req'[q] = req[q]
BY DEF ShowcaseTypeOK, Goto

LEMMA ChangeTypes ==
    ASSUME ShowcaseTypeOK, NEW d \in Deployments, NEW to \in Statuses, NEW announced,
           Change(d, to, announced)
    PROVE  /\ status' \in [Deployments -> Statuses]
           /\ dated' \subseteq Readers /\ excused' \subseteq Keys
BY DEF ShowcaseTypeOK, Change, Statuses

LEMMA InitBoard == ShowcaseInit => BoardTypes
<1> SUFFICES ASSUME ShowcaseInit PROVE BoardTypes
    OBVIOUS
<1>1. faults \subseteq ShowcaseFaults /\ req \in [ShowcaseRequests -> ShowcaseSteps]
    BY ShowcaseAssumption DEF ShowcaseInit, ShowcaseSteps
<1>2. /\ status \in [Deployments -> Statuses] /\ shot \subseteq Deployments
      /\ domain \in [Deployments -> {"null", "PENDING", "ACTIVE", "FAILED_DNS"}]
    BY DEF ShowcaseInit, Statuses
<1>3. cache \in [Keys -> (SUBSET Public) \cup {Nothing}]
    BY DEF ShowcaseInit
<1>4. answer \in [Readers -> SUBSET Deployments] /\ todo \in [Readers -> SUBSET Deployments]
    BY DEF ShowcaseInit
<1>5. Listed
    BY DEF ShowcaseInit, Listed, Readers
<1>6. QED
    BY <1>1, <1>2, <1>3, <1>4, <1>5 DEF ShowcaseInit, BoardTypes, ShowcaseTypeOK, Statuses

LEMMA ClearTypes ==
    ASSUME ShowcaseTypeOK, NEW w \in ShowcaseRequests,
           ClearAll(w) \/ ClearLandingpage(w) \/ Crash(w) \/ StartClear(w)
    PROVE  ShowcaseTypeOK'
<1>1. CASE ClearAll(w)
    <2>1. req' \in [ShowcaseRequests -> ShowcaseSteps] /\ excused' \subseteq Keys
        BY <1>1 DEF ClearAll, Goto, ShowcaseTypeOK, ShowcaseSteps
    <2>2. cache' \in [Keys -> (SUBSET Public) \cup {Nothing}]
        BY <1>1 DEF ClearAll, ShowcaseTypeOK
    <2>3. QED
        BY <1>1, <2>1, <2>2 DEF ClearAll, ShowcaseTypeOK, shownRows, reading
<1>2. CASE ClearLandingpage(w)
    <2>1. req' \in [ShowcaseRequests -> ShowcaseSteps] /\ excused' \subseteq Keys
        BY <1>2 DEF ClearLandingpage, Goto, ShowcaseTypeOK, ShowcaseSteps, Keys
    <2>2. cache' \in [Keys -> (SUBSET Public) \cup {Nothing}]
        BY <1>2 DEF ClearLandingpage, ShowcaseTypeOK
    <2>3. QED
        BY <1>2, <2>1, <2>2 DEF ClearLandingpage, ShowcaseTypeOK, shownRows, reading
<1>3. CASE Crash(w)
    BY <1>3 DEF Crash, ShowcaseTypeOK, ShowcaseSteps, shownRows, reading
<1>4. CASE StartClear(w)
    BY <1>4 DEF StartClear, Goto, ShowcaseTypeOK, ShowcaseSteps, shownRows, reading
<1>5. QED
    BY <1>1, <1>2, <1>3, <1>4

LEMMA ReaderTypes ==
    ASSUME BoardTypes, NEW r \in Readers,
           \/ r \in Listings /\ (List(r) \/ Store(r))
           \/ ListOwn(r) \/ AnswerOwn(r)
           \/ \E d \in Deployments : Shoot(r, d)
    PROVE  BoardTypes'
<1> ShowcaseTypeOK /\ Listed
    BY DEF BoardTypes
<1>1. r \in ShowcaseRequests
    BY DEF ShowcaseRequests
<1>2. Visible \subseteq Public /\ Visible \subseteq Deployments
    BY Known DEF Visible
<1>3. ASSUME NEW found, found \subseteq Deployments, Read(r, found), Goto(r, "new", "read"),
             r \in Listings => found \subseteq Public
      PROVE  BoardTypes'
    <2>1. req' \in [ShowcaseRequests -> ShowcaseSteps]
        BY <1>1, <1>3, Going DEF ShowcaseSteps
    <2>2. /\ answer' \in [Readers -> SUBSET Deployments]
          /\ todo' \in [Readers -> SUBSET Deployments]
        BY <1>3 DEF Read, ShowcaseTypeOK
    <2>3. Listed'
        BY <1>3 DEF Read, ShowcaseTypeOK, Listed, Readers
    <2>4. QED
        BY <1>3, <2>1, <2>2, <2>3 DEF Read, ShowcaseTypeOK, BoardTypes, shownRows
<1>4. CASE r \in Listings /\ List(r)
    <2>1. CASE Goto(r, "new", "read") /\ Read(r, Visible)
        BY <1>2, <1>3, <2>1
    <2>2. CASE /\ Goto(r, "new", "done")
               /\ UNCHANGED <<faults, shownRows, cache, reading, dated, excused, late>>
        <3>1. req' \in [ShowcaseRequests -> ShowcaseSteps]
            BY <1>1, <2>2, Going DEF ShowcaseSteps
        <3>2. QED
            BY <2>2, <3>1 DEF ShowcaseTypeOK, BoardTypes, Listed, shownRows, reading
    <2>3. QED
        BY <1>4, <2>1, <2>2 DEF List
<1>5. CASE r \in Listings /\ Store(r)
    <2>1. req' \in [ShowcaseRequests -> ShowcaseSteps]
        BY <1>1, <1>5, Going DEF Store, ShowcaseSteps
    <2>2. KeyOf[r] \in Keys /\ answer[r] \subseteq Public
        BY <1>5, Known DEF Listed
    <2>3. cache' \in [Keys -> (SUBSET Public) \cup {Nothing}] /\ excused' \subseteq Keys
        BY <1>5, <2>2 DEF Store, ShowcaseTypeOK
    <2>4. QED
        BY <1>5, <2>1, <2>3 DEF Store, ShowcaseTypeOK, BoardTypes, Listed, shownRows, reading
<1>6. CASE ListOwn(r)
    BY <1>3, <1>6, Apart DEF ListOwn
<1>7. CASE AnswerOwn(r)
    <2>1. req' \in [ShowcaseRequests -> ShowcaseSteps]
        BY <1>1, <1>7, Going DEF AnswerOwn, ShowcaseSteps
    <2>2. QED
        BY <1>7, <2>1 DEF AnswerOwn, ShowcaseTypeOK, BoardTypes, Listed, shownRows, reading
<1>8. ASSUME NEW d \in Deployments, Shoot(r, d) PROVE BoardTypes'
    <2>1. req' \in [ShowcaseRequests -> ShowcaseSteps]
        BY <1>8, <1>1, Going DEF Shoot, ShowcaseSteps, ShowcaseTypeOK
    <2>2. shot' \subseteq Deployments /\ todo' \in [Readers -> SUBSET Deployments]
        BY <1>8 DEF Shoot, ShowcaseTypeOK
    <2>3. QED
        BY <1>8, <2>1, <2>2 DEF Shoot, ShowcaseTypeOK, BoardTypes, Listed
<1>9. QED
    BY <1>4, <1>5, <1>6, <1>7, <1>8

LEMMA JobTypes ==
    ASSUME ShowcaseTypeOK, NEW d \in Deployments,
           AttachDomain(d) \/ Photograph(d) \/ Activate(d) \/ Announce(d) \/ Replace(d)
    PROVE  ShowcaseTypeOK'
<1>1. d \in ShowcaseRequests
    BY DEF ShowcaseRequests
<1>2. CASE AttachDomain(d)
    <2>1. req' \in [ShowcaseRequests -> ShowcaseSteps]
        BY <1>2, <1>1, Going DEF AttachDomain, ShowcaseSteps
    <2>2. domain' \in [Deployments -> {"null", "PENDING", "ACTIVE", "FAILED_DNS"}]
        BY <1>2 DEF AttachDomain, ShowcaseTypeOK
    <2>3. QED
        BY <1>2, <2>1, <2>2 DEF AttachDomain, ShowcaseTypeOK, reading
<1>3. CASE Photograph(d)
    BY <1>3, <1>1 DEF Photograph, Goto, ShowcaseTypeOK, ShowcaseSteps, shownRows, reading
<1>4. CASE Activate(d)
    <2>1. req' \in [ShowcaseRequests -> ShowcaseSteps] /\ shot' \subseteq Deployments
        BY <1>4, <1>1 DEF Activate, ShowcaseTypeOK, ShowcaseSteps
    <2>2. /\ status' \in [Deployments -> Statuses]
          /\ dated' \subseteq Readers /\ excused' \subseteq Keys
        BY <1>4, ChangeTypes DEF Activate, Statuses, ShowcaseTypeOK
    <2>3. QED
        BY <1>4, <2>1, <2>2 DEF Activate, ShowcaseTypeOK, Statuses, reading
<1>5. CASE Announce(d)
    <2>1. req' \in [ShowcaseRequests -> ShowcaseSteps]
        BY <1>5, <1>1, Going DEF Announce, ShowcaseSteps
    <2>2. /\ status' \in [Deployments -> Statuses]
          /\ dated' \subseteq Readers /\ excused' \subseteq Keys
        BY <1>5, ChangeTypes DEF Announce, Statuses, ShowcaseTypeOK
    <2>3. QED
        BY <1>5, <2>1, <2>2 DEF Announce, ShowcaseTypeOK, Statuses, reading
<1>6. CASE Replace(d)
    <2>1. /\ status' \in [Deployments -> Statuses]
          /\ dated' \subseteq Readers /\ excused' \subseteq Keys
        BY <1>6, ChangeTypes DEF Replace, Statuses
    <2>2. QED
        BY <1>6, <2>1 DEF Replace, ShowcaseTypeOK, Statuses, reading
<1>7. QED
    BY <1>2, <1>3, <1>4, <1>5, <1>6

LEMMA EndTypes ==
    ASSUME ShowcaseTypeOK, NEW w \in Deletes \cup Terminations \cup Verifies,
           \/ StartDelete(w) \/ MarkDeleted(w) \/ Terminate(w)
           \/ StartVerify(w) \/ RecordVerify(w)
    PROVE  ShowcaseTypeOK'
<1>1. w \in ShowcaseRequests /\ TargetOf[w] \in Deployments
    BY Known DEF ShowcaseRequests
<1>2. CASE StartDelete(w)
    BY <1>2, <1>1 DEF StartDelete, Goto, ShowcaseTypeOK, ShowcaseSteps, shownRows, reading
<1>3. CASE MarkDeleted(w)
    <2>1. req' \in [ShowcaseRequests -> ShowcaseSteps]
        BY <1>3, <1>1, Going DEF MarkDeleted, ShowcaseSteps
    <2>2. domain' \in [Deployments -> {"null", "PENDING", "ACTIVE", "FAILED_DNS"}]
        BY <1>3, <1>1 DEF MarkDeleted, ShowcaseTypeOK
    <2>3. late' \subseteq Deployments
        <3>1. late' \in {late, late \cup {TargetOf[w]}}
            BY <1>3 DEF MarkDeleted
        <3>2. QED
            BY <1>1, <3>1 DEF ShowcaseTypeOK
    <2>4. /\ status' \in [Deployments -> Statuses]
          /\ dated' \subseteq Readers /\ excused' \subseteq Keys
        BY <1>3, <1>1, ChangeTypes DEF MarkDeleted, Statuses, ShowcaseTypeOK
    <2>5. QED
        BY <1>3, <2>1, <2>2, <2>3, <2>4 DEF MarkDeleted, ShowcaseTypeOK, Statuses, reading
<1>4. CASE Terminate(w)
    <2>1. req' \in [ShowcaseRequests -> ShowcaseSteps]
        BY <1>4, <1>1, Going DEF Terminate, ShowcaseSteps
    <2>2. /\ status' \in [Deployments -> Statuses]
          /\ dated' \subseteq Readers /\ excused' \subseteq Keys
        BY <1>4, <1>1, ChangeTypes DEF Terminate, Statuses, ShowcaseTypeOK
    <2>3. QED
        BY <1>4, <2>1, <2>2 DEF Terminate, ShowcaseTypeOK, Statuses, reading
<1>5. CASE StartVerify(w)
    BY <1>5, <1>1 DEF StartVerify, Goto, ShowcaseTypeOK, ShowcaseSteps, shownRows, reading
<1>6. CASE RecordVerify(w)
    BY <1>6, <1>1 DEF RecordVerify, Goto, ShowcaseTypeOK, ShowcaseSteps, reading
<1>7. QED
    BY <1>2, <1>3, <1>4, <1>5, <1>6

LEMMA StepBoard == BoardTypes /\ [ShowcaseNext]_showcaseVars => BoardTypes'
<1> SUFFICES ASSUME BoardTypes, [ShowcaseNext]_showcaseVars PROVE BoardTypes'
    OBVIOUS
<1> ShowcaseTypeOK /\ Listed
    BY DEF BoardTypes
<1>1. ASSUME ShowcaseTypeOK', UNCHANGED answer PROVE BoardTypes'
    BY <1>1 DEF BoardTypes, Listed
<1>2. CASE UNCHANGED showcaseVars
    BY <1>2, <1>1 DEF showcaseVars, shownRows, reading, ShowcaseTypeOK
<1>3. CASE \E w \in ShowcaseRequests : ClearAll(w) \/ ClearLandingpage(w) \/ Crash(w)
    BY <1>1, <1>3, ClearTypes DEF ClearAll, ClearLandingpage, Crash, reading
<1>4. CASE \E w \in Clears : StartClear(w)
    BY <1>1, <1>4, ClearTypes DEF StartClear, reading, ShowcaseRequests
<1>5. CASE \E k \in Keys : Expire(k)
    <2>1. cache' \in [Keys -> (SUBSET Public) \cup {Nothing}] /\ excused' \subseteq Keys
        BY <1>5 DEF Expire, ShowcaseTypeOK
    <2>0. ShowcaseTypeOK'
        BY <1>5, <2>1 DEF Expire, ShowcaseTypeOK, shownRows, reading
    <2>2. QED
        BY <1>1, <1>5, <2>0 DEF Expire, reading
<1>6. CASE \/ \E r \in Listings : List(r) \/ Store(r)
           \/ \E r \in Owners : ListOwn(r) \/ AnswerOwn(r)
           \/ \E r \in Readers, d \in Deployments : Shoot(r, d)
    BY <1>6, ReaderTypes DEF Readers
<1>7. CASE \E d \in Deployments : AttachDomain(d) \/ Photograph(d) \/ Activate(d) \/ Announce(d)
                                  \/ Replace(d)
    BY <1>1, <1>7, JobTypes DEF AttachDomain, Photograph, Activate, Announce, Replace, reading
<1>8. CASE \/ \E w \in Deletes : StartDelete(w) \/ MarkDeleted(w)
           \/ \E w \in Terminations : Terminate(w)
           \/ \E v \in Verifies : StartVerify(v) \/ RecordVerify(v)
    BY <1>1, <1>8, EndTypes DEF StartDelete, MarkDeleted, Terminate, StartVerify, RecordVerify,
       reading
<1>9. QED
    BY <1>2, <1>3, <1>4, <1>5, <1>6, <1>7, <1>8 DEF ShowcaseNext

(* Every variable keeps its type: what is cached for everybody is always   *)
(* nothing or a list of public deployments, whoever stored it and when     *)
(* (community-showcase.service.ts 60-95).                                  *)
THEOREM ShowcaseTypes == ShowcaseSpec => []ShowcaseTypeOK
<1>1. BoardTypes => ShowcaseTypeOK
    BY DEF BoardTypes
<1>2. QED
    BY <1>1, InitBoard, StepBoard, PTL DEF ShowcaseSpec

-----------------------------------------------------------------------------
(* What is cached.                                                         *)

(* A list that nothing has outdated is right, and a cached one is, or is   *)
(* about to be cleared: by the job that made a row ACTIVE, as long as it   *)
(* still is, and otherwise by whoever has changed it since.                *)
Told(k) ==
    \/ \E d \in Public : req[d] = "written" /\ status[d] = "ACTIVE"
    \/ \E w \in ShowcaseRequests : req[w] = "clearing"
    \/ k = "landingpage" /\ \E w \in ShowcaseRequests : req[w] = "half"

ReadTrue == \A r \in Listings : req[r] = "read" /\ r \notin dated => answer[r] = Visible

CachedInv ==
    /\ ReadTrue
    /\ \A k \in Keys \ excused : cache[k] \in {Nothing, Visible} \/ Told(k)

(* A step that shows nothing new and takes back no announcement. *)
Quiet ==
    /\ Visible' = Visible /\ UNCHANGED <<cache, excused>>
    /\ \A r \in Listings : req'[r] = "read" /\ r \notin dated'
          => req[r] = "read" /\ r \notin dated /\ answer'[r] = answer[r]
    /\ \A k \in Keys : Told(k) => Told(k)'

LEMMA QuietKeeps == CachedInv /\ Quiet => CachedInv'
BY DEF CachedInv, Quiet, ReadTrue

(* A request goes on without announcing or reading anything. *)
Turns(w) ==
    /\ \A q \in ShowcaseRequests : q # w => req'[q] = req[q]
    /\ req[w] \notin {"written", "clearing", "half"} /\ req'[w] # "read"

LEMMA TurnsQuietly ==
    ASSUME NEW w \in ShowcaseRequests, Turns(w), UNCHANGED <<cache, excused,
           status, dated, answer>>
    PROVE  Quiet
<1>1. Visible' = Visible
    BY DEF Visible
<1>2. \A r \in Listings : r \in ShowcaseRequests
    BY DEF ShowcaseRequests, Readers
<1>3. \A d \in Public : d \in ShowcaseRequests
    BY Known DEF ShowcaseRequests
<1>4. ASSUME NEW k \in Keys, Told(k) PROVE Told(k)'
    BY <1>3, <1>4 DEF Told, Turns
<1>5. QED
    BY <1>1, <1>2, <1>4 DEF Quiet, Turns

(* A row changes, that of d: either nobody sees it, or every list in hand  *)
(* is dated and every key is excused, or going to be cleared.              *)
LEMMA ChangeKeeps ==
    ASSUME ShowcaseTypeOK, CachedInv, UNCHANGED <<cache, answer>>,
           NEW d \in Deployments, NEW to, NEW announced, Change(d, to, announced),
           \A r \in Readers : req'[r] = "read" => req[r] = "read",
           \A q \in ShowcaseRequests : req[q] \in {"clearing", "half"} => req'[q] = req[q],
           \A e \in Public : req[e] = "written" =>
               req'[e] = "written" \/ (e = d /\ to # "ACTIVE"),
           announced /\ d \in Public => \/ \E w \in ShowcaseRequests : req'[w] = "clearing"
                                        \/ req'[d] = "written" /\ to = "ACTIVE"
    PROVE  CachedInv'
<1>1. status' = [status EXCEPT ![d] = to] /\ status \in [Deployments -> Statuses]
    BY DEF Change, ShowcaseTypeOK, Statuses
<1>2. CASE d \in Public /\ "ACTIVE" \in {status[d], to} /\ status[d] # to
    <2>1. /\ dated' = dated \cup {r \in Readers : req[r] = "read"}
          /\ excused' = IF announced THEN excused ELSE Keys
        BY <1>2 DEF Change
    <2>2. ReadTrue'
        BY <2>1 DEF ReadTrue, Readers
    <2>3. announced => \A k \in Keys : Told(k)'
        BY <1>1, <1>2 DEF Told
    <2>4. QED
        BY <2>1, <2>2, <2>3 DEF CachedInv
<1>3. CASE ~ (d \in Public /\ "ACTIVE" \in {status[d], to} /\ status[d] # to)
    <2>1. UNCHANGED <<dated, excused>>
        BY <1>3 DEF Change
    <2>2. \A e \in Public : status'[e] = "ACTIVE" <=> status[e] = "ACTIVE"
        BY <1>1, <1>3, Known
    <2>3. Visible' = Visible
        BY <2>2 DEF Visible
    <2>4. ASSUME NEW k \in Keys, Told(k) PROVE Told(k)'
        <3>1. CASE \E e \in Public : req[e] = "written" /\ status[e] = "ACTIVE"
            <4>1. PICK e \in Public : req[e] = "written" /\ status[e] = "ACTIVE"
                BY <3>1
            <4>2. req'[e] = "written"
                BY <1>1, <1>3, <4>1
            <4>3. QED
                BY <2>2, <4>1, <4>2 DEF Told
        <3>2. CASE \E w \in ShowcaseRequests : req[w] = "clearing"
            BY <3>2 DEF Told
        <3>3. CASE k = "landingpage" /\ \E w \in ShowcaseRequests : req[w] = "half"
            BY <3>3 DEF Told
        <3>4. QED
            BY <2>4, <3>1, <3>2, <3>3 DEF Told
    <2>5. Quiet
        BY <2>1, <2>3, <2>4 DEF Quiet, Readers
    <2>6. QED
        BY <2>5, QuietKeeps
<1>4. QED
    BY <1>2, <1>3

LEMMA ClearsCached ==
    ASSUME ShowcaseTypeOK, CachedInv, NEW w \in ShowcaseRequests,
           ClearAll(w) \/ ClearLandingpage(w) \/ Crash(w)
    PROVE  CachedInv'
<1>1. /\ UNCHANGED <<status, answer, dated>>
      /\ req[w] \in {"clearing", "half"} /\ req'[w] \in {"half", "done"}
      /\ \A q \in ShowcaseRequests : q # w => req'[q] = req[q]
    BY DEF ClearAll, ClearLandingpage, Crash, Goto, ShowcaseTypeOK, shownRows, reading
<1>2. Visible' = Visible
    BY <1>1 DEF Visible
<1>3. ReadTrue'
    <2>1. \A r \in Listings : r \in ShowcaseRequests
        BY DEF ShowcaseRequests, Readers
    <2>2. \A r \in Listings : req'[r] = "read" => req[r] = "read"
        BY <1>1, <2>1
    <2>3. QED
        BY <1>1, <1>2, <2>2 DEF CachedInv, ReadTrue
<1>4. CASE excused' = Keys
    BY <1>3, <1>4 DEF CachedInv
<1>5. CASE /\ ClearAll(w) /\ req'[w] = "half" /\ excused' = excused \ {"all"}
           /\ cache' = [cache EXCEPT !["all"] = Nothing]
    <2>1. cache'["all"] = Nothing
        BY <1>5 DEF ShowcaseTypeOK, Keys
    <2>2. Told("landingpage")'
        BY <1>5 DEF Told
    <2>3. QED
        BY <1>3, <2>1, <2>2 DEF CachedInv, Keys
<1>6. CASE /\ ClearLandingpage(w) /\ req[w] = "half"
           /\ \/ excused' = excused \cup {"landingpage"} /\ UNCHANGED cache
              \/ /\ excused' = excused \ {"landingpage"}
                 /\ cache' = [cache EXCEPT !["landingpage"] = Nothing]
    <2>1. "landingpage" \notin excused' => cache'["landingpage"] = Nothing
        BY <1>6 DEF ShowcaseTypeOK, Keys
    <2>2. cache'["all"] = cache["all"] /\ ("all" \in excused' <=> "all" \in excused)
        BY <1>6 DEF ShowcaseTypeOK, Keys
    <2>3. \A d \in Public : d \in ShowcaseRequests
        BY Known DEF ShowcaseRequests
    <2>4. Told("all") => Told("all")'
        BY <1>1, <1>6, <2>3 DEF Told
    <2>5. QED
        BY <1>2, <1>3, <2>1, <2>2, <2>4 DEF CachedInv, Keys
<1>7. QED
    <2>1. CASE ClearAll(w)
        BY <2>1, <1>4, <1>5 DEF ClearAll, Goto, ShowcaseTypeOK
    <2>2. CASE ClearLandingpage(w)
        BY <2>2, <1>6 DEF ClearLandingpage, Goto
    <2>3. CASE Crash(w)
        BY <2>3, <1>4 DEF Crash
    <2>4. QED
        BY <2>1, <2>2, <2>3

LEMMA ReadersCached ==
    ASSUME ShowcaseTypeOK, CachedInv, NEW r \in Readers,
           \/ r \in Listings /\ (List(r) \/ Store(r))
           \/ ListOwn(r) \/ AnswerOwn(r)
           \/ \E d \in Deployments : Shoot(r, d)
    PROVE  CachedInv'
<1>1. r \in ShowcaseRequests /\ \A q \in Listings : q \in ShowcaseRequests
    BY DEF ShowcaseRequests, Readers
<1>2. \A d \in Public : d \in ShowcaseRequests
    BY Known DEF ShowcaseRequests
<1>3. ASSUME NEW from \in {"new", "read"}, NEW to \in {"done", "failed"}, Goto(r, from, to),
             UNCHANGED <<cache, excused, status, dated, answer>>
      PROVE  CachedInv'
    <2>1. Turns(r)
        BY <1>1, <1>3, Going DEF Turns, ShowcaseSteps
    <2>2. QED
        BY <1>1, <1>3, <2>1, TurnsQuietly, QuietKeeps
<1>4. ASSUME NEW found, Read(r, found), Goto(r, "new", "read"),
             r \in Listings => found = Visible
      PROVE  CachedInv'
    <2>1. /\ UNCHANGED <<status, cache, excused>>
          /\ req[r] = "new" /\ req'[r] = "read"
          /\ \A q \in ShowcaseRequests : q # r => req'[q] = req[q]
          /\ answer'[r] = found /\ \A q \in Readers : q # r => answer'[q] = answer[q]
          /\ dated' = dated \ {r}
        BY <1>1, <1>4 DEF Read, Goto, ShowcaseTypeOK, shownRows
    <2>2. Visible' = Visible
        BY <2>1 DEF Visible
    <2>3. ReadTrue'
        BY <1>1, <1>4, <2>1, <2>2 DEF CachedInv, ReadTrue, Readers
    <2>4. \A k \in Keys : Told(k) => Told(k)'
        BY <1>1, <1>2, <2>1 DEF Told
    <2>5. QED
        BY <2>1, <2>2, <2>3, <2>4 DEF CachedInv
<1>5. CASE r \in Listings /\ List(r)
    BY <1>3, <1>4, <1>5 DEF List, shownRows, reading
<1>6. CASE r \in Listings /\ Store(r)
    <2>1. /\ UNCHANGED <<status, answer, dated>>
          /\ req[r] = "read" /\ req'[r] = "done"
          /\ \A q \in ShowcaseRequests : q # r => req'[q] = req[q]
        BY <1>1, <1>6 DEF Store, Goto, ShowcaseTypeOK, shownRows, reading
    <2>2. Visible' = Visible
        BY <2>1 DEF Visible
    <2>3. ReadTrue'
        BY <1>1, <2>1, <2>2 DEF CachedInv, ReadTrue
    <2>4. \A k \in Keys : Told(k) => Told(k)'
        BY <1>1, <1>2, <2>1 DEF Told
    <2>5. KeyOf[r] \in Keys
        BY <1>6, Known
    <2>6. \/ UNCHANGED <<cache, excused>>
          \/ /\ cache' = [cache EXCEPT ![KeyOf[r]] = answer[r]]
             /\ excused' = IF r \in dated THEN excused \cup {KeyOf[r]} ELSE excused \ {KeyOf[r]}
        BY <1>6 DEF Store
    <2>7. r \notin dated => answer[r] = Visible
        BY <1>6, <2>1 DEF CachedInv, ReadTrue
    <2>8. ASSUME NEW k \in Keys, k \notin excused'
          PROVE  cache'[k] \in {Nothing, Visible} \/ Told(k)'
        <3>1. CASE UNCHANGED <<cache, excused>>
            BY <2>4, <2>8, <3>1 DEF CachedInv
        <3>2. CASE /\ cache' = [cache EXCEPT ![KeyOf[r]] = answer[r]]
                   /\ excused' = IF r \in dated THEN excused \cup {KeyOf[r]}
                                 ELSE excused \ {KeyOf[r]}
            <4>1. CASE k = KeyOf[r]
                BY <2>5, <2>7, <2>8, <3>2, <4>1 DEF ShowcaseTypeOK
            <4>2. CASE k # KeyOf[r]
                <5>1. cache'[k] = cache[k] /\ k \notin excused
                    BY <2>8, <3>2, <4>2 DEF ShowcaseTypeOK
                <5>2. QED
                    BY <2>4, <2>8, <5>1 DEF CachedInv
            <4>3. QED
                BY <4>1, <4>2
        <3>3. QED
            BY <2>6, <3>1, <3>2
    <2>9. QED
        BY <2>2, <2>3, <2>8 DEF CachedInv
<1>7. CASE ListOwn(r)
    BY <1>4, <1>7, Apart DEF ListOwn
<1>8. CASE AnswerOwn(r)
    BY <1>3, <1>8 DEF AnswerOwn, shownRows, reading
<1>9. ASSUME NEW d \in Deployments, Shoot(r, d) PROVE CachedInv'
    <2>1. UNCHANGED <<cache, excused, status, dated, answer>>
        BY <1>9 DEF Shoot
    <2>2. CASE UNCHANGED req
        <3>1. Quiet
            BY <2>1, <2>2 DEF Quiet, Visible, Told
        <3>2. QED
            BY <3>1, QuietKeeps
    <2>3. CASE Goto(r, "read", "failed")
        BY <1>3, <2>1, <2>3
    <2>4. QED
        BY <1>9, <2>2, <2>3 DEF Shoot
<1>10. QED
    BY <1>5, <1>6, <1>7, <1>8, <1>9

LEMMA JobsCached ==
    ASSUME ShowcaseTypeOK, CachedInv, NEW d \in Deployments,
           AttachDomain(d) \/ Photograph(d) \/ Activate(d) \/ Announce(d) \/ Replace(d)
    PROVE  CachedInv'
<1>1. /\ d \in ShowcaseRequests /\ d \notin Readers
      /\ Public \subseteq ShowcaseRequests /\ Readers \subseteq ShowcaseRequests
    BY Known, Apart DEF ShowcaseRequests
<1>2. CASE AttachDomain(d) \/ Photograph(d)
    <2>1. Turns(d) /\ UNCHANGED <<cache, excused, status, dated, answer>>
        BY <1>1, <1>2 DEF AttachDomain, Photograph, Goto, ShowcaseTypeOK, Turns, shownRows,
           reading
    <2>2. QED
        BY <1>1, <2>1, TurnsQuietly, QuietKeeps
<1>3. CASE Activate(d)
    <2>1. /\ req[d] \in {"pictured", "blank"} /\ UNCHANGED <<cache, answer>>
          /\ req'[d] = IF Exists(d) THEN "written" ELSE "failed"
          /\ \A q \in ShowcaseRequests : q # d => req'[q] = req[q]
        BY <1>1, <1>3 DEF Activate, ShowcaseTypeOK, reading
    <2>2. CASE Exists(d)
        <3>1. Change(d, "ACTIVE", d \in Public)
            BY <1>3, <2>2 DEF Activate
        <3>2. /\ \A r \in Readers : req'[r] = "read" => req[r] = "read"
              /\ \A q \in ShowcaseRequests : req[q] \in {"clearing", "half"} => req'[q] = req[q]
              /\ \A e \in Public : req[e] = "written" => req'[e] = "written"
              /\ req'[d] = "written"
            BY <1>1, <2>1, <2>2
        <3>3. QED
            BY <2>1, <3>1, <3>2, ChangeKeeps
    <2>3. CASE ~ Exists(d)
        <3>1. Turns(d) /\ UNCHANGED <<cache, excused, status, dated, answer>>
            BY <1>1, <1>3, <2>1, <2>3 DEF Activate, Turns
        <3>2. QED
            BY <1>1, <3>1, TurnsQuietly, QuietKeeps
    <2>4. QED
        BY <2>2, <2>3
<1>4. CASE Announce(d)
    <2>1. /\ req[d] = "written" /\ UNCHANGED <<cache, answer>>
          /\ \A q \in ShowcaseRequests : q # d => req'[q] = req[q]
        BY <1>1, <1>4 DEF Announce, Goto, ShowcaseTypeOK, reading
    <2>2. CASE /\ Goto(d, "written", IF d \in Public THEN "clearing" ELSE "done")
               /\ UNCHANGED <<status, dated, excused>>
        <3>1. req'[d] = IF d \in Public THEN "clearing" ELSE "done"
            BY <1>1, <2>2 DEF Goto, ShowcaseTypeOK
        <3>2. Visible' = Visible
            BY <2>2 DEF Visible
        <3>3. \A k \in Keys : Told(k) => Told(k)'
            BY <1>1, <2>1, <2>2, <3>1 DEF Told
        <3>4. Quiet
            BY <1>1, <2>1, <2>2, <3>1, <3>2, <3>3 DEF Quiet, Readers
        <3>5. QED
            BY <3>4, QuietKeeps
    <2>3. CASE Goto(d, "written", "failed")
        <3>1. req'[d] = "failed"
            BY <1>1, <2>3 DEF Goto, ShowcaseTypeOK
        <3>2. /\ \A r \in Readers : req'[r] = "read" => req[r] = "read"
              /\ \A q \in ShowcaseRequests : req[q] \in {"clearing", "half"} => req'[q] = req[q]
              /\ \A e \in Public : req[e] = "written" => req'[e] = "written" \/ e = d
            BY <1>1, <2>1, <3>1
        <3>3. CASE Exists(d)
            <4>1. CASE Change(d, "FAILED", FALSE)
                <5>1. \A e \in Public : req[e] = "written" =>
                          req'[e] = "written" \/ (e = d /\ "FAILED" # "ACTIVE")
                    BY <3>2
                <5>2. PICK said : said = FALSE
                    OBVIOUS
                <5>3. Change(d, "FAILED", said) /\ UNCHANGED <<cache, answer>>
                    BY <2>1, <4>1, <5>2
                <5>4. QED
                    BY <3>2, <5>1, <5>2, <5>3, ChangeKeeps
            <4>2. CASE d \notin Public /\ UNCHANGED <<status, dated, excused>>
                <5>1. Visible' = Visible
                    BY <4>2 DEF Visible
                <5>2. \A k \in Keys : Told(k) => Told(k)'
                    BY <1>1, <2>1, <4>2 DEF Told
                <5>3. Quiet
                    BY <1>1, <2>1, <3>2, <4>2, <5>1, <5>2 DEF Quiet, Readers
                <5>4. QED
                    BY <5>3, QuietKeeps
            <4>3. QED
                BY <1>4, <2>1, <3>1, <3>3, <4>1, <4>2 DEF Announce, Goto, ShowcaseTypeOK
        <3>4. CASE ~ Exists(d)
            <4>1. UNCHANGED <<status, dated, excused>>
                BY <1>4, <3>1, <3>4 DEF Announce
            <4>2. Visible' = Visible
                BY <4>1 DEF Visible
            <4>3. status[d] # "ACTIVE"
                BY <3>4 DEF Exists
            <4>4. \A k \in Keys : Told(k) => Told(k)'
                BY <1>1, <2>1, <4>1, <4>3 DEF Told
            <4>5. Quiet
                BY <1>1, <2>1, <3>2, <4>1, <4>2, <4>4 DEF Quiet, Readers
            <4>6. QED
                BY <4>5, QuietKeeps
        <3>5. QED
            BY <3>3, <3>4
    <2>4. QED
        BY <1>4, <2>2, <2>3 DEF Announce
<1>5. CASE Replace(d)
    <2>1. Change(d, "gone", FALSE) /\ UNCHANGED <<req, cache, answer>>
        BY <1>5 DEF Replace, reading
    <2>2. QED
        BY <2>1, ChangeKeeps
<1>6. QED
    BY <1>2, <1>3, <1>4, <1>5

LEMMA EndsCached ==
    ASSUME ShowcaseTypeOK, CachedInv,
           NEW w \in Deletes \cup Terminations \cup Verifies,
           \/ w \in Deletes /\ (StartDelete(w) \/ MarkDeleted(w))
           \/ Terminate(w) \/ StartVerify(w) \/ RecordVerify(w)
    PROVE  CachedInv'
<1>1. /\ w \in ShowcaseRequests /\ w \notin Readers /\ w \notin Deployments /\ TargetOf[w] \in Deployments
      /\ Public \subseteq ShowcaseRequests /\ Readers \subseteq ShowcaseRequests /\ Public \subseteq Deployments
    BY Known, Apart DEF ShowcaseRequests
<1>2. ASSUME NEW from \in {"new", "read"}, NEW to, Goto(w, from, to)
      PROVE  /\ req[w] = from /\ req'[w] = to
             /\ \A q \in ShowcaseRequests : q # w => req'[q] = req[q]
             /\ \A r \in Readers : req'[r] = "read" => req[r] = "read"
             /\ \A q \in ShowcaseRequests : req[q] \in {"clearing", "half"} => req'[q] = req[q]
             /\ \A e \in Public : req[e] = "written" => req'[e] = "written"
    BY <1>1, <1>2 DEF Goto, ShowcaseTypeOK
<1>3. ASSUME NEW from \in {"new", "read"}, NEW to, Goto(w, from, to),
             UNCHANGED <<cache, excused, status, dated, answer>>
      PROVE  CachedInv'
    <2>1. \A r \in Readers : req'[r] = "read" => req[r] = "read"
        BY <1>2, <1>3
    <2>2. \A k \in Keys : Told(k) => Told(k)'
        BY <1>1, <1>2, <1>3 DEF Told
    <2>3. Quiet
        BY <1>3, <2>1, <2>2 DEF Quiet, Visible, Readers
    <2>4. QED
        BY <2>3, QuietKeeps
<1>4. ASSUME NEW from \in {"new", "read"}, NEW to, Goto(w, from, to),
             UNCHANGED <<cache, answer>>, Change(TargetOf[w], "DELETED", TRUE),
             TargetOf[w] \in Public => to = "clearing"
      PROVE  CachedInv'
    <2>1. PICK d \in Deployments : d = TargetOf[w]
        BY <1>1
    <2>2. PICK said : said = TRUE
        OBVIOUS
    <2>3. said /\ d \in Public => \/ \E q \in ShowcaseRequests : req'[q] = "clearing"
                                  \/ req'[d] = "written" /\ "DELETED" = "ACTIVE"
        BY <1>1, <1>2, <1>4, <2>1
    <2>4. \A e \in Public : req[e] = "written" =>
              req'[e] = "written" \/ (e = d /\ "DELETED" # "ACTIVE")
        BY <1>2, <1>4
    <2>5. /\ \A r \in Readers : req'[r] = "read" => req[r] = "read"
          /\ \A q \in ShowcaseRequests : req[q] \in {"clearing", "half"} => req'[q] = req[q]
        BY <1>2, <1>4
    <2>6. Change(d, "DELETED", said) /\ UNCHANGED <<cache, answer>>
        BY <1>4, <2>1, <2>2
    <2>7. QED
        BY <2>3, <2>4, <2>5, <2>6, ChangeKeeps
<1>5. CASE w \in Deletes /\ StartDelete(w)
    BY <1>3, <1>5 DEF StartDelete, shownRows, reading
<1>6. CASE w \in Deletes /\ MarkDeleted(w)
    <2>1. CASE Exists(TargetOf[w])
        BY <1>4, <1>6, <2>1 DEF MarkDeleted, reading
    <2>2. CASE ~ Exists(TargetOf[w])
        BY <1>3, <1>6, <2>2 DEF MarkDeleted, reading
    <2>3. QED
        BY <2>1, <2>2
<1>7. CASE Terminate(w)
    <2>1. CASE Exists(TargetOf[w])
        BY <1>4, <1>7, <2>1 DEF Terminate, reading
    <2>2. CASE ~ Exists(TargetOf[w])
        BY <1>3, <1>7, <2>2 DEF Terminate, reading
    <2>3. QED
        BY <2>1, <2>2
<1>8. CASE StartVerify(w)
    BY <1>3, <1>8 DEF StartVerify, shownRows, reading
<1>9. CASE RecordVerify(w)
    BY <1>3, <1>9 DEF RecordVerify, reading
<1>10. QED
    BY <1>5, <1>6, <1>7, <1>8, <1>9

LEMMA StepCached == ShowcaseTypeOK /\ CachedInv /\ [ShowcaseNext]_showcaseVars => CachedInv'
<1> SUFFICES ASSUME ShowcaseTypeOK, CachedInv, [ShowcaseNext]_showcaseVars PROVE CachedInv'
    OBVIOUS
<1>1. CASE UNCHANGED showcaseVars
    <2>1. Quiet
        BY <1>1 DEF showcaseVars, shownRows, reading, Quiet, Visible, Told
    <2>2. QED
        BY <2>1, QuietKeeps
<1>2. ASSUME NEW w \in Clears, StartClear(w) PROVE CachedInv'
    <2>1. w \in ShowcaseRequests
        BY DEF ShowcaseRequests
    <2>2. Turns(w) /\ UNCHANGED <<cache, excused, status, dated, answer>>
        BY <1>2, <2>1 DEF StartClear, Turns, Goto, ShowcaseTypeOK, shownRows, reading
    <2>3. QED
        BY <2>1, <2>2, TurnsQuietly, QuietKeeps
<1>3. ASSUME NEW key \in Keys, Expire(key) PROVE CachedInv'
    <2>1. UNCHANGED <<req, status, answer, dated>>
        BY <1>3 DEF Expire, shownRows, reading
    <2>2. Visible' = Visible /\ \A k \in Keys : Told(k)' = Told(k)
        BY <2>1 DEF Visible, Told
    <2>3. \A k \in Keys : k # key => cache'[k] = cache[k] /\ (k \in excused' <=> k \in excused)
        BY <1>3 DEF Expire, ShowcaseTypeOK
    <2>4. cache'[key] = Nothing
        BY <1>3 DEF Expire, ShowcaseTypeOK
    <2>5. QED
        BY <2>1, <2>2, <2>3, <2>4 DEF CachedInv, ReadTrue
<1>4. QED
    BY <1>1, <1>2, <1>3, ClearsCached, ReadersCached, JobsCached, EndsCached DEF ShowcaseNext,
       Readers

(* A cached list is that of the public, active deployments, unless it is   *)
(* about to be cleared, was read before a change and stored after it, or   *)
(* the change was announced by nobody, or not successfully: for any        *)
(* deployments, listings and keys, however they overlap                    *)
(* (community-showcase.service.ts 60-95, 366-387).                         *)
THEOREM CachedListIsTrue == ShowcaseSpec => []CachedIsTrue
<1>1. ShowcaseInit => CachedInv
    <2> SUFFICES ASSUME ShowcaseInit PROVE CachedInv
        OBVIOUS
    <2>1. \A r \in ShowcaseRequests : req[r] \in {"new", "never"}
        BY DEF ShowcaseInit
    <2>2. QED
        BY <2>1 DEF ShowcaseInit, CachedInv, ReadTrue, ShowcaseRequests, Readers
<1>2. CachedInv => CachedIsTrue
    BY DEF CachedInv, CachedIsTrue, Told, Announced
<1>3. BoardTypes => ShowcaseTypeOK
    BY DEF BoardTypes
<1>4. QED
    BY <1>1, <1>2, <1>3, InitBoard, StepBoard, StepCached, PTL DEF ShowcaseSpec

-----------------------------------------------------------------------------
(* The domain of a deployment that its owner deleted. *)

Past == {"clearing", "half", "done"}

DomainInv ==
    \A w \in Deletes : req[w] \in Past /\ TargetOf[w] \notin late
        => domain[TargetOf[w]] = "null" /\ ~ Working(TargetOf[w])

(* Nobody begins to work on a domain, and no deletion gets so far. *)
Idle ==
    /\ UNCHANGED <<domain, late>>
    /\ \A w \in Deletes : req'[w] \in Past => req[w] \in Past
    /\ \A d \in Deployments : req'[d] = "new" => req[d] = "new"
    /\ \A v \in Verifies : req'[v] = "read" => req[v] = "read"

LEMMA IdleKeeps == DomainInv /\ Idle => DomainInv'
<1> SUFFICES ASSUME DomainInv, Idle PROVE DomainInv'
    OBVIOUS
<1>1. \A d \in Deployments : Working(d)' => Working(d)
    BY DEF Working, Idle
<1>2. \A w \in Deletes : TargetOf[w] \in Deployments
    BY Known
<1>3. QED
    BY <1>1, <1>2 DEF DomainInv, Idle

(* A request goes on that is none of those. *)
LEMMA OthersIdle ==
    ASSUME NEW w \in ShowcaseRequests, \A q \in ShowcaseRequests : q # w => req'[q] = req[q],
           UNCHANGED <<domain, late>>,
           w \in Deletes /\ req'[w] \in Past => req[w] \in Past,
           w \in Deployments => req'[w] # "new",
           w \in Verifies => req'[w] # "read"
    PROVE  Idle
BY DEF Idle, ShowcaseRequests

LEMMA StepDomain == ShowcaseTypeOK /\ DomainInv /\ [ShowcaseNext]_showcaseVars => DomainInv'
<1> SUFFICES ASSUME ShowcaseTypeOK, DomainInv, [ShowcaseNext]_showcaseVars PROVE DomainInv'
    OBVIOUS
<1>0. ASSUME NEW w \in ShowcaseRequests, NEW from, NEW to, Goto(w, from, to)
      PROVE  /\ req[w] = from /\ req'[w] = to
             /\ \A q \in ShowcaseRequests : q # w => req'[q] = req[q]
    BY <1>0 DEF Goto, ShowcaseTypeOK
<1>1. CASE UNCHANGED showcaseVars \/ \E k \in Keys : Expire(k)
    <2>1. Idle
        BY <1>1 DEF showcaseVars, shownRows, Expire, Idle
    <2>2. QED
        BY <2>1, IdleKeeps
<1>2. ASSUME NEW w \in ShowcaseRequests, ClearAll(w) \/ ClearLandingpage(w) \/ Crash(w)
      PROVE  DomainInv'
    <2>1. /\ UNCHANGED <<domain, late>> /\ req[w] \in Past /\ req'[w] \in Past
          /\ \A q \in ShowcaseRequests : q # w => req'[q] = req[q]
        BY <1>2 DEF ClearAll, ClearLandingpage, Crash, Goto, ShowcaseTypeOK, shownRows, Past
    <2>2. Idle
        BY <2>1, OthersIdle DEF Past
    <2>3. QED
        BY <2>2, IdleKeeps
<1>3. ASSUME NEW w \in Clears, StartClear(w) PROVE DomainInv'
    <2>1. w \in ShowcaseRequests /\ w \notin Deletes
        BY Apart DEF ShowcaseRequests
    <2>2. Idle
        BY <1>0, <1>3, <2>1, OthersIdle DEF StartClear, shownRows
    <2>3. QED
        BY <2>2, IdleKeeps
<1>4. ASSUME NEW r \in Readers,
             \/ List(r) \/ Store(r) \/ ListOwn(r) \/ AnswerOwn(r)
             \/ \E d \in Deployments : Shoot(r, d)
      PROVE  DomainInv'
    <2>1. r \in ShowcaseRequests /\ r \notin Deletes \cup Deployments \cup Verifies
        BY Apart DEF ShowcaseRequests
    <2>2. UNCHANGED <<domain, late>> /\ \A q \in ShowcaseRequests : q # r => req'[q] = req[q]
        BY <1>4 DEF List, Store, ListOwn, AnswerOwn, Shoot, Read, Goto, ShowcaseTypeOK, shownRows
    <2>3. Idle
        BY <2>1, <2>2, OthersIdle
    <2>4. QED
        BY <2>3, IdleKeeps
<1>5. ASSUME NEW d \in Deployments,
             Photograph(d) \/ Activate(d) \/ Announce(d) \/ Replace(d)
      PROVE  DomainInv'
    <2>1. d \in ShowcaseRequests /\ d \notin Deletes \cup Verifies
        BY Apart DEF ShowcaseRequests
    <2>2. /\ UNCHANGED <<domain, late>> /\ \A q \in ShowcaseRequests : q # d => req'[q] = req[q]
          /\ req'[d] = req[d] \/ req'[d] # "new"
        BY <1>5, <2>1 DEF Photograph, Activate, Announce, Replace, Goto, ShowcaseTypeOK, shownRows
    <2>3. Idle
        BY <2>1, <2>2 DEF Idle, ShowcaseRequests
    <2>4. QED
        BY <2>3, IdleKeeps
<1>6. ASSUME NEW d \in Deployments, AttachDomain(d) PROVE DomainInv'
    <2>1. d \in ShowcaseRequests /\ d \notin Deletes \cup Verifies
        BY Apart DEF ShowcaseRequests
    <2>2. /\ req[d] = "new" /\ req'[d] = "attached"
          /\ \A q \in ShowcaseRequests : q # d => req'[q] = req[q]
          /\ UNCHANGED late /\ \A e \in Deployments : e # d => domain'[e] = domain[e]
        BY <1>0, <1>6, <2>1 DEF AttachDomain, ShowcaseTypeOK
    <2>3. ASSUME NEW w \in Deletes, req'[w] \in Past, TargetOf[w] \notin late'
          PROVE  domain'[TargetOf[w]] = "null" /\ ~ Working(TargetOf[w])'
        <3>1. w \in ShowcaseRequests /\ req'[w] = req[w] /\ TargetOf[w] \in Deployments
            BY <2>1, <2>2, Known DEF ShowcaseRequests
        <3>2. domain[TargetOf[w]] = "null" /\ ~ Working(TargetOf[w])
            BY <2>2, <2>3, <3>1 DEF DomainInv
        <3>3. TargetOf[w] # d
            BY <2>2, <3>2 DEF Working
        <3>4. \A v \in Verifies : req'[v] = req[v]
            BY <2>1, <2>2 DEF ShowcaseRequests
        <3>5. QED
            BY <2>2, <3>1, <3>2, <3>3, <3>4 DEF Working, ShowcaseRequests
    <2>4. QED
        BY <2>3 DEF DomainInv
<1>7. ASSUME NEW w \in Deletes, StartDelete(w) PROVE DomainInv'
    <2>1. w \in ShowcaseRequests /\ w \notin Deployments \cup Verifies
        BY Apart DEF ShowcaseRequests
    <2>2. /\ UNCHANGED <<domain, late>> /\ req'[w] \notin Past
          /\ \A q \in ShowcaseRequests : q # w => req'[q] = req[q]
        BY <1>0, <1>7, <2>1 DEF StartDelete, shownRows, Past
    <2>3. Idle
        BY <2>1, <2>2, OthersIdle
    <2>4. QED
        BY <2>3, IdleKeeps
<1>8. ASSUME NEW x \in Deletes, MarkDeleted(x) PROVE DomainInv'
    <2> DEFINE d == TargetOf[x]
    <2>1. x \in ShowcaseRequests /\ x \notin Deployments \cup Verifies /\ d \in Deployments
        BY Apart, Known DEF ShowcaseRequests
    <2>2. \A q \in ShowcaseRequests : q # x => req'[q] = req[q]
        BY <1>0, <1>8, <2>1 DEF MarkDeleted
    <2>3. \A e \in Deployments : Working(e)' <=> Working(e)
        BY <2>1, <2>2 DEF Working, ShowcaseRequests
    <2>4. CASE Exists(d)
        <3>1. /\ domain' = [domain EXCEPT ![d] = "null"]
              /\ late' = IF Working(d) THEN late \cup {d} ELSE late
            BY <1>8, <2>4 DEF MarkDeleted
        <3>2. ASSUME NEW w \in Deletes, req'[w] \in Past, TargetOf[w] \notin late'
              PROVE  domain'[TargetOf[w]] = "null" /\ ~ Working(TargetOf[w])'
            <4>1. w \in ShowcaseRequests /\ TargetOf[w] \in Deployments
                BY Known DEF ShowcaseRequests
            <4>2. CASE TargetOf[w] = d
                BY <2>3, <3>1, <3>2, <4>1, <4>2 DEF ShowcaseTypeOK
            <4>3. CASE TargetOf[w] # d
                <5>1. w # x /\ req[w] \in Past /\ TargetOf[w] \notin late
                    BY <2>2, <3>1, <3>2, <4>1, <4>3
                <5>2. domain[TargetOf[w]] = "null" /\ ~ Working(TargetOf[w])
                    BY <5>1 DEF DomainInv
                <5>3. QED
                    BY <2>3, <3>1, <4>1, <4>3, <5>2 DEF ShowcaseTypeOK
            <4>4. QED
                BY <4>2, <4>3
        <3>3. QED
            BY <3>2 DEF DomainInv
    <2>5. CASE ~ Exists(d)
        <3>1. UNCHANGED <<domain, late>> /\ req'[x] = "failed"
            BY <1>0, <1>8, <2>1, <2>5 DEF MarkDeleted
        <3>2. Idle
            BY <2>1, <2>2, <3>1, OthersIdle DEF Past
        <3>3. QED
            BY <3>2, IdleKeeps
    <2>6. QED
        BY <2>4, <2>5
<1>9. ASSUME NEW w \in Terminations, Terminate(w) PROVE DomainInv'
    <2>1. w \in ShowcaseRequests /\ w \notin Deletes \cup Deployments \cup Verifies
        BY Apart DEF ShowcaseRequests
    <2>2. UNCHANGED <<domain, late>> /\ \A q \in ShowcaseRequests : q # w => req'[q] = req[q]
        BY <1>0, <1>9, <2>1 DEF Terminate
    <2>3. Idle
        BY <2>1, <2>2, OthersIdle
    <2>4. QED
        BY <2>3, IdleKeeps
<1>10. ASSUME NEW x \in Verifies, StartVerify(x) \/ RecordVerify(x) PROVE DomainInv'
    <2> DEFINE d == TargetOf[x]
    <2>1. x \in ShowcaseRequests /\ x \notin Deletes \cup Deployments /\ d \in Deployments
        BY Apart, Known DEF ShowcaseRequests
    <2>2. \A q \in ShowcaseRequests : q # x => req'[q] = req[q]
        BY <1>0, <1>10, <2>1 DEF StartVerify, RecordVerify
    <2>3. CASE req'[x] # "read" /\ UNCHANGED <<domain, late>>
        <3>1. Idle
            BY <2>1, <2>2, <2>3, OthersIdle
        <3>2. QED
            BY <3>1, IdleKeeps
    <2>4. CASE domain[d] # "null" /\ UNCHANGED <<domain, late>>
        <3>1. ASSUME NEW w \in Deletes, req'[w] \in Past, TargetOf[w] \notin late'
              PROVE  domain'[TargetOf[w]] = "null" /\ ~ Working(TargetOf[w])'
            <4>1. w \in ShowcaseRequests /\ w # x /\ TargetOf[w] \in Deployments
                BY <2>1, Known DEF ShowcaseRequests
            <4>2. domain[TargetOf[w]] = "null" /\ ~ Working(TargetOf[w])
                BY <2>2, <2>4, <3>1, <4>1 DEF DomainInv
            <4>3. TargetOf[w] # d
                BY <2>4, <4>2
            <4>4. QED
                BY <2>1, <2>2, <2>4, <4>1, <4>2, <4>3 DEF Working, ShowcaseRequests
        <3>2. QED
            BY <3>1 DEF DomainInv
    <2>5. CASE /\ req[x] = "read" /\ req'[x] = "done" /\ UNCHANGED late
               /\ \A e \in Deployments : e # d => domain'[e] = domain[e]
        <3>1. ASSUME NEW w \in Deletes, req'[w] \in Past, TargetOf[w] \notin late'
              PROVE  domain'[TargetOf[w]] = "null" /\ ~ Working(TargetOf[w])'
            <4>1. w \in ShowcaseRequests /\ w # x /\ TargetOf[w] \in Deployments
                BY <2>1, Known DEF ShowcaseRequests
            <4>2. domain[TargetOf[w]] = "null" /\ ~ Working(TargetOf[w])
                BY <2>2, <2>5, <3>1, <4>1 DEF DomainInv
            <4>3. TargetOf[w] # d
                BY <2>5, <4>2 DEF Working
            <4>4. QED
                BY <2>1, <2>2, <2>5, <4>1, <4>2, <4>3 DEF Working, ShowcaseRequests
        <3>2. QED
            BY <3>1 DEF DomainInv
    <2>6. QED
        <3>1. CASE StartVerify(x)
            BY <1>0, <2>1, <2>3, <2>4, <3>1 DEF StartVerify, shownRows
        <3>2. CASE RecordVerify(x)
            BY <1>0, <2>1, <2>3, <2>5, <3>2 DEF RecordVerify, ShowcaseTypeOK
        <3>3. QED
            BY <1>10, <3>1, <3>2
<1>11. QED
    BY <1>1, <1>2, <1>3, <1>4, <1>5, <1>6, <1>7, <1>8, <1>9, <1>10 DEF ShowcaseNext, Readers

(* A deployment that its owner deleted has no domain status left, unless   *)
(* its job or a verification was at work on the domain at that moment: for *)
(* any deployments, deletions and verifications (deploy.service.ts         *)
(* 2441-2452 and 2553).                                                    *)
THEOREM DeletedHasNone == ShowcaseSpec => []DeletedHasNoDomain
<1>1. ShowcaseInit => DomainInv
    BY DEF ShowcaseInit, DomainInv, Past, ShowcaseRequests
<1>2. DomainInv => DeletedHasNoDomain
    BY DEF DomainInv, DeletedHasNoDomain, Past
<1>3. BoardTypes => ShowcaseTypeOK
    BY DEF BoardTypes
<1>4. QED
    BY <1>1, <1>2, <1>3, InitBoard, StepBoard, StepDomain, PTL DEF ShowcaseSpec

-----------------------------------------------------------------------------
(* The repositories. *)

(* Hands hold one repository each, and the row names one of its job's. *)
HandsOK ==
    /\ \A p \in Pushes : hand[p] \subseteq OwnNames
    /\ \A k \in Deploys : hand[k] \subseteq JobNames(k)
    /\ \A r \in Pushes \cup Deploys : \A a, b \in hand[r] : a = b

UrlsOK ==
    /\ projectUrl \in OwnNames \cup {None}
    /\ rowUrl \in OwnNames \cup {None} \/ (row \in Deploys /\ rowUrl \in JobNames(row))

TriesOK ==
    \A k \in Deploys :
        /\ req[k] \in {"new", "never"} => tries[k] = 0
        /\ req[k] = "queued" => tries[k] < Tries
        /\ req[k] \in {"exported", "replacing", "suffixing"} => tries[k] # 0

ReposTypes == ReposTypeOK /\ HandsOK /\ UrlsOK /\ TriesOK

(* Repositories of the owner that hold the code of a push. *)
OwnersKept == {name \in OwnNames \cap DOMAIN repos : repos[name] \in Pushes}

CodeInv ==
    /\ {projectUrl, rowUrl} \cap OwnNames \subseteq OwnersKept
    /\ \A p \in Pushes :
           req[p] \in {"filled", "telling", "sharing"} => hand[p] \subseteq OwnersKept

(* What is neither the project's nor its deployment's, but not forgotten. *)
Loose == InHand \cup left

TraceInv ==
    /\ DOMAIN repos \subseteq {projectUrl, rowUrl} \cup Loose
    /\ rowUrl \in OwnNames => rowUrl \in {projectUrl} \cup left
    /\ \A p \in Pushes :
           req[p] \in {"telling", "sharing"} => hand[p] \subseteq {projectUrl} \cup left
    /\ \A k \in Deploys : row = k /\ req[k] \in {"replacing", "suffixing", "created"} =>
           {PlainName(k)} \cap DOMAIN repos \subseteq Loose

ClonesInv ==
    /\ disk \subseteq cloneRows \cup Cloning \cup left
    /\ \A c \in Clones : req[c] = "dropping" => c \notin disk

(* A deployment of the row with which nobody interferes. *)
Suffixes(k) == JobNames(k) \ {PlainName(k)}

Alone(k) ==
    /\ \A j \in Deploys \ {k} : BotName[j] = BotName[k] => ~ Running(j)
    /\ \A r \in Deleters : Deleting(r) => hand[r] \cap JobNames(k) = {}

BuiltInv ==
    /\ \A r \in Deleters, k \in Deploys :
           Deleting(r) /\ hand[r] \cap Suffixes(k) # {} => k \in disturbed
    /\ \A k \in Deploys \ disturbed : row = k =>
           /\ Alone(k)
           /\ req[k] \in {"stored", "done"} => hand[k] = {rowUrl}
           /\ req[k] = "done" => rowUrl \in DOMAIN repos /\ repos[rowUrl] = k

(* The names of repositories. *)
LEMMA NamesApart ==
    /\ None \notin Names /\ OwnNames \subseteq Names
    /\ \A k \in Deploys :
          /\ JobNames(k) \subseteq Names /\ PlainName(k) \in JobNames(k)
          /\ JobNames(k) \cap OwnNames = {}
          /\ \A name \in JobNames(k) :
                Bots(name) /\ (Suffixed(name) <=> name # PlainName(k))
    /\ \A name \in OwnNames : ~ Bots(name) /\ ~ Suffixed(name)
    /\ \A j, k \in Deploys : j # k =>
          /\ \A name \in JobNames(j) \cap JobNames(k) :
                BotName[j] = BotName[k] /\ name = PlainName(k) /\ name = PlainName(j)
          /\ BotName[j] = BotName[k] => PlainName(j) = PlainName(k)
<1>1. ASSUME NEW k \in Deploys, NEW name \in JobNames(k)
      PROVE  \/ name = <<BotName[k], 0, 0>>
             \/ \E n \in Nat \ {0} : name = <<BotName[k], k, n>>
    BY ReposAssumption DEF JobNames, PlainName
<1>2. \A k \in Deploys : BotName[k] \in Range(BotName) /\ k \in Nat \ {0}
    BY ReposAssumption DEF Range
<1>3. \A p \in Pushes : RepoName[p] \in Range(RepoName) /\ RepoName[p] \notin Range(BotName)
    BY ReposAssumption DEF Range
<1>4. ASSUME NEW name \in OwnNames
      PROVE  /\ name # None /\ ~ Bots(name) /\ ~ Suffixed(name)
             /\ name[1] \notin Range(BotName)
    BY <1>3 DEF OwnNames, Own, None, Bots, Suffixed
<1>5. ASSUME NEW k \in Deploys, NEW name \in JobNames(k)
      PROVE  /\ name # None /\ Bots(name) /\ name[1] = BotName[k]
             /\ name # PlainName(k) => name[2] = k
             /\ Suffixed(name) <=> name # PlainName(k)
    BY <1>1, <1>2 DEF None, Bots, Suffixed, PlainName
<1>6. \A k \in Deploys : /\ JobNames(k) \subseteq Names /\ PlainName(k) \in JobNames(k)
                         /\ JobNames(k) \cap OwnNames = {}
    BY <1>4, <1>5 DEF Names, JobNames
<1>7. None \notin Names /\ OwnNames \subseteq Names
    BY <1>4, <1>5 DEF Names
<1>8. ASSUME NEW j \in Deploys, NEW k \in Deploys, j # k,
             NEW name \in JobNames(j) \cap JobNames(k)
      PROVE  BotName[j] = BotName[k] /\ name = PlainName(k) /\ name = PlainName(j)
    <2>1. BotName[j] = BotName[k]
        BY <1>5, <1>8
    <2>2. name = PlainName(j) => name = PlainName(k)
        BY <2>1 DEF PlainName
    <2>3. name = PlainName(k) => name = PlainName(j)
        BY <2>1 DEF PlainName
    <2>4. QED
        BY <1>5, <1>8, <2>1, <2>2, <2>3
<1>9. QED
    BY <1>4, <1>5, <1>6, <1>7, <1>8 DEF PlainName

(* A request is of one kind. *)
LEMMA RequestsApart ==
    /\ Pushes \cap (Deploys \cup Deleters \cup Clones \cup {Link}) = {}
    /\ Deploys \cap (Deleters \cup Clones \cup {Link}) = {}
    /\ Deleters \cap (Clones \cup {Link}) = {} /\ Deletion \notin Undeploys
    /\ Link \notin Clones
    /\ Pushes \cup Deploys \cup Deleters \cup Clones \cup {Link} = RepoRequests
    /\ Clones \cap Names = {} /\ 0 \notin Deploys
<1> DEFINE kinds == <<Pushes, Deploys, Undeploys, Clones, {Deletion}, {Link}>>
<1>1. \A i, j \in 1 .. 6 : i # j => kinds[i] \cap kinds[j] = {}
    BY ReposAssumption
<1>2. /\ kinds[1] = Pushes /\ kinds[2] = Deploys /\ kinds[3] = Undeploys
      /\ kinds[4] = Clones /\ kinds[5] = {Deletion} /\ kinds[6] = {Link}
    OBVIOUS
<1> HIDE DEF kinds
<1>3. /\ kinds[1] \cap kinds[2] = {} /\ kinds[1] \cap kinds[3] = {} /\ kinds[1] \cap kinds[4] = {}
      /\ kinds[1] \cap kinds[5] = {} /\ kinds[1] \cap kinds[6] = {} /\ kinds[2] \cap kinds[3] = {}
      /\ kinds[2] \cap kinds[4] = {} /\ kinds[2] \cap kinds[5] = {} /\ kinds[2] \cap kinds[6] = {}
    BY <1>1
<1>4. /\ kinds[3] \cap kinds[4] = {} /\ kinds[3] \cap kinds[5] = {} /\ kinds[3] \cap kinds[6] = {}
      /\ kinds[4] \cap kinds[5] = {} /\ kinds[4] \cap kinds[6] = {} /\ kinds[5] \cap kinds[6] = {}
    BY <1>1
<1>5. Clones \cap Names = {} /\ 0 \notin Deploys
    BY ReposAssumption
<1>6. QED
    BY <1>2, <1>3, <1>4, <1>5 DEF RepoRequests, Deleters

(* What the statements do. *)
LEMMA Stepping ==
    ASSUME ReposTypeOK, NEW r \in RepoRequests, NEW from, NEW to,
           Goto(r, from, to), to \in RepoSteps
    PROVE  /\ req' \in [RepoRequests -> RepoSteps] /\ req[r] = from /\ req'[r] = to
           /\ \A q \in RepoRequests : q # r => req'[q] = req[q]
BY DEF Goto, ReposTypeOK

LEMMA Holding ==
    ASSUME ReposTypeOK, NEW r \in RepoRequests, NEW names, Hold(r, names),
           names \subseteq Names \cup {None}
    PROVE  /\ hand' \in [RepoRequests -> SUBSET Names] /\ hand'[r] = names \ {None}
           /\ \A q \in RepoRequests : q # r => hand'[q] = hand[q]
BY DEF Hold, ReposTypeOK

LEMMA Creating ==
    ASSUME ReposTypeOK, NEW name \in Names, Create(name)
    PROVE  /\ DOMAIN repos' = DOMAIN repos \cup {name}
           /\ repos' \in [DOMAIN repos' -> Pushes \cup Deploys \cup {0}]
           /\ repos'[name] = 0 /\ \A n \in DOMAIN repos : n # name => repos'[n] = repos[n]
           /\ left' = left \ {name}
BY DEF Create, ReposTypeOK

LEMMA Pushing ==
    ASSUME ReposTypeOK, NEW name \in DOMAIN repos, NEW r \in Pushes \cup Deploys,
           Push(name, r)
    PROVE  /\ DOMAIN repos' = DOMAIN repos
           /\ repos' \in [DOMAIN repos' -> Pushes \cup Deploys \cup {0}]
           /\ repos'[name] = r /\ \A n \in DOMAIN repos : n # name => repos'[n] = repos[n]
BY DEF Push, ReposTypeOK

LEMMA Removing ==
    ASSUME ReposTypeOK, NEW names, Remove(names)
    PROVE  /\ DOMAIN repos' = DOMAIN repos \ names
           /\ repos' \in [DOMAIN repos' -> Pushes \cup Deploys \cup {0}]
           /\ \A n \in DOMAIN repos' : repos'[n] = repos[n]
BY DEF Remove, Restrict, ReposTypeOK

LEMMA InitRepos == ReposInit => ReposTypes
<1> SUFFICES ASSUME ReposInit PROVE ReposTypes
    OBVIOUS
<1>1. PICK scenario \in RepoScenarios :
          /\ faults = scenario.faults
          /\ req = [r \in RepoRequests |-> IF r \in scenario.requests THEN "new" ELSE "never"]
    BY DEF ReposInit
<1>2. scenario \in [requests : SUBSET RepoRequests, faults : SUBSET RepoFaults]
    BY ReposAssumption
<1>3. \A r \in RepoRequests : req[r] \in {"new", "never"}
    BY <1>1
<1>4. faults \subseteq RepoFaults /\ req \in [RepoRequests -> RepoSteps]
    BY <1>1, <1>2 DEF RepoSteps
<1>5. DOMAIN repos = {} /\ repos \in [DOMAIN repos -> Pushes \cup Deploys \cup {0}]
    BY DEF ReposInit
<1>6. ReposTypeOK
    <2>1. {connected, hasProject} \subseteq BOOLEAN
        BY Zenon DEF ReposInit
    <2>2. tries \in [Deploys -> 0 .. Tries] /\ hand \in [RepoRequests -> SUBSET Names]
        BY ReposAssumption DEF ReposInit
    <2>3. /\ projectUrl = None /\ row = 0 /\ rowUrl = None
          /\ disk = {} /\ cloneRows = {} /\ left = {} /\ disturbed = {}
        BY DEF ReposInit
    <2>4. QED
        BY <1>4, <1>5, <2>1, <2>2, <2>3 DEF ReposTypeOK
<1>7. HandsOK /\ UrlsOK
    BY RequestsApart DEF ReposInit, HandsOK, UrlsOK, RepoRequests
<1>8. TriesOK
    BY <1>3, RequestsApart DEF ReposInit, TriesOK, RepoRequests
<1>9. QED
    BY <1>6, <1>7, <1>8 DEF ReposTypes

(* A step of somebody who has no job, and no hand but the deleters'. *)
LEMMA IdleTypes ==
    ASSUME ReposTypes, NEW r \in Deleters \cup Clones \cup {Link}, NEW from,
           NEW to,
           Goto(r, from, to), to \in RepoSteps, UNCHANGED tries,
           \A q \in Pushes \cup Deploys : hand'[q] = hand[q]
    PROVE  req' \in [RepoRequests -> RepoSteps] /\ HandsOK' /\ TriesOK'
<1>1. r \in RepoRequests /\ r \notin Deploys /\ r \notin Pushes
    BY RequestsApart
<1>2. Pushes \subseteq RepoRequests /\ Deploys \subseteq RepoRequests
    BY RequestsApart
<1>3. req' \in [RepoRequests -> RepoSteps] /\ \A k \in Deploys : req'[k] = req[k]
    BY <1>1, <1>2, Stepping DEF ReposTypes
<1>4. HandsOK'
    BY DEF ReposTypes, HandsOK
<1>5. TriesOK'
    BY <1>3 DEF ReposTypes, TriesOK
<1>6. QED
    BY <1>3, <1>4, <1>5

LEMMA LinkTypes ==
    ASSUME ReposTypes, Connect \/ Disconnect
    PROVE  ReposTypes'
<1>1. req' \in [RepoRequests -> RepoSteps] /\ HandsOK' /\ TriesOK'
    BY IdleTypes, RequestsApart DEF Connect, Disconnect, Keep, RepoSteps
<1>2. UrlsOK'
    BY DEF Connect, Disconnect, db, ReposTypes, UrlsOK
<1>3. row # 0 => req'[row] \notin {"new", "never"}
    BY Stepping, RequestsApart DEF Connect, Disconnect, RepoSteps, ReposTypes, ReposTypeOK
<1>4. connected' \in BOOLEAN
    BY DEF Connect, Disconnect
<1>5. ReposTypeOK'
    BY <1>1, <1>3, <1>4 DEF Connect, Disconnect, db, github, clones, Keep, ReposTypes, ReposTypeOK
<1>6. QED
    BY <1>1, <1>2, <1>5 DEF ReposTypes

LEMMA CloneTypes ==
    ASSUME ReposTypes, NEW c \in Clones,
           CloneRepo(c) \/ StoreClone(c) \/ DeleteClone(c) \/ DropClone(c)
    PROVE  ReposTypes'
<1>1. UNCHANGED <<faults, tries, connected, db, repos, hand, disturbed>>
    BY DEF CloneRepo, StoreClone, DeleteClone, DropClone, CloneKeeps
<1>2. PICK from \in RepoSteps, to \in RepoSteps : Goto(c, from, to)
    BY DEF CloneRepo, StoreClone, DeleteClone, DropClone, RepoSteps
<1>3. req' \in [RepoRequests -> RepoSteps] /\ HandsOK' /\ TriesOK'
    BY <1>1, <1>2, IdleTypes
<1>4. UrlsOK'
    BY <1>1 DEF db, ReposTypes, UrlsOK
<1>5. disk' \subseteq Clones /\ cloneRows' \subseteq Clones /\ left' \subseteq Names \cup Clones
    BY DEF CloneRepo, StoreClone, DeleteClone, DropClone, ReposTypes, ReposTypeOK
<1>6. row # 0 => req'[row] \notin {"new", "never"}
    BY <1>2, Stepping, RequestsApart DEF ReposTypes, ReposTypeOK
<1>7. ReposTypeOK'
    BY <1>1, <1>3, <1>5, <1>6 DEF db, ReposTypes, ReposTypeOK
<1>8. QED
    BY <1>3, <1>4, <1>7 DEF ReposTypes

(* A push takes a step: its hand holds one name of the owner's. *)
LEMMA PushesGo ==
    ASSUME ReposTypes, NEW p \in Pushes, NEW from, NEW to,
           Goto(p, from, to), to \in RepoSteps, UNCHANGED tries,
           UNCHANGED hand \/ \E name \in OwnNames \cup {None} : Hold(p, {name})
    PROVE  /\ req' \in [RepoRequests -> RepoSteps] /\ hand' \in [RepoRequests -> SUBSET Names]
           /\ HandsOK' /\ TriesOK' /\ \A k \in Deploys : req'[k] = req[k]
<1>1. /\ p \in RepoRequests /\ p \notin Deploys /\ OwnNames \subseteq Names
      /\ None \notin Names
      /\ Pushes \subseteq RepoRequests /\ Deploys \subseteq RepoRequests
    BY RequestsApart, NamesApart
<1>2. req' \in [RepoRequests -> RepoSteps] /\ \A k \in Deploys : req'[k] = req[k]
    BY <1>1, Stepping DEF ReposTypes
<1>3. TriesOK'
    BY <1>2 DEF ReposTypes, TriesOK
<1>4. CASE UNCHANGED hand
    BY <1>2, <1>3, <1>4 DEF ReposTypes, ReposTypeOK, HandsOK
<1>5. CASE \E name \in OwnNames \cup {None} : Hold(p, {name})
    <2>1. PICK name \in OwnNames \cup {None} : Hold(p, {name})
        BY <1>5
    <2>2. /\ hand' \in [RepoRequests -> SUBSET Names] /\ hand'[p] = {name} \ {None}
          /\ \A q \in RepoRequests : q # p => hand'[q] = hand[q]
        BY <2>1, <1>1, Holding DEF ReposTypes
    <2>3. HandsOK'
        BY <2>2, <1>1 DEF ReposTypes, HandsOK
    <2>4. QED
        BY <2>2, <2>3, <1>2, <1>3
<1>6. QED
    BY <1>4, <1>5

LEMMA PushTypes ==
    ASSUME ReposTypes, NEW p \in Pushes,
           \/ StartPush(p) \/ ExportProject(p) \/ CreateOwnRepo(p) \/ FillOwnRepo(p)
           \/ PushAgain(p) \/ TellProject(p) \/ ReadDeployment(p) \/ TellDeployment(p)
    PROVE  ReposTypes'
<1> USE DEF PushKeeps, Keep, clones
<1>1. /\ p \in RepoRequests /\ hand[p] \subseteq OwnNames /\ OwnNames \subseteq Names
      /\ None \notin Names
      /\ Own(p) \in OwnNames
    BY RequestsApart, NamesApart DEF ReposTypes, HandsOK, OwnNames
<1>2. UNCHANGED <<tries, connected, hasProject, row, faults, disk, cloneRows>>
    BY DEF StartPush, ExportProject, CreateOwnRepo, FillOwnRepo, PushAgain, FillRepo, TellProject,
       ReadDeployment, TellDeployment
<1>3. PICK from \in RepoSteps, to \in RepoSteps : Goto(p, from, to)
    BY DEF StartPush, ExportProject, CreateOwnRepo, FillOwnRepo, PushAgain, FillRepo, TellProject,
       ReadDeployment, TellDeployment, RepoSteps
<1>4. UNCHANGED hand \/ \E name \in OwnNames \cup {None} : Hold(p, {name})
    BY <1>1 DEF StartPush, ExportProject, CreateOwnRepo, FillOwnRepo, PushAgain, FillRepo,
       TellProject, ReadDeployment, TellDeployment, github, ReposTypes, UrlsOK
<1>5. /\ req' \in [RepoRequests -> RepoSteps] /\ hand' \in [RepoRequests -> SUBSET Names]
      /\ HandsOK' /\ TriesOK' /\ \A k \in Deploys : req'[k] = req[k]
    BY <1>2, <1>3, <1>4, PushesGo
<1>6. UrlsOK'
    <2>1. projectUrl' \in {projectUrl} \cup OwnNames /\ rowUrl' \in {rowUrl} \cup OwnNames
        BY <1>1 DEF StartPush, ExportProject, CreateOwnRepo, FillOwnRepo, PushAgain, FillRepo,
           TellProject, ReadDeployment, TellDeployment
    <2>2. QED
        BY <2>1, <1>2 DEF ReposTypes, UrlsOK
<1>7. /\ DOMAIN repos' \subseteq Names
      /\ repos' \in [DOMAIN repos' -> Pushes \cup Deploys \cup {0}]
    <2>1. CASE UNCHANGED repos
        BY <2>1 DEF ReposTypes, ReposTypeOK
    <2>2. CASE Create(Own(p))
        <3>1. PICK name \in Names : Create(name)
            BY <2>2, <1>1
        <3>2. /\ DOMAIN repos' = DOMAIN repos \cup {name}
              /\ repos' \in [DOMAIN repos' -> Pushes \cup Deploys \cup {0}]
            BY <3>1, Creating DEF ReposTypes
        <3>3. QED
            BY <3>2 DEF ReposTypes, ReposTypeOK
    <2>3. CASE \E name \in hand[p] : Taken(name) /\ Push(name, p)
        <3>1. PICK name \in DOMAIN repos : Push(name, p)
            BY <2>3 DEF Taken
        <3>2. QED
            BY <3>1, Pushing DEF ReposTypes, ReposTypeOK
    <2>4. \/ UNCHANGED repos \/ Create(Own(p))
          \/ \E name \in hand[p] : Taken(name) /\ Push(name, p)
        BY DEF StartPush, ExportProject, CreateOwnRepo, FillOwnRepo, PushAgain, FillRepo,
           TellProject, ReadDeployment, TellDeployment, github
    <2>5. QED
        BY <2>1, <2>2, <2>3, <2>4
<1>8. left' \subseteq Names \cup Clones
    <2>1. CASE Create(Own(p))
        BY <2>1 DEF Create, ReposTypes, ReposTypeOK
    <2>2. CASE left' \subseteq left \cup Names
        BY <2>2 DEF ReposTypes, ReposTypeOK
    <2>3. {projectUrl, rowUrl} \ {None} \subseteq Names
        BY DEF ReposTypes, ReposTypeOK
    <2>4. Create(Own(p)) \/ left' \subseteq left \cup Names
        BY <2>3, <1>1 DEF StartPush, ExportProject, CreateOwnRepo, FillOwnRepo, PushAgain,
           FillRepo, TellProject, ReadDeployment, TellDeployment, github
    <2>5. QED
        BY <2>1, <2>2, <2>4
<1>9. disturbed' \subseteq Deploys \cup {0}
    <2>1. disturbed' \subseteq disturbed \cup {row}
        BY DEF StartPush, ExportProject, CreateOwnRepo, FillOwnRepo, PushAgain, FillRepo,
           TellProject, ReadDeployment, TellDeployment, github
    <2>2. QED
        BY <2>1 DEF ReposTypes, ReposTypeOK
<1>10. {projectUrl', rowUrl'} \subseteq Names \cup {None}
    <2>1. OwnNames \subseteq Names /\ \A j \in Deploys : JobNames(j) \subseteq Names
        BY NamesApart
    <2>2. QED
        BY <2>1, <1>6 DEF UrlsOK
<1>11. ReposTypeOK'
    BY <1>2, <1>5, <1>7, <1>8, <1>9, <1>10 DEF ReposTypes, ReposTypeOK
<1>12. QED
    BY <1>5, <1>6, <1>11 DEF ReposTypes

(* A job takes a step: its hand holds one name of its own. *)
LEMMA JobsGo ==
    ASSUME ReposTypes, NEW k \in Deploys, NEW from, NEW to,
           Goto(k, from, to), to \in RepoSteps,
           to \notin {"new", "never"},
           UNCHANGED hand \/ \E name \in JobNames(k) : Hold(k, {name})
    PROVE  /\ req' \in [RepoRequests -> RepoSteps] /\ hand' \in [RepoRequests -> SUBSET Names]
           /\ HandsOK'
           /\ req[k] = from /\ req'[k] = to
           /\ \A j \in Deploys : j # k => req'[j] = req[j]
           /\ row # 0 => req'[row] \notin {"new", "never"}
<1>1. /\ k \in RepoRequests /\ k \notin Pushes /\ JobNames(k) \subseteq Names
      /\ None \notin Names
      /\ Pushes \subseteq RepoRequests /\ Deploys \subseteq RepoRequests
    BY RequestsApart, NamesApart
<1>2. /\ req' \in [RepoRequests -> RepoSteps] /\ req[k] = from /\ req'[k] = to
      /\ \A q \in RepoRequests : q # k => req'[q] = req[q]
    BY <1>1, Stepping DEF ReposTypes
<1>3. row # 0 => req'[row] \notin {"new", "never"}
    BY <1>1, <1>2 DEF ReposTypes, ReposTypeOK
<1>4. CASE UNCHANGED hand
    BY <1>1, <1>2, <1>3, <1>4 DEF ReposTypes, ReposTypeOK, HandsOK
<1>5. CASE \E name \in JobNames(k) : Hold(k, {name})
    <2>1. PICK name \in JobNames(k) : Hold(k, {name})
        BY <1>5
    <2>2. /\ hand' \in [RepoRequests -> SUBSET Names] /\ hand'[k] = {name} \ {None}
          /\ \A q \in RepoRequests : q # k => hand'[q] = hand[q]
        BY <2>1, <1>1, Holding DEF ReposTypes
    <2>3. HandsOK'
        BY <2>2, <1>1 DEF ReposTypes, HandsOK
    <2>4. QED
        BY <2>2, <2>3, <1>1, <1>2, <1>3
<1>6. QED
    BY <1>4, <1>5

LEMMA JobNamed ==
    ASSUME ReposTypes, NEW k \in Deploys
    PROVE  /\ PlainName(k) \in JobNames(k) /\ PlainName(k) \in Names
           /\ hand[k] \subseteq JobNames(k)
           /\ req[k] = "suffixing" => <<BotName[k], k, tries[k]>> \in JobNames(k)
           /\ JobNames(k) \subseteq Names
<1>1. tries[k] \in 0 .. Tries /\ (req[k] = "suffixing" => tries[k] # 0) /\ Tries \in Nat
    BY ReposAssumption DEF ReposTypes, ReposTypeOK, TriesOK
<1>2. req[k] = "suffixing" => <<BotName[k], k, tries[k]>> \in JobNames(k)
    BY <1>1 DEF JobNames
<1>3. QED
    BY <1>2, NamesApart DEF ReposTypes, HandsOK

(* The steps of a job after its attempt has begun. *)
LEMMA AttemptTypes ==
    ASSUME ReposTypes, NEW k \in Deploys,
           \/ CreateBotRepo(k) \/ RecreateBotRepo(k) \/ CreateSuffixed(k) \/ StoreUrl(k)
           \/ PushCode(k)
    PROVE  ReposTypes'
<1> USE DEF JobKeeps, Keep, clones
<1>1. UNCHANGED <<faults, tries, connected, hasProject, projectUrl, row, disk, cloneRows,
          disturbed>>
    BY DEF CreateBotRepo, RecreateBotRepo, CreateSuffixed, StoreUrl, PushCode
<1>2. /\ PlainName(k) \in JobNames(k) /\ PlainName(k) \in Names /\ hand[k] \subseteq JobNames(k)
      /\ req[k] = "suffixing" => <<BotName[k], k, tries[k]>> \in JobNames(k)
      /\ JobNames(k) \subseteq Names
    BY JobNamed
<1>3. PICK from \in RepoSteps \ {"new", "never"},
           to \in {"replacing", "suffixing", "created", "stored", "done", "failed"} :
          /\ Goto(k, from, to)
          /\ (to \in {"replacing", "suffixing"} => from \in {"exported", "replacing"})
    BY DEF CreateBotRepo, RecreateBotRepo, CreateSuffixed, StoreUrl, PushCode, RepoSteps
<1>4. UNCHANGED hand \/ \E name \in JobNames(k) : Hold(k, {name})
    BY <1>2 DEF CreateBotRepo, RecreateBotRepo, CreateSuffixed, StoreUrl, PushCode, Goto
<1>5. to \in RepoSteps /\ to \notin {"new", "never"}
    BY <1>3 DEF RepoSteps
<1>6. /\ req' \in [RepoRequests -> RepoSteps] /\ hand' \in [RepoRequests -> SUBSET Names]
      /\ HandsOK'
      /\ req[k] = from /\ req'[k] = to
      /\ \A j \in Deploys : j # k => req'[j] = req[j]
      /\ row # 0 => req'[row] \notin {"new", "never"}
    BY <1>3, <1>4, <1>5, JobsGo
<1>7. TriesOK'
    BY <1>1, <1>3, <1>6 DEF ReposTypes, TriesOK
<1>8. UrlsOK'
    <2>1. rowUrl' = rowUrl \/ (row = k /\ rowUrl' \in JobNames(k))
        BY <1>2 DEF CreateBotRepo, RecreateBotRepo, CreateSuffixed, StoreUrl, PushCode
    <2>2. QED
        BY <2>1, <1>1 DEF ReposTypes, UrlsOK
<1>9. /\ DOMAIN repos' \subseteq Names
      /\ repos' \in [DOMAIN repos' -> Pushes \cup Deploys \cup {0}]
    <2>1. CASE UNCHANGED repos
        BY <2>1 DEF ReposTypes, ReposTypeOK
    <2>2. CASE \E name \in Names : Create(name)
        <3>1. PICK name \in Names : Create(name)
            BY <2>2
        <3>2. /\ DOMAIN repos' = DOMAIN repos \cup {name}
              /\ repos' \in [DOMAIN repos' -> Pushes \cup Deploys \cup {0}]
            BY <3>1, Creating DEF ReposTypes
        <3>3. QED
            BY <3>2 DEF ReposTypes, ReposTypeOK
    <2>3. CASE Remove({PlainName(k)})
        BY <2>3, Removing DEF ReposTypes, ReposTypeOK
    <2>4. CASE \E name \in DOMAIN repos : Push(name, k)
        <3>1. PICK name \in DOMAIN repos : Push(name, k)
            BY <2>4
        <3>2. QED
            BY <3>1, Pushing DEF ReposTypes, ReposTypeOK
    <2>5. \/ UNCHANGED repos \/ Remove({PlainName(k)})
          \/ \E name \in Names : Create(name)
          \/ \E name \in DOMAIN repos : Push(name, k)
        BY <1>2 DEF CreateBotRepo, RecreateBotRepo, CreateSuffixed, StoreUrl, PushCode, Goto,
           Accepts, Taken
    <2>6. QED
        BY <2>1, <2>2, <2>3, <2>4, <2>5
<1>10. left' \subseteq Names \cup Clones
    <2>1. left' \subseteq left \cup Names
        <3>1. \A name \in Names : Create(name) => left' \subseteq left
            BY DEF Create
        <3>2. rowUrl \in Names \cup {None} /\ ~ Suffixed(None)
            BY DEF ReposTypes, ReposTypeOK, Suffixed
        <3>3. QED
            BY <1>2, <3>1, <3>2 DEF CreateBotRepo, RecreateBotRepo, CreateSuffixed, StoreUrl,
               PushCode, Goto
    <2>2. QED
        BY <2>1 DEF ReposTypes, ReposTypeOK
<1>11. {projectUrl', rowUrl'} \subseteq Names \cup {None}
    <2>1. OwnNames \subseteq Names /\ \A j \in Deploys : JobNames(j) \subseteq Names
        BY NamesApart
    <2>2. QED
        BY <2>1, <1>8 DEF UrlsOK
<1>12. ReposTypeOK'
    BY <1>1, <1>6, <1>9, <1>10, <1>11 DEF ReposTypes, ReposTypeOK
<1>13. QED
    BY <1>6, <1>7, <1>8, <1>12 DEF ReposTypes

(* The steps of a job that leave GitHub alone. *)
LEMMA QueueTypes ==
    ASSUME ReposTypes, NEW k \in Deploys,
           Deploy(k) \/ ExportApp(k) \/ RetryJob(k)
    PROVE  ReposTypes'
<1> USE DEF JobKeeps, Keep, clones
<1>1. UNCHANGED <<faults, connected, hasProject, projectUrl, repos, hand, disk, cloneRows>>
    BY DEF Deploy, ExportApp, RetryJob, db
<1>2. tries[k] \in 0 .. Tries /\ Tries \in Nat \ {0} /\ k \in Nat \ {0}
    BY ReposAssumption DEF ReposTypes, ReposTypeOK
<1>3. CASE Deploy(k)
    <2>1. Goto(k, "new", "queued") /\ tries' = tries /\ row' = k /\ rowUrl' = None
          /\ left' = left \cup ({rowUrl} \ {None})
        BY <1>3 DEF Deploy
    <2>2. /\ req' \in [RepoRequests -> RepoSteps] /\ HandsOK' /\ req[k] = "new"
          /\ req'[k] = "queued"
          /\ \A j \in Deploys : j # k => req'[j] = req[j]
        BY <2>1, <1>1, JobsGo DEF RepoSteps
    <2>3. TriesOK'
        BY <2>1, <2>2, <1>2 DEF ReposTypes, TriesOK
    <2>4. UrlsOK'
        BY <2>1, <1>1 DEF ReposTypes, UrlsOK
    <2>5. disturbed' \subseteq Deploys \cup {0}
        BY <1>3 DEF Deploy, ReposTypes, ReposTypeOK
    <2>6. left' \subseteq Names \cup Clones
        BY <2>1 DEF ReposTypes, ReposTypeOK
    <2>7. ReposTypeOK'
        BY <2>1, <2>2, <2>5, <2>6, <1>1, <1>2 DEF ReposTypes, ReposTypeOK
    <2>8. QED
        BY <2>2, <2>3, <2>4, <2>7 DEF ReposTypes
<1>4. CASE ExportApp(k)
    <2>1. /\ Goto(k, "queued", "exported") \/ Goto(k, "queued", "failed")
          /\ tries' = [tries EXCEPT ![k] = @ + 1]
          /\ UNCHANGED <<row, rowUrl, left, disturbed>>
        BY <1>4 DEF ExportApp
    <2>2. /\ req' \in [RepoRequests -> RepoSteps] /\ HandsOK' /\ req[k] = "queued"
          /\ req'[k] \in {"exported", "failed"}
          /\ \A j \in Deploys : j # k => req'[j] = req[j]
          /\ row # 0 => req'[row] \notin {"new", "never"}
        BY <2>1, <1>1, JobsGo DEF RepoSteps
    <2>3. /\ tries'[k] = tries[k] + 1 /\ \A j \in Deploys : j # k => tries'[j] = tries[j]
          /\ tries' \in [Deploys -> 0 .. Tries]
        <3>1. tries[k] < Tries
            BY <2>2 DEF ReposTypes, TriesOK
        <3>2. QED
            BY <2>1, <1>2, <3>1 DEF ReposTypes, ReposTypeOK
    <2>4. TriesOK'
        BY <2>2, <2>3, <1>2 DEF ReposTypes, TriesOK
    <2>5. UrlsOK'
        BY <2>1, <1>1 DEF ReposTypes, UrlsOK
    <2>6. ReposTypeOK'
        BY <2>1, <2>2, <2>3, <1>1 DEF ReposTypes, ReposTypeOK
    <2>7. QED
        BY <2>2, <2>4, <2>5, <2>6 DEF ReposTypes
<1>5. CASE RetryJob(k)
    <2>1. /\ Goto(k, "failed", "queued") \/ Goto(k, "done", "queued")
          /\ tries[k] < Tries /\ UNCHANGED <<tries, row, rowUrl, left>>
        BY <1>5 DEF RetryJob, db
    <2>2. /\ req' \in [RepoRequests -> RepoSteps] /\ HandsOK' /\ req'[k] = "queued"
          /\ \A j \in Deploys : j # k => req'[j] = req[j]
          /\ row # 0 => req'[row] \notin {"new", "never"}
        BY <2>1, <1>1, JobsGo DEF RepoSteps
    <2>3. TriesOK'
        BY <2>1, <2>2 DEF ReposTypes, TriesOK
    <2>4. UrlsOK'
        BY <2>1, <1>1 DEF ReposTypes, UrlsOK
    <2>5. disturbed' \subseteq Deploys \cup {0}
        BY <1>5 DEF RetryJob, ReposTypes, ReposTypeOK
    <2>6. ReposTypeOK'
        BY <2>1, <2>2, <2>5, <1>1 DEF ReposTypes, ReposTypeOK
    <2>7. QED
        BY <2>2, <2>3, <2>4, <2>6 DEF ReposTypes
<1>6. QED
    BY <1>3, <1>4, <1>5

LEMMA DeleterTypes ==
    ASSUME ReposTypes, NEW r \in Deleters,
           \/ FindDeployment(r) \/ MarkUndeployed(r) \/ RemoveRepos(r)
           \/ r = Deletion /\ (FindProject \/ FindItsDeployment \/ ForgetProject)
    PROVE  ReposTypes'
<1> USE DEF DeleterKeeps, Keep, clones
<1>1. UNCHANGED <<faults, tries, connected, disk, cloneRows>>
    BY DEF FindDeployment, MarkUndeployed, RemoveRepos, FindProject, FindItsDeployment,
       ForgetProject
<1>2. /\ r \in RepoRequests /\ r \notin Pushes /\ r \notin Deploys
      /\ Pushes \cup Deploys \subseteq RepoRequests
      /\ r \in Deleters \cup Clones \cup {Link}
    BY RequestsApart
<1>3. PICK from \in RepoSteps, to \in RepoSteps \ {"new", "never"} : Goto(r, from, to)
    BY DEF FindDeployment, MarkUndeployed, RemoveRepos, FindProject, FindItsDeployment,
       ForgetProject, RepoSteps
<1>4. /\ hand' \in [RepoRequests -> SUBSET Names]
      /\ \A q \in RepoRequests : q # r => hand'[q] = hand[q]
    <2>1. UNCHANGED hand \/ \E names \in SUBSET (Names \cup {None}) : Hold(r, names)
        <3>1. /\ {rowUrl} \subseteq Names \cup {None}
              /\ {projectUrl} \subseteq Names \cup {None}
              /\ hand[r] \cup {rowUrl} \subseteq Names \cup {None}
            BY <1>2 DEF ReposTypes, ReposTypeOK
        <3>2. QED
            BY <3>1 DEF FindDeployment, MarkUndeployed, RemoveRepos, FindProject,
               FindItsDeployment, ForgetProject
    <2>2. QED
        BY <2>1, <1>2, Holding DEF ReposTypes, ReposTypeOK
<1>5. /\ req' \in [RepoRequests -> RepoSteps] /\ HandsOK' /\ TriesOK'
    BY <1>1, <1>2, <1>3, <1>4, IdleTypes
<1>6. row # 0 => req'[row] \notin {"new", "never"}
    BY <1>2, <1>3, Stepping DEF ReposTypes, ReposTypeOK
<1>7. \/ UNCHANGED db
      \/ hasProject' = FALSE /\ row' = 0 /\ projectUrl' = None /\ rowUrl' = None
    BY DEF FindDeployment, MarkUndeployed, RemoveRepos, FindProject, FindItsDeployment,
       ForgetProject
<1>8. UrlsOK'
    BY <1>7 DEF db, ReposTypes, UrlsOK
<1>9. /\ DOMAIN repos' \subseteq Names
      /\ repos' \in [DOMAIN repos' -> Pushes \cup Deploys \cup {0}]
    <2>1. UNCHANGED repos \/ \E names : Remove(names)
        BY DEF FindDeployment, MarkUndeployed, RemoveRepos, FindProject, FindItsDeployment,
           ForgetProject, github
    <2>2. QED
        BY <2>1, Removing DEF ReposTypes, ReposTypeOK
<1>10. left' \subseteq Names \cup Clones /\ disturbed' \subseteq Deploys \cup {0}
    <2>1. /\ left' \in {left, left \cup ({projectUrl, rowUrl} \ {None})}
          /\ disturbed' \in {disturbed, disturbed \cup {row}}
        BY DEF FindDeployment, MarkUndeployed, RemoveRepos, FindProject, FindItsDeployment,
           ForgetProject, github
    <2>2. QED
        BY <2>1 DEF ReposTypes, ReposTypeOK
<1>11. ReposTypeOK'
    BY <1>1, <1>4, <1>5, <1>6, <1>7, <1>9, <1>10 DEF db, ReposTypes, ReposTypeOK
<1>12. QED
    BY <1>5, <1>8, <1>11 DEF ReposTypes

LEMMA StepRepos == ReposTypes /\ [ReposNext]_reposVars => ReposTypes'
<1> SUFFICES ASSUME ReposTypes, [ReposNext]_reposVars PROVE ReposTypes'
    OBVIOUS
<1>1. CASE UNCHANGED reposVars
    BY <1>1 DEF reposVars, db, github, clones, ReposTypes, ReposTypeOK, HandsOK, UrlsOK, TriesOK
<1>2. CASE ReposNext
    BY <1>2, LinkTypes, PushTypes, AttemptTypes, QueueTypes, DeleterTypes, CloneTypes
       DEF ReposNext, Deleters
<1>3. QED
    BY <1>1, <1>2

(* Type correctness, and whose repositories each holds and each row names. *)
THEOREM RepositoryTypes == ReposSpec => []ReposTypeOK
<1>1. ReposTypes => ReposTypeOK
    BY DEF ReposTypes
<1>2. QED
    BY <1>1, InitRepos, StepRepos, PTL DEF ReposSpec

-----------------------------------------------------------------------------
(* The project's own repository. *)

(* What is kept stays: nobody else puts code there or removes it. *)
LEMMA KeptStays ==
    ASSUME ReposTypes, ReposNext
    PROVE  OwnersKept \subseteq OwnersKept'
<1> SUFFICES ASSUME NEW name \in OwnersKept
             PROVE  name \in DOMAIN repos' /\ repos'[name] \in Pushes
    BY DEF OwnersKept
<1>1. name \in OwnNames /\ name \in DOMAIN repos /\ repos[name] \in Pushes
    BY DEF OwnersKept
<1>2. ~ Bots(name) /\ \A k \in Deploys : name \notin JobNames(k)
    BY <1>1, NamesApart
<1>3. CASE UNCHANGED repos
    BY <1>1, <1>3
<1>4. CASE \E names : Remove(names) /\ name \notin names
    <2>1. PICK names : Remove(names) /\ name \notin names
        BY <1>4
    <2>2. DOMAIN repos' = DOMAIN repos \ names /\ \A n \in DOMAIN repos' : repos'[n] = repos[n]
        BY <2>1, Removing DEF ReposTypes
    <2>3. QED
        BY <2>1, <2>2, <1>1
<1>5. CASE \E n \in Names : Create(n) /\ n # name
    <2>1. PICK n \in Names : Create(n) /\ n # name
        BY <1>5
    <2>2. QED
        BY <2>1, <1>1, Creating DEF ReposTypes
<1>6. CASE \E n \in DOMAIN repos, r \in Pushes \cup Deploys :
              Push(n, r) /\ (r \in Pushes \/ n # name)
    <2>1. PICK n \in DOMAIN repos, r \in Pushes \cup Deploys :
              Push(n, r) /\ (r \in Pushes \/ n # name)
        BY <1>6
    <2>2. /\ repos'[n] = r /\ DOMAIN repos' = DOMAIN repos
          /\ (n # name => repos'[name] = repos[name])
        BY <2>1, <1>1, Pushing DEF ReposTypes
    <2>3. QED
        BY <2>1, <2>2, <1>1
<1>7. CASE \E p \in Pushes :
              \/ StartPush(p) \/ ExportProject(p) \/ CreateOwnRepo(p) \/ FillOwnRepo(p)
              \/ PushAgain(p) \/ TellProject(p) \/ ReadDeployment(p) \/ TellDeployment(p)
    <2>1. PICK p \in Pushes :
              \/ StartPush(p) \/ ExportProject(p) \/ CreateOwnRepo(p) \/ FillOwnRepo(p)
              \/ PushAgain(p) \/ TellProject(p) \/ ReadDeployment(p) \/ TellDeployment(p)
        BY <1>7
    <2>2. \/ UNCHANGED repos
          \/ ~ Taken(Own(p)) /\ Create(Own(p))
          \/ \E n \in hand[p] : Taken(n) /\ Push(n, p)
        BY <2>1 DEF StartPush, ExportProject, CreateOwnRepo, FillOwnRepo, PushAgain, FillRepo,
           TellProject, ReadDeployment, TellDeployment, github
    <2>3. Own(p) \in Names
        BY NamesApart DEF OwnNames
    <2>4. CASE ~ Taken(Own(p)) /\ Create(Own(p))
        BY <2>3, <2>4, <1>1, <1>5 DEF Taken
    <2>5. CASE \E n \in hand[p] : Taken(n) /\ Push(n, p)
        BY <2>5, <1>6 DEF Taken
    <2>6. QED
        BY <2>2, <2>4, <2>5, <1>3
<1>8. CASE \E k \in Deploys :
              CreateBotRepo(k) \/ RecreateBotRepo(k) \/ CreateSuffixed(k) \/ PushCode(k)
    <2>1. PICK k \in Deploys :
              CreateBotRepo(k) \/ RecreateBotRepo(k) \/ CreateSuffixed(k) \/ PushCode(k)
        BY <1>8
    <2>2. \/ UNCHANGED repos \/ Remove({PlainName(k)})
          \/ \E n \in JobNames(k) : Create(n)
          \/ \E n \in JobNames(k) : Taken(n) /\ Push(n, k)
        BY <2>1, JobNamed DEF CreateBotRepo, RecreateBotRepo, CreateSuffixed, PushCode, Goto,
           Accepts
    <2>3. JobNames(k) \subseteq Names /\ name \notin JobNames(k) /\ name # PlainName(k)
        BY <1>2, NamesApart
    <2>4. QED
        BY <2>2, <2>3, <1>3, <1>4, <1>5, <1>6 DEF Taken
<1>9. CASE \E r \in Deleters : RemoveRepos(r)
    BY <1>9, <1>2, <1>4 DEF RemoveRepos
<1>10. CASE \/ Connect \/ Disconnect
            \/ \E k \in Deploys : Deploy(k) \/ ExportApp(k) \/ StoreUrl(k) \/ RetryJob(k)
            \/ \E r \in Undeploys : FindDeployment(r) \/ MarkUndeployed(r)
            \/ FindProject \/ FindItsDeployment \/ ForgetProject
            \/ \E c \in Clones :
                   CloneRepo(c) \/ StoreClone(c) \/ DeleteClone(c) \/ DropClone(c)
    BY <1>10, <1>3 DEF Connect, Disconnect, Deploy, ExportApp, StoreUrl, RetryJob, FindDeployment,
       MarkUndeployed, FindProject, FindItsDeployment, ForgetProject, CloneRepo, StoreClone,
       DeleteClone, DropClone, CloneKeeps, github, JobKeeps
<1>11. QED
    BY <1>7, <1>8, <1>9, <1>10 DEF ReposNext

(* Who names a repository of the owner's: a push that filled it, or a row *)
(* that such a push told, and a deletion takes names away.                *)
LEMMA StepCode ==
    ASSUME ReposTypes, CodeInv, [ReposNext]_reposVars
    PROVE  CodeInv'
<1>1. CASE UNCHANGED reposVars
    BY <1>1 DEF reposVars, db, github, CodeInv, OwnersKept
<1>2. ASSUME ReposNext PROVE OwnersKept \subseteq OwnersKept'
    BY <1>2, KeptStays
(* Nobody's push comes to hold another repository, no row is told one. *)
<1>3. ASSUME ReposNext, {projectUrl', rowUrl'} \cap OwnNames \subseteq {projectUrl, rowUrl},
             \A q \in Pushes : req'[q] \in {"filled", "telling", "sharing"} =>
                 req[q] \in {"filled", "telling", "sharing"} /\ hand'[q] = hand[q]
      PROVE  CodeInv'
    BY <1>2, <1>3 DEF CodeInv
<1>4. ASSUME NEW p \in Pushes, NEW from, NEW to, Goto(p, from, to), to \in RepoSteps
      PROVE  /\ req[p] = from /\ req'[p] = to
             /\ \A q \in Pushes : q # p => req'[q] = req[q]
    BY <1>4, Stepping, RequestsApart DEF ReposTypes
<1>5. ASSUME NEW r \in Deploys \cup Deleters \cup Clones \cup {Link}, NEW from, NEW to,
             Goto(r, from, to),
             to \in RepoSteps
      PROVE  \A q \in Pushes : req'[q] = req[q]
    BY <1>5, Stepping, RequestsApart DEF ReposTypes
<1>6. ASSUME NEW p \in Pushes,
             StartPush(p) \/ ExportProject(p) \/ CreateOwnRepo(p) \/ PushAgain(p), ReposNext
      PROVE  CodeInv'
    <2>1. UNCHANGED <<projectUrl, rowUrl>>
        BY <1>6 DEF StartPush, ExportProject, CreateOwnRepo, PushAgain, FillRepo
    <2>2. PICK from \in RepoSteps, to \in RepoSteps :
              Goto(p, from, to) /\ to \notin {"filled", "telling", "sharing"}
        BY <1>6 DEF StartPush, ExportProject, CreateOwnRepo, PushAgain, FillRepo, RepoSteps
    <2>3. \A q \in Pushes : q # p => hand'[q] = hand[q]
        BY <1>6, RequestsApart DEF StartPush, ExportProject, CreateOwnRepo, PushAgain, FillRepo,
           Hold, ReposTypes, ReposTypeOK
    <2>4. QED
        BY <2>1, <2>2, <2>3, <1>3, <1>4, <1>6
<1>7. ASSUME NEW p \in Pushes, FillOwnRepo(p), ReposNext
      PROVE  CodeInv'
    <2>1. /\ UNCHANGED <<projectUrl, rowUrl, hand>>
          /\ \/ Goto(p, "filling", "failed")
             \/ Goto(p, "filling", "filled") /\ \E n \in hand[p] : Taken(n) /\ Push(n, p)
        BY <1>7 DEF FillOwnRepo, FillRepo
    <2>2. CASE Goto(p, "filling", "failed")
        BY <2>1, <2>2, <1>3, <1>4, <1>7 DEF RepoSteps
    <2>3. CASE Goto(p, "filling", "filled") /\ \E n \in hand[p] : Taken(n) /\ Push(n, p)
        <3>1. PICK n \in hand[p] : Taken(n) /\ Push(n, p)
            BY <2>3
        <3>2. hand[p] = {n} /\ n \in OwnNames
            BY DEF ReposTypes, HandsOK
        <3>3. n \in DOMAIN repos' /\ repos'[n] = p
            BY <3>1, Pushing DEF ReposTypes, Taken
        <3>4. hand'[p] \subseteq OwnersKept'
            BY <2>1, <3>2, <3>3 DEF OwnersKept
        <3>5. \A q \in Pushes : q # p => req'[q] = req[q]
            BY <2>3, <1>4 DEF RepoSteps
        <3>6. QED
            BY <3>4, <3>5, <2>1, <1>2, <1>7 DEF CodeInv
    <2>4. QED
        BY <2>1, <2>2, <2>3
<1>8. ASSUME NEW p \in Pushes, TellProject(p) \/ ReadDeployment(p) \/ TellDeployment(p),
             ReposNext
      PROVE  CodeInv'
    <2>1. PICK from \in {"filled", "telling", "sharing"}, to \in RepoSteps : Goto(p, from, to)
        BY <1>8 DEF TellProject, ReadDeployment, TellDeployment, RepoSteps
    <2>2. UNCHANGED hand /\ {projectUrl', rowUrl'} \subseteq {projectUrl, rowUrl} \cup hand[p]
        BY <1>8 DEF TellProject, ReadDeployment, TellDeployment
    <2>3. /\ req[p] \in {"filled", "telling", "sharing"}
          /\ \A q \in Pushes : q # p => req'[q] = req[q]
        BY <2>1, <1>4
    <2>4. hand[p] \subseteq OwnersKept
        BY <2>3 DEF CodeInv
    <2>5. QED
        BY <2>2, <2>3, <2>4, <1>2, <1>8 DEF CodeInv
<1>9. ASSUME NEW k \in Deploys, ReposNext,
             \/ Deploy(k) \/ ExportApp(k) \/ CreateBotRepo(k) \/ RecreateBotRepo(k)
             \/ CreateSuffixed(k) \/ StoreUrl(k) \/ PushCode(k) \/ RetryJob(k)
      PROVE  CodeInv'
    <2>1. PICK from \in RepoSteps, to \in RepoSteps : Goto(k, from, to)
        BY <1>9 DEF Deploy, ExportApp, CreateBotRepo, RecreateBotRepo, CreateSuffixed, StoreUrl,
           PushCode, RetryJob, RepoSteps
    <2>2. /\ projectUrl' = projectUrl
          /\ rowUrl' \in {rowUrl, None} \cup hand[k]
        BY <1>9 DEF Deploy, ExportApp, CreateBotRepo, RecreateBotRepo, CreateSuffixed, StoreUrl,
           PushCode, RetryJob, JobKeeps, db
    <2>3. hand[k] \cap OwnNames = {} /\ None \notin OwnNames
        BY NamesApart DEF ReposTypes, HandsOK
    <2>4. \A q \in Pushes : hand'[q] = hand[q]
        BY <1>9, RequestsApart DEF Deploy, ExportApp, CreateBotRepo, RecreateBotRepo,
           CreateSuffixed, StoreUrl, PushCode, RetryJob, Hold, ReposTypes, ReposTypeOK
    <2>5. \A q \in Pushes : req'[q] = req[q]
        BY <2>1, <1>5
    <2>6. QED
        BY <2>2, <2>3, <2>4, <2>5, <1>3, <1>9
<1>10. ASSUME NEW r \in Deleters, ReposNext,
              \/ FindDeployment(r) \/ MarkUndeployed(r) \/ RemoveRepos(r)
              \/ r = Deletion /\ (FindProject \/ FindItsDeployment \/ ForgetProject)
       PROVE  CodeInv'
    <2>1. PICK from \in RepoSteps, to \in RepoSteps : Goto(r, from, to)
        BY <1>10 DEF FindDeployment, MarkUndeployed, RemoveRepos, FindProject, FindItsDeployment,
           ForgetProject, RepoSteps
    <2>2. {projectUrl', rowUrl'} \subseteq {projectUrl, rowUrl, None}
        BY <1>10 DEF FindDeployment, MarkUndeployed, RemoveRepos, FindProject, FindItsDeployment,
           ForgetProject, db
    <2>3. \A q \in Pushes : hand'[q] = hand[q]
        BY <1>10, RequestsApart DEF FindDeployment, MarkUndeployed, RemoveRepos, FindProject,
           FindItsDeployment, ForgetProject, Hold, ReposTypes, ReposTypeOK
    <2>4. \A q \in Pushes : req'[q] = req[q]
        BY <2>1, <1>5
    <2>5. QED
        BY <2>2, <2>3, <2>4, <1>3, <1>10, NamesApart
<1>11. ASSUME NEW r \in Clones \cup {Link}, ReposNext,
              \/ r = Link /\ (Connect \/ Disconnect)
              \/ /\ r \in Clones
                 /\ CloneRepo(r) \/ StoreClone(r) \/ DeleteClone(r) \/ DropClone(r)
       PROVE  CodeInv'
    <2>1. PICK from \in RepoSteps, to \in RepoSteps : Goto(r, from, to)
        BY <1>11 DEF Connect, Disconnect, CloneRepo, StoreClone, DeleteClone, DropClone, RepoSteps
    <2>2. UNCHANGED <<projectUrl, rowUrl, hand>>
        BY <1>11 DEF Connect, Disconnect, CloneRepo, StoreClone, DeleteClone, DropClone,
           CloneKeeps, db
    <2>3. QED
        BY <2>1, <2>2, <1>3, <1>5, <1>11
<1>12. CASE ReposNext
    BY <1>12, <1>6, <1>7, <1>8, <1>9, <1>10, <1>11 DEF ReposNext, Deleters
<1>13. QED
    BY <1>1, <1>12

(* A project that has a repository has one that is there and holds the     *)
(* code of a push, whatever jobs and deletions do with the bot's           *)
(* (github.service.ts 300-420, projects.service.ts 347-465).               *)
THEOREM ProjectKeepsItsCode == ReposSpec => []ProjectHasItsCode
<1>1. ReposInit => CodeInv
    <2> SUFFICES ASSUME ReposInit PROVE CodeInv
        OBVIOUS
    <2>1. \A p \in Pushes : req[p] \in {"new", "never"}
        BY RequestsApart DEF ReposInit
    <2>2. QED
        BY <2>1, NamesApart DEF ReposInit, CodeInv
<1>2. ReposTypes /\ CodeInv => ProjectHasItsCode
    BY DEF ReposTypes, UrlsOK, CodeInv, OwnersKept, ProjectHasItsCode, Taken
<1>3. QED
    BY <1>1, <1>2, InitRepos, StepRepos, StepCode, PTL DEF ReposSpec

-----------------------------------------------------------------------------
(* What is not forgotten. *)

Lasting == {"filling", "filled", "created"}

(* What a step does to what is in hand or given up: the repository of a    *)
(* hand is made; a request that holds one fills it, tells it or gives it   *)
(* up; or nobody lets go of any, and no repository is made.                *)
Made(q, name) ==
    /\ q \in Pushes \cup Deploys /\ name \in Names
    /\ req'[q] \in Lasting /\ req[q] \notin Lasting
    /\ \A r \in RepoRequests : r # q => req'[r] = req[r] /\ hand'[r] = hand[r]
    /\ hand'[q] = {name}
    /\ DOMAIN repos' = DOMAIN repos \cup {name} /\ left' = left \ {name}
    /\ q \in Pushes => name \notin DOMAIN repos
    /\ q \in Deploys =>
          name \in JobNames(q) /\ req[q] \in {"exported", "replacing", "suffixing"}
    /\ UNCHANGED <<projectUrl, row, rowUrl>>

Elsewhere ==
    /\ InHand \subseteq InHand' /\ left \subseteq left'
    /\ DOMAIN repos' \subseteq DOMAIN repos

LEMMA MakingMakes ==
    ASSUME ReposTypes, NEW q \in Pushes \cup Deploys, NEW name \in Names,
           NEW from \in RepoSteps \ Lasting,
           Goto(q, from, IF q \in Pushes THEN "filling" ELSE "created"), Hold(q, {name}),
           Create(name),
           q \in Pushes => ~ Taken(name) /\ from = "creating",
           q \in Deploys =>
              name \in JobNames(q) /\ from \in {"exported", "replacing", "suffixing"},
           UNCHANGED <<projectUrl, row, rowUrl>>
    PROVE  Made(q, name)
<1>1. q \in RepoRequests /\ (q \in Pushes => q \notin Deploys) /\ None \notin Names
    BY RequestsApart, NamesApart
<1>2. PICK to \in Lasting : Goto(q, from, to) /\ to \in RepoSteps
    BY DEF Lasting, RepoSteps
<1>3. /\ req[q] = from /\ req'[q] = to
      /\ \A r \in RepoRequests : r # q => req'[r] = req[r]
    BY <1>1, <1>2, Stepping DEF ReposTypes
<1>4. hand'[q] = {name} /\ \A r \in RepoRequests : r # q => hand'[r] = hand[r]
    <2>1. hand'[q] = {name} \ {None} /\ \A r \in RepoRequests : r # q => hand'[r] = hand[r]
        BY <1>1, Holding DEF ReposTypes
    <2>2. QED
        BY <2>1, <1>1
<1>5. DOMAIN repos' = DOMAIN repos \cup {name} /\ left' = left \ {name}
    BY Creating DEF ReposTypes
<1>6. QED
    BY <1>1, <1>2, <1>3, <1>4, <1>5 DEF Made, Taken

(* Who holds nothing that lasts lets go of nothing. *)
LEMMA HandsStay ==
    ASSUME ReposTypes, NEW q \in RepoRequests, NEW from \in RepoSteps \ Lasting,
           NEW to \in RepoSteps, Goto(q, from, to),
           UNCHANGED hand \/ \E names : Hold(q, names)
    PROVE  InHand \subseteq InHand'
<1>1. /\ req[q] \notin Lasting
      /\ \A r \in RepoRequests : r # q => req'[r] = req[r] /\ hand'[r] = hand[r]
    <2>1. req[q] \notin Lasting /\ \A r \in RepoRequests : r # q => req'[r] = req[r]
        BY Stepping DEF ReposTypes
    <2>2. \A r \in RepoRequests : r # q => hand'[r] = hand[r]
        BY DEF Hold, ReposTypes, ReposTypeOK
    <2>3. QED
        BY <2>1, <2>2
<1>2. ASSUME NEW r \in Pushes \cup Deploys, req[r] \in Lasting
      PROVE  req'[r] \in Lasting /\ hand'[r] = hand[r]
    BY <1>1, <1>2, RequestsApart
<1>3. QED
    BY <1>2 DEF InHand, Lasting

LEMMA PushesTrace ==
    ASSUME ReposTypes, NEW p \in Pushes,
           \/ StartPush(p) \/ ExportProject(p) \/ CreateOwnRepo(p) \/ PushAgain(p)
           \/ ReadDeployment(p) \/ TellDeployment(p)
    PROVE  Made(p, Own(p)) \/ Elsewhere
<1>1. p \in RepoRequests /\ Own(p) \in Names
    BY RequestsApart, NamesApart DEF OwnNames
<1>2. CASE CreateOwnRepo(p) /\ ~ Taken(Own(p)) /\ Create(Own(p))
    <2>1. /\ Goto(p, "creating", "filling") /\ Hold(p, {Own(p)})
          /\ UNCHANGED <<projectUrl, row, rowUrl>>
        BY <1>2, <1>1, Creating DEF CreateOwnRepo, PushKeeps, Taken, ReposTypes
    <2>2. "creating" \in RepoSteps \ Lasting /\ p \notin Deploys
        BY RequestsApart DEF RepoSteps, Lasting
    <2>3. QED
        BY <2>1, <2>2, <1>1, <1>2, MakingMakes
<1>3. CASE ~ (CreateOwnRepo(p) /\ ~ Taken(Own(p)) /\ Create(Own(p)))
    <2>1. PICK from \in RepoSteps \ Lasting, to \in RepoSteps : Goto(p, from, to)
        BY DEF StartPush, ExportProject, CreateOwnRepo, PushAgain, FillRepo, ReadDeployment,
           TellDeployment, RepoSteps, Lasting
    <2>2. UNCHANGED hand \/ \E names : Hold(p, names)
        BY DEF StartPush, ExportProject, CreateOwnRepo, PushAgain, FillRepo, ReadDeployment,
           TellDeployment, github
    <2>3. left \subseteq left'
        BY <1>3 DEF StartPush, ExportProject, CreateOwnRepo, PushAgain, FillRepo, ReadDeployment,
           TellDeployment, github
    <2>4. UNCHANGED repos \/ \E name \in hand[p] : Taken(name) /\ Push(name, p)
        BY <1>3 DEF StartPush, ExportProject, CreateOwnRepo, PushAgain, FillRepo, ReadDeployment,
           TellDeployment, github
    <2>5. DOMAIN repos' = DOMAIN repos
        BY <2>4, Pushing DEF Taken, ReposTypes
    <2>6. QED
        BY <1>1, <2>1, <2>2, <2>3, <2>5, HandsStay DEF Elsewhere
<1>4. QED
    BY <1>2, <1>3

LEMMA JobsTrace ==
    ASSUME ReposTypes, NEW k \in Deploys,
           \/ Deploy(k) \/ ExportApp(k) \/ CreateBotRepo(k) \/ RecreateBotRepo(k)
           \/ CreateSuffixed(k)
           \/ PushCode(k) \/ RetryJob(k)
    PROVE  Elsewhere \/ \E name \in JobNames(k) : Made(k, name)
<1>1. k \in RepoRequests /\ JobNames(k) \subseteq Names /\ k \notin Pushes
    BY RequestsApart, NamesApart
<1>2. /\ PlainName(k) \in JobNames(k)
      /\ (req[k] = "suffixing" => <<BotName[k], k, tries[k]>> \in JobNames(k))
    BY JobNamed
<1>3. CASE \E name \in JobNames(k), from \in {"exported", "replacing", "suffixing"} :
              /\ Goto(k, from, "created") /\ Create(name) /\ Hold(k, {name})
              /\ UNCHANGED <<projectUrl, row, rowUrl>>
    <2>1. PICK name \in JobNames(k), from \in {"exported", "replacing", "suffixing"} :
              /\ Goto(k, from, "created") /\ Create(name) /\ Hold(k, {name})
              /\ UNCHANGED <<projectUrl, row, rowUrl>>
        BY <1>3
    <2>2. from \in RepoSteps \ Lasting /\ name \in Names
        BY <1>1 DEF RepoSteps, Lasting
    <2>3. Made(k, name)
        BY <1>1, <2>1, <2>2, MakingMakes
    <2>4. QED
        BY <2>3
<1>4. CASE /\ UNCHANGED hand /\ left \subseteq left'
           /\ \/ UNCHANGED repos \/ Remove({PlainName(k)})
              \/ \E name \in hand[k] : Taken(name) /\ Push(name, k)
    <2>1. PICK from \in RepoSteps \ Lasting, to \in RepoSteps : Goto(k, from, to)
        <3>1. CASE CreateBotRepo(k) \/ RecreateBotRepo(k) \/ CreateSuffixed(k)
            BY <3>1 DEF CreateBotRepo, RecreateBotRepo, CreateSuffixed, RepoSteps, Lasting
        <3>2. CASE Deploy(k) \/ ExportApp(k) \/ PushCode(k) \/ RetryJob(k)
            BY <3>2 DEF Deploy, ExportApp, PushCode, RetryJob, RepoSteps, Lasting
        <3>3. QED
            BY <3>1, <3>2
    <2>2. DOMAIN repos' \subseteq DOMAIN repos
        BY <1>4, Pushing, Removing DEF Taken, ReposTypes
    <2>3. QED
        BY <1>1, <1>4, <2>1, <2>2, HandsStay DEF Elsewhere
<1>5. CASE Deploy(k) \/ ExportApp(k) \/ PushCode(k) \/ RetryJob(k)
    BY <1>4, <1>5 DEF Deploy, ExportApp, PushCode, RetryJob, JobKeeps, Accepts
<1>6. CASE CreateBotRepo(k) \/ RecreateBotRepo(k) \/ CreateSuffixed(k)
    BY <1>2, <1>3, <1>4, <1>6 DEF CreateBotRepo, RecreateBotRepo, CreateSuffixed, JobKeeps, Goto
<1>7. QED
    BY <1>5, <1>6

LEMMA OthersTrace ==
    ASSUME ReposTypes, NEW r \in Deleters \cup Clones \cup {Link},
           \/ r = Link /\ (Connect \/ Disconnect)
           \/ /\ r \in Clones
              /\ CloneRepo(r) \/ StoreClone(r) \/ DeleteClone(r) \/ DropClone(r)
           \/ r \in Deleters /\ (FindDeployment(r) \/ MarkUndeployed(r) \/ RemoveRepos(r))
           \/ r = Deletion /\ (FindProject \/ FindItsDeployment \/ ForgetProject)
    PROVE  Elsewhere
<1>1. r \in RepoRequests
    BY RequestsApart
<1>2. PICK from \in RepoSteps \ Lasting, to \in RepoSteps : Goto(r, from, to)
    BY DEF Connect, Disconnect, CloneRepo, StoreClone, DeleteClone, DropClone, FindDeployment,
       MarkUndeployed, RemoveRepos, FindProject, FindItsDeployment, ForgetProject, RepoSteps,
       Lasting
<1>3. UNCHANGED hand \/ \E names : Hold(r, names)
    BY DEF Connect, Disconnect, CloneRepo, StoreClone, DeleteClone, DropClone, FindDeployment,
       MarkUndeployed, RemoveRepos, FindProject, FindItsDeployment, ForgetProject, CloneKeeps
<1>4. left \subseteq left'
    BY DEF Connect, Disconnect, CloneRepo, StoreClone, DeleteClone, DropClone, FindDeployment,
       MarkUndeployed, RemoveRepos, FindProject, FindItsDeployment, ForgetProject, github
<1>5. UNCHANGED repos \/ \E names : Remove(names)
    BY DEF Connect, Disconnect, CloneRepo, StoreClone, DeleteClone, DropClone, FindDeployment,
       MarkUndeployed, RemoveRepos, FindProject, FindItsDeployment, ForgetProject, github,
       CloneKeeps
<1>6. DOMAIN repos' \subseteq DOMAIN repos
    BY <1>5, Removing DEF ReposTypes
<1>7. QED
    BY <1>1, <1>2, <1>3, <1>4, <1>6, HandsStay DEF Elsewhere

(* A step that forgets nothing. *)
Traced ==
    /\ Loose \subseteq Loose'
    /\ DOMAIN repos' \subseteq DOMAIN repos \cup InHand'
    /\ left \cap OwnNames \cap DOMAIN repos \subseteq left'

LEMMA TracedSteps ==
    ASSUME ReposTypes, Elsewhere \/ \E q, name : Made(q, name)
    PROVE  Traced
<1>1. CASE Elsewhere
    BY <1>1 DEF Elsewhere, Traced, Loose
<1>2. CASE \E q, name : Made(q, name)
    <2>1. PICK q, name : Made(q, name)
        BY <1>2
    <2>2. q \in Pushes \cup Deploys /\ Pushes \cup Deploys \subseteq RepoRequests
        BY <2>1, RequestsApart DEF Made
    <2>3. name \in InHand'
        BY <2>1, <2>2 DEF Made, InHand, Lasting
    <2>4. InHand \subseteq InHand'
        <3>1. ASSUME NEW r \in Pushes \cup Deploys, req[r] \in Lasting
              PROVE  req'[r] \in Lasting /\ hand'[r] = hand[r]
            BY <2>1, <2>2, <3>1 DEF Made
        <3>2. QED
            BY <3>1 DEF InHand, Lasting
    <2>5. left \cap OwnNames \cap DOMAIN repos \subseteq left'
        <3>1. name \notin OwnNames \cap DOMAIN repos
            BY <2>1, NamesApart DEF Made
        <3>2. QED
            BY <2>1, <3>1 DEF Made
    <2>6. QED
        BY <2>1, <2>3, <2>4, <2>5 DEF Made, Traced, Loose
<1>3. QED
    BY <1>1, <1>2

(* Whose hand lasted may let go of what it holds. *)
LEMMA LetsGo ==
    ASSUME ReposTypes, NEW q \in RepoRequests, NEW from, NEW to \in RepoSteps,
           Goto(q, from, to), UNCHANGED hand
    PROVE  InHand \subseteq InHand' \cup hand[q]
<1>1. \A r \in RepoRequests : r # q => req'[r] = req[r]
    BY Stepping DEF ReposTypes
<1>2. QED
    BY <1>1, RequestsApart DEF InHand

LEMMA FillTraced ==
    ASSUME ReposTypes, NEW p \in Pushes, FillOwnRepo(p)
    PROVE  Traced
<1>1. p \in RepoRequests /\ UNCHANGED hand
    BY RequestsApart DEF FillOwnRepo, FillRepo
<1>2. PICK name \in hand[p] :
          \/ /\ Goto(p, "filling", "filled") /\ Taken(name)
             /\ Push(name, p) /\ UNCHANGED left
          \/ Goto(p, "filling", "failed") /\ left' = left \cup {name} /\ UNCHANGED repos
    BY DEF FillOwnRepo, FillRepo
<1>3. hand[p] = {name}
    BY DEF ReposTypes, HandsOK
<1>4. InHand \subseteq InHand' \cup {name} /\ left \subseteq left'
    BY <1>1, <1>2, <1>3, LetsGo DEF RepoSteps
<1>5. DOMAIN repos' = DOMAIN repos
    BY <1>2, Pushing DEF Taken, ReposTypes
<1>6. name \in Loose'
    <2>1. CASE Goto(p, "filling", "filled")
        <3>1. req'[p] = "filled"
            BY <2>1, <1>1, Stepping DEF ReposTypes, RepoSteps
        <3>2. QED
            BY <1>1, <3>1 DEF Loose, InHand
    <2>2. QED
        BY <2>1, <1>2 DEF Loose
<1>7. QED
    BY <1>4, <1>5, <1>6 DEF Traced, Loose

(* What follows from a traced step for what the rows name. *)
LEMMA TracedKeeps ==
    ASSUME ReposTypes, CodeInv, TraceInv, Traced,
           \/ projectUrl' = projectUrl
           \/ (projectUrl' = None /\ projectUrl \in left' \cup {None}),
           rowUrl' = rowUrl \/ rowUrl \in left' \cup {None},
           rowUrl' \in OwnNames => rowUrl' = rowUrl
              \/ rowUrl' \in ({projectUrl} \cup left) \cap OwnNames \cap DOMAIN repos,
           \A p \in Pushes : req'[p] \in {"telling", "sharing"} =>
              req[p] \in {"telling", "sharing"} /\ hand'[p] = hand[p],
           \A k \in Deploys : row' = k /\ req'[k] \in {"replacing", "suffixing", "created"} =>
              \/ row = k /\ req[k] \in {"replacing", "suffixing", "created"}
              \/ {PlainName(k)} \cap DOMAIN repos' \subseteq Loose'
    PROVE  TraceInv'
<1>1. None \notin DOMAIN repos /\ None \notin OwnNames
    BY NamesApart DEF ReposTypes, ReposTypeOK
<1>2. {projectUrl, rowUrl} \cap DOMAIN repos \subseteq {projectUrl', rowUrl'} \cup left'
    BY <1>1
<1>3. DOMAIN repos' \subseteq {projectUrl', rowUrl'} \cup Loose'
    BY <1>2 DEF TraceInv, Traced, Loose
<1>4. \A name \in OwnNames \cap DOMAIN repos :
          name \in {projectUrl} \cup left => name \in {projectUrl'} \cup left'
    BY <1>1 DEF Traced
<1>5. rowUrl' \in OwnNames => rowUrl' \in {projectUrl'} \cup left'
    BY <1>4 DEF TraceInv, CodeInv, OwnersKept
<1>6. ASSUME NEW p \in Pushes, req'[p] \in {"telling", "sharing"}
      PROVE  hand'[p] \subseteq {projectUrl'} \cup left'
    BY <1>4, <1>6 DEF TraceInv, CodeInv, OwnersKept
<1>7. ASSUME NEW k \in Deploys, row' = k, req'[k] \in {"replacing", "suffixing", "created"}
      PROVE  {PlainName(k)} \cap DOMAIN repos' \subseteq Loose'
    BY <1>7 DEF TraceInv, Traced, Loose
<1>8. QED
    BY <1>3, <1>5, <1>6, <1>7 DEF TraceInv

LEMMA PushesForgetNothing ==
    ASSUME ReposTypes, CodeInv, TraceInv, NEW p \in Pushes,
           \/ StartPush(p) \/ ExportProject(p) \/ CreateOwnRepo(p) \/ FillOwnRepo(p)
           \/ PushAgain(p) \/ TellProject(p) \/ ReadDeployment(p) \/ TellDeployment(p)
    PROVE  TraceInv'
<1>1. /\ p \in RepoRequests /\ p \notin Deploys /\ None \notin OwnNames
      /\ Pushes \subseteq RepoRequests /\ Deploys \subseteq RepoRequests
    BY RequestsApart, NamesApart
<1>2. PICK from \in RepoSteps, to \in RepoSteps : Goto(p, from, to)
    BY DEF StartPush, ExportProject, CreateOwnRepo, FillOwnRepo, PushAgain, FillRepo, TellProject,
       ReadDeployment, TellDeployment, RepoSteps
<1>3. /\ req[p] = from /\ req'[p] = to
      /\ \A q \in RepoRequests : q # p => req'[q] = req[q] /\ hand'[q] = hand[q]
    <2>1. UNCHANGED hand \/ \E names : Hold(p, names)
        BY DEF StartPush, ExportProject, CreateOwnRepo, FillOwnRepo, PushAgain, FillRepo,
           TellProject, ReadDeployment, TellDeployment, github
    <2>2. \A q \in RepoRequests : q # p => hand'[q] = hand[q]
        BY <2>1 DEF Hold, ReposTypes, ReposTypeOK
    <2>3. QED
        BY <1>1, <1>2, <2>2, Stepping DEF ReposTypes
<1>4. row' = row /\ \A k \in Deploys : req'[k] = req[k]
    BY <1>1, <1>3 DEF StartPush, ExportProject, CreateOwnRepo, FillOwnRepo, PushAgain, FillRepo,
       TellProject, ReadDeployment, TellDeployment, PushKeeps
<1>5. CASE \/ StartPush(p) \/ ExportProject(p) \/ CreateOwnRepo(p) \/ FillOwnRepo(p)
           \/ PushAgain(p)
    <2>1. Traced
        BY <1>5, PushesTrace, TracedSteps, FillTraced
    <2>2. UNCHANGED <<projectUrl, rowUrl>>
        BY <1>5 DEF StartPush, ExportProject, CreateOwnRepo, FillOwnRepo, PushAgain, FillRepo
    <2>3. req'[p] \notin {"telling", "sharing"}
        BY <1>5, <1>1 DEF StartPush, ExportProject, CreateOwnRepo, FillOwnRepo, PushAgain,
           FillRepo, Goto, ReposTypes, ReposTypeOK
    <2>4. QED
        BY <1>1, <1>3, <1>4, <2>1, <2>2, <2>3, TracedKeeps
<1>6. CASE ReadDeployment(p) \/ TellDeployment(p)
    <2>1. Traced
        BY <1>6, PushesTrace, TracedSteps
    <2>2. /\ projectUrl' = projectUrl /\ UNCHANGED hand /\ req[p] \in {"telling", "sharing"}
        BY <1>6 DEF ReadDeployment, TellDeployment, Goto
    <2>3. rowUrl' = rowUrl \/ (rowUrl' \in hand[p] /\ rowUrl \in left' \cup {None})
        BY <1>6 DEF ReadDeployment, TellDeployment
    <2>4. hand[p] \subseteq ({projectUrl} \cup left) \cap OwnNames \cap DOMAIN repos
        BY <2>2 DEF TraceInv, CodeInv, OwnersKept
    <2>5. QED
        BY <1>1, <1>3, <1>4, <2>1, <2>2, <2>3, <2>4, TracedKeeps
<1>7. CASE TellProject(p)
    <2>1. /\ UNCHANGED <<rowUrl, repos, hand>>
          /\ \/ /\ Goto(p, "filled", "telling")
                /\ \E name \in hand[p] :
                      projectUrl' = name /\ left' = left \cup ({projectUrl} \ {None, name})
             \/ /\ Goto(p, "filled", "failed")
                /\ left' = left \cup hand[p]
                /\ projectUrl' = projectUrl
        BY <1>7 DEF TellProject
    <2>2. CASE /\ Goto(p, "filled", "failed") /\ left' = left \cup hand[p]
               /\ projectUrl' = projectUrl
        <3>1. InHand \subseteq InHand' \cup hand[p]
            BY <2>1, <2>2, <1>1, LetsGo DEF RepoSteps
        <3>2. Traced
            BY <2>1, <2>2, <3>1 DEF Traced, Loose
        <3>3. req'[p] = "failed"
            BY <2>2, <1>1 DEF Goto, ReposTypes, ReposTypeOK
        <3>4. QED
            BY <1>1, <1>3, <1>4, <2>1, <2>2, <3>2, <3>3, TracedKeeps
    <2>3. ASSUME Goto(p, "filled", "telling"), NEW name \in hand[p], projectUrl' = name,
                 left' = left \cup ({projectUrl} \ {None, name})
          PROVE  TraceInv'
        <3>1. hand[p] = {name} /\ name \in OwnNames
            BY DEF ReposTypes, HandsOK
        <3>2. InHand \subseteq InHand' \cup {name}
            BY <2>1, <3>1, <2>3, <1>1, LetsGo DEF RepoSteps
        <3>3. Loose \subseteq Loose' \cup {projectUrl'}
            BY <2>3, <3>2 DEF Loose
        <3>4. {projectUrl} \cup left \subseteq {projectUrl'} \cup left' \cup {None}
            BY <2>3
        <3>5. None \notin DOMAIN repos /\ DOMAIN repos' = DOMAIN repos
            BY <2>1, NamesApart DEF ReposTypes, ReposTypeOK
        <3>6. DOMAIN repos' \subseteq {projectUrl', rowUrl'} \cup Loose'
            BY <2>1, <3>3, <3>4, <3>5 DEF TraceInv, Loose
        <3>7. rowUrl' \in OwnNames => rowUrl' \in {projectUrl'} \cup left'
            BY <2>1, <3>4, <1>1 DEF TraceInv
        <3>8. ASSUME NEW q \in Pushes, req'[q] \in {"telling", "sharing"}
              PROVE  hand'[q] \subseteq {projectUrl'} \cup left'
            <4>1. CASE q = p
                BY <4>1, <2>1, <3>1, <2>3
            <4>2. CASE q # p
                <5>1. hand[q] \subseteq {projectUrl} \cup left /\ hand[q] \subseteq OwnNames
                    BY <4>2, <3>8, <1>3, <1>1 DEF TraceInv, ReposTypes, HandsOK
                <5>2. QED
                    BY <5>1, <2>1, <3>4, <1>1
            <4>3. QED
                BY <4>1, <4>2
        <3>9. ASSUME NEW k \in Deploys, row' = k,
                     req'[k] \in {"replacing", "suffixing", "created"}
              PROVE  {PlainName(k)} \cap DOMAIN repos' \subseteq Loose'
            <4>1. PlainName(k) # projectUrl'
                BY <3>1, <2>3, NamesApart
            <4>2. QED
                BY <4>1, <3>3, <3>5, <3>9, <1>4 DEF TraceInv
        <3>10. QED
            BY <3>6, <3>7, <3>8, <3>9 DEF TraceInv
    <2>4. QED
        BY <2>1, <2>2, <2>3
<1>8. QED
    BY <1>5, <1>6, <1>7

LEMMA JobsForgetNothing ==
    ASSUME ReposTypes, CodeInv, TraceInv, NEW k \in Deploys,
           \/ Deploy(k) \/ ExportApp(k) \/ CreateBotRepo(k) \/ RecreateBotRepo(k)
           \/ CreateSuffixed(k) \/ PushCode(k) \/ RetryJob(k)
    PROVE  TraceInv'
<1>1. /\ k \in RepoRequests /\ k \notin Pushes /\ Pushes \subseteq RepoRequests
      /\ Deploys \subseteq RepoRequests
    BY RequestsApart
<1>2. PICK from \in RepoSteps, to \in RepoSteps : Goto(k, from, to)
    <2>1. CASE CreateBotRepo(k) \/ RecreateBotRepo(k) \/ CreateSuffixed(k)
        BY <2>1 DEF CreateBotRepo, RecreateBotRepo, CreateSuffixed, RepoSteps
    <2>2. CASE Deploy(k) \/ ExportApp(k) \/ PushCode(k) \/ RetryJob(k)
        BY <2>2 DEF Deploy, ExportApp, PushCode, RetryJob, RepoSteps
    <2>3. QED
        BY <2>1, <2>2
<1>3. /\ req[k] = from /\ req'[k] = to
      /\ \A q \in RepoRequests : q # k => req'[q] = req[q]
    BY <1>1, <1>2, Stepping DEF ReposTypes
<1>4. \A q \in RepoRequests : q # k => hand'[q] = hand[q]
    <2>1. UNCHANGED hand \/ \E names : Hold(k, names)
        BY DEF Deploy, ExportApp, CreateBotRepo, RecreateBotRepo, CreateSuffixed, PushCode,
           RetryJob
    <2>2. QED
        BY <2>1 DEF Hold, ReposTypes, ReposTypeOK
<1>5. Traced
    BY JobsTrace, TracedSteps
<1>6. /\ projectUrl' = projectUrl
      /\ \/ row' = row /\ rowUrl' = rowUrl
         \/ /\ Deploy(k) /\ row' = k /\ req'[k] = "queued" /\ rowUrl' = None
            /\ rowUrl \in left' \cup {None}
    <2>1. CASE Deploy(k)
        BY <2>1, <1>1 DEF Deploy, Goto, ReposTypes, ReposTypeOK
    <2>2. CASE ~ Deploy(k)
        BY <2>2 DEF ExportApp, CreateBotRepo, RecreateBotRepo, CreateSuffixed, PushCode, RetryJob,
           JobKeeps, db
    <2>3. QED
        BY <2>1, <2>2
<1>7. rowUrl' = rowUrl \/ (rowUrl' \notin OwnNames /\ rowUrl \in left' \cup {None})
    BY <1>6, NamesApart
<1>8. ASSUME NEW j \in Deploys, row' = j, req'[j] \in {"replacing", "suffixing", "created"}
      PROVE  \/ row = j /\ req[j] \in {"replacing", "suffixing", "created"}
             \/ {PlainName(j)} \cap DOMAIN repos' \subseteq Loose'
    <2>1. row = j
        BY <1>6, <1>8
    <2>2. CASE j # k
        BY <2>1, <2>2, <1>1, <1>3, <1>8
    <2>3. CASE j = k /\ ~ CreateBotRepo(k)
        <3>1. from \in {"replacing", "suffixing", "created"}
            BY <2>3, <1>2, <1>3, <1>8, <1>1 DEF Deploy, ExportApp, RecreateBotRepo,
               CreateSuffixed, PushCode, RetryJob, Goto, ReposTypes, ReposTypeOK
        <3>2. QED
            BY <2>1, <2>3, <3>1, <1>3
    <2>4. CASE j = k /\ CreateBotRepo(k)
        <3>1. CASE /\ ~ Taken(PlainName(k)) /\ Create(PlainName(k)) /\ Hold(k, {PlainName(k)})
                   /\ Goto(k, "exported", "created")
            <4>1. PlainName(k) \in Names /\ None \notin Names
                BY NamesApart
            <4>2. hand'[k] = {PlainName(k)} /\ req'[k] = "created"
                BY <3>1, <4>1, <1>1, Holding DEF Goto, ReposTypes, ReposTypeOK
            <4>3. QED
                BY <4>2, <2>4 DEF Loose, InHand
        <3>2. CASE Remove({PlainName(k)})
            BY <3>2, <2>4, Removing DEF ReposTypes
        <3>3. CASE left' = left \cup ({PlainName(k)} \cap DOMAIN repos) /\ UNCHANGED repos
            BY <3>3, <2>4 DEF Loose
        <3>4. QED
            BY <2>4, <3>1, <3>2, <3>3 DEF CreateBotRepo
    <2>5. QED
        BY <2>2, <2>3, <2>4
<1>9. \A p \in Pushes : req'[p] = req[p] /\ hand'[p] = hand[p]
    BY <1>1, <1>3, <1>4
<1>10. QED
    BY <1>5, <1>6, <1>7, <1>8, <1>9, TracedKeeps

LEMMA StoringForgetsNothing ==
    ASSUME ReposTypes, CodeInv, TraceInv, NEW k \in Deploys, StoreUrl(k)
    PROVE  TraceInv'
<1>1. /\ k \in RepoRequests /\ k \notin Pushes /\ Pushes \subseteq RepoRequests
      /\ Deploys \subseteq RepoRequests
    BY RequestsApart
<1>2. UNCHANGED <<projectUrl, row, repos, hand>>
    BY DEF StoreUrl, JobKeeps
<1>3. PICK to \in {"stored", "failed"} : Goto(k, "created", to)
    BY DEF StoreUrl
<1>4. to \in RepoSteps
    BY DEF RepoSteps
<1>5. /\ req[k] = "created" /\ req'[k] = to
      /\ \A q \in RepoRequests : q # k => req'[q] = req[q]
    BY <1>1, <1>3, <1>4, Stepping DEF ReposTypes
<1>6. InHand \subseteq InHand' \cup hand[k]
    BY <1>1, <1>2, <1>3, <1>4, LetsGo
<1>7. \A p \in Pushes : req'[p] = req[p] /\ hand'[p] = hand[p]
    BY <1>1, <1>2, <1>5
<1>8. CASE left' = left \cup hand[k] /\ UNCHANGED rowUrl
    <2>1. Traced
        BY <1>2, <1>6, <1>8 DEF Traced, Loose
    <2>2. \A j \in Deploys : j # k => req'[j] = req[j]
        BY <1>1, <1>5
    <2>3. QED
        BY <1>2, <1>5, <1>7, <1>8, <2>1, <2>2, TracedKeeps
<1>9. ASSUME row = k, Goto(k, "created", "stored"), NEW name \in hand[k], rowUrl' = name,
             left' = left \cup {n \in {rowUrl} : Suffixed(n)}
      PROVE  TraceInv'
    <2>1. hand[k] = {name} /\ name \in JobNames(k)
        BY <1>9 DEF ReposTypes, HandsOK
    <2>2. Loose \subseteq Loose' \cup {rowUrl'}
        BY <1>6, <1>9, <2>1 DEF Loose
    <2>3. rowUrl \in DOMAIN repos => rowUrl \in {projectUrl', rowUrl'} \cup Loose'
        <3>1. CASE rowUrl \in OwnNames
            BY <3>1, <1>2, <1>9 DEF TraceInv, Loose
        <3>2. CASE rowUrl \in JobNames(k) /\ rowUrl # PlainName(k)
            BY <3>2, <1>9, NamesApart DEF Loose
        <3>3. CASE rowUrl = PlainName(k)
            BY <3>3, <1>5, <1>9, <2>2 DEF TraceInv
        <3>4. rowUrl = None => rowUrl \notin DOMAIN repos
            BY NamesApart DEF ReposTypes, ReposTypeOK
        <3>5. QED
            BY <3>1, <3>2, <3>3, <3>4, <1>9 DEF ReposTypes, UrlsOK
    <2>4. DOMAIN repos' \subseteq {projectUrl', rowUrl'} \cup Loose'
        BY <1>2, <2>2, <2>3 DEF TraceInv
    <2>5. rowUrl' \notin OwnNames
        BY <1>9, <2>1, NamesApart
    <2>6. \A p \in Pushes :
              req'[p] \in {"telling", "sharing"} => hand'[p] \subseteq {projectUrl'} \cup left'
        BY <1>2, <1>7, <1>9 DEF TraceInv
    <2>7. req'[k] = "stored"
        BY <1>9, <1>1 DEF Goto, ReposTypes, ReposTypeOK
    <2>8. QED
        BY <1>2, <1>9, <2>4, <2>5, <2>6, <2>7 DEF TraceInv
<1>10. QED
    BY <1>8, <1>9 DEF StoreUrl

LEMMA OthersForgetNothing ==
    ASSUME ReposTypes, CodeInv, TraceInv,
           NEW r \in Deleters \cup Clones \cup {Link},
           \/ r = Link /\ (Connect \/ Disconnect)
           \/ /\ r \in Clones
              /\ CloneRepo(r) \/ StoreClone(r) \/ DeleteClone(r) \/ DropClone(r)
           \/ r \in Deleters /\ (FindDeployment(r) \/ MarkUndeployed(r) \/ RemoveRepos(r))
           \/ r = Deletion /\ (FindProject \/ FindItsDeployment \/ ForgetProject)
    PROVE  TraceInv'
<1>1. /\ r \in RepoRequests /\ r \notin Pushes \cup Deploys
      /\ Pushes \cup Deploys \subseteq RepoRequests
      /\ 0 \notin Deploys /\ None \notin OwnNames
    BY RequestsApart, NamesApart
<1>2. PICK from \in RepoSteps, to \in RepoSteps : Goto(r, from, to)
    BY DEF Connect, Disconnect, CloneRepo, StoreClone, DeleteClone, DropClone, FindDeployment,
       MarkUndeployed, RemoveRepos, FindProject, FindItsDeployment, ForgetProject, RepoSteps
<1>3. UNCHANGED hand \/ \E names : Hold(r, names)
    BY DEF Connect, Disconnect, CloneRepo, StoreClone, DeleteClone, DropClone, FindDeployment,
       MarkUndeployed, RemoveRepos, FindProject, FindItsDeployment, ForgetProject, CloneKeeps
<1>4. \A q \in Pushes \cup Deploys : req'[q] = req[q] /\ hand'[q] = hand[q]
    BY <1>1, <1>2, <1>3, Stepping DEF Hold, ReposTypes, ReposTypeOK
<1>5. Traced
    BY OthersTrace, TracedSteps
<1>6. \/ UNCHANGED <<projectUrl, rowUrl, row>>
      \/ /\ row' = 0 /\ projectUrl' = None /\ rowUrl' = None
         /\ left' = left \cup ({projectUrl, rowUrl} \ {None})
    BY DEF Connect, Disconnect, CloneRepo, StoreClone, DeleteClone, DropClone, FindDeployment,
       MarkUndeployed, RemoveRepos, FindProject, FindItsDeployment, ForgetProject, CloneKeeps, db
<1>7. QED
    BY <1>1, <1>4, <1>5, <1>6, TracedKeeps

LEMMA StepTrace ==
    ASSUME ReposTypes, CodeInv, TraceInv, [ReposNext]_reposVars
    PROVE  TraceInv'
<1>1. CASE UNCHANGED reposVars
    BY <1>1 DEF reposVars, db, github, TraceInv, Loose, InHand
<1>2. CASE ReposNext
    BY <1>2, PushesForgetNothing, JobsForgetNothing, StoringForgetsNothing, OthersForgetNothing
       DEF ReposNext, Deleters
<1>3. QED
    BY <1>1, <1>2

(* A directory and its row: the one before the other, both ways. *)
LEMMA StepClones ==
    ASSUME ReposTypes, ClonesInv, [ReposNext]_reposVars
    PROVE  ClonesInv'
<1>1. CASE UNCHANGED reposVars
    BY <1>1 DEF reposVars, clones, github, ClonesInv, Cloning
<1>2. ASSUME UNCHANGED <<disk, cloneRows>>, left \cap Clones \subseteq left',
             NEW r \in RepoRequests \ Clones, NEW from, NEW to \in RepoSteps, Goto(r, from, to)
      PROVE  ClonesInv'
    <2>1. \A c \in Clones : req'[c] = req[c]
        BY <1>2, Stepping, RequestsApart DEF ReposTypes
    <2>2. disk \subseteq Clones
        BY DEF ReposTypes, ReposTypeOK
    <2>3. QED
        BY <1>2, <2>1, <2>2 DEF ClonesInv, Cloning
<1>3. ASSUME NEW name \in Names, Create(name) PROVE left \cap Clones \subseteq left'
    BY <1>3, RequestsApart DEF Create
<1>4. ASSUME NEW p \in Pushes,
             \/ StartPush(p) \/ ExportProject(p) \/ CreateOwnRepo(p) \/ FillOwnRepo(p)
             \/ PushAgain(p) \/ TellProject(p) \/ ReadDeployment(p) \/ TellDeployment(p)
      PROVE  ClonesInv'
    <2>1. Own(p) \in Names /\ p \in RepoRequests \ Clones
        BY NamesApart, RequestsApart DEF OwnNames
    <2>2. UNCHANGED <<disk, cloneRows>>
        BY <1>4 DEF StartPush, ExportProject, CreateOwnRepo, FillOwnRepo, PushAgain, FillRepo,
           TellProject, ReadDeployment, TellDeployment, PushKeeps, Keep, clones
    <2>3. left \cap Clones \subseteq left'
        BY <1>3, <1>4, <2>1 DEF StartPush, ExportProject, CreateOwnRepo, FillOwnRepo, PushAgain,
           FillRepo, TellProject, ReadDeployment, TellDeployment, github
    <2>4. PICK from \in RepoSteps, to \in RepoSteps : Goto(p, from, to)
        BY <1>4 DEF StartPush, ExportProject, CreateOwnRepo, FillOwnRepo, PushAgain, FillRepo,
           TellProject, ReadDeployment, TellDeployment, RepoSteps
    <2>5. QED
        BY <1>2, <2>1, <2>2, <2>3, <2>4
<1>5. ASSUME NEW k \in Deploys,
             \/ Deploy(k) \/ ExportApp(k) \/ CreateBotRepo(k) \/ RecreateBotRepo(k)
             \/ CreateSuffixed(k) \/ StoreUrl(k) \/ PushCode(k) \/ RetryJob(k)
      PROVE  ClonesInv'
    <2>1. /\ PlainName(k) \in Names /\ k \in RepoRequests \ Clones
          /\ req[k] = "suffixing" => <<BotName[k], k, tries[k]>> \in Names
        BY JobNamed, RequestsApart
    <2>2. UNCHANGED <<disk, cloneRows>>
        BY <1>5 DEF Deploy, ExportApp, CreateBotRepo, RecreateBotRepo, CreateSuffixed, StoreUrl,
           PushCode, RetryJob, JobKeeps, Keep, clones
    <2>3. left \cap Clones \subseteq left'
        <3>1. CASE CreateBotRepo(k) \/ RecreateBotRepo(k) \/ CreateSuffixed(k)
            BY <1>3, <2>1, <3>1 DEF CreateBotRepo, RecreateBotRepo, CreateSuffixed, Goto
        <3>2. CASE \/ Deploy(k) \/ ExportApp(k) \/ StoreUrl(k) \/ PushCode(k)
                   \/ RetryJob(k)
            BY <3>2 DEF Deploy, ExportApp, StoreUrl, PushCode, RetryJob, JobKeeps
        <3>3. QED
            BY <1>5, <3>1, <3>2
    <2>4. PICK from \in RepoSteps, to \in RepoSteps : Goto(k, from, to)
        BY <1>5 DEF Deploy, ExportApp, CreateBotRepo, RecreateBotRepo, CreateSuffixed, StoreUrl,
           PushCode, RetryJob, RepoSteps
    <2>5. QED
        BY <1>2, <2>1, <2>2, <2>3, <2>4
<1>6. ASSUME NEW r \in Deleters \cup {Link},
             \/ r = Link /\ (Connect \/ Disconnect)
             \/ r \in Deleters /\ (FindDeployment(r) \/ MarkUndeployed(r) \/ RemoveRepos(r))
             \/ r = Deletion /\ (FindProject \/ FindItsDeployment \/ ForgetProject)
      PROVE  ClonesInv'
    <2>1. r \in RepoRequests \ Clones
        BY RequestsApart
    <2>2. UNCHANGED <<disk, cloneRows>> /\ left \subseteq left'
        BY <1>6 DEF Connect, Disconnect, FindDeployment, MarkUndeployed, RemoveRepos, FindProject,
           FindItsDeployment, ForgetProject, DeleterKeeps, Keep, clones, github
    <2>3. PICK from \in RepoSteps, to \in RepoSteps : Goto(r, from, to)
        BY <1>6 DEF Connect, Disconnect, FindDeployment, MarkUndeployed, RemoveRepos, FindProject,
           FindItsDeployment, ForgetProject, RepoSteps
    <2>4. QED
        BY <1>2, <2>1, <2>2, <2>3
<1>7. ASSUME NEW c \in Clones,
             CloneRepo(c) \/ StoreClone(c) \/ DeleteClone(c) \/ DropClone(c)
      PROVE  ClonesInv'
    <2>1. PICK from \in RepoSteps, to \in RepoSteps : Goto(c, from, to)
        BY <1>7 DEF CloneRepo, StoreClone, DeleteClone, DropClone, RepoSteps
    <2>2. /\ req[c] = from /\ req'[c] = to
          /\ \A d \in Clones : d # c => req'[d] = req[d]
        BY <2>1, Stepping, RequestsApart DEF ReposTypes
    <2>3. CASE CloneRepo(c)
        BY <2>2, <2>3, RequestsApart DEF CloneRepo, Goto, ClonesInv, Cloning, ReposTypes,
           ReposTypeOK
    <2>4. CASE StoreClone(c)
        BY <2>2, <2>4, RequestsApart DEF StoreClone, Goto, ClonesInv, Cloning, ReposTypes,
           ReposTypeOK
    <2>5. CASE DeleteClone(c)
        BY <2>2, <2>5, RequestsApart DEF DeleteClone, Goto, ClonesInv, Cloning, ReposTypes,
           ReposTypeOK
    <2>6. CASE DropClone(c)
        BY <2>2, <2>6, RequestsApart DEF DropClone, Goto, ClonesInv, Cloning, ReposTypes,
           ReposTypeOK
    <2>7. QED
        BY <1>7, <2>3, <2>4, <2>5, <2>6
<1>8. CASE ReposNext
    BY <1>8, <1>4, <1>5, <1>6, <1>7 DEF ReposNext, Deleters
<1>9. QED
    BY <1>1, <1>8

(* No repository is left that nobody names, holds or gave up, and no       *)
(* cloned directory: for any pushes, deployments, attempts and deletions,  *)
(* whatever fails between two statements (github.service.ts 300-420,       *)
(* deploy.service.ts 1074-1150).                                           *)
THEOREM NoneIsForgotten == ReposSpec => []NothingForgotten
<1>1. ReposInit => CodeInv /\ TraceInv /\ ClonesInv
    <2> SUFFICES ASSUME ReposInit PROVE CodeInv /\ TraceInv /\ ClonesInv
        OBVIOUS
    <2>1. \A r \in RepoRequests : req[r] \in {"new", "never"}
        BY DEF ReposInit
    <2>2. DOMAIN repos = {}
        BY DEF ReposInit
    <2>3. CodeInv /\ ClonesInv
        BY <2>1, NamesApart, RequestsApart DEF ReposInit, CodeInv, ClonesInv
    <2>4. TraceInv
        BY <2>1, <2>2, NamesApart, RequestsApart DEF ReposInit, TraceInv
    <2>5. QED
        BY <2>3, <2>4
<1>2. TraceInv /\ ClonesInv => NothingForgotten
    BY DEF TraceInv, ClonesInv, NothingForgotten, Loose
<1>3. QED
    BY <1>1, <1>2, InitRepos, StepRepos, StepCode, StepTrace, StepClones, PTL DEF ReposSpec

-----------------------------------------------------------------------------
(* A deployment is built from its own code. *)

(* A step that leaves the deployment of the row and its repository alone.  *)
LEMMA BuiltKeeps ==
    ASSUME ReposTypes, BuiltInv, row' = row, disturbed \subseteq disturbed',
           \A r \in Deleters : Deleting(r)' => Deleting(r) /\ hand'[r] = hand[r],
           \A j \in Deploys : Running(j)' =>
              Running(j) \/ row \in {j, 0} \cup disturbed' \/ BotName[j] # BotName[row],
           row \in Deploys \ disturbed' =>
              /\ req'[row] \in {"stored", "done"} =>
                    /\ req'[row] = req[row] /\ hand'[row] = hand[row]
                    /\ rowUrl' = rowUrl \/ rowUrl = None
              /\ \A n \in JobNames(row) \cap DOMAIN repos :
                    req'[row] = "done" => n \in DOMAIN repos' /\ repos'[n] = repos[n]
    PROVE  BuiltInv'
<1>1. ASSUME NEW r \in Deleters, NEW k \in Deploys, Deleting(r)',
             hand'[r] \cap Suffixes(k) # {}
      PROVE  k \in disturbed'
    BY <1>1 DEF BuiltInv
<1>2. ASSUME NEW k \in Deploys \ disturbed', row' = k
      PROVE  /\ Alone(k)'
             /\ req'[k] \in {"stored", "done"} => hand'[k] = {rowUrl'}
             /\ req'[k] = "done" => rowUrl' \in DOMAIN repos' /\ repos'[rowUrl'] = k
    <2>1. /\ row = k /\ k \in Deploys \ disturbed
          /\ Alone(k)
          /\ req[k] \in {"stored", "done"} => hand[k] = {rowUrl}
          /\ req[k] = "done" => rowUrl \in DOMAIN repos /\ repos[rowUrl] = k
        BY <1>2 DEF BuiltInv
    <2>2. Alone(k)'
        BY <1>2, <2>1, RequestsApart DEF Alone
    <2>3. hand[k] \subseteq JobNames(k) /\ None \notin JobNames(k)
        BY NamesApart DEF ReposTypes, HandsOK
    <2>4. ASSUME req'[k] \in {"stored", "done"}
          PROVE  hand'[k] = {rowUrl'} /\ rowUrl' = rowUrl /\ rowUrl \in JobNames(k)
        BY <1>2, <2>1, <2>3, <2>4
    <2>5. ASSUME req'[k] = "done"
          PROVE  rowUrl' \in DOMAIN repos' /\ repos'[rowUrl'] = k
        BY <1>2, <2>1, <2>4, <2>5
    <2>6. QED
        BY <2>2, <2>4, <2>5
<1>3. QED
    BY <1>1, <1>2 DEF BuiltInv, Suffixes

LEMMA PushesBuild ==
    ASSUME ReposTypes, BuiltInv, NEW p \in Pushes,
           \/ StartPush(p) \/ ExportProject(p) \/ CreateOwnRepo(p) \/ FillOwnRepo(p)
           \/ PushAgain(p) \/ TellProject(p) \/ ReadDeployment(p) \/ TellDeployment(p)
    PROVE  BuiltInv'
<1>1. /\ p \in RepoRequests /\ p \notin Deploys \cup Deleters
      /\ Deploys \cup Deleters \subseteq RepoRequests
      /\ Own(p) \in OwnNames /\ Own(p) \in Names
    BY RequestsApart, NamesApart DEF OwnNames
<1>2. PICK from \in RepoSteps, to \in RepoSteps : Goto(p, from, to)
    BY DEF StartPush, ExportProject, CreateOwnRepo, FillOwnRepo, PushAgain, FillRepo, TellProject,
       ReadDeployment, TellDeployment, RepoSteps
<1>3. \A q \in Deploys \cup Deleters : req'[q] = req[q] /\ hand'[q] = hand[q]
    <2>1. UNCHANGED hand \/ \E names : Hold(p, names)
        BY DEF StartPush, ExportProject, CreateOwnRepo, FillOwnRepo, PushAgain, FillRepo,
           TellProject, ReadDeployment, TellDeployment, github
    <2>2. \A q \in RepoRequests : q # p => hand'[q] = hand[q]
        BY <2>1 DEF Hold, ReposTypes, ReposTypeOK
    <2>3. QED
        BY <1>1, <1>2, <2>2, Stepping DEF ReposTypes
<1>4. row' = row /\ disturbed \subseteq disturbed'
    BY DEF StartPush, ExportProject, CreateOwnRepo, FillOwnRepo, PushAgain, FillRepo, TellProject,
       ReadDeployment, TellDeployment, PushKeeps, github
<1>5. rowUrl' = rowUrl \/ rowUrl = None \/ row \in disturbed'
    BY DEF StartPush, ExportProject, CreateOwnRepo, FillOwnRepo, PushAgain, FillRepo, TellProject,
       ReadDeployment, TellDeployment
<1>6. \A n \in DOMAIN repos \ OwnNames : n \in DOMAIN repos' /\ repos'[n] = repos[n]
    <2>1. \/ UNCHANGED repos \/ Create(Own(p))
          \/ \E n \in hand[p] : Taken(n) /\ Push(n, p)
        BY DEF StartPush, ExportProject, CreateOwnRepo, FillOwnRepo, PushAgain, FillRepo,
           TellProject, ReadDeployment, TellDeployment, github
    <2>2. CASE Create(Own(p))
        <3>1. PICK name \in Names : name = Own(p)
            BY <1>1
        <3>2. QED
            BY <2>2, <3>1, <1>1, Creating DEF ReposTypes
    <2>3. CASE \E n \in hand[p] : Taken(n) /\ Push(n, p)
        <3>1. PICK n \in hand[p] : n \in DOMAIN repos /\ Push(n, p)
            BY <2>3 DEF Taken
        <3>2. n \in OwnNames
            BY DEF ReposTypes, HandsOK
        <3>3. QED
            BY <3>1, <3>2, Pushing DEF ReposTypes
    <2>4. QED
        BY <2>1, <2>2, <2>3
<1>7. \A r \in Deleters : (Deleting(r)' <=> Deleting(r))
    BY <1>3 DEF Deleting
<1>8. \A j \in Deploys : (Running(j)' <=> Running(j)) /\ JobNames(j) \cap OwnNames = {}
    BY <1>3, NamesApart DEF Running
<1>9. QED
    BY <1>3, <1>4, <1>5, <1>6, <1>7, <1>8, BuiltKeeps

LEMMA OthersBuild ==
    ASSUME ReposTypes, BuiltInv, NEW r \in Clones \cup {Link},
           \/ r = Link /\ (Connect \/ Disconnect)
           \/ /\ r \in Clones
              /\ CloneRepo(r) \/ StoreClone(r) \/ DeleteClone(r) \/ DropClone(r)
    PROVE  BuiltInv'
<1>1. /\ r \in RepoRequests /\ r \notin Deploys \cup Deleters
      /\ Deploys \cup Deleters \subseteq RepoRequests
    BY RequestsApart
<1>2. PICK from \in RepoSteps, to \in RepoSteps : Goto(r, from, to)
    BY DEF Connect, Disconnect, CloneRepo, StoreClone, DeleteClone, DropClone, RepoSteps
<1>3. UNCHANGED <<row, rowUrl, repos, hand, disturbed>>
    BY DEF Connect, Disconnect, CloneRepo, StoreClone, DeleteClone, DropClone, CloneKeeps, db,
       github
<1>4. \A q \in Deploys \cup Deleters : req'[q] = req[q]
    BY <1>1, <1>2, Stepping DEF ReposTypes
<1>5. /\ \A q \in Deleters : (Deleting(q)' <=> Deleting(q))
      /\ \A j \in Deploys : (Running(j)' <=> Running(j))
    BY <1>4 DEF Deleting, Running
<1>6. QED
    BY <1>3, <1>4, <1>5, BuiltKeeps

LEMMA JobsBuild ==
    ASSUME ReposTypes, BuiltInv, NEW j \in Deploys,
           \/ Deploy(j) \/ ExportApp(j) \/ CreateBotRepo(j) \/ RecreateBotRepo(j)
           \/ CreateSuffixed(j) \/ StoreUrl(j) \/ PushCode(j) \/ RetryJob(j)
    PROVE  BuiltInv'
<1>1. /\ j \in RepoRequests /\ j \notin Deleters /\ Deleters \subseteq RepoRequests
      /\ Deploys \subseteq RepoRequests
      /\ 0 \notin Deploys /\ PlainName(j) \in JobNames(j) /\ JobNames(j) \subseteq Names
      /\ hand[j] \subseteq JobNames(j) /\ None \notin JobNames(j)
      /\ req[j] = "suffixing" => <<BotName[j], j, tries[j]>> \in JobNames(j)
    BY RequestsApart, JobNamed, NamesApart
<1>2. PICK from \in RepoSteps, to \in RepoSteps : Goto(j, from, to)
    <2>1. CASE CreateBotRepo(j) \/ RecreateBotRepo(j) \/ CreateSuffixed(j)
        BY <2>1 DEF CreateBotRepo, RecreateBotRepo, CreateSuffixed, RepoSteps
    <2>2. CASE Deploy(j) \/ ExportApp(j) \/ StoreUrl(j) \/ PushCode(j) \/ RetryJob(j)
        BY <2>2 DEF Deploy, ExportApp, StoreUrl, PushCode, RetryJob, RepoSteps
    <2>3. QED
        BY <2>1, <2>2
<1>3. /\ req[j] = from /\ req'[j] = to
      /\ \A q \in RepoRequests : q # j => req'[q] = req[q] /\ hand'[q] = hand[q]
    <2>1. UNCHANGED hand \/ \E names : Hold(j, names)
        BY DEF Deploy, ExportApp, CreateBotRepo, RecreateBotRepo, CreateSuffixed, StoreUrl,
           PushCode, RetryJob, JobKeeps
    <2>2. \A q \in RepoRequests : q # j => hand'[q] = hand[q]
        BY <2>1 DEF Hold, ReposTypes, ReposTypeOK
    <2>3. QED
        BY <1>1, <1>2, <2>2, Stepping DEF ReposTypes
<1>4. \A r \in Deleters : (Deleting(r)' <=> Deleting(r)) /\ hand'[r] = hand[r]
    BY <1>1, <1>3 DEF Deleting
<1>5. \A i \in Deploys \ {j} : (Running(i)' <=> Running(i))
    BY <1>1, <1>3 DEF Running
<1>6. disturbed \subseteq disturbed'
    BY DEF Deploy, ExportApp, CreateBotRepo, RecreateBotRepo, CreateSuffixed, StoreUrl, PushCode,
       RetryJob, JobKeeps
<1>7. CASE Deploy(j)
    <2>1. row' = j /\ req'[j] = "queued"
        BY <1>7, <1>1 DEF Deploy, Goto, ReposTypes, ReposTypeOK
    <2>2. ASSUME j \notin disturbed' PROVE Alone(j)'
        <3>1. /\ \A i \in Deploys : BotName[i] = BotName[j] => ~ Running(i)
              /\ \A r \in Deleters : Deleting(r) => PlainName(j) \notin hand[r]
            BY <1>7, <2>2 DEF Deploy
        <3>2. \A r \in Deleters : Deleting(r) => hand[r] \cap Suffixes(j) = {}
            BY <1>6, <2>2 DEF BuiltInv
        <3>3. QED
            BY <3>1, <3>2, <1>4, <1>5 DEF Alone, Suffixes
    <2>3. QED
        BY <2>1, <2>2, <1>4, <1>6 DEF BuiltInv, Suffixes
(* Whoever shares the name of the row's app, and goes on, disturbs it. *)
<1>8. ASSUME ~ Deploy(j), row \in Deploys \ disturbed', row # j
      PROVE  BotName[j] # BotName[row]
    <2>1. BotName[j] = BotName[row] => ~ Running(j)
        BY <1>6, <1>8 DEF BuiltInv, Alone
    <2>2. RetryJob(j) => BotName[j] # BotName[row]
        BY <1>1, <1>8 DEF RetryJob, ReposTypes, ReposTypeOK
    <2>3. QED
        BY <2>1, <2>2, <1>8 DEF ExportApp, CreateBotRepo, RecreateBotRepo, CreateSuffixed,
           StoreUrl, PushCode, Goto, Running
<1>9. ASSUME ~ Deploy(j)
      PROVE  row' = row /\ (row # j => rowUrl' = rowUrl)
    BY <1>9 DEF ExportApp, CreateBotRepo, RecreateBotRepo, CreateSuffixed, StoreUrl, PushCode,
       RetryJob, JobKeeps, db
<1>10. ASSUME ~ Deploy(j), NEW n \in DOMAIN repos \ JobNames(j)
       PROVE  n \in DOMAIN repos' /\ repos'[n] = repos[n]
    <2>1. \/ UNCHANGED repos \/ Remove({PlainName(j)})
          \/ \E name \in JobNames(j) : Create(name)
          \/ \E name \in hand[j] : Taken(name) /\ Push(name, j)
        BY <1>1, <1>10 DEF ExportApp, CreateBotRepo, RecreateBotRepo, CreateSuffixed, StoreUrl,
           PushCode, RetryJob, JobKeeps, Accepts, Goto
    <2>2. CASE Remove({PlainName(j)})
        <3>1. /\ DOMAIN repos' = DOMAIN repos \ {PlainName(j)}
              /\ \A m \in DOMAIN repos' : repos'[m] = repos[m]
            BY <2>2, Removing DEF ReposTypes
        <3>2. QED
            BY <3>1, <1>1, <1>10
    <2>3. CASE \E name \in JobNames(j) : Create(name)
        <3>1. PICK name \in Names : Create(name) /\ name \in JobNames(j)
            BY <2>3, <1>1
        <3>2. /\ DOMAIN repos' = DOMAIN repos \cup {name}
              /\ \A m \in DOMAIN repos : m # name => repos'[m] = repos[m]
            BY <3>1, Creating DEF ReposTypes
        <3>3. QED
            BY <3>1, <3>2, <1>10
    <2>4. CASE \E name \in hand[j] : Taken(name) /\ Push(name, j)
        <3>1. PICK name \in hand[j] : name \in DOMAIN repos /\ Push(name, j)
            BY <2>4 DEF Taken
        <3>2. QED
            BY <3>1, <1>1, <1>10, Pushing DEF ReposTypes
    <2>5. QED
        BY <2>1, <2>2, <2>3, <2>4, <1>10
<1>11. CASE ~ Deploy(j) /\ row # j
    <2>1. ASSUME row \in Deploys \ disturbed'
          PROVE  /\ req'[row] = req[row] /\ hand'[row] = hand[row] /\ rowUrl' = rowUrl
                 /\ \A n \in JobNames(row) \cap DOMAIN repos :
                       n \in DOMAIN repos' /\ repos'[n] = repos[n]
        <3>1. JobNames(row) \cap JobNames(j) = {}
            BY <2>1, <1>8, <1>11, NamesApart
        <3>2. QED
            BY <3>1, <2>1, <1>1, <1>3, <1>9, <1>10, <1>11
    <2>2. \A i \in Deploys : Running(i)' =>
              Running(i) \/ row \in {i, 0} \cup disturbed' \/ BotName[i] # BotName[row]
        <3>1. row # 0 => row \in Deploys
            BY DEF ReposTypes, ReposTypeOK
        <3>2. QED
            BY <3>1, <1>5, <1>8, <1>11
    <2>3. QED
        BY <2>1, <2>2, <1>4, <1>6, <1>9, <1>11, BuiltKeeps
<1>12. CASE ~ Deploy(j) /\ row = j /\ ~ (StoreUrl(j) \/ PushCode(j))
    <2>1. req'[j] \notin {"stored", "done"}
        BY <1>12, <1>1, <1>2, <1>3 DEF ExportApp, CreateBotRepo, RecreateBotRepo, CreateSuffixed,
           RetryJob, Goto, ReposTypes, ReposTypeOK
    <2>2. \A i \in Deploys : Running(i)' => Running(i) \/ row = i
        BY <1>5, <1>12
    <2>3. QED
        BY <2>1, <2>2, <1>4, <1>6, <1>9, <1>12, BuiltKeeps
(* The job of the row itself, which names its repository and then fills it. *)
<1>13. ASSUME row = j, row' = j, UNCHANGED hand, j \notin disturbed' =>
              /\ req'[j] \in {"stored", "done"} => hand[j] = {rowUrl'}
              /\ req'[j] = "done" => rowUrl' \in DOMAIN repos' /\ repos'[rowUrl'] = j
       PROVE  BuiltInv'
    <2>1. ASSUME j \notin disturbed' PROVE Alone(j)'
        BY <2>1, <1>4, <1>5, <1>6, <1>13 DEF BuiltInv, Alone
    <2>2. QED
        BY <2>1, <1>4, <1>6, <1>13 DEF BuiltInv, Suffixes
<1>14. CASE row = j /\ StoreUrl(j)
    <2>1. /\ row' = row /\ UNCHANGED hand
          /\ req'[j] # "done"
          /\ req'[j] = "stored" => rowUrl' \in hand[j]
        BY <1>14, <1>1 DEF StoreUrl, JobKeeps, Goto, ReposTypes, ReposTypeOK
    <2>2. \A a, b \in hand[j] : a = b
        BY DEF ReposTypes, HandsOK
    <2>3. QED
        BY <2>1, <2>2, <1>13, <1>14
<1>15. CASE row = j /\ PushCode(j)
    <2>1. /\ UNCHANGED <<row, rowUrl, hand, disturbed>>
          /\ req[j] = "stored" /\ req'[j] \in {"done", "failed"}
          /\ req'[j] = "done" => \E name \in hand[j] : name \in DOMAIN repos /\ Push(name, j)
        BY <1>15, <1>1 DEF PushCode, JobKeeps, Goto, Accepts, Taken, ReposTypes, ReposTypeOK
    <2>2. ASSUME j \notin disturbed' PROVE hand[j] = {rowUrl'}
        BY <2>1, <2>2, <1>15 DEF BuiltInv
    <2>3. ASSUME j \notin disturbed', req'[j] = "done"
          PROVE  rowUrl' \in DOMAIN repos' /\ repos'[rowUrl'] = j
        <3>1. PICK name \in DOMAIN repos : name = rowUrl' /\ Push(name, j)
            BY <2>1, <2>2, <2>3
        <3>2. QED
            BY <3>1, Pushing DEF ReposTypes
    <2>4. QED
        BY <2>1, <2>2, <2>3, <1>13, <1>15
<1>16. QED
    BY <1>7, <1>11, <1>12, <1>14, <1>15 DEF Deploy

LEMMA DeletersBuild ==
    ASSUME ReposTypes, BuiltInv, NEW r \in Deleters,
           \/ FindDeployment(r) \/ MarkUndeployed(r) \/ RemoveRepos(r)
           \/ r = Deletion /\ (FindProject \/ FindItsDeployment \/ ForgetProject)
    PROVE  BuiltInv'
<1>1. /\ r \in RepoRequests /\ r \notin Deploys /\ Deploys \subseteq RepoRequests
      /\ Deleters \subseteq RepoRequests
      /\ 0 \notin Deploys /\ None \notin Names
    BY RequestsApart, NamesApart
<1>2. PICK from \in RepoSteps, to \in RepoSteps : Goto(r, from, to)
    BY DEF FindDeployment, MarkUndeployed, RemoveRepos, FindProject, FindItsDeployment,
       ForgetProject, RepoSteps
<1>3. UNCHANGED hand \/ \E names \in SUBSET (Names \cup {None}) : Hold(r, names)
    <2>1. /\ {rowUrl} \subseteq Names \cup {None}
          /\ {projectUrl} \subseteq Names \cup {None}
          /\ hand[Deletion] \cup {rowUrl} \subseteq Names \cup {None}
        BY RequestsApart DEF ReposTypes, ReposTypeOK, Deleters
    <2>2. QED
        BY <2>1 DEF FindDeployment, MarkUndeployed, RemoveRepos, FindProject, FindItsDeployment,
           ForgetProject
<1>4. /\ req[r] = from /\ req'[r] = to
      /\ \A q \in RepoRequests : q # r => req'[q] = req[q] /\ hand'[q] = hand[q]
    <2>1. \A q \in RepoRequests : q # r => hand'[q] = hand[q]
        BY <1>3 DEF Hold, ReposTypes, ReposTypeOK
    <2>2. QED
        BY <1>1, <1>2, <2>1, Stepping DEF ReposTypes
<1>5. \A q \in Deleters \ {r} : (Deleting(q)' <=> Deleting(q)) /\ hand'[q] = hand[q]
    BY <1>1, <1>4 DEF Deleting
<1>6. \A i \in Deploys : /\ Running(i)' <=> Running(i)
                         /\ req'[i] = req[i] /\ hand'[i] = hand[i]
    BY <1>1, <1>4 DEF Running
<1>7. disturbed \subseteq disturbed'
    BY DEF FindDeployment, MarkUndeployed, RemoveRepos, FindProject, FindItsDeployment,
       ForgetProject, github
(* What a row names is no suffixed name of another deployment. *)
<1>8. ASSUME NEW k \in Deploys, rowUrl \in Suffixes(k) PROVE row = k
    <2>1. rowUrl \in JobNames(k) /\ rowUrl # PlainName(k)
        BY <1>8 DEF Suffixes
    <2>2. rowUrl \notin OwnNames \cup {None}
        BY <2>1, NamesApart
    <2>3. row \in Deploys /\ rowUrl \in JobNames(row)
        BY <2>2 DEF ReposTypes, UrlsOK
    <2>4. QED
        BY <2>1, <2>3, NamesApart
<1>9. CASE FindDeployment(r)
    <2>1. hand'[r] = {rowUrl} \ {None} /\ row \in disturbed' /\ row' = row
        BY <1>9, <1>1 DEF FindDeployment, Hold, ReposTypes, ReposTypeOK, db
    <2>2. ASSUME NEW q \in Deleters, NEW k \in Deploys, Deleting(q)',
                 hand'[q] \cap Suffixes(k) # {}
          PROVE  k \in disturbed'
        <3>1. CASE q = r
            BY <3>1, <2>1, <2>2, <1>8
        <3>2. CASE q # r
            BY <3>2, <2>2, <1>5, <1>7 DEF BuiltInv
        <3>3. QED
            BY <3>1, <3>2
    <2>3. QED
        BY <2>1, <2>2 DEF BuiltInv, Suffixes
<1>10. CASE FindProject /\ r = Deletion
    <2>1. hand'[r] = {projectUrl} \ {None}
        BY <1>10, <1>1 DEF FindProject, Hold, ReposTypes, ReposTypeOK
    <2>2. \A k \in Deploys : hand'[r] \cap JobNames(k) = {}
        BY <2>1, NamesApart DEF ReposTypes, UrlsOK
    <2>3. UNCHANGED <<row, rowUrl, repos, disturbed>>
        BY <1>10 DEF FindProject, db, github
    <2>4. ASSUME NEW q \in Deleters, NEW k \in Deploys, Deleting(q)',
                 hand'[q] \cap Suffixes(k) # {}
          PROVE  k \in disturbed'
        BY <2>2, <2>3, <2>4, <1>5 DEF BuiltInv, Suffixes
    <2>5. ASSUME NEW k \in Deploys \ disturbed', row' = k PROVE Alone(k)'
        BY <2>2, <2>3, <2>5, <1>5, <1>6 DEF BuiltInv, Alone
    <2>6. QED
        BY <2>3, <2>4, <2>5, <1>6 DEF BuiltInv, Suffixes
<1>11. CASE FindItsDeployment /\ r = Deletion
    <2>1. /\ hand'[r] = (hand[r] \cup {rowUrl}) \ {None} /\ row \in disturbed' /\ row' = row
          /\ Deleting(r)
        BY <1>11, <1>1 DEF FindItsDeployment, Hold, ReposTypes, ReposTypeOK, db, Goto, Deleting
    <2>2. ASSUME NEW q \in Deleters, NEW k \in Deploys, Deleting(q)',
                 hand'[q] \cap Suffixes(k) # {}
          PROVE  k \in disturbed'
        <3>1. CASE q = r
            <4>1. hand[r] \cap Suffixes(k) # {} \/ rowUrl \in Suffixes(k)
                BY <3>1, <2>1, <2>2
            <4>2. QED
                BY <4>1, <2>1, <1>7, <1>8 DEF BuiltInv
        <3>2. CASE q # r
            BY <3>2, <2>2, <1>5, <1>7 DEF BuiltInv
        <3>3. QED
            BY <3>1, <3>2
    <2>3. QED
        BY <2>1, <2>2 DEF BuiltInv, Suffixes
<1>12. CASE RemoveRepos(r)
    <2>1. /\ UNCHANGED <<row, rowUrl, hand, disturbed>> /\ Deleting(r)
          /\ \E names \in SUBSET hand[r] : Remove(names)
        BY <1>12 DEF RemoveRepos, db, Deleting, Goto
    <2>2. ASSUME row \in Deploys \ disturbed'
          PROVE  \A n \in JobNames(row) \cap DOMAIN repos :
                     n \in DOMAIN repos' /\ repos'[n] = repos[n]
        <3>1. hand[r] \cap JobNames(row) = {}
            BY <2>1, <2>2 DEF BuiltInv, Alone
        <3>2. PICK names \in SUBSET hand[r] : Remove(names)
            BY <2>1
        <3>3. /\ DOMAIN repos' = DOMAIN repos \ names
              /\ \A n \in DOMAIN repos' : repos'[n] = repos[n]
            BY <3>2, Removing DEF ReposTypes
        <3>4. QED
            BY <3>1, <3>3
    <2>3. \A q \in Deleters : Deleting(q)' => Deleting(q) /\ hand'[q] = hand[q]
        BY <2>1, <1>5
    <2>4. QED
        BY <2>1, <2>2, <2>3, <1>6, <1>7, BuiltKeeps
<1>13. CASE MarkUndeployed(r) \/ (ForgetProject /\ r = Deletion)
    <2>1. /\ UNCHANGED <<repos, hand, disturbed>> /\ Deleting(r)
          /\ UNCHANGED <<row, rowUrl>> \/ row' = 0
        BY <1>13 DEF MarkUndeployed, ForgetProject, db, github, Deleting, Goto
    <2>2. \A q \in Deleters : Deleting(q)' => Deleting(q) /\ hand'[q] = hand[q]
        BY <2>1, <1>5
    <2>3. CASE row' = 0
        BY <2>1, <2>2, <2>3, <1>1 DEF BuiltInv, Suffixes
    <2>4. CASE UNCHANGED <<row, rowUrl>>
        BY <2>1, <2>2, <2>4, <1>6, <1>7, BuiltKeeps
    <2>5. QED
        BY <2>1, <2>3, <2>4
<1>14. QED
    BY <1>9, <1>10, <1>11, <1>12, <1>13

LEMMA StepBuilt ==
    ASSUME ReposTypes, BuiltInv, [ReposNext]_reposVars
    PROVE  BuiltInv'
<1>1. CASE UNCHANGED reposVars
    BY <1>1 DEF reposVars, db, github, BuiltInv, Alone, Running, Deleting
<1>2. CASE ReposNext
    BY <1>2, PushesBuild, JobsBuild, DeletersBuild, OthersBuild DEF ReposNext, Deleters
<1>3. QED
    BY <1>1, <1>2

(* A deployment whose job is through is built from its own code, unless    *)
(* another request has worked with its repository: for any deployments,    *)
(* pushes and deletions, however often each job is tried (deploy.service.ts*)
(* 1074-1150).                                                             *)
THEOREM BuiltFromItsCode == ReposSpec => []BuiltFromOwnCode
<1>1. ReposInit => BuiltInv
    BY RequestsApart DEF ReposInit, BuiltInv
<1>2. BuiltInv => BuiltFromOwnCode
    BY DEF BuiltInv, BuiltFromOwnCode, Taken
<1>3. QED
    BY <1>1, <1>2, InitRepos, StepRepos, StepBuilt, PTL DEF ReposSpec
===============================================================================
