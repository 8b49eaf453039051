------------------------------ MODULE Library ------------------------------
(***************************************************************************)
(* The photos of one event from a browser's drop to the bucket: the upload *)
(* store of the web client, upload.service and quota.service, AssetProcess *)
(* of media.service, deletion in asset.service and event.service, and the  *)
(* sweeps of cleanup.service.  A file is one byte long, an asset is named  *)
(* by the upload that made it.                                             *)
(***************************************************************************)
EXTENDS Integers, FiniteSets

CONSTANTS
    Uploads,            \* files dropped into the browser
    Content,            \* what each holds: equal contents have equal checksums
    Limit,              \* the organisation's storage limit, in files
    Batch,              \* the enqueue() call, of any tab, that each file came with
    UPLOAD_CONCURRENCY, \* workers that one such call starts
    Slots,              \* concurrency of the MediaProcess queue
    MaxDeletes, MaxReruns, MaxFaults  \* bounds: organiser's requests, errors and crashes

ASSUME LibraryAssumption ==
    /\ IsFiniteSet(Uploads) /\ Content \in [Uploads -> Uploads] /\ Limit \in Nat
    /\ Batch \in [Uploads -> Uploads] /\ UPLOAD_CONCURRENCY \in Nat \ {0}
    /\ MaxDeletes \in Nat /\ MaxReruns \in Nat /\ MaxFaults \in Nat

VARIABLES
    item,      \* rows of the upload panel
    request,   \* how far POST /assets has got
    staging,   \* files in the staging folder
    asset,     \* asset rows
    files,     \* assets with asset_file rows for their derivatives
    objects,   \* the bucket
    jobs,      \* AssetProcess jobs waiting
    worker,    \* AssetProcess handlers
    workDir,   \* the handlers' cache folders, one per asset
    deleting,  \* soft-deleted, their keys not yet collected
    cleanup,   \* keys in waiting CleanupKeys jobs
    aged,      \* soft-deleted longer than the grace period
    event,     \* the event row, and the CleanupPrefix job of its deletion
    purged,    \* the event's media purge, and its CleanupPrefix job
    wiped,     \* history: uploads whose original the purge took
    peak,      \* history: most uploads between their quota check and their row at once
    credit, deletes, reruns

upload == <<item, request, staging>>
media == <<files, jobs, worker, workDir>>
removal == <<deleting, cleanup, aged, event, deletes, purged, wiped>>
vars == <<upload, asset, objects, media, removal, reruns, credit, peak>>

Kinds == {"original", "derived"}
Free == [pc |-> "idle", asset |-> "none"]
Pool(b) == {u \in Uploads : Batch[u] = b /\ item[u] \in {"hashing", "uploading"}}
InFlight == {u \in Uploads : request[u] \in {"admitted", "put"}}
LiveAssets == {u \in Uploads : asset[u] \in {"stored", "processed", "failed"}}
Exists(u) == u \in LiveAssets \/ asset[u] = "deleted"

\* Uploads, assets, objects and the jobs over them have their types; only assets that
\* were deleted are being removed (asset.service.ts, cleanup.service.ts).
TypeOK ==
    /\ item \in [Uploads -> {"pending", "hashing", "uploading", "done", "duplicate", "error"}]
    /\ request \in [Uploads -> {"none", "sent", "staged", "admitted", "put"}]
    /\ staging \subseteq Uploads
    /\ asset \in [Uploads -> {"none", "stored", "processed", "failed", "deleted", "gone"}]
    /\ files \subseteq {u \in Uploads : Exists(u)}
    /\ objects \subseteq Uploads \X Kinds /\ cleanup \subseteq Uploads \X Kinds
    /\ jobs \subseteq Uploads /\ workDir \subseteq Uploads
    /\ worker \in [Slots -> [pc : {"idle", "work", "record"}, asset : Uploads \cup {"none"}]]
    /\ deleting \cup aged \subseteq {u \in Uploads : asset[u] \in {"deleted", "gone"}}
    /\ event \in {"live", "gone", "prefix"} /\ purged \in {"no", "queued", "done"}
    /\ wiped \subseteq Uploads /\ peak \in Nat
    /\ deletes \in 0..MaxDeletes /\ reruns \in 0..MaxReruns /\ credit \in 0..MaxFaults

findByChecksum(u) == {v \in LiveAssets : Content[v] = Content[u]}
getOrgStorageBytes == IF event = "live" THEN Cardinality(LiveAssets) ELSE 0
assertStorageAvailable == getOrgStorageBytes + 1 <= Limit

Settle(u, state) ==
    /\ item' = [item EXCEPT ![u] = state]
    /\ request' = [request EXCEPT ![u] = "none"]

-----------------------------------------------------------------------------
(* The browser's queue and the request *)

\* Every call of enqueue() starts a pool of its own; nothing bounds the pools together.
enqueue(u) ==
    /\ item[u] = "pending" /\ Cardinality(Pool(Batch[u])) < UPLOAD_CONCURRENCY
    /\ item' = [item EXCEPT ![u] = "hashing"]
    /\ UNCHANGED <<request, staging, asset, objects, jobs, peak>>
bulkUploadCheck(u) ==
    /\ item[u] = "hashing"
    /\ IF findByChecksum(u) # {}
       THEN item' = [item EXCEPT ![u] = "duplicate"] /\ UNCHANGED <<request, staging>>
       ELSE /\ item' = [item EXCEPT ![u] = "uploading"]
            /\ request' = [request EXCEPT ![u] = "sent"]
            /\ UNCHANGED staging
    /\ UNCHANGED <<asset, objects, jobs, peak>>

\* The interceptor streams the body into the staging folder, hashing it.
handleFile(u) ==
    /\ request[u] = "sent"
    /\ request' = [request EXCEPT ![u] = "staged"]
    /\ staging' = staging \cup {u}
    /\ UNCHANGED <<item, asset, objects, jobs, peak>>
\* A wrong type is refused before; an empty or broken stream leaves what it
\* wrote, which removeFile does not remove.
uploadRefused(u) ==
    /\ request[u] = "sent"
    /\ staging' \in {staging, staging \cup {u}}
    /\ UNCHANGED asset

\* Every early return discards the staged file. Neither the expiry nor the purge of
\* the event is looked at.
admit(u) ==
    /\ request[u] = "staged"
    /\ IF event = "live" /\ findByChecksum(u) = {} /\ assertStorageAvailable
       THEN request' = [request EXCEPT ![u] = "admitted"] /\ UNCHANGED <<item, staging>>
       ELSE /\ Settle(u, IF event = "live" /\ findByChecksum(u) # {} THEN "duplicate" ELSE "error")
            /\ staging' = staging \ {u}
    /\ peak' = IF Cardinality(InFlight') > peak THEN Cardinality(InFlight') ELSE peak
    /\ UNCHANGED <<asset, objects, jobs>>
putFile(u) ==
    /\ request[u] = "admitted"
    /\ objects' = objects \cup {<<u, "original">>}
    /\ request' = [request EXCEPT ![u] = "put"]
    /\ UNCHANGED <<item, staging, asset, jobs, peak>>
\* The unique index on (event, checksum) of undeleted assets decides; the loser
\* takes its own object away. An event deleted meanwhile fails the foreign key
\* instead, and leaves object and staged file behind.
create(u) ==
    /\ request[u] = "put"
    /\ \/ /\ event = "live" /\ findByChecksum(u) = {}
          /\ asset' = [asset EXCEPT ![u] = "stored"]
          /\ jobs' = jobs \cup {u}
          /\ Settle(u, "done") /\ staging' = staging \ {u}
          /\ UNCHANGED objects
       \/ /\ event = "live" /\ findByChecksum(u) # {}
          /\ objects' = objects \ {<<u, "original">>}
          /\ Settle(u, "duplicate") /\ staging' = staging \ {u}
          /\ UNCHANGED <<asset, jobs>>
       \/ /\ event # "live"
          /\ Settle(u, "error")
          /\ UNCHANGED <<staging, asset, objects, jobs>>
    /\ UNCHANGED peak
\* The request dies where it stands; at the end, its job may have failed to queue.
RequestFails(u) ==
    /\ credit > 0 /\ request[u] # "none"
    /\ credit' = credit - 1
    /\ Settle(u, "error")
    /\ \/ uploadRefused(u)
       \/ request[u] # "sent" /\ UNCHANGED <<staging, asset>>
       \/ /\ request[u] = "put" /\ event = "live" /\ findByChecksum(u) = {}
          /\ asset' = [asset EXCEPT ![u] = "stored"]
          /\ staging' = staging \ {u}
    /\ UNCHANGED <<objects, jobs>>
\* Files older than a day: no request is still at work on them.
SweepsSettled ==
    /\ \E u \in staging : item[u] # "error" /\ request[u] = "none" /\ staging' = staging \ {u}
    /\ UNCHANGED <<item, request, asset, objects, jobs>>
StagingSweep ==
    /\ \E u \in staging : request[u] = "none"
    /\ staging' = {u \in staging : request[u] # "none"}
    /\ UNCHANGED <<item, request, asset, objects, jobs>>

-----------------------------------------------------------------------------
(* AssetProcess *)

\* A deleted asset's job is skipped.
TakeAsset(w) ==
    /\ worker[w].pc = "idle"
    /\ \E u \in jobs :
         /\ jobs' = jobs \ {u}
         /\ IF u \in LiveAssets
            THEN /\ worker' = [worker EXCEPT ![w] = [pc |-> "work", asset |-> u]]
                 /\ workDir' = workDir \cup {u}
            ELSE UNCHANGED <<worker, workDir>>
    /\ UNCHANGED <<asset, objects, files, credit>>

\* Failing sets the status and leaves the retry to the queue; every way out
\* removes the folder, which another handler of the same asset may be using.
Fails(w) ==
    LET u == worker[w].asset
    IN /\ asset' = IF u \in LiveAssets THEN [asset EXCEPT ![u] = "failed"] ELSE asset
       /\ jobs' = jobs \cup {u}
       /\ workDir' = workDir \ {u}
       /\ worker' = [worker EXCEPT ![w] = Free]
SetsProcessedFirst(w) ==
    LET u == worker[w].asset
    IN /\ worker[w].pc = "work"
       /\ asset' = IF u \in LiveAssets THEN [asset EXCEPT ![u] = "processed"] ELSE asset
       /\ worker' = [worker EXCEPT ![w].pc = "record"]
       /\ UNCHANGED <<objects, jobs, workDir, files, credit>>
PutDerivatives(w) ==
    LET u == worker[w].asset
    IN /\ worker[w].pc = "work"
       /\ IF <<u, "original">> \in objects /\ u \in workDir
          THEN /\ objects' = objects \cup {<<u, "derived">>}
               /\ worker' = [worker EXCEPT ![w].pc = "record"]
               /\ UNCHANGED <<asset, jobs, workDir>>
          ELSE Fails(w) /\ UNCHANGED objects
       /\ UNCHANGED <<files, credit>>
\* The rows, then the status, then the face jobs. A deleted row takes them too;
\* one that no longer exists refuses them.
RecordDerivatives(w) ==
    LET u == worker[w].asset
    IN /\ worker[w].pc = "record"
       /\ IF Exists(u)
          THEN /\ files' = files \cup {u}
               /\ asset' = IF u \in LiveAssets THEN [asset EXCEPT ![u] = "processed"] ELSE asset
               /\ worker' = [worker EXCEPT ![w] = Free]
               /\ workDir' = workDir \ {u}
               /\ UNCHANGED jobs
          ELSE Fails(w) /\ UNCHANGED files
       /\ UNCHANGED <<objects, credit>>
MediaError(w) ==
    /\ worker[w].pc # "idle" /\ credit > 0
    /\ credit' = credit - 1
    /\ Fails(w)
    /\ UNCHANGED <<objects, files>>
\* runJob("thumbnails") rewinds the status and queues the job again.
runJob(u) ==
    /\ reruns > 0 /\ u \in LiveAssets
    /\ reruns' = reruns - 1
    /\ asset' = [asset EXCEPT ![u] = "stored"]
    /\ jobs' = jobs \cup {u}
    /\ UNCHANGED <<upload, objects, files, worker, workDir, removal, credit, peak>>

-----------------------------------------------------------------------------
(* Deletion *)

Keys(u) == {<<u, "original">>} \cup (IF u \in files THEN {<<u, "derived">>} ELSE {})

softDeleteMany(u) ==
    /\ deletes > 0 /\ u \in LiveAssets /\ event = "live"
    /\ deletes' = deletes - 1
    /\ asset' = [asset EXCEPT ![u] = "deleted"]
    /\ deleting' = deleting \cup {u}
    /\ UNCHANGED <<cleanup, aged, event, purged, wiped, files, objects>>
deleteMany(u) ==
    /\ u \in deleting
    /\ cleanup' = cleanup \cup Keys(u)
    /\ deleting' = deleting \ {u}
    /\ UNCHANGED <<deletes, asset, aged, event, purged, wiped, files, objects>>
CleanupKeys ==
    /\ cleanup # {}
    /\ objects' = objects \ cleanup
    /\ cleanup' = {}
    /\ UNCHANGED <<deletes, asset, deleting, aged, event, purged, wiped, files>>
\* Seven days on, no handler is still at work on the asset.
GraceEnds(u) ==
    /\ asset[u] = "deleted" /\ u \notin deleting \cup aged \cup jobs
    /\ \A w \in Slots : worker[w].asset # u
    /\ aged' = aged \cup {u}
    /\ UNCHANGED <<deletes, asset, deleting, cleanup, event, purged, wiped, files, objects>>

\* The keys of what is left, then the row.
StorageReconcile ==
    /\ aged # {}
    /\ cleanup' = cleanup \cup UNION {Keys(u) : u \in aged}
    /\ asset' = [u \in Uploads |-> IF u \in aged THEN "gone" ELSE asset[u]]
    /\ files' = files \ aged
    /\ aged' = {}
    /\ UNCHANGED <<deletes, deleting, event, purged, wiped, objects>>

\* Storage first: the prefix job is queued, then the rows go with the event.
remove ==
    /\ deletes > 0 /\ event = "live" /\ deleting = {}
    /\ deletes' = deletes - 1
    /\ event' = "prefix"
    /\ asset' = [u \in Uploads |-> IF Exists(u) THEN "gone" ELSE asset[u]]
    /\ files' = {} /\ aged' = {}
    /\ UNCHANGED <<deleting, cleanup, purged, wiped, objects>>
\* purgeNow, or the sweep once the event has expired: the event and its rows stay.
purge ==
    /\ deletes > 0 /\ event = "live" /\ purged = "no"
    /\ deletes' = deletes - 1
    /\ purged' = "queued"
    /\ UNCHANGED <<deleting, cleanup, aged, event, wiped, asset, files, objects>>
CleanupPrefix ==
    /\ \/ /\ event = "prefix" /\ event' = "gone"
          /\ UNCHANGED <<purged, wiped>>
       \/ /\ purged = "queued" /\ purged' = "done"
          /\ wiped' = wiped \cup {u \in Uploads : <<u, "original">> \in objects}
          /\ UNCHANGED event
    /\ objects' = {}
    /\ UNCHANGED <<deletes, deleting, cleanup, aged, asset, files>>

-----------------------------------------------------------------------------

Init ==
    /\ item = [u \in Uploads |-> "pending"] /\ request = [u \in Uploads |-> "none"]
    /\ staging = {} /\ files = {} /\ objects = {} /\ jobs = {} /\ workDir = {}
    /\ asset = [u \in Uploads |-> "none"]
    /\ worker = [w \in Slots |-> Free]
    /\ deleting = {} /\ cleanup = {} /\ aged = {} /\ event = "live"
    /\ purged = "no" /\ wiped = {} /\ peak = 0
    /\ credit = MaxFaults /\ deletes = MaxDeletes /\ reruns = MaxReruns

Serve ==
    /\ \E u \in Uploads : enqueue(u) \/ bulkUploadCheck(u) \/ handleFile(u) \/ admit(u) \/ putFile(u) \/ create(u)
    /\ UNCHANGED <<files, worker, workDir, removal, reruns, credit>>
Disturb ==
    /\ \E u \in Uploads : RequestFails(u)
    /\ UNCHANGED <<files, worker, workDir, removal, reruns, peak>>
Sweep == StagingSweep /\ UNCHANGED <<files, worker, workDir, removal, reruns, credit, peak>>
Process ==
    /\ \E w \in Slots : TakeAsset(w) \/ PutDerivatives(w) \/ RecordDerivatives(w)
    /\ UNCHANGED <<upload, removal, reruns, peak>>
Break ==
    /\ \E w \in Slots : MediaError(w)
    /\ UNCHANGED <<upload, removal, reruns, peak>>
Clean ==
    /\ \/ \E u \in Uploads : deleteMany(u) \/ GraceEnds(u)
       \/ CleanupKeys \/ CleanupPrefix \/ StorageReconcile
    /\ UNCHANGED <<upload, jobs, worker, workDir, reruns, credit, peak>>
DeleteRequest ==
    /\ remove \/ purge \/ \E u \in Uploads : softDeleteMany(u)
    /\ UNCHANGED <<upload, jobs, worker, workDir, reruns, credit, peak>>
Next ==
    \/ Serve \/ Disturb \/ Sweep \/ Process \/ Break \/ Clean \/ DeleteRequest
    \/ \E u \in Uploads : runJob(u)

Spec == Init /\ [][Next]_vars

\* Requests are served, queues drained and sweeps run.
FairSpec == Spec /\ WF_vars(Serve) /\ WF_vars(Process) /\ WF_vars(Clean) /\ WF_vars(Sweep)

-----------------------------------------------------------------------------
(* Properties *)

\* A photo that can be listed has its original, and a processed one its derivatives,
\* whatever duplicates, re-runs, deletions and sweeps go on. The exception is a purge:
\* the rows of what was in the bucket when it ran stay (asset.repository.ts:128-130),
\* and so does the row of an upload it caught between its object and its row. What is
\* uploaded to a purged event afterwards, which nothing forbids, has its objects.
LiveHasObjects ==
    \A u \in LiveAssets \ wiped :
        /\ <<u, "original">> \in objects
        /\ asset[u] = "processed" => <<u, "derived">> \in objects /\ u \in files

\* Nothing in the bucket is forgotten: while the event exists every object
\* belongs to a row that still knows it, to a cleanup, or to a request or a
\* handler under way; only an error may leave one behind.
ObjectsAccounted ==
    event = "live" /\ credit = MaxFaults =>
        \A u \in Uploads :
            /\ <<u, "original">> \in objects =>
                 Exists(u) \/ request[u] = "put" \/ <<u, "original">> \in cleanup
            /\ <<u, "derived">> \in objects =>
                 \/ u \in files \/ <<u, "derived">> \in cleanup
                 \/ \E w \in Slots : worker[w].asset = u
                 \/ u \in jobs

\* The quota is read before the object is stored and the row written: uploads that
\* overlap can pass it together, and nothing bounds how many do, since every enqueue()
\* and every tab starts workers of its own (uploads.svelte.ts:146-172). What is stored
\* or on its way exceeds the limit by less than the uploads that once overlapped, so
\* uploads made one after the other never exceed it.
OverrunBounded ==
    LET used == getOrgStorageBytes + Cardinality(InFlight)
    IN used <= Limit \/ used < Limit + peak

\* The staging folder does not fill up: whatever a broken upload, a refused one
\* or an event deleted under it left there goes in the end.
StagingDrains == <>[](staging = {})

\* Every file of a batch ends with an answer, every accepted photo ends up
\* processed or deleted, and every deleted one leaves the bucket, in an event
\* that is neither deleted nor purged.
LibrarySettles ==
    <>[](\/ credit < MaxFaults
         \/ event # "live" \/ purged # "no"
         \/ \A u \in Uploads :
              /\ item[u] \in {"done", "duplicate", "error"}
              /\ asset[u] \in {"none", "processed", "gone"}
              /\ asset[u] = "gone" => \A k \in Kinds : <<u, k>> \notin objects)

\* Bucket, rows and quota agree: a photo that is shown has its objects, an object has
\* its row or a cleanup, and the quota is overrun by less than the uploads that
\* overlapped (upload.service.ts:57-96, media.service.ts:47-93, cleanup.service.ts:105).
LibraryInv == TypeOK /\ LiveHasObjects /\ ObjectsAccounted /\ OverrunBounded

\* Everything comes to rest: every file of a batch is answered, every photo processed
\* or gone with its objects, and the staging folder empty (uploads.svelte.ts:146,
\* file-upload.interceptor.ts:131).
ComesToRest == LibrarySettles /\ StagingDrains
=============================================================================
