--------------------------- MODULE ImportPipeline ---------------------------
(***************************************************************************)
(* Cloud import: services/import.service.ts over the import_job and        *)
(* import_item tables of repositories/import.repository.ts.                *)
(*                                                                         *)
(* ImportFolder lists the remote folder page by page, classifies every     *)
(* file against the items the event already has, and fans out one          *)
(* ImportFile job per pending item; ImportFile downloads, deduplicates on  *)
(* (event, checksum), stores and registers the asset.  All imports here    *)
(* are of one event and one folder; the unique key (event, provider,       *)
(* remote id) makes an item the same thing as its remote file.  Every      *)
(* await is a step boundary and no write is conditional on what was read.  *)
(***************************************************************************)
EXTENDS Integers, FiniteSets

CONSTANTS
    Imports,       \* import_job ids
    Files,         \* remote ids in the folder
    Contents,      \* what a file may hold; stands for its checksums as well
    Hashed,        \* the files for which the provider reports a checksum
    Workers,       \* Import-queue slots, QUEUE_CONCURRENCY
    Attempts,      \* QUEUE_RETRY attempts of the Import queue
    Faults,        \* the kinds of fault the environment may inject
    MaxFaults      \* bound: faults and cancels together

FaultKinds == {"rateLimit", "folder", "file", "folderCrash", "fileCrash",
               "change", "cancel"}

Null == "null"

ASSUME ImportAssumption ==
    /\ Hashed \subseteq Files
    /\ Attempts \in Nat \ {0} /\ MaxFaults \in Nat
    /\ Faults \subseteq FaultKinds
    /\ Null \notin Imports \cup Files \cup Contents

\* A folder holds finitely many files, and a checksum has finitely many bits.
ASSUME FiniteAssumption == IsFiniteSet(Files) /\ IsFiniteSet(Contents)

VARIABLES
    job,       \* import_job rows
    item,      \* import_item rows, by remote file
    lister,    \* per import: its ImportFolder job
    queue,     \* ImportFile jobs waiting, per item
    worker,    \* ImportFile jobs running
    cancel,    \* imports whose cancel request has read the job
    remote,    \* what each remote file holds now
    asset,     \* the event's assets: checksum -> storage key
    objects,   \* storage keys present in R2
    keys,      \* storage keys handed out so far (randomUUID)
    processed, \* checksums whose AssetProcess was queued
    credit     \* faults left, see MaxFaults

vars == <<job, item, lister, queue, worker, cancel, remote, asset, objects,
          keys, processed, credit>>
storage == <<asset, objects, keys, processed>>

JobStates == {"none", "listing", "importing", "done", "failed", "cancelled"}
ItemStates == {"none", "pending", "downloading", "done", "skipped_duplicate",
               "failed"}
Synced == {"done", "skipped_duplicate"}
Unsettled == {"pending", "downloading"}

Verdicts == {"insert", "skip", "fetch"}

\* Imports, items, assets and workers have their types, and no counter goes below
\* zero (import.repository.ts).
TypeOK ==
    /\ job \in [Imports -> [status : JobStates, total : Nat, done : Nat,
                            skipped : Nat, failed : Nat]]
    /\ item \in [Files -> [status : ItemStates, job : Imports \cup {Null},
                           checksum : Contents \cup {Null},
                           asset : Contents \cup {Null}]]
    /\ lister \in [Imports ->
         [pc : {"none", "queued", "list", "upsert", "settle", "fanout",
                "return"},
          todo : SUBSET Files, page : SUBSET Files,
          verdict : [Files -> Verdicts], checksum : [Files -> Contents \cup {Null}],
          listed : Nat, skipped : Nat, pending : SUBSET Files, left : 0..Attempts]]
    /\ queue \in [Files -> Nat]
    /\ worker \in [Workers ->
         [pc : {"idle", "job", "mark", "download", "dedupe", "put", "create",
                "process", "settle", "bump", "count", "read", "flip"},
          file : Files \cup {Null}, job : Imports \cup {Null},
          content : Contents \cup {Null}, key : Nat,
          outcome : {Null, "done", "skipped_duplicate", "failed"}]]
    /\ cancel \subseteq Imports
    /\ remote \in [Files -> Contents]
    /\ asset \in [Contents -> Nat]
    /\ objects \subseteq 1..keys
    /\ keys \in Nat
    /\ processed \subseteq Contents
    /\ credit \in 0..MaxFaults

Fault(kind) == kind \in Faults /\ credit > 0 /\ credit' = credit - 1
NoFault == credit' = credit

-----------------------------------------------------------------------------
(* Requests *)

createImport(j) ==
    /\ job[j].status = "none"
    /\ job' = [job EXCEPT ![j].status = "listing"]
    /\ lister' = [lister EXCEPT ![j].pc = "queued"]
    /\ NoFault
    /\ UNCHANGED <<item, queue, worker, cancel, remote, storage>>

Cancellable(j) == job[j].status \in {"listing", "importing"}

CancelRead(j) ==
    /\ Cancellable(j) /\ j \notin cancel
    /\ cancel' = cancel \cup {j}
    /\ Fault("cancel")
    /\ UNCHANGED <<job, item, lister, queue, worker, remote, storage>>

CancelWrite(j) ==
    /\ j \in cancel
    /\ cancel' = cancel \ {j}
    /\ job' = [job EXCEPT ![j].status = "cancelled"]
    /\ NoFault
    /\ UNCHANGED <<item, lister, queue, worker, remote, storage>>

-----------------------------------------------------------------------------
(* handleImportFolder *)

\* An ImportFolder job that is not running keeps none of its locals.
Lister(pc, left) ==
    [pc |-> pc, todo |-> {}, page |-> {}, verdict |-> [f \in Files |-> "insert"],
     checksum |-> [f \in Files |-> Null], listed |-> 0, skipped |-> 0,
     pending |-> {}, left |-> left]

\* Mutant: the listing is taken up again whatever the import's status.
StartsAnyway(j) ==
    /\ lister[j].pc = "queued"
    /\ lister' = [lister EXCEPT ![j] = [Lister("list", @.left) EXCEPT !.todo = Files]]
    /\ NoFault
    /\ UNCHANGED <<job, item, queue, worker, cancel, remote, storage>>

FolderStart(j) ==
    /\ lister[j].pc = "queued"
    /\ lister' = [lister EXCEPT
         ![j] = IF job[j].status = "cancelled"
                THEN Lister("none", @.left)
                ELSE [Lister("list", @.left) EXCEPT !.todo = Files]]
    /\ NoFault
    /\ UNCHANGED <<job, item, queue, worker, cancel, remote, storage>>

\* upsertListingPage's classification of a file against the item it read.
Reported(f) == IF f \in Hashed THEN remote[f] ELSE Null

TrustsStatus(f) ==
    IF item[f].status = "none" THEN "insert"
    ELSE IF item[f].status # "pending" THEN "skip" ELSE "fetch"
Classify(f) ==
    IF item[f].status = "none" THEN "insert"
    ELSE IF /\ item[f].status \in Synced
            /\ Reported(f) # Null /\ item[f].checksum = Reported(f)
         THEN "skip"
         ELSE "fetch"

\* One page is listed, and the items it names are read.
ListPage(j) ==
    /\ lister[j].pc = "list"
    /\ \E P \in (SUBSET lister[j].todo) \ {{}} :
         lister' = [lister EXCEPT
           ![j].pc = "upsert", ![j].todo = @ \ P, ![j].page = P,
           ![j].listed = @ + Cardinality(P),
           ![j].verdict = [f \in Files |-> IF f \in P THEN Classify(f) ELSE "insert"],
           ![j].checksum = [f \in Files |-> IF f \in P THEN Reported(f) ELSE Null]]
    /\ NoFault
    /\ UNCHANGED <<job, item, queue, worker, cancel, remote, storage>>

\* Known files are re-pointed at this import, one await each.
repointItem(j) ==
    /\ lister[j].pc = "upsert"
    /\ \E f \in lister[j].page :
         LET skip == lister[j].verdict[f] = "skip"
         IN /\ lister[j].verdict[f] # "insert"
            /\ item' = [item EXCEPT
                 ![f] = IF skip
                        THEN [@ EXCEPT !.job = j, !.status = "skipped_duplicate"]
                        ELSE [@ EXCEPT !.job = j, !.status = "pending",
                                       !.checksum = lister[j].checksum[f]]]
            /\ lister' = [lister EXCEPT
                 ![j].page = @ \ {f}, ![j].skipped = IF skip THEN @ + 1 ELSE @]
    /\ NoFault
    /\ UNCHANGED <<job, queue, worker, cancel, remote, storage>>

FolderFailed(j) ==
    /\ job' = [job EXCEPT ![j].status = "failed"]
    /\ lister' = [lister EXCEPT
         ![j] = IF @.left > 1 THEN Lister("queued", @.left - 1)
                ELSE Lister("none", 0)]

\* The new ones are inserted together; the unique key refuses them all when
\* another import has inserted one of them meanwhile.
insertItems(j) ==
    /\ lister[j].pc = "upsert"
    /\ \A f \in lister[j].page : lister[j].verdict[f] = "insert"
    /\ IF \E f \in lister[j].page : item[f].status # "none"
       THEN FolderFailed(j) /\ UNCHANGED item
       ELSE /\ item' = [f \in Files |->
                 IF f \in lister[j].page
                 THEN [status |-> "pending", job |-> j,
                       checksum |-> lister[j].checksum[f], asset |-> Null]
                 ELSE item[f]]
            /\ lister' = [lister EXCEPT ![j].page = {}, ![j].pc = "list"]
            /\ UNCHANGED job
    /\ NoFault
    /\ UNCHANGED <<queue, worker, cancel, remote, storage>>

pendingItemIds(j) ==
    /\ lister[j].pc = "list" /\ lister[j].todo = {}
    /\ lister' = [lister EXCEPT
         ![j].pc = "settle",
         ![j].pending = {f \in Files : item[f].job = j /\ item[f].status = "pending"}]
    /\ NoFault
    /\ UNCHANGED <<job, item, queue, worker, cancel, remote, storage>>

\* The unconditional update that ends the listing.
SettleListing(j) ==
    LET some == lister[j].pending # {}
    IN /\ lister[j].pc = "settle"
       /\ job' = [job EXCEPT
            ![j] = [@ EXCEPT !.status = IF some THEN "importing" ELSE "done",
                             !.total = lister[j].listed,
                             !.skipped = lister[j].skipped]]
       /\ lister' = [lister EXCEPT ![j] = IF some THEN [@ EXCEPT !.pc = "fanout"]
                                           ELSE Lister("return", @.left)]
       /\ NoFault
       /\ UNCHANGED <<item, queue, worker, cancel, remote, storage>>

FanOut(j) ==
    /\ lister[j].pc = "fanout"
    /\ queue' = [f \in Files |-> IF f \in lister[j].pending THEN queue[f] + 1
                                 ELSE queue[f]]
    /\ lister' = [lister EXCEPT ![j] = Lister("return", @.left)]
    /\ NoFault
    /\ UNCHANGED <<job, item, worker, cancel, remote, storage>>

\* BullMQ completes the job once the handler has returned.
FolderReturn(j) ==
    /\ lister[j].pc = "return"
    /\ lister' = [lister EXCEPT ![j] = Lister("none", @.left)]
    /\ NoFault
    /\ UNCHANGED <<job, item, queue, worker, cancel, remote, storage>>

\* A provider's rate limit returns the job to the queue without using up an
\* attempt, and so does the stalled check after a crash.
FolderInterrupted(j) ==
    /\ \/ lister[j].pc = "list" /\ Fault("rateLimit")
       \/ lister[j].pc \notin {"none", "queued"} /\ Fault("folderCrash")
    /\ lister' = [lister EXCEPT ![j] = Lister("queued", @.left)]
    /\ UNCHANGED <<job, item, queue, worker, cancel, remote, storage>>

\* Any other error fails the import and uses up an attempt.
FolderError(j) ==
    /\ lister[j].pc \notin {"none", "queued", "return"} /\ Fault("folder")
    /\ FolderFailed(j)
    /\ UNCHANGED <<item, queue, worker, cancel, remote, storage>>

-----------------------------------------------------------------------------
(* handleImportFile *)

Goto(w, where) == worker' = [worker EXCEPT ![w].pc = where]
NoWorker == [pc |-> "idle", file |-> Null, job |-> Null, content |-> Null,
             key |-> 0, outcome |-> Null]

\* The item is read: no longer pending is skipped.
TakeItem(w) ==
    /\ worker[w].pc = "idle"
    /\ \E f \in Files :
         /\ queue[f] > 0
         /\ queue' = [queue EXCEPT ![f] = @ - 1]
         /\ worker' = IF item[f].status = "pending"
                      THEN [worker EXCEPT ![w].pc = "job", ![w].file = f,
                                          ![w].job = item[f].job]
                      ELSE worker
    /\ NoFault
    /\ UNCHANGED <<job, item, lister, cancel, remote, storage>>

\* The job is read: a cancelled one is skipped.
ReadJob(w) ==
    /\ worker[w].pc = "job"
    /\ worker' = IF job[worker[w].job].status = "cancelled"
                 THEN [worker EXCEPT ![w] = NoWorker]
                 ELSE [worker EXCEPT ![w].pc = "mark"]
    /\ NoFault
    /\ UNCHANGED <<job, item, lister, queue, cancel, remote, storage>>

MarkDownloading(w) ==
    /\ worker[w].pc = "mark"
    /\ item' = [item EXCEPT ![worker[w].file].status = "downloading"]
    /\ Goto(w, "download")
    /\ NoFault
    /\ UNCHANGED <<job, lister, queue, cancel, remote, storage>>

Download(w) ==
    /\ worker[w].pc = "download"
    /\ worker' = [worker EXCEPT ![w].content = remote[worker[w].file],
                                ![w].pc = "dedupe"]
    /\ NoFault
    /\ UNCHANGED <<job, item, lister, queue, cancel, remote, storage>>

Settles(w, outcome) ==
    worker' = [worker EXCEPT ![w].pc = "settle", ![w].outcome = outcome]

findByChecksum(w) ==
    /\ worker[w].pc = "dedupe"
    /\ IF asset[worker[w].content] # 0
       THEN Settles(w, "skipped_duplicate")
       ELSE Goto(w, "put")
    /\ NoFault
    /\ UNCHANGED <<job, item, lister, queue, cancel, remote, storage>>

putFile(w) ==
    /\ worker[w].pc = "put"
    /\ keys' = keys + 1
    /\ objects' = objects \cup {keys + 1}
    /\ worker' = [worker EXCEPT ![w].key = keys + 1, ![w].pc = "create"]
    /\ NoFault
    /\ UNCHANGED <<job, item, lister, queue, cancel, remote, asset, processed>>

\* The unique constraint decides a race; the loser removes its own object.
DeletesWinner(w) ==
    /\ worker[w].pc = "create"
    /\ LET c == worker[w].content
       IN IF asset[c] # 0
          THEN /\ objects' = objects \ {asset[c]}
               /\ Settles(w, "skipped_duplicate")
               /\ UNCHANGED asset
          ELSE /\ asset' = [asset EXCEPT ![c] = worker[w].key]
               /\ Goto(w, "process")
               /\ UNCHANGED objects
    /\ NoFault
    /\ UNCHANGED <<job, item, lister, queue, cancel, remote, keys, processed>>

createAsset(w) ==
    /\ worker[w].pc = "create"
    /\ LET c == worker[w].content
       IN IF asset[c] # 0
          THEN /\ objects' = objects \ {worker[w].key}
               /\ Settles(w, "skipped_duplicate")
               /\ UNCHANGED asset
          ELSE /\ asset' = [asset EXCEPT ![c] = worker[w].key]
               /\ Goto(w, "process")
               /\ UNCHANGED objects
    /\ NoFault
    /\ UNCHANGED <<job, item, lister, queue, cancel, remote, keys, processed>>

QueueAssetProcess(w) ==
    /\ worker[w].pc = "process"
    /\ processed' = processed \cup {worker[w].content}
    /\ Settles(w, "done")
    /\ NoFault
    /\ UNCHANGED <<job, item, lister, queue, cancel, remote, asset, objects, keys>>

markItem(w) ==
    /\ worker[w].pc = "settle"
    /\ item' = [item EXCEPT
         ![worker[w].file].status = worker[w].outcome,
         ![worker[w].file].asset = IF worker[w].outcome = "failed" THEN @
                                   ELSE worker[w].content]
    /\ Goto(w, "bump")
    /\ NoFault
    /\ UNCHANGED <<job, lister, queue, cancel, remote, storage>>

\* finishItem: bump the counter, count what remains, and flip the job.
bumpCounter(w) ==
    LET j == worker[w].job
    IN /\ worker[w].pc = "bump"
       /\ job' = CASE worker[w].outcome = "done" -> [job EXCEPT ![j].done = @ + 1]
                   [] worker[w].outcome = "failed" -> [job EXCEPT ![j].failed = @ + 1]
                   [] worker[w].outcome = "skipped_duplicate" ->
                        [job EXCEPT ![j].skipped = @ + 1]
       /\ Goto(w, "count")
       /\ NoFault
       /\ UNCHANGED <<item, lister, queue, cancel, remote, storage>>

Remaining(j) == {f \in Files : item[f].job = j /\ item[f].status \in Unsettled}

Retire(w) == worker' = [worker EXCEPT ![w] = NoWorker]

CountsPendingOnly(w) ==
    /\ worker[w].pc = "count"
    /\ IF \A f \in Files : item[f].job = worker[w].job => item[f].status # "pending"
       THEN Goto(w, "read") ELSE Retire(w)
    /\ NoFault
    /\ UNCHANGED <<job, item, lister, queue, cancel, remote, storage>>
CountRemaining(w) ==
    /\ worker[w].pc = "count"
    /\ IF Remaining(worker[w].job) = {} THEN Goto(w, "read") ELSE Retire(w)
    /\ NoFault
    /\ UNCHANGED <<job, item, lister, queue, cancel, remote, storage>>

FinishRead(w) ==
    /\ worker[w].pc = "read"
    /\ IF job[worker[w].job].status = "importing" THEN Goto(w, "flip") ELSE Retire(w)
    /\ NoFault
    /\ UNCHANGED <<job, item, lister, queue, cancel, remote, storage>>

FinishWrite(w) ==
    /\ worker[w].pc = "flip"
    /\ job' = [job EXCEPT ![worker[w].job].status = "done"]
    /\ Retire(w)
    /\ NoFault
    /\ UNCHANGED <<item, lister, queue, cancel, remote, storage>>

\* A rate limit puts the item back to pending and the job back in the queue.
KeepsDownloading(w) ==
    /\ worker[w].pc = "download" /\ Fault("rateLimit")
    /\ queue' = [queue EXCEPT ![worker[w].file] = @ + 1]
    /\ Retire(w)
    /\ UNCHANGED <<job, item, lister, cancel, remote, storage>>
FileRateLimited(w) ==
    /\ worker[w].pc = "download" /\ Fault("rateLimit")
    /\ item' = [item EXCEPT ![worker[w].file].status = "pending"]
    /\ queue' = [queue EXCEPT ![worker[w].file] = @ + 1]
    /\ Retire(w)
    /\ UNCHANGED <<job, lister, cancel, remote, storage>>

\* Any other error is the item's own: recorded, counted, never retried.
FileError(w) ==
    /\ worker[w].pc \in {"mark", "download", "dedupe", "put", "create", "process"}
    /\ Fault("file")
    /\ Settles(w, "failed")
    /\ UNCHANGED <<job, item, lister, queue, cancel, remote, storage>>

\* The process dies; the stalled check hands the job to another slot.
FileCrash(w) ==
    /\ worker[w].pc # "idle" /\ Fault("fileCrash")
    /\ queue' = [queue EXCEPT ![worker[w].file] = @ + 1]
    /\ Retire(w)
    /\ UNCHANGED <<job, item, lister, cancel, remote, storage>>

\* Somebody replaces a remote file.
RemoteChange(f) ==
    /\ Fault("change")
    /\ \E c \in Contents \ {remote[f]} : remote' = [remote EXCEPT ![f] = c]
    /\ UNCHANGED <<job, item, lister, queue, worker, cancel, storage>>

-----------------------------------------------------------------------------

Init ==
    /\ job = [j \in Imports |-> [status |-> "none", total |-> 0, done |-> 0,
                                 skipped |-> 0, failed |-> 0]]
    /\ item = [f \in Files |-> [status |-> "none", job |-> Null,
                                checksum |-> Null, asset |-> Null]]
    /\ lister = [j \in Imports |-> Lister("none", Attempts)]
    /\ queue = [f \in Files |-> 0]
    /\ worker = [w \in Workers |-> NoWorker]
    /\ cancel = {}
    /\ remote \in [Files -> Contents]
    /\ asset = [c \in Contents |-> 0]
    /\ objects = {}
    /\ keys = 0
    /\ processed = {}
    /\ credit = MaxFaults

Folder(j) ==
    \/ FolderStart(j) \/ ListPage(j) \/ repointItem(j) \/ insertItems(j)
    \/ pendingItemIds(j) \/ SettleListing(j) \/ FanOut(j) \/ FolderReturn(j)

File(w) ==
    \/ TakeItem(w) \/ ReadJob(w) \/ MarkDownloading(w) \/ Download(w)
    \/ findByChecksum(w) \/ putFile(w) \/ createAsset(w) \/ QueueAssetProcess(w)
    \/ markItem(w) \/ bumpCounter(w) \/ CountRemaining(w)
    \/ FinishRead(w) \/ FinishWrite(w)

FileInterrupted(w) ==
    /\ worker[w].pc # "idle"
    /\ FileRateLimited(w) \/ FileError(w) \/ FileCrash(w)

Next ==
    \/ \E j \in Imports :
         \/ createImport(j) \/ CancelRead(j) \/ CancelWrite(j)
         \/ Folder(j) \/ FolderInterrupted(j) \/ FolderError(j)
    \/ \E w \in Workers : File(w) \/ FileInterrupted(w)
    \/ \E f \in Files : RemoteChange(f)

Spec == Init /\ [][Next]_vars

\* The Import queue is served: what is queued is taken, and a running handler
\* makes its next step.  Nothing is assumed of requests and faults.
Fairness ==
    /\ \A j \in Imports : WF_vars(Folder(j)) /\ WF_vars(CancelWrite(j))
    /\ \A w \in Workers : WF_vars(File(w))

FairSpec == Spec /\ Fairness

-----------------------------------------------------------------------------
(* Properties *)

\* The last finished item ends its import: whatever fails, is rate limited or
\* cancelled on the way, an import does not stay listing or importing.
ImportEnds ==
    \A j \in Imports :
        job[j].status \in {"listing", "importing"} ~>
            job[j].status \in {"done", "failed", "cancelled"}

\* An import shown as done has no file pending or downloading.
DoneMeansSettled ==
    \A j \in Imports : job[j].status = "done" => Remaining(j) = {}

\* When an import is done its counters account for every file it listed, once,
\* but for the increments of workers that have settled an item and not yet
\* counted it: the flip to done may overtake those.
Uncounted(j) == {w \in Workers : worker[w].pc = "bump" /\ worker[w].job = j}
CountsAddUp ==
    \A j \in Imports : job[j].status = "done" =>
        job[j].total = job[j].done + job[j].skipped + job[j].failed
                       + Cardinality(Uncounted(j))

\* "Already synced" means that the content recorded for the item is present in
\* the event, so that skipping the file at the next import loses nothing.
SyncedMeansPresent ==
    \A f \in Files :
        item[f].status \in Synced /\ item[f].checksum # Null =>
            asset[item[f].checksum] # 0

\* Every asset has its object in storage, whichever of two concurrent imports
\* of the same content won the race on the unique checksum.
AssetHasObject ==
    \A c \in Contents : asset[c] # 0 => asset[c] \in objects

\* ... and nothing is left behind but by errors and crashes, one thing by each:
\* an object that is neither an asset's nor in the hands of a worker about to
\* register it (the loser of the race takes its own object away), or an asset
\* whose AssetProcess is neither queued nor about to be.
Orphans ==
    {k \in objects :
        /\ \A c \in Contents : asset[c] # k
        /\ \A w \in Workers : worker[w].pc = "create" => worker[w].key # k}
Unprocessed ==
    {c \in Contents :
        /\ asset[c] # 0 /\ c \notin processed
        /\ \A w \in Workers : worker[w].pc = "process" => worker[w].content # c}
LeftoversCostFaults ==
    Cardinality(Orphans) + Cardinality(Unprocessed) <= MaxFaults - credit

\* A cancel is final once nothing of the import is under way: whatever is queued
\* or retried later, no listing begins again and no status is written
\* (import.service.ts:140, 274 and 363).  A listing or a flip under way when the
\* cancel lands does overwrite it (import.service.ts:173, 365).
CancelledAtRest(j) ==
    /\ job[j].status = "cancelled" /\ lister[j].pc \in {"none", "queued"}
    /\ \A w \in Workers : worker[w].pc = "flip" => worker[w].job # j
CancelIsFinal == [][\A j \in Imports : CancelledAtRest(j) => CancelledAtRest(j)']_vars

\* What an import shows when it is done is true: nothing is unsettled, and its four
\* counters account for each file once (import.service.ts:359-368).
DoneIsTrue == TypeOK /\ DoneMeansSettled /\ CountsAddUp

\* Bucket and rows agree through checksum races: an asset has its object, and objects
\* or photos nobody works on any more each cost a fault (import.service.ts:303-340).
StorageAccounted == AssetHasObject /\ LeftoversCostFaults

\* A second import of a folder loses nothing: what it skips is there, and no retry of
\* a died worker leaves more behind than the fault cost (import.service.ts:240-260).
ResyncLosesNothing == SyncedMeansPresent /\ LeftoversCostFaults
=============================================================================
