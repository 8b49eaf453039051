----------------------- MODULE ImportPipeline_proofs ------------------------
(***************************************************************************)
(* The import pipeline for any number of imports, files, contents and      *)
(* workers, with every fault: what is in the bucket is accounted for, a    *)
(* second import of a folder loses nothing, a cancel is final, and an      *)
(* import shown as done is.                                                *)
(***************************************************************************)
EXTENDS ImportPipeline, FiniteSetTheorems, TLAPS

JobRow == [status : JobStates, total : Nat, done : Nat, skipped : Nat, failed : Nat]
ItemRow == [status : ItemStates, job : Imports \cup {Null},
            checksum : Contents \cup {Null}, asset : Contents \cup {Null}]
ListerRow == [pc : {"none", "queued", "list", "upsert", "settle", "fanout", "return"},
              todo : SUBSET Files, page : SUBSET Files,
              verdict : [Files -> Verdicts], checksum : [Files -> Contents \cup {Null}],
              listed : Nat, skipped : Nat, pending : SUBSET Files, left : 0..Attempts]
WorkerRow == [pc : {"idle", "job", "mark", "download", "dedupe", "put", "create",
                    "process", "settle", "bump", "count", "read", "flip"},
              file : Files \cup {Null}, job : Imports \cup {Null},
              content : Contents \cup {Null}, key : Nat,
              outcome : {Null, "done", "skipped_duplicate", "failed"}]

-----------------------------------------------------------------------------
(* The inductive invariant, in parts *)

RowsInv ==
    /\ job \in [Imports -> JobRow] /\ item \in [Files -> ItemRow]
    /\ queue \in [Files -> Nat] /\ cancel \subseteq Imports
    /\ remote \in [Files -> Contents] /\ credit \in 0..MaxFaults
    /\ \A f \in Files : item[f].status # "none" => item[f].job \in Imports

ListersInv == lister \in [Imports -> ListerRow]

\* What a running job holds in its hands is there.
Handy(h) ==
    /\ h.pc # "idle" => /\ h.file \in Files /\ h.job \in Imports
                        /\ item[h.file].status # "none"
    /\ h.pc \in {"dedupe", "put", "create", "process"} => h.content \in Contents
    /\ h.pc \in {"settle", "bump"} => h.outcome # Null

WorkersInv ==
    /\ worker \in [Workers -> WorkerRow]
    /\ \A w \in Workers : Handy(worker[w])

\* Keys are handed out once: an object is an asset's, or one worker's that is about
\* to register it, or nobody's.
KeysInv ==
    /\ asset \in [Contents -> Nat] /\ keys \in Nat
    /\ objects \subseteq 1..keys /\ processed \subseteq Contents
    /\ AssetHasObject
    /\ \A w \in Workers : worker[w].pc = "create" =>
         worker[w].key \in objects /\ \A c \in Contents : asset[c] # worker[w].key
    /\ \A v, w \in Workers : v # w /\ worker[v].pc = "create" /\ worker[w].pc = "create" =>
         worker[v].key # worker[w].key

Inv == RowsInv /\ ListersInv /\ WorkersInv /\ KeysInv

\* The invariant has the types the runs check.
LEMMA InvTypes == Inv => TypeOK
BY DEF Inv, RowsInv, ListersInv, WorkersInv, KeysInv, TypeOK, JobRow, ItemRow, ListerRow, WorkerRow

-----------------------------------------------------------------------------
(* The rows *)

\* A column of a row is replaced by a value of its type.
LEMMA JobRows ==
    ASSUME NEW r \in JobRow
    PROVE  /\ \A s \in JobStates : [r EXCEPT !.status = s] \in JobRow
           /\ \A s \in JobStates, t, k \in Nat :
                [r EXCEPT !.status = s, !.total = t, !.skipped = k] \in JobRow
           /\ [r EXCEPT !.done = @ + 1] \in JobRow
           /\ [r EXCEPT !.failed = @ + 1] \in JobRow
           /\ [r EXCEPT !.skipped = @ + 1] \in JobRow
<1>1. \A s \in JobStates : [r EXCEPT !.status = s] \in JobRow
  BY DEF JobRow
<1>2. ASSUME NEW s \in JobStates, NEW t \in Nat, NEW k \in Nat
      PROVE  [r EXCEPT !.status = s, !.total = t, !.skipped = k] \in JobRow
  BY DEF JobRow
<1>3. [r EXCEPT !.done = @ + 1] \in JobRow
  BY DEF JobRow
<1>4. [r EXCEPT !.failed = @ + 1] \in JobRow
  BY DEF JobRow
<1>5. [r EXCEPT !.skipped = @ + 1] \in JobRow
  BY DEF JobRow
<1> QED BY <1>1, <1>2, <1>3, <1>4, <1>5

\* The writes of an import_item row keep its type.
LEMMA ItemRows ==
    ASSUME NEW r \in ItemRow
    PROVE  /\ \A s \in ItemStates : [r EXCEPT !.status = s] \in ItemRow
           /\ \A j \in Imports : [r EXCEPT !.job = j, !.status = "skipped_duplicate"] \in ItemRow
           /\ \A j \in Imports, c \in Contents \cup {Null} :
                [r EXCEPT !.job = j, !.status = "pending", !.checksum = c] \in ItemRow
           /\ \A s \in ItemStates, a \in Contents \cup {Null} :
                [r EXCEPT !.status = s, !.asset = a] \in ItemRow
BY DEF ItemRow, ItemStates

\* Every step spends one fault or none.
Spends == credit > 0 /\ credit' = credit - 1

\* A folder job has at most one fault at a time.
LEMMA FolderSpends ==
    ASSUME NEW j \in Imports,
           createImport(j) \/ CancelRead(j) \/ CancelWrite(j) \/ Folder(j)
             \/ FolderInterrupted(j) \/ FolderError(j)
    PROVE  Spends \/ NoFault
BY Zenon DEF createImport, CancelRead, CancelWrite, Folder, FolderStart, ListPage,
     repointItem, insertItems, pendingItemIds, SettleListing, FanOut, FolderReturn,
     FolderInterrupted, FolderError, Fault, Spends

\* So has a file job.
LEMMA FileSpends ==
    ASSUME NEW w \in Workers, File(w) \/ FileInterrupted(w)
    PROVE  Spends \/ NoFault
BY Zenon DEF File, FileInterrupted, TakeItem, ReadJob, MarkDownloading, Download,
     findByChecksum, putFile, createAsset, QueueAssetProcess, markItem, bumpCounter,
     CountRemaining, FinishRead, FinishWrite, FileRateLimited, FileError, FileCrash, Fault, Spends

\* Faults are spent one by one.
LEMMA CreditStays ==
    ASSUME credit \in 0..MaxFaults, Spends \/ NoFault
    PROVE  credit' \in 0..MaxFaults
BY ImportAssumption DEF Spends, NoFault

\* A folder job changes rows of known imports only, and every item has its import.
LEMMA RowsFolder ==
    ASSUME Inv, NEW j \in Imports,
           createImport(j) \/ CancelRead(j) \/ CancelWrite(j) \/ Folder(j)
             \/ FolderInterrupted(j) \/ FolderError(j)
    PROVE  RowsInv'
<1> USE DEF RowsInv, ListersInv
<1>0. credit' \in 0..MaxFaults
  BY FolderSpends, CreditStays DEF Inv
<1>a. RowsInv /\ lister[j] \in ListerRow /\ job[j] \in JobRow /\ \A f \in Files : item[f] \in ItemRow
  BY DEF Inv
<1>1. CASE createImport(j)
  BY <1>0, <1>a, <1>1, JobRows DEF createImport, JobStates
<1>2. CASE CancelRead(j)
  BY <1>0, <1>a, <1>2 DEF CancelRead
<1>3. CASE CancelWrite(j)
  BY <1>0, <1>a, <1>3, JobRows DEF CancelWrite, JobStates
<1>4. CASE FolderStart(j) \/ ListPage(j) \/ pendingItemIds(j) \/ FolderReturn(j) \/ FolderInterrupted(j)
  BY <1>0, <1>a, <1>4 DEF FolderStart, ListPage, pendingItemIds, FolderReturn, FolderInterrupted
<1>5. CASE repointItem(j)
  <2>1. PICK f \in lister[j].page :
          item' = [item EXCEPT
                 ![f] = IF lister[j].verdict[f] = "skip"
                        THEN [@ EXCEPT !.job = j, !.status = "skipped_duplicate"]
                        ELSE [@ EXCEPT !.job = j, !.status = "pending",
                                       !.checksum = lister[j].checksum[f]]]
    BY <1>5, Zenon DEF repointItem
  <2>2. f \in Files /\ lister[j].checksum[f] \in Contents \cup {Null}
    BY <1>a DEF ListerRow
  <2>3. item[f] \in ItemRow
    BY <1>a, <2>2
  <2>4. PICK r \in ItemRow : r.job = j /\ item' = [item EXCEPT ![f] = r]
    <3>1. CASE lister[j].verdict[f] = "skip"
      <4> DEFINE r == [item[f] EXCEPT !.job = j, !.status = "skipped_duplicate"]
      <4>1. r \in ItemRow
        BY <2>2, <2>3, ItemRows
      <4>2. r.job = j
        BY <2>3 DEF ItemRow
      <4> QED BY <2>1, <3>1, <4>1, <4>2
    <3>2. CASE lister[j].verdict[f] # "skip"
      <4> DEFINE r == [item[f] EXCEPT !.job = j, !.status = "pending",
                                      !.checksum = lister[j].checksum[f]]
      <4>1. r \in ItemRow
        BY <2>2, <2>3, ItemRows
      <4>2. r.job = j
        BY <2>3 DEF ItemRow
      <4> QED BY <2>1, <3>2, <4>1, <4>2
    <3> QED BY <3>1, <3>2
  <2>5. UNCHANGED <<job, queue, cancel, remote>>
    BY <1>5 DEF repointItem
  <2> QED BY <1>0, <1>a, <2>2, <2>4, <2>5
<1>6. CASE insertItems(j)
  <2>1. CASE FolderFailed(j) /\ UNCHANGED item
    BY <1>0, <1>a, <1>6, <2>1, JobRows DEF insertItems, FolderFailed, JobStates
  <2>2. CASE /\ item' = [f \in Files |->
                   IF f \in lister[j].page
                   THEN [status |-> "pending", job |-> j,
                         checksum |-> lister[j].checksum[f], asset |-> Null]
                   ELSE item[f]]
             /\ UNCHANGED job
    <3>1. \A f \in Files : lister[j].checksum[f] \in Contents \cup {Null}
      BY <1>a DEF ListerRow
    <3>2. \A f \in Files : [status |-> "pending", job |-> j,
                            checksum |-> lister[j].checksum[f], asset |-> Null] \in ItemRow
      BY <3>1 DEF ItemRow, ItemStates
    <3>3. item' \in [Files -> ItemRow]
      BY <1>a, <2>2, <3>2
    <3>4. \A f \in Files : item'[f].job = j \/ item'[f] = item[f]
      BY <2>2
    <3> QED BY <1>0, <1>a, <1>6, <2>2, <3>3, <3>4 DEF insertItems
  <2> QED BY <1>6, <2>1, <2>2, Zenon DEF insertItems
<1>7. CASE SettleListing(j)
  <2>1. PICK s \in {"importing", "done"} : job' = [job EXCEPT
          ![j] = [@ EXCEPT !.status = s, !.total = lister[j].listed, !.skipped = lister[j].skipped]]
    BY <1>7 DEF SettleListing
  <2>2. lister[j].listed \in Nat /\ lister[j].skipped \in Nat
    BY <1>a DEF ListerRow
  <2>3. [job[j] EXCEPT !.status = s, !.total = lister[j].listed,
                       !.skipped = lister[j].skipped] \in JobRow
    BY <1>a, <2>2, JobRows DEF JobStates
  <2>4. UNCHANGED <<item, queue, cancel, remote>>
    BY <1>7 DEF SettleListing
  <2> QED BY <1>0, <1>a, <2>1, <2>3, <2>4
<1>8. CASE FanOut(j)
  BY <1>0, <1>a, <1>8 DEF FanOut
<1>9. CASE FolderError(j)
  BY <1>0, <1>a, <1>9, JobRows DEF FolderError, FolderFailed, JobStates
<1> QED BY <1>1, <1>2, <1>3, <1>4, <1>5, <1>6, <1>7, <1>8, <1>9 DEF Folder

\* The file an item stands for has a row when a worker writes it.
LEMMA RowsFile ==
    ASSUME Inv, NEW w \in Workers, File(w) \/ FileInterrupted(w)
    PROVE  RowsInv'
<1> USE DEF RowsInv
<1>0. credit' \in 0..MaxFaults
  BY FileSpends, CreditStays DEF Inv
<1> DEFINE h == worker[w]
<1>a. /\ RowsInv /\ h \in WorkerRow /\ Handy(h)
      /\ \A j \in Imports : job[j] \in JobRow
      /\ \A f \in Files : item[f] \in ItemRow
  BY DEF Inv, WorkersInv
<1>b. h.pc # "idle" => h.file \in Files /\ h.job \in Imports /\ item[h.file].status # "none"
  BY <1>a DEF Handy
<1>1. CASE TakeItem(w)
  BY <1>0, <1>a, <1>1 DEF TakeItem
<1>2. CASE ReadJob(w) \/ Download(w) \/ findByChecksum(w) \/ putFile(w) \/ createAsset(w)
           \/ QueueAssetProcess(w) \/ CountRemaining(w) \/ FinishRead(w) \/ FileError(w)
  BY <1>0, <1>a, <1>2 DEF ReadJob, Download, findByChecksum, putFile, createAsset, QueueAssetProcess,
                    CountRemaining, FinishRead, FileError
<1>3. ASSUME NEW s \in ItemStates, h.pc # "idle",
             item' = [item EXCEPT ![h.file].status = s]
      PROVE  /\ item' \in [Files -> ItemRow]
             /\ \A f \in Files : item'[f].status # "none" => item'[f].job \in Imports
  <2>1. item'[h.file] = [item[h.file] EXCEPT !.status = s]
    BY <1>a, <1>b, <1>3
  <2>2. item'[h.file] \in ItemRow /\ item'[h.file].job = item[h.file].job
    BY <1>a, <1>b, <1>3, <2>1, ItemRows DEF ItemRow
  <2>3. item' = [item EXCEPT ![h.file] = item'[h.file]]
    BY <1>a, <1>b, <1>3
  <2> QED BY <1>a, <1>b, <1>3, <2>2, <2>3
<1>4. CASE MarkDownloading(w)
  BY <1>0, <1>a, <1>3, <1>4 DEF MarkDownloading, ItemStates
<1>5. CASE markItem(w)
  <2>1. h.outcome \in ItemStates /\ h.content \in Contents \cup {Null} /\ h.pc # "idle"
    BY <1>a, <1>5 DEF markItem, WorkerRow, Handy, ItemStates
  <2>2. PICK a \in Contents \cup {Null} :
          item' = [item EXCEPT ![h.file].status = h.outcome, ![h.file].asset = a]
    <3>1. item[h.file].asset \in Contents \cup {Null}
      BY <1>a, <1>b, <2>1 DEF ItemRow
    <3> QED BY <1>a, <1>b, <1>5, <2>1, <3>1 DEF markItem
  <2> DEFINE r == [item[h.file] EXCEPT !.status = h.outcome, !.asset = a]
  <2>3. item' = [item EXCEPT ![h.file] = r]
    BY <1>a, <1>b, <2>1, <2>2
  <2>4. r \in ItemRow
    BY <1>a, <1>b, <2>1, ItemRows
  <2>5. r.job = item[h.file].job
    BY <1>a, <1>b, <2>1 DEF ItemRow
  <2>6. UNCHANGED <<job, queue, cancel, remote>>
    BY <1>5 DEF markItem
  <2> HIDE DEF r
  <2> QED BY <1>0, <1>a, <1>b, <2>1, <2>3, <2>4, <2>5, <2>6
<1>6. CASE bumpCounter(w)
  <2>1. h.outcome \in {"done", "skipped_duplicate", "failed"} /\ h.pc # "idle"
    BY <1>a, <1>6 DEF bumpCounter, WorkerRow, Handy
  <2>2. \E r \in JobRow : job' = [job EXCEPT ![h.job] = r]
    <3>1. CASE h.outcome = "done"
      BY <1>a, <1>b, <1>6, <2>1, <3>1, JobRows DEF bumpCounter
    <3>2. CASE h.outcome = "failed"
      BY <1>a, <1>b, <1>6, <2>1, <3>2, JobRows DEF bumpCounter
    <3>3. CASE h.outcome = "skipped_duplicate"
      BY <1>a, <1>b, <1>6, <2>1, <3>3, JobRows DEF bumpCounter
    <3> QED BY <2>1, <3>1, <3>2, <3>3
  <2> QED BY <1>0, <1>a, <1>6, <2>2 DEF bumpCounter
<1>7. CASE FinishWrite(w)
  BY <1>0, <1>a, <1>b, <1>7, JobRows DEF FinishWrite, JobStates
<1>8. CASE FileRateLimited(w)
  BY <1>0, <1>a, <1>3, <1>8 DEF FileRateLimited, ItemStates
<1>9. CASE FileCrash(w)
  BY <1>0, <1>a, <1>b, <1>9 DEF FileCrash
<1> QED BY <1>1, <1>2, <1>4, <1>5, <1>6, <1>7, <1>8, <1>9 DEF File, FileInterrupted

-----------------------------------------------------------------------------
(* The folder jobs *)

\* A listing starts, and starts over, with a well-typed record.
LEMMA ListerRows ==
    ASSUME NEW left \in 0..Attempts,
           NEW where \in {"none", "queued", "list", "upsert", "settle", "fanout", "return"}
    PROVE  /\ Lister(where, left) \in ListerRow
           /\ [Lister(where, left) EXCEPT !.todo = Files] \in ListerRow
BY DEF Lister, ListerRow, Verdicts

\* A folder job keeps its type, whatever page it is at.
LEMMA ListersFolder ==
    ASSUME Inv, NEW j \in Imports,
           createImport(j) \/ CancelRead(j) \/ CancelWrite(j) \/ Folder(j)
             \/ FolderInterrupted(j) \/ FolderError(j)
    PROVE  ListersInv'
<1> USE DEF ListersInv
<1>a. /\ ListersInv /\ lister[j] \in ListerRow /\ lister[j].left \in 0..Attempts
      /\ remote \in [Files -> Contents]
  BY DEF Inv, RowsInv, ListerRow
<1>b. SUFFICES \E r \in ListerRow : lister' = [lister EXCEPT ![j] = r]
  BY <1>a
<1>c. lister[j] \in ListerRow /\ lister = [lister EXCEPT ![j] = lister[j]]
  BY <1>a
<1>1. CASE createImport(j)
  <2>1. [lister[j] EXCEPT !.pc = "queued"] \in ListerRow
    BY <1>a DEF ListerRow
  <2> QED BY <1>1, <2>1 DEF createImport
<1>2. CASE CancelRead(j) \/ CancelWrite(j)
  BY <1>2, <1>c DEF CancelRead, CancelWrite
<1>3. CASE FolderStart(j)
  BY <1>3, <1>a, ListerRows DEF FolderStart
<1>4. CASE ListPage(j)
  <2>1. PICK P \in (SUBSET lister[j].todo) \ {{}} :
         lister' = [lister EXCEPT
           ![j].pc = "upsert", ![j].todo = @ \ P, ![j].page = P,
           ![j].listed = @ + Cardinality(P),
           ![j].verdict = [f \in Files |-> IF f \in P THEN Classify(f) ELSE "insert"],
           ![j].checksum = [f \in Files |-> IF f \in P THEN Reported(f) ELSE Null]]
    BY <1>4, Zenon DEF ListPage
  <2> DEFINE v == [f \in Files |-> IF f \in P THEN Classify(f) ELSE "insert"]
             k == [f \in Files |-> IF f \in P THEN Reported(f) ELSE Null]
             n == lister[j].listed + Cardinality(P)
             r == [lister[j] EXCEPT !.pc = "upsert", !.todo = lister[j].todo \ P, !.page = P,
                                    !.listed = n, !.verdict = v, !.checksum = k]
  <2>2. v \in [Files -> Verdicts]
    BY DEF Verdicts, Classify
  <2>3. k \in [Files -> Contents \cup {Null}]
    BY <1>a DEF Reported
  <2>4. P \subseteq Files /\ lister[j].listed \in Nat /\ lister[j].todo \subseteq Files
    BY <1>a DEF ListerRow
  <2>5. n \in Nat
    BY <2>4, FiniteAssumption, FS_Subset, FS_CardinalityType
  <2> HIDE DEF v, k, n
  <2>6. lister' = [lister EXCEPT ![j] = r]
    BY <1>a, <2>1 DEF v, k, n
  <2>7. r \in ListerRow
    BY <1>a, <2>2, <2>3, <2>4, <2>5 DEF ListerRow
  <2> QED BY <2>6, <2>7
<1>5. CASE repointItem(j)
  <2>1. PICK f \in lister[j].page :
          lister' = [lister EXCEPT ![j].page = @ \ {f},
                                   ![j].skipped = IF lister[j].verdict[f] = "skip"
                                                  THEN @ + 1 ELSE @]
    BY <1>5, Zenon DEF repointItem
  <2> DEFINE n == IF lister[j].verdict[f] = "skip" THEN lister[j].skipped + 1
                  ELSE lister[j].skipped
             r == [lister[j] EXCEPT !.page = lister[j].page \ {f}, !.skipped = n]
  <2>2. n \in Nat
    BY <1>a DEF ListerRow
  <2>3. lister' = [lister EXCEPT ![j] = r]
    BY <1>a, <2>1
  <2> HIDE DEF n
  <2>4. r \in ListerRow
    BY <1>a, <2>2 DEF ListerRow
  <2> QED BY <2>3, <2>4
<1>6. ASSUME FolderFailed(j)
      PROVE  \E r \in ListerRow : lister' = [lister EXCEPT ![j] = r]
  <2>1. CASE lister[j].left > 1
    <3>1. lister[j].left - 1 \in 0..Attempts
      BY <1>a, <2>1, ImportAssumption
    <3> QED BY <1>a, <1>6, <2>1, <3>1, ListerRows DEF FolderFailed
  <2>2. CASE ~(lister[j].left > 1)
    <3>1. 0 \in 0..Attempts
      BY ImportAssumption
    <3> QED BY <1>a, <1>6, <2>2, <3>1, ListerRows DEF FolderFailed
  <2> QED BY <2>1, <2>2
<1>7. CASE insertItems(j)
  <2>1. CASE FolderFailed(j)
    BY <1>6, <2>1
  <2>2. CASE lister' = [lister EXCEPT ![j].page = {}, ![j].pc = "list"]
    <3>1. [lister[j] EXCEPT !.page = {}, !.pc = "list"] \in ListerRow
      BY <1>a DEF ListerRow
    <3> QED BY <1>a, <2>2, <3>1
  <2> QED BY <1>7, <2>1, <2>2, Zenon DEF insertItems
<1>8. CASE pendingItemIds(j)
  <2> DEFINE P == {f \in Files : item[f].job = j /\ item[f].status = "pending"}
  <2>1. [lister[j] EXCEPT !.pc = "settle", !.pending = P] \in ListerRow
    BY <1>a DEF ListerRow
  <2> QED BY <1>a, <1>8, <2>1 DEF pendingItemIds
<1>9. CASE SettleListing(j)
  <2>1. [lister[j] EXCEPT !.pc = "fanout"] \in ListerRow
    BY <1>a DEF ListerRow
  <2> QED BY <1>a, <1>9, <2>1, ListerRows DEF SettleListing
<1>10. CASE FanOut(j) \/ FolderReturn(j) \/ FolderInterrupted(j)
  BY <1>10, <1>a, ListerRows DEF FanOut, FolderReturn, FolderInterrupted
<1>11. CASE FolderError(j)
  BY <1>11, <1>6 DEF FolderError
<1> QED BY <1>1, <1>2, <1>3, <1>4, <1>5, <1>7, <1>8, <1>9, <1>10, <1>11 DEF Folder

-----------------------------------------------------------------------------
(* The file jobs *)

\* What the requests and the folder jobs leave alone.
LEMMA FolderLeaves ==
    ASSUME NEW j \in Imports,
           createImport(j) \/ CancelRead(j) \/ CancelWrite(j) \/ Folder(j)
             \/ FolderInterrupted(j) \/ FolderError(j)
    PROVE  worker' = worker /\ remote' = remote /\ UNCHANGED storage
BY Zenon DEF createImport, CancelRead, CancelWrite, Folder, FolderStart, ListPage,
     repointItem, insertItems, pendingItemIds, SettleListing, FanOut, FolderReturn,
     FolderInterrupted, FolderError

\* What the file jobs leave alone.
LEMMA FileLeaves ==
    ASSUME NEW w \in Workers, File(w) \/ FileInterrupted(w)
    PROVE  lister' = lister /\ remote' = remote /\ cancel' = cancel
BY Zenon DEF File, FileInterrupted, TakeItem, ReadJob, MarkDownloading, Download,
     findByChecksum, putFile, createAsset, QueueAssetProcess, markItem, bumpCounter,
     CountRemaining, FinishRead, FinishWrite, FileRateLimited, FileError, FileCrash

\* An item that has a row keeps it.
ItemsStay == \A f \in Files : item[f].status # "none" => item'[f].status # "none"

\* A listing never takes an item's row away.
LEMMA ItemsStayFolder ==
    ASSUME Inv, NEW j \in Imports,
           createImport(j) \/ CancelRead(j) \/ CancelWrite(j) \/ Folder(j)
             \/ FolderInterrupted(j) \/ FolderError(j)
    PROVE  ItemsStay
<1> USE DEF ItemsStay
<1>a. item \in [Files -> ItemRow]
  BY DEF Inv, RowsInv
<1>1. CASE repointItem(j)
  <2>1. PICK f \in lister[j].page :
          item' = [item EXCEPT
                 ![f] = IF lister[j].verdict[f] = "skip"
                        THEN [@ EXCEPT !.job = j, !.status = "skipped_duplicate"]
                        ELSE [@ EXCEPT !.job = j, !.status = "pending",
                                       !.checksum = lister[j].checksum[f]]]
    BY <1>1, Zenon DEF repointItem
  <2> QED BY <1>a, <2>1 DEF ItemRow
<1>2. CASE insertItems(j)
  BY <1>a, <1>2 DEF insertItems
<1>3. CASE ~repointItem(j) /\ ~insertItems(j)
  <2>1. item' = item
    BY <1>3, Zenon DEF createImport, CancelRead, CancelWrite, Folder, FolderStart, ListPage,
     pendingItemIds, SettleListing, FanOut, FolderReturn, FolderInterrupted, FolderError
  <2> QED BY <2>1
<1> QED BY <1>1, <1>2, <1>3

\* The items a file job writes: its own, and never back to no row.
LEMMA ItemsStayFile ==
    ASSUME Inv, NEW w \in Workers, File(w) \/ FileInterrupted(w)
    PROVE  ItemsStay
<1> USE DEF ItemsStay
<1>a. item \in [Files -> ItemRow] /\ worker[w] \in WorkerRow /\ Handy(worker[w])
  BY DEF Inv, RowsInv, WorkersInv
<1>1. CASE MarkDownloading(w)
  BY <1>a, <1>1 DEF MarkDownloading, ItemRow
<1>2. CASE FileRateLimited(w)
  BY <1>a, <1>2 DEF FileRateLimited, ItemRow
<1>3. CASE markItem(w)
  <2>1. worker[w].outcome # "none"
    BY <1>a DEF WorkerRow, Null
  <2> QED BY <1>a, <1>3, <2>1 DEF markItem, ItemRow
<1>4. CASE ~MarkDownloading(w) /\ ~FileRateLimited(w) /\ ~markItem(w)
  <2>1. item' = item
    BY <1>4, Zenon DEF File, FileInterrupted, TakeItem, ReadJob, Download,
     findByChecksum, putFile, createAsset, QueueAssetProcess, bumpCounter,
     CountRemaining, FinishRead, FinishWrite, FileError, FileCrash
  <2> QED BY <2>1
<1> QED BY <1>1, <1>2, <1>3, <1>4

\* A file job changes its own slot only, to one that has what it needs next.
LEMMA OwnSlot ==
    ASSUME Inv, NEW w \in Workers, File(w) \/ FileInterrupted(w)
    PROVE  \E h \in WorkerRow :
             /\ worker' = [worker EXCEPT ![w] = h]
             /\ h.pc # "idle" => h.file \in Files /\ h.job \in Imports
                                 /\ item[h.file].status # "none"
             /\ h.pc \in {"dedupe", "put", "create", "process"} => h.content \in Contents
             /\ h.pc \in {"settle", "bump"} => h.outcome # Null
<1> DEFINE Fit(h) ==
             /\ h \in WorkerRow
             /\ worker' = [worker EXCEPT ![w] = h]
             /\ h.pc # "idle" => h.file \in Files /\ h.job \in Imports
                                 /\ item[h.file].status # "none"
             /\ h.pc \in {"dedupe", "put", "create", "process"} => h.content \in Contents
             /\ h.pc \in {"settle", "bump"} => h.outcome # Null
<1> SUFFICES \E h : Fit(h)
  OBVIOUS
<1> DEFINE g == worker[w]
<1>a. worker \in [Workers -> WorkerRow] /\ g \in WorkerRow /\ Handy(g)
  BY DEF Inv, WorkersInv
<1>b. remote \in [Files -> Contents] /\ keys \in Nat /\ item \in [Files -> ItemRow]
  BY DEF Inv, RowsInv, KeysInv
<1>c. worker = [worker EXCEPT ![w] = g]
  BY <1>a
<1>d. ASSUME Retire(w) PROVE Fit(NoWorker)
  BY <1>d DEF Retire, NoWorker, WorkerRow
<1>e. ASSUME NEW where \in {"mark", "download", "put", "process", "count", "read", "flip"},
             g.pc # "idle", Goto(w, where),
             where \in {"put", "process"} => g.content \in Contents
      PROVE  Fit([g EXCEPT !.pc = where])
  BY <1>a, <1>e DEF Goto, WorkerRow, Handy
<1>f. ASSUME NEW o \in {"done", "skipped_duplicate", "failed"}, g.pc # "idle", Settles(w, o)
      PROVE  Fit([g EXCEPT !.pc = "settle", !.outcome = o])
  <2>1. [g EXCEPT !.pc = "settle", !.outcome = o] \in WorkerRow
    BY <1>a DEF WorkerRow
  <2>2. o # Null
    BY DEF Null
  <2> QED BY <1>a, <1>f, <2>1, <2>2 DEF Settles, Handy, WorkerRow
<1>1. CASE TakeItem(w)
  <2>1. PICK f \in Files :
          worker' = IF item[f].status = "pending"
                      THEN [worker EXCEPT ![w].pc = "job", ![w].file = f,
                                          ![w].job = item[f].job]
                      ELSE worker
    BY <1>1, Zenon DEF TakeItem
  <2>2. CASE item[f].status = "pending"
    <3>1. item[f].job \in Imports
      BY <2>2 DEF Inv, RowsInv
    <3>2. Fit([g EXCEPT !.pc = "job", !.file = f, !.job = item[f].job])
      BY <1>a, <2>1, <2>2, <3>1 DEF WorkerRow
    <3> QED BY <3>2
  <2>3. CASE item[f].status # "pending"
    <3>1. Fit(g)
      BY <1>a, <1>c, <2>1, <2>3 DEF Handy
    <3> QED BY <3>1
  <2> QED BY <2>2, <2>3
<1>2. CASE ReadJob(w)
  BY <1>2, <1>d, <1>e DEF ReadJob, Retire, Goto
<1>3. CASE MarkDownloading(w)
  BY <1>3, <1>e DEF MarkDownloading
<1>4. CASE Download(w)
  <2>1. remote[g.file] \in Contents
    BY <1>a, <1>b, <1>4 DEF Download, Handy
  <2>2. Fit([g EXCEPT !.content = remote[g.file], !.pc = "dedupe"])
    BY <1>a, <1>4, <2>1 DEF Download, WorkerRow, Handy
  <2> QED BY <2>2
<1>5. CASE findByChecksum(w)
  <2>1. g.pc = "dedupe" /\ g.content \in Contents
    BY <1>a, <1>5 DEF findByChecksum, Handy
  <2> QED BY <1>5, <2>1, <1>e, <1>f DEF findByChecksum
<1>6. CASE putFile(w)
  <2>1. g.pc = "put" /\ g.content \in Contents
    BY <1>a, <1>6 DEF putFile, Handy
  <2>2. Fit([g EXCEPT !.key = keys + 1, !.pc = "create"])
    BY <1>a, <1>b, <1>6, <2>1 DEF putFile, WorkerRow, Handy
  <2> QED BY <2>2
<1>7. CASE createAsset(w)
  <2>1. g.pc = "create" /\ g.content \in Contents
    BY <1>a, <1>7 DEF createAsset, Handy
  <2> QED BY <1>7, <2>1, <1>e, <1>f DEF createAsset
<1>8. CASE QueueAssetProcess(w)
  BY <1>8, <1>f DEF QueueAssetProcess
<1>9. CASE markItem(w)
  <2>1. Fit([g EXCEPT !.pc = "bump"])
    BY <1>a, <1>9 DEF markItem, Goto, WorkerRow, Handy
  <2> QED BY <2>1
<1>10. CASE bumpCounter(w)
  BY <1>10, <1>e DEF bumpCounter
<1>11. CASE CountRemaining(w)
  BY <1>11, <1>d, <1>e DEF CountRemaining
<1>12. CASE FinishRead(w)
  BY <1>12, <1>d, <1>e DEF FinishRead
<1>13. CASE FinishWrite(w)
  BY <1>13, <1>d DEF FinishWrite
<1>14. CASE FileRateLimited(w) \/ FileCrash(w)
  BY <1>14, <1>d DEF FileRateLimited, FileCrash
<1>15. CASE FileError(w)
  BY <1>15, <1>f DEF FileError
<1> QED BY <1>1, <1>2, <1>3, <1>4, <1>5, <1>6, <1>7, <1>8, <1>9, <1>10, <1>11, <1>12,
           <1>13, <1>14, <1>15 DEF File, FileInterrupted

\* Every slot keeps what it holds, whoever moves.
LEMMA WorkersFolder ==
    ASSUME Inv, NEW j \in Imports,
           createImport(j) \/ CancelRead(j) \/ CancelWrite(j) \/ Folder(j)
             \/ FolderInterrupted(j) \/ FolderError(j)
    PROVE  WorkersInv'
<1>1. worker' = worker /\ ItemsStay /\ WorkersInv
  BY FolderLeaves, ItemsStayFolder DEF Inv
<1> QED BY <1>1 DEF WorkersInv, Handy, ItemsStay

\* A file job holds a file with a row and an import, and content once it has any.
LEMMA WorkersFile ==
    ASSUME Inv, NEW w \in Workers, File(w) \/ FileInterrupted(w)
    PROVE  WorkersInv'
<1>1. ItemsStay /\ WorkersInv
  BY ItemsStayFile DEF Inv
<1>2. PICK h \in WorkerRow :
             /\ worker' = [worker EXCEPT ![w] = h]
             /\ h.pc # "idle" => h.file \in Files /\ h.job \in Imports
                                 /\ item[h.file].status # "none"
             /\ h.pc \in {"dedupe", "put", "create", "process"} => h.content \in Contents
             /\ h.pc \in {"settle", "bump"} => h.outcome # Null
  BY OwnSlot
<1> QED BY <1>1, <1>2 DEF WorkersInv, Handy, ItemsStay

-----------------------------------------------------------------------------
(* The bucket *)

\* A file job that neither stores, registers nor queues leaves the storage alone, and
\* its slot is not at one of the two places where something is in hand.
LEMMA QuietFile ==
    ASSUME Inv, NEW w \in Workers, File(w) \/ FileInterrupted(w),
           ~putFile(w), ~createAsset(w), ~QueueAssetProcess(w)
    PROVE  /\ UNCHANGED storage
           /\ worker'[w].pc \notin {"create", "process"}
           /\ worker[w].pc \in {"create", "process"} => Spends
<1>a. worker \in [Workers -> WorkerRow]
  BY DEF Inv, WorkersInv
<1>1. UNCHANGED storage
  BY Zenon DEF File, FileInterrupted, TakeItem, ReadJob, MarkDownloading, Download,
     findByChecksum, markItem, bumpCounter,
     CountRemaining, FinishRead, FinishWrite, FileRateLimited, FileError, FileCrash
<1>2. worker'[w].pc \notin {"create", "process"} /\ (worker[w].pc \in {"create", "process"} => Spends)
  <2> USE <1>a DEF Goto, Settles, Retire, NoWorker, WorkerRow
  <2>1. CASE TakeItem(w)
    BY <2>1 DEF TakeItem
  <2>2. CASE ReadJob(w) \/ MarkDownloading(w) \/ Download(w)
    BY <2>2 DEF ReadJob, MarkDownloading, Download
  <2>3. CASE findByChecksum(w) \/ markItem(w) \/ bumpCounter(w)
    BY <2>3 DEF findByChecksum, markItem, bumpCounter
  <2>4. CASE CountRemaining(w) \/ FinishRead(w) \/ FinishWrite(w)
    BY <2>4 DEF CountRemaining, FinishRead, FinishWrite
  <2>5. CASE FileRateLimited(w) \/ FileError(w) \/ FileCrash(w)
    BY <2>5 DEF FileRateLimited, FileError, FileCrash, Fault, Spends
  <2> QED BY <2>1, <2>2, <2>3, <2>4, <2>5 DEF File, FileInterrupted
<1> QED BY <1>1, <1>2

\* A file job changes no slot but its own.
LEMMA OtherSlots ==
    ASSUME Inv, NEW w \in Workers, File(w) \/ FileInterrupted(w)
    PROVE  \A v \in Workers \ {w} : worker'[v] = worker[v]
<1>1. \E h \in WorkerRow : worker' = [worker EXCEPT ![w] = h]
  BY OwnSlot
<1> QED BY <1>1 DEF Inv, WorkersInv

\* The key in hand is registered by the winner and taken away by the loser.
LEMMA KeysFile ==
    ASSUME Inv, NEW w \in Workers, File(w) \/ FileInterrupted(w)
    PROVE  KeysInv'
<1> DEFINE g == worker[w]
<1>a. /\ KeysInv /\ worker \in [Workers -> WorkerRow] /\ Handy(g)
      /\ \A v \in Workers \ {w} : worker'[v] = worker[v]
  BY OtherSlots DEF Inv, WorkersInv
<1>1. CASE putFile(w)
  <2>1. /\ keys' = keys + 1 /\ objects' = objects \cup {keys + 1}
        /\ asset' = asset /\ processed' = processed
        /\ worker'[w].key = keys + 1 /\ worker'[w].pc = "create"
    BY <1>a, <1>1 DEF putFile, WorkerRow
  <2>2. \A c \in Contents : asset[c] # keys + 1
    BY <1>a DEF KeysInv, AssetHasObject
  <2>3. \A v \in Workers : worker[v].pc = "create" => worker[v].key \in 1..keys
    BY <1>a DEF KeysInv
  <2>4. (asset \in [Contents -> Nat] /\ keys \in Nat /\ objects \subseteq 1..keys
           /\ processed \subseteq Contents)'
    <3>1. keys \in Nat /\ objects \subseteq 1..keys
      BY <1>a DEF KeysInv
    <3>2. keys + 1 \in 1..(keys + 1) /\ \A k \in 1..keys : k \in 1..(keys + 1)
      BY <3>1
    <3>3. objects' \subseteq 1..keys'
      BY <2>1, <3>1, <3>2, Zenon
    <3> QED BY <1>a, <2>1, <3>3 DEF KeysInv
  <2>5. AssetHasObject'
    BY <1>a, <2>1 DEF KeysInv, AssetHasObject
  <2>6. \A v \in Workers : worker'[v].pc = "create" =>
          worker'[v].key \in objects' /\ \A c \in Contents : asset'[c] # worker'[v].key
    BY <1>a, <2>1, <2>2 DEF KeysInv
  <2>7. \A u, v \in Workers : u # v /\ worker'[u].pc = "create" /\ worker'[v].pc = "create" =>
          worker'[u].key # worker'[v].key
    BY <1>a, <2>1, <2>3 DEF KeysInv
  <2> QED BY <2>4, <2>5, <2>6, <2>7 DEF KeysInv
<1>2. CASE createAsset(w)
  <2>1. g.pc = "create" /\ g.content \in Contents /\ g.key \in objects /\ g.key \in Nat
    BY <1>a, <1>2 DEF createAsset, Handy, KeysInv, WorkerRow
  <2>2. worker'[w].pc \in {"settle", "process"}
    BY <1>a, <1>2 DEF createAsset, Settles, Goto, WorkerRow
  <2>3. UNCHANGED <<keys, processed>>
    BY <1>2 DEF createAsset
  <2>4. CASE asset[g.content] # 0
    <3>1. objects' = objects \ {g.key} /\ asset' = asset
      BY <1>2, <2>4 DEF createAsset
    <3>2. \A c \in Contents : asset[c] # g.key
      BY <1>a, <2>1 DEF KeysInv
    <3>3. \A v \in Workers \ {w} : worker[v].pc = "create" => worker[v].key # g.key
      BY <1>a, <2>1 DEF KeysInv
    <3> QED BY <1>a, <2>2, <2>3, <3>1, <3>2, <3>3 DEF KeysInv, AssetHasObject
  <2>5. CASE asset[g.content] = 0
    <3>1. objects' = objects /\ asset' = [asset EXCEPT ![g.content] = g.key]
      BY <1>2, <2>5 DEF createAsset
    <3>3. \A v \in Workers \ {w} : worker[v].pc = "create" => worker[v].key # g.key
      BY <1>a, <2>1 DEF KeysInv
    <3>4. asset' \in [Contents -> Nat] /\ \A c \in Contents : asset'[c] \in {asset[c], g.key}
      BY <1>a, <2>1, <3>1 DEF KeysInv
    <3> QED BY <1>a, <2>1, <2>2, <2>3, <3>1, <3>3, <3>4 DEF KeysInv, AssetHasObject
  <2> QED BY <2>4, <2>5
<1>3. CASE QueueAssetProcess(w)
  <2>1. UNCHANGED <<asset, objects, keys>> /\ processed' = processed \cup {g.content}
        /\ worker'[w].pc = "settle" /\ g.content \in Contents
    BY <1>a, <1>3 DEF QueueAssetProcess, Settles, WorkerRow, Handy
  <2> QED BY <1>a, <2>1 DEF KeysInv, AssetHasObject
<1>4. CASE ~putFile(w) /\ ~createAsset(w) /\ ~QueueAssetProcess(w)
  BY <1>a, <1>4, QuietFile DEF KeysInv, AssetHasObject, storage
<1> QED BY <1>1, <1>2, <1>3, <1>4

\* A folder job touches no object and no asset.
LEMMA KeysFolder ==
    ASSUME Inv, worker' = worker, UNCHANGED storage
    PROVE  KeysInv'
BY DEF Inv, KeysInv, AssetHasObject, storage

\* The invariant holds at first, when nothing has been imported.
LEMMA InitInv == Init => Inv
<1> SUFFICES ASSUME Init PROVE Inv
  OBVIOUS
<1>1. RowsInv
  BY ImportAssumption DEF Init, RowsInv, JobRow, ItemRow, JobStates, ItemStates
<1>2. ListersInv
  <2>1. Attempts \in 0..Attempts
    BY ImportAssumption
  <2>2. Lister("none", Attempts) \in ListerRow
    BY <2>1, ListerRows
  <2> QED BY <2>2 DEF Init, ListersInv
<1>3. WorkersInv
  BY DEF Init, WorkersInv, NoWorker, WorkerRow, Handy
<1>4. KeysInv
  BY DEF Init, KeysInv, AssetHasObject, NoWorker
<1> QED BY <1>1, <1>2, <1>3, <1>4 DEF Inv

\* ... and every step keeps it.
LEMMA InvStep == Inv /\ [Next]_vars => Inv'
<1> SUFFICES ASSUME Inv, [Next]_vars PROVE Inv'
  OBVIOUS
<1>1. ASSUME NEW j \in Imports,
             createImport(j) \/ CancelRead(j) \/ CancelWrite(j) \/ Folder(j)
               \/ FolderInterrupted(j) \/ FolderError(j)
      PROVE  Inv'
  BY <1>1, RowsFolder, ListersFolder, WorkersFolder, FolderLeaves, KeysFolder DEF Inv
<1>2. ASSUME NEW w \in Workers, File(w) \/ FileInterrupted(w)
      PROVE  Inv'
  <2>1. ListersInv'
    BY <1>2, FileLeaves DEF Inv, ListersInv
  <2> QED BY <1>2, <2>1, RowsFile, WorkersFile, KeysFile DEF Inv
<1>3. ASSUME NEW f \in Files, RemoteChange(f)
      PROVE  Inv'
  <2>1. Spends /\ UNCHANGED <<job, item, lister, queue, worker, cancel, storage>>
        /\ \E c \in Contents : remote' = [remote EXCEPT ![f] = c]
    BY <1>3 DEF RemoteChange, Fault, Spends
  <2>2. RowsInv'
    <3>1. credit' \in 0..MaxFaults
      BY <2>1, CreditStays DEF Inv, RowsInv
    <3> QED BY <2>1, <3>1 DEF Inv, RowsInv
  <2> QED BY <2>1, <2>2, KeysFolder DEF Inv, ListersInv, WorkersInv, Handy
<1>4. CASE UNCHANGED vars
  BY <1>4 DEF Inv, RowsInv, ListersInv, WorkersInv, Handy, KeysInv, AssetHasObject, vars, storage
<1> QED BY <1>1, <1>2, <1>3, <1>4 DEF Next

\* Whatever races and faults there are, an asset's object is in the bucket.
THEOREM AssetsHaveObjects == Spec => []AssetHasObject
<1>1. Inv => AssetHasObject
  BY DEF Inv, KeysInv
<1> QED BY <1>1, InitInv, InvStep, PTL DEF Spec

-----------------------------------------------------------------------------
(* Leftovers *)

\* Each thing left behind is paid for with a fault.
Paid == Cardinality(Orphans) + Cardinality(Unprocessed) + credit <= MaxFaults

\* Orphaned objects and unprocessed assets are finitely many.
LEMMA FiniteLeftovers ==
    ASSUME Inv
    PROVE  /\ IsFiniteSet(Orphans) /\ IsFiniteSet(Unprocessed)
           /\ Cardinality(Orphans) \in Nat /\ Cardinality(Unprocessed) \in Nat
<1>1. keys \in Nat /\ objects \subseteq 1..keys
  BY DEF Inv, KeysInv
<1>2. IsFiniteSet(1..keys)
  BY <1>1, FS_Interval
<1>3. Orphans \subseteq 1..keys /\ Unprocessed \subseteq Contents
  BY <1>1 DEF Orphans, Unprocessed
<1> QED BY <1>2, <1>3, FiniteAssumption, FS_Subset, FS_CardinalityType

\* A set that grows by at most one element counts at most one more.
LEMMA GrowsByOne ==
    ASSUME NEW S, NEW T, NEW x, IsFiniteSet(S), T \subseteq S \cup {x}
    PROVE  Cardinality(T) <= Cardinality(S) + 1 /\ Cardinality(T) \in Nat
<1>1. IsFiniteSet(S \cup {x}) /\ Cardinality(S \cup {x}) <= Cardinality(S) + 1
      /\ Cardinality(S) \in Nat
  BY FS_AddElement, FS_CardinalityType
<1>2. Cardinality(T) <= Cardinality(S \cup {x}) /\ IsFiniteSet(T)
  BY <1>1, FS_Subset
<1> QED BY <1>1, <1>2, FS_CardinalityType

\* A part of a finite set has no more elements.
LEMMA Shrinks ==
    ASSUME NEW S, NEW T, IsFiniteSet(S), T \subseteq S
    PROVE  Cardinality(T) <= Cardinality(S) /\ Cardinality(T) \in Nat
BY FS_Subset, FS_CardinalityType

\* A step leaves nothing more behind, or one thing more at the price of a fault.
NoMore == Orphans' \subseteq Orphans /\ Unprocessed' \subseteq Unprocessed
OneMore ==
    /\ Spends
    /\ \/ (\E k : Orphans' \subseteq Orphans \cup {k}) /\ Unprocessed' \subseteq Unprocessed
       \/ (\E c : Unprocessed' \subseteq Unprocessed \cup {c}) /\ Orphans' \subseteq Orphans

\* A file job leaves nothing behind, or one thing and has failed.
LEMMA LeftByFile ==
    ASSUME Inv, NEW w \in Workers, File(w) \/ FileInterrupted(w)
    PROVE  NoMore \/ OneMore
<1> DEFINE g == worker[w]
<1>a. /\ KeysInv /\ worker \in [Workers -> WorkerRow] /\ Handy(g)
      /\ \A v \in Workers \ {w} : worker'[v] = worker[v]
  BY OtherSlots DEF Inv, WorkersInv
<1>1. CASE putFile(w)
  <2>1. /\ objects' = objects \cup {keys + 1} /\ asset' = asset /\ processed' = processed
        /\ g.pc = "put" /\ worker'[w].key = keys + 1 /\ worker'[w].pc = "create"
    BY <1>a, <1>1 DEF putFile, WorkerRow
  <2>2. Orphans' \subseteq Orphans
    BY <1>a, <2>1 DEF Orphans
  <2>3. Unprocessed' \subseteq Unprocessed
    BY <1>a, <2>1 DEF Unprocessed
  <2> QED BY <2>2, <2>3 DEF NoMore
<1>2. CASE createAsset(w)
  <2>1. g.pc = "create" /\ g.content \in Contents /\ processed' = processed
    BY <1>a, <1>2 DEF createAsset, Handy
  <2>2. CASE asset[g.content] # 0
    <3>1. objects' = objects \ {g.key} /\ asset' = asset /\ worker'[w].pc = "settle"
      BY <1>a, <1>2, <2>2 DEF createAsset, Settles, WorkerRow
    <3>2. Orphans' \subseteq Orphans
      BY <1>a, <2>1, <3>1 DEF Orphans
    <3>3. Unprocessed' \subseteq Unprocessed
      BY <1>a, <2>1, <3>1 DEF Unprocessed
    <3> QED BY <3>2, <3>3 DEF NoMore
  <2>3. CASE asset[g.content] = 0
    <3>1. /\ objects' = objects /\ asset' = [asset EXCEPT ![g.content] = g.key]
          /\ worker'[w].pc = "process" /\ worker'[w].content = g.content
      BY <1>a, <1>2, <2>3 DEF createAsset, Goto, WorkerRow
    <3>2. \A c \in Contents : c # g.content => asset'[c] = asset[c]
      BY <1>a, <3>1 DEF KeysInv
    <3>3. asset'[g.content] = g.key
      BY <1>a, <2>1, <3>1 DEF KeysInv
    <3>4. Orphans' \subseteq Orphans
      <4>1. SUFFICES ASSUME NEW k \in Orphans' PROVE k \in Orphans
        OBVIOUS
      <4>2. k \in objects /\ k # 0 /\ k # g.key /\ \A c \in Contents : asset'[c] # k
        BY <1>a, <2>1, <3>1, <3>3 DEF Orphans, KeysInv
      <4>3. \A c \in Contents : asset[c] # k
        BY <2>3, <3>2, <4>2
      <4>4. \A v \in Workers : worker[v].pc = "create" => worker[v].key # k
        BY <1>a, <4>1, <4>2 DEF Orphans
      <4> QED BY <4>2, <4>3, <4>4 DEF Orphans
    <3>5. Unprocessed' \subseteq Unprocessed
      BY <1>a, <2>1, <3>1, <3>2 DEF Unprocessed
    <3> QED BY <3>4, <3>5 DEF NoMore
  <2> QED BY <2>2, <2>3
<1>3. CASE QueueAssetProcess(w)
  <2>1. /\ UNCHANGED <<asset, objects>> /\ processed' = processed \cup {g.content}
        /\ g.pc = "process" /\ worker'[w].pc = "settle"
    BY <1>a, <1>3 DEF QueueAssetProcess, Settles, WorkerRow
  <2>2. Orphans' \subseteq Orphans
    BY <1>a, <2>1 DEF Orphans
  <2>3. Unprocessed' \subseteq Unprocessed
    BY <1>a, <2>1 DEF Unprocessed
  <2> QED BY <2>2, <2>3 DEF NoMore
<1>4. CASE ~putFile(w) /\ ~createAsset(w) /\ ~QueueAssetProcess(w)
  <2>1. /\ UNCHANGED <<asset, objects, keys, processed>>
        /\ worker'[w].pc \notin {"create", "process"}
        /\ g.pc \in {"create", "process"} => Spends
    BY <1>4, QuietFile DEF storage
  <2>2. g.pc # "create" => Orphans' \subseteq Orphans
    BY <1>a, <2>1 DEF Orphans
  <2>3. g.pc # "process" => Unprocessed' \subseteq Unprocessed
    BY <1>a, <2>1 DEF Unprocessed
  <2>4. Orphans' \subseteq Orphans \cup {g.key}
    BY <1>a, <2>1 DEF Orphans
  <2>5. Unprocessed' \subseteq Unprocessed \cup {g.content}
    BY <1>a, <2>1 DEF Unprocessed
  <2>6. CASE g.pc = "create"
    BY <2>1, <2>3, <2>4, <2>6, Zenon DEF OneMore
  <2>7. CASE g.pc = "process"
    BY <2>1, <2>2, <2>5, <2>7, Zenon DEF OneMore
  <2> QED BY <2>2, <2>3, <2>6, <2>7 DEF NoMore
<1> QED BY <1>1, <1>2, <1>3, <1>4

\* Every step pays for what it leaves.
LEMMA PaidStep ==
    ASSUME Inv, Paid, [Next]_vars
    PROVE  Paid'
<1>a. /\ IsFiniteSet(Orphans) /\ IsFiniteSet(Unprocessed)
      /\ Cardinality(Orphans) \in Nat /\ Cardinality(Unprocessed) \in Nat
  BY FiniteLeftovers
<1>b. credit \in Nat /\ MaxFaults \in Nat
  BY ImportAssumption DEF Inv, RowsInv
<1>c. ASSUME NoMore, Spends \/ NoFault
      PROVE  Paid'
  <2>1. /\ Cardinality(Orphans') <= Cardinality(Orphans) /\ Cardinality(Orphans') \in Nat
        /\ Cardinality(Unprocessed') <= Cardinality(Unprocessed)
        /\ Cardinality(Unprocessed') \in Nat
    BY <1>a, <1>c, Shrinks DEF NoMore
  <2> QED BY <1>a, <1>b, <1>c, <2>1 DEF Paid, Spends, NoFault
<1>d. ASSUME OneMore
      PROVE  Paid'
  <2>1. CASE (\E k : Orphans' \subseteq Orphans \cup {k}) /\ Unprocessed' \subseteq Unprocessed
    <3>1. Cardinality(Orphans') <= Cardinality(Orphans) + 1 /\ Cardinality(Orphans') \in Nat
      BY <1>a, <2>1, GrowsByOne
    <3>2. Cardinality(Unprocessed') <= Cardinality(Unprocessed)
          /\ Cardinality(Unprocessed') \in Nat
      BY <1>a, <2>1, Shrinks
    <3> QED BY <1>a, <1>b, <1>d, <3>1, <3>2 DEF Paid, OneMore, Spends
  <2>2. CASE (\E c : Unprocessed' \subseteq Unprocessed \cup {c}) /\ Orphans' \subseteq Orphans
    <3>1. Cardinality(Unprocessed') <= Cardinality(Unprocessed) + 1
          /\ Cardinality(Unprocessed') \in Nat
      BY <1>a, <2>2, GrowsByOne
    <3>2. Cardinality(Orphans') <= Cardinality(Orphans) /\ Cardinality(Orphans') \in Nat
      BY <1>a, <2>2, Shrinks
    <3> QED BY <1>a, <1>b, <1>d, <3>1, <3>2 DEF Paid, OneMore, Spends
  <2> QED BY <1>d, <2>1, <2>2 DEF OneMore
<1>e. ASSUME worker' = worker, UNCHANGED storage
      PROVE  NoMore
  BY <1>e DEF NoMore, Orphans, Unprocessed, storage
<1>1. ASSUME NEW j \in Imports,
             createImport(j) \/ CancelRead(j) \/ CancelWrite(j) \/ Folder(j)
               \/ FolderInterrupted(j) \/ FolderError(j)
      PROVE  Paid'
  BY <1>1, <1>c, <1>e, FolderLeaves, FolderSpends
<1>2. ASSUME NEW w \in Workers, File(w) \/ FileInterrupted(w)
      PROVE  Paid'
  BY <1>2, <1>c, <1>d, LeftByFile, FileSpends
<1>3. ASSUME NEW f \in Files, RemoteChange(f)
      PROVE  Paid'
  BY <1>3, <1>c, <1>e DEF RemoteChange, Fault, Spends
<1>4. CASE UNCHANGED vars
  <2>1. worker' = worker /\ UNCHANGED storage /\ NoFault
    BY <1>4 DEF vars, storage, NoFault
  <2> QED BY <2>1, <1>c, <1>e
<1> QED BY <1>1, <1>2, <1>3, <1>4 DEF Next

\* What faults have paid for is what the bucket accounts for.
LEMMA PaidIsAccounted == Inv /\ Paid => StorageAccounted
<1> SUFFICES ASSUME Inv, Paid PROVE StorageAccounted
  OBVIOUS
<1>1. Cardinality(Orphans) \in Nat /\ Cardinality(Unprocessed) \in Nat
  BY FiniteLeftovers
<1>2. credit \in Nat /\ MaxFaults \in Nat
  BY ImportAssumption DEF Inv, RowsInv
<1>3. LeftoversCostFaults
  BY <1>1, <1>2 DEF Paid, LeftoversCostFaults
<1> QED BY <1>3 DEF Inv, KeysInv, StorageAccounted

\* Nothing is left behind before the first import.
LEMMA InitPaid == Init => Paid
<1> SUFFICES ASSUME Init PROVE Paid
  OBVIOUS
<1>1. Orphans = {} /\ Unprocessed = {}
  BY DEF Init, Orphans, Unprocessed
<1>2. Cardinality(Orphans) = 0 /\ Cardinality(Unprocessed) = 0
  BY <1>1, FS_EmptySet
<1> QED BY <1>2, ImportAssumption DEF Init, Paid

\* Bucket and rows agree through checksum races between any number of imports and
\* workers, and whatever is left behind cost a fault (import.service.ts:303-340).
THEOREM BucketIsAccounted == Spec => []StorageAccounted
<1>1. Init => Inv /\ Paid
  BY InitInv, InitPaid
<1>2. Inv /\ Paid /\ [Next]_vars => (Inv /\ Paid)'
  BY InvStep, PaidStep
<1>3. Inv /\ Paid => StorageAccounted
  BY PaidIsAccounted
<1> QED BY <1>1, <1>2, <1>3, PTL DEF Spec

-----------------------------------------------------------------------------
(* Cancelling *)

\* A request or a folder job writes the row of its own import only.
LEMMA OwnImport ==
    ASSUME Inv, NEW i \in Imports,
           createImport(i) \/ CancelRead(i) \/ CancelWrite(i) \/ Folder(i)
             \/ FolderInterrupted(i) \/ FolderError(i)
    PROVE  \A j \in Imports \ {i} : job'[j] = job[j] /\ lister'[j] = lister[j]
<1>a. job \in [Imports -> JobRow] /\ lister \in [Imports -> ListerRow]
  BY DEF Inv, RowsInv, ListersInv
<1>1. ASSUME FolderFailed(i)
      PROVE  \A j \in Imports \ {i} : job'[j] = job[j] /\ lister'[j] = lister[j]
  BY <1>a, <1>1 DEF FolderFailed
<1>2. CASE createImport(i) \/ CancelRead(i) \/ CancelWrite(i)
  BY <1>a, <1>2 DEF createImport, CancelRead, CancelWrite
<1>3. CASE FolderStart(i) \/ ListPage(i) \/ repointItem(i) \/ pendingItemIds(i)
  BY <1>a, <1>3 DEF FolderStart, ListPage, repointItem, pendingItemIds
<1>4. CASE insertItems(i)
  BY <1>a, <1>1, <1>4 DEF insertItems
<1>5. CASE SettleListing(i) \/ FanOut(i) \/ FolderReturn(i) \/ FolderInterrupted(i)
  BY <1>a, <1>5 DEF SettleListing, FanOut, FolderReturn, FolderInterrupted
<1>6. CASE FolderError(i)
  BY <1>1, <1>6 DEF FolderError
<1> QED BY <1>2, <1>3, <1>4, <1>5, <1>6 DEF Folder

\* At rest, an import is left alone by its own requests and its folder job.
LEMMA RestFolder ==
    ASSUME Inv, NEW j \in Imports, CancelledAtRest(j),
           createImport(j) \/ CancelRead(j) \/ CancelWrite(j) \/ Folder(j)
             \/ FolderInterrupted(j) \/ FolderError(j)
    PROVE  job'[j].status = "cancelled" /\ lister'[j].pc \in {"none", "queued"}
<1>a. /\ job \in [Imports -> JobRow] /\ lister \in [Imports -> ListerRow]
      /\ job[j].status = "cancelled" /\ lister[j].pc \in {"none", "queued"}
  BY DEF Inv, RowsInv, ListersInv, CancelledAtRest
<1>1. ~createImport(j) /\ ~CancelRead(j) /\ ~FolderInterrupted(j) /\ ~FolderError(j)
  BY <1>a DEF createImport, CancelRead, Cancellable, FolderInterrupted, FolderError
<1>2. ~ListPage(j) /\ ~repointItem(j) /\ ~insertItems(j) /\ ~pendingItemIds(j)
      /\ ~SettleListing(j) /\ ~FanOut(j) /\ ~FolderReturn(j)
  BY <1>a DEF ListPage, repointItem, insertItems, pendingItemIds, SettleListing, FanOut, FolderReturn
<1>3. CASE CancelWrite(j)
  BY <1>a, <1>3 DEF CancelWrite, JobRow
<1>4. CASE FolderStart(j)
  BY <1>a, <1>4 DEF FolderStart, Lister
<1> QED BY <1>1, <1>2, <1>3, <1>4 DEF Folder

\* ... and by the file jobs of whatever import.
LEMMA RestFile ==
    ASSUME Inv, NEW j \in Imports, CancelledAtRest(j), NEW w \in Workers,
           File(w) \/ FileInterrupted(w)
    PROVE  CancelledAtRest(j)'
<1> DEFINE g == worker[w]
<1>a. /\ job \in [Imports -> JobRow] /\ worker \in [Workers -> WorkerRow] /\ Handy(g)
      /\ job[j].status = "cancelled" /\ lister[j].pc \in {"none", "queued"}
      /\ \A v \in Workers : worker[v].pc = "flip" => worker[v].job # j
      /\ \A v \in Workers \ {w} : worker'[v] = worker[v]
  BY OtherSlots DEF Inv, RowsInv, WorkersInv, CancelledAtRest
<1>1. job'[j].status = "cancelled"
  <2>1. CASE bumpCounter(w)
    <3>1. g.job \in Imports /\ g.outcome \in {"done", "failed", "skipped_duplicate"}
      BY <1>a, <2>1 DEF bumpCounter, Handy, WorkerRow
    <3>2. \E r \in JobRow : r.status = job[g.job].status /\ job' = [job EXCEPT ![g.job] = r]
      <4>1. [job[g.job] EXCEPT !.done = @ + 1] \in JobRow
            /\ [job[g.job] EXCEPT !.done = @ + 1].status = job[g.job].status
        BY <1>a, <3>1, JobRows DEF JobRow
      <4>2. [job[g.job] EXCEPT !.failed = @ + 1] \in JobRow
            /\ [job[g.job] EXCEPT !.failed = @ + 1].status = job[g.job].status
        BY <1>a, <3>1, JobRows DEF JobRow
      <4>3. [job[g.job] EXCEPT !.skipped = @ + 1] \in JobRow
            /\ [job[g.job] EXCEPT !.skipped = @ + 1].status = job[g.job].status
        BY <1>a, <3>1, JobRows DEF JobRow
      <4> QED BY <1>a, <2>1, <3>1, <4>1, <4>2, <4>3 DEF bumpCounter
    <3> QED BY <1>a, <3>1, <3>2
  <2>2. CASE FinishWrite(w)
    BY <1>a, <2>2 DEF FinishWrite, Handy
  <2>3. CASE ~bumpCounter(w) /\ ~FinishWrite(w)
    <3>1. job' = job
      BY <2>3, Zenon DEF File, FileInterrupted, TakeItem, ReadJob, MarkDownloading, Download,
         findByChecksum, putFile, createAsset, QueueAssetProcess, markItem,
         CountRemaining, FinishRead, FileRateLimited, FileError, FileCrash
    <3> QED BY <1>a, <3>1
  <2> QED BY <2>1, <2>2, <2>3
<1>2. worker'[w].pc = "flip" => worker'[w].job # j
  <2> USE <1>a DEF Goto, Settles, Retire, NoWorker, WorkerRow
  <2>1. CASE TakeItem(w)
    BY <2>1 DEF TakeItem
  <2>2. CASE ReadJob(w) \/ MarkDownloading(w) \/ Download(w) \/ findByChecksum(w)
             \/ putFile(w) \/ createAsset(w)
    BY <2>2 DEF ReadJob, MarkDownloading, Download, findByChecksum, putFile, createAsset
  <2>3. CASE QueueAssetProcess(w) \/ markItem(w) \/ bumpCounter(w) \/ CountRemaining(w)
    BY <2>3 DEF QueueAssetProcess, markItem, bumpCounter, CountRemaining
  <2>4. CASE FinishRead(w)
    BY <2>4 DEF FinishRead
  <2>5. CASE FinishWrite(w) \/ FileRateLimited(w) \/ FileError(w) \/ FileCrash(w)
    BY <2>5 DEF FinishWrite, FileRateLimited, FileError, FileCrash
  <2> QED BY <2>1, <2>2, <2>3, <2>4, <2>5 DEF File, FileInterrupted
<1>3. lister' = lister
  BY FileLeaves
<1> QED BY <1>a, <1>1, <1>2, <1>3 DEF CancelledAtRest

\* A cancelled import nothing of which is under way stays cancelled: no retry, no
\* late file job and no other import brings it back (import.service.ts:140, 274, 363).
THEOREM CancelStands == Spec => CancelIsFinal
<1> DEFINE Rest == \A j \in Imports : CancelledAtRest(j) => CancelledAtRest(j)'
<1>1. Inv /\ [Next]_vars => [Rest]_vars
  <2> SUFFICES ASSUME Inv, [Next]_vars, NEW j \in Imports, CancelledAtRest(j)
               PROVE  CancelledAtRest(j)'
    OBVIOUS
  <2>1. ASSUME NEW i \in Imports,
               createImport(i) \/ CancelRead(i) \/ CancelWrite(i) \/ Folder(i)
                 \/ FolderInterrupted(i) \/ FolderError(i)
        PROVE  CancelledAtRest(j)'
    <3>1. worker' = worker
      BY <2>1, FolderLeaves
    <3>2. job'[j].status = "cancelled" /\ lister'[j].pc \in {"none", "queued"}
      <4>1. CASE i = j
        BY <2>1, <4>1, RestFolder
      <4>2. CASE i # j
        BY <2>1, <4>2, OwnImport DEF CancelledAtRest
      <4> QED BY <4>1, <4>2
    <3> QED BY <3>1, <3>2 DEF CancelledAtRest
  <2>2. ASSUME NEW w \in Workers, File(w) \/ FileInterrupted(w)
        PROVE  CancelledAtRest(j)'
    BY <2>2, RestFile
  <2>3. ASSUME NEW f \in Files, RemoteChange(f)
        PROVE  CancelledAtRest(j)'
    BY <2>3 DEF RemoteChange, CancelledAtRest
  <2>4. CASE UNCHANGED vars
    BY <2>4 DEF vars, CancelledAtRest
  <2> QED BY <2>1, <2>2, <2>3, <2>4 DEF Next
<1> QED BY <1>1, InitInv, InvStep, PTL DEF Spec, CancelIsFinal

-----------------------------------------------------------------------------
(* A second import *)

\* While nobody replaces a remote file, what is on record about its content is true
\* or absent, and whatever is called synced or is about to be has its asset.
SyncInv ==
    /\ \A f \in Files : item[f].checksum \in {Null, remote[f]}
    /\ \A j \in Imports, f \in Files :
         /\ lister[j].checksum[f] \in {Null, remote[f]}
         /\ lister[j].verdict[f] = "skip" => asset[remote[f]] # 0
    /\ \A w \in Workers :
         LET h == worker[w]
         IN /\ h.pc \in {"dedupe", "put", "create", "process"} => h.content = remote[h.file]
            /\ h.pc = "process" => asset[h.content] # 0
            /\ h.pc = "settle" /\ h.outcome \in Synced => asset[remote[h.file]] # 0
    /\ SyncedMeansPresent

\* An asset once registered stays.
AssetsStay == \A c \in Contents : asset[c] # 0 => asset'[c] # 0

\* No file job takes an asset away.
LEMMA AssetsStayFile ==
    ASSUME Inv, NEW w \in Workers, File(w) \/ FileInterrupted(w)
    PROVE  AssetsStay
<1>a. KeysInv /\ worker \in [Workers -> WorkerRow]
  BY DEF Inv, WorkersInv
<1>1. CASE createAsset(w)
  <2>1. worker[w].key # 0
    BY <1>a, <1>1 DEF createAsset, KeysInv
  <2> QED BY <1>a, <1>1, <2>1 DEF createAsset, AssetsStay, KeysInv
<1>2. CASE ~createAsset(w)
  <2>1. asset' = asset
    BY <1>2, Zenon DEF File, FileInterrupted, TakeItem, ReadJob, MarkDownloading, Download,
       findByChecksum, putFile, QueueAssetProcess, markItem, bumpCounter, storage,
       CountRemaining, FinishRead, FinishWrite, FileRateLimited, FileError, FileCrash
  <2> QED BY <2>1 DEF AssetsStay
<1> QED BY <1>1, <1>2

\* What a folder job knows of a file stays right: its page is read in one step.
LEMMA SyncListers ==
    ASSUME Inv, SyncInv, NEW i \in Imports,
           createImport(i) \/ CancelRead(i) \/ CancelWrite(i) \/ Folder(i)
             \/ FolderInterrupted(i) \/ FolderError(i)
    PROVE  \A j \in Imports, f \in Files :
             /\ lister'[j].checksum[f] \in {Null, remote[f]}
             /\ lister'[j].verdict[f] = "skip" => asset[remote[f]] # 0
<1>a. /\ lister \in [Imports -> ListerRow]
      /\ \A j \in Imports, f \in Files :
             /\ lister[j].checksum[f] \in {Null, remote[f]}
             /\ lister[j].verdict[f] = "skip" => asset[remote[f]] # 0
  BY DEF Inv, ListersInv, SyncInv
<1>b. SUFFICES ASSUME NEW f \in Files
               PROVE  /\ lister'[i].checksum[f] \in {Null, remote[f]}
                      /\ lister'[i].verdict[f] = "skip" => asset[remote[f]] # 0
  BY <1>a, OwnImport
<1>c. ASSUME NEW where, NEW left, lister'[i] = Lister(where, left)
      PROVE  lister'[i].checksum[f] = Null /\ lister'[i].verdict[f] = "insert"
  BY <1>c DEF Lister
<1>d. ASSUME FolderFailed(i)
      PROVE  lister'[i].checksum[f] = Null /\ lister'[i].verdict[f] = "insert"
  BY <1>a, <1>c, <1>d DEF FolderFailed
<1>e. ASSUME lister'[i].checksum = lister[i].checksum, lister'[i].verdict = lister[i].verdict
      PROVE  /\ lister'[i].checksum[f] \in {Null, remote[f]}
             /\ lister'[i].verdict[f] = "skip" => asset[remote[f]] # 0
  BY <1>a, <1>e
<1>1. CASE createImport(i) \/ CancelRead(i) \/ CancelWrite(i)
  BY <1>a, <1>e, <1>1 DEF createImport, CancelRead, CancelWrite, ListerRow
<1>2. CASE FolderStart(i)
  <2>1. lister'[i].checksum[f] = Null /\ lister'[i].verdict[f] = "insert"
    BY <1>a, <1>2 DEF FolderStart, Lister
  <2> QED BY <2>1
<1>3. CASE ListPage(i)
  <2>1. PICK P \in (SUBSET lister[i].todo) \ {{}} :
         lister' = [lister EXCEPT
           ![i].pc = "upsert", ![i].todo = @ \ P, ![i].page = P,
           ![i].listed = @ + Cardinality(P),
           ![i].verdict = [f_1 \in Files |-> IF f_1 \in P THEN Classify(f_1) ELSE "insert"],
           ![i].checksum = [f_1 \in Files |-> IF f_1 \in P THEN Reported(f_1) ELSE Null]]
    BY <1>3, Zenon DEF ListPage
  <2> DEFINE v == [f_1 \in Files |-> IF f_1 \in P THEN Classify(f_1) ELSE "insert"]
             k == [f_1 \in Files |-> IF f_1 \in P THEN Reported(f_1) ELSE Null]
             n == lister[i].listed + Cardinality(P)
             r == [lister[i] EXCEPT !.pc = "upsert", !.todo = lister[i].todo \ P, !.page = P,
                                    !.listed = n, !.verdict = v, !.checksum = k]
  <2>2. /\ lister'[i].verdict[f] = IF f \in P THEN Classify(f) ELSE "insert"
        /\ lister'[i].checksum[f] = IF f \in P THEN Reported(f) ELSE Null
    <3>1. v[f] = (IF f \in P THEN Classify(f) ELSE "insert")
          /\ k[f] = IF f \in P THEN Reported(f) ELSE Null
      OBVIOUS
    <3> HIDE DEF v, k, n
    <3>2. lister'[i] = r
      BY <1>a, <2>1 DEF v, k, n
    <3>3. r.verdict = v /\ r.checksum = k
      BY <1>a DEF ListerRow
    <3> QED BY <3>1, <3>2, <3>3
  <2>3. Reported(f) \in {Null, remote[f]}
    BY DEF Reported
  <2>4. Classify(f) = "skip" => asset[remote[f]] # 0
    BY <2>3 DEF Classify, SyncInv, SyncedMeansPresent
  <2> QED BY <2>2, <2>3, <2>4
<1>4. CASE repointItem(i)
  <2>1. PICK x \in lister[i].page :
          lister' = [lister EXCEPT ![i].page = @ \ {x},
                                   ![i].skipped = IF lister[i].verdict[x] = "skip"
                                                  THEN @ + 1 ELSE @]
    BY <1>4, Zenon DEF repointItem
  <2> QED BY <1>a, <1>e, <2>1 DEF ListerRow
<1>9. CASE pendingItemIds(i)
  BY <1>a, <1>e, <1>9 DEF pendingItemIds, ListerRow
<1>5. CASE insertItems(i)
  <2>1. CASE FolderFailed(i)
    BY <1>d, <2>1
  <2>2. CASE lister' = [lister EXCEPT ![i].page = {}, ![i].pc = "list"]
    BY <1>a, <1>e, <2>2 DEF ListerRow
  <2> QED BY <1>5, <2>1, <2>2, Zenon DEF insertItems
<1>6. CASE SettleListing(i)
  <2>1. CASE lister[i].pending # {}
    BY <1>a, <1>e, <1>6, <2>1 DEF SettleListing, ListerRow
  <2>2. CASE lister[i].pending = {}
    BY <1>a, <1>c, <1>6, <2>2 DEF SettleListing
  <2> QED BY <2>1, <2>2
<1>7. CASE FanOut(i) \/ FolderReturn(i) \/ FolderInterrupted(i)
  BY <1>a, <1>c, <1>7 DEF FanOut, FolderReturn, FolderInterrupted
<1>8. CASE FolderError(i)
  BY <1>d, <1>8 DEF FolderError
<1> QED BY <1>1, <1>2, <1>3, <1>4, <1>5, <1>6, <1>7, <1>8, <1>9 DEF Folder

\* A file is skipped only while its content is there.
LEMMA SyncFolder ==
    ASSUME Inv, SyncInv, NEW i \in Imports,
           createImport(i) \/ CancelRead(i) \/ CancelWrite(i) \/ Folder(i)
             \/ FolderInterrupted(i) \/ FolderError(i)
    PROVE  SyncInv'
<1>1. worker' = worker /\ remote' = remote /\ asset' = asset
  BY FolderLeaves DEF storage
<1>2. \A j \in Imports, f \in Files :
             /\ lister'[j].checksum[f] \in {Null, remote[f]}
             /\ lister'[j].verdict[f] = "skip" => asset[remote[f]] # 0
  BY SyncListers
<1>a. item \in [Files -> ItemRow] /\ lister[i] \in ListerRow /\ remote \in [Files -> Contents]
  BY DEF Inv, RowsInv, ListersInv
<1>3. ASSUME NEW f \in Files
      PROVE  /\ item'[f].checksum \in {Null, remote[f]}
             /\ item'[f].status \in Synced /\ item'[f].checksum # Null => asset[item'[f].checksum] # 0
  <2>a. /\ item[f].checksum \in {Null, remote[f]}
        /\ item[f].status \in Synced /\ item[f].checksum # Null => asset[item[f].checksum] # 0
        /\ lister[i].checksum[f] \in {Null, remote[f]}
        /\ lister[i].verdict[f] = "skip" => asset[remote[f]] # 0
    BY DEF SyncInv, SyncedMeansPresent
  <2>1. CASE repointItem(i)
    <3>1. PICK x \in lister[i].page :
          item' = [item EXCEPT
                 ![x] = IF lister[i].verdict[x] = "skip"
                        THEN [@ EXCEPT !.job = i, !.status = "skipped_duplicate"]
                        ELSE [@ EXCEPT !.job = i, !.status = "pending",
                                       !.checksum = lister[i].checksum[x]]]
      BY <2>1, Zenon DEF repointItem
    <3>2. CASE x # f
      BY <1>a, <2>a, <3>1, <3>2
    <3>3. CASE x = f /\ lister[i].verdict[f] = "skip"
      <4>1. item'[f].checksum = item[f].checksum
        BY <1>a, <3>1, <3>3 DEF ItemRow
      <4> QED BY <2>a, <3>3, <4>1
    <3>4. CASE x = f /\ lister[i].verdict[f] # "skip"
      <4>1. item'[f].checksum = lister[i].checksum[f] /\ item'[f].status = "pending"
        BY <1>a, <3>1, <3>4 DEF ItemRow
      <4> QED BY <2>a, <4>1 DEF Synced
    <3> QED BY <3>2, <3>3, <3>4
  <2>2. CASE insertItems(i)
    <3>1. item' = item \/ item'[f] = item[f]
          \/ (item'[f].status = "pending" /\ item'[f].checksum = lister[i].checksum[f])
      BY <2>2 DEF insertItems
    <3> QED BY <2>a, <3>1 DEF Synced
  <2>3. CASE ~repointItem(i) /\ ~insertItems(i)
    <3>1. item' = item
      BY <2>3, Zenon DEF createImport, CancelRead, CancelWrite, Folder, FolderStart, ListPage,
       pendingItemIds, SettleListing, FanOut, FolderReturn, FolderInterrupted, FolderError
    <3> QED BY <2>a, <3>1
  <2> QED BY <2>1, <2>2, <2>3
<1> QED BY <1>1, <1>2, <1>3 DEF SyncInv, SyncedMeansPresent

\* A file job calls an item synced only once its content is there.
LEMMA SyncFile ==
    ASSUME Inv, SyncInv, NEW w \in Workers, File(w) \/ FileInterrupted(w)
    PROVE  SyncInv'
<1> DEFINE g == worker[w]
           h == worker'[w]
<1>a. /\ worker \in [Workers -> WorkerRow] /\ Handy(g) /\ AssetsStay
      /\ remote \in [Files -> Contents] /\ item \in [Files -> ItemRow]
      /\ lister' = lister /\ remote' = remote
      /\ \A v \in Workers \ {w} : worker'[v] = worker[v]
  BY OtherSlots, AssetsStayFile, FileLeaves DEF Inv, WorkersInv, RowsInv
<1>b. /\ g.pc \in {"dedupe", "put", "create", "process"} => g.content = remote[g.file]
      /\ g.pc = "process" => asset[g.content] # 0
      /\ g.pc = "settle" /\ g.outcome \in Synced => asset[remote[g.file]] # 0
  BY DEF SyncInv
<1>1. /\ h.pc \in {"dedupe", "put", "create", "process"} => h.content = remote[h.file]
      /\ h.pc = "process" => asset'[h.content] # 0
      /\ h.pc = "settle" /\ h.outcome \in Synced => asset'[remote[h.file]] # 0
  <2>1. CASE createAsset(w)
    <3>1. g.pc = "create" /\ g.content \in Contents /\ g.key # 0 /\ h.file = g.file
          /\ h.content = g.content /\ asset \in [Contents -> Nat]
      BY <1>a, <2>1 DEF createAsset, Handy, Inv, KeysInv, Settles, Goto, WorkerRow
    <3>2. asset'[g.content] # 0
      BY <2>1, <3>1 DEF createAsset
    <3> QED BY <1>b, <3>1, <3>2
  <2>2. CASE ~createAsset(w)
    <3>0. asset' = asset
      BY <2>2, Zenon DEF File, FileInterrupted, TakeItem, ReadJob, MarkDownloading, Download,
       findByChecksum, putFile, QueueAssetProcess, markItem, bumpCounter, storage,
       CountRemaining, FinishRead, FinishWrite, FileRateLimited, FileError, FileCrash
    <3> USE <1>a, <1>b, <3>0 DEF Goto, Settles, Retire, NoWorker, WorkerRow
    <3>1. CASE TakeItem(w)
      BY <3>1 DEF TakeItem
    <3>2. CASE ReadJob(w) \/ MarkDownloading(w) \/ Download(w)
      BY <3>2 DEF ReadJob, MarkDownloading, Download
    <3>3. CASE findByChecksum(w)
      BY <3>3 DEF findByChecksum
    <3>4. CASE putFile(w)
      BY <3>4 DEF putFile
    <3>5. CASE QueueAssetProcess(w)
      BY <3>5 DEF QueueAssetProcess
    <3>6. CASE markItem(w) \/ bumpCounter(w) \/ CountRemaining(w) \/ FinishRead(w) \/ FinishWrite(w)
      BY <3>6 DEF markItem, bumpCounter, CountRemaining, FinishRead, FinishWrite
    <3>7. CASE FileRateLimited(w) \/ FileCrash(w)
      BY <3>7 DEF FileRateLimited, FileCrash
    <3>8. CASE FileError(w)
      BY <3>8 DEF FileError, Synced
    <3> QED BY <2>2, <3>1, <3>2, <3>3, <3>4, <3>5, <3>6, <3>7, <3>8 DEF File, FileInterrupted
  <2> QED BY <2>1, <2>2
<1>2. ASSUME NEW v \in Workers, v # w
      PROVE  /\ worker'[v].pc \in {"dedupe", "put", "create", "process"} =>
                  worker'[v].content = remote[worker'[v].file]
             /\ worker'[v].pc = "process" => asset'[worker'[v].content] # 0
             /\ worker'[v].pc = "settle" /\ worker'[v].outcome \in Synced =>
                  asset'[remote[worker'[v].file]] # 0
  <2>1. Handy(worker[v]) /\ worker'[v] = worker[v]
    BY <1>a, <1>2 DEF Inv, WorkersInv
  <2> QED BY <1>a, <1>2, <2>1 DEF SyncInv, AssetsStay, Handy
<1>3. ASSUME NEW f \in Files
      PROVE  /\ item'[f].checksum \in {Null, remote[f]}
             /\ item'[f].status \in Synced /\ item'[f].checksum # Null => asset'[item'[f].checksum] # 0
  <2>a. /\ item[f].checksum \in {Null, remote[f]} /\ remote[f] \in Contents
        /\ item[f].status \in Synced /\ item[f].checksum # Null => asset'[item[f].checksum] # 0
    BY <1>a DEF SyncInv, SyncedMeansPresent, AssetsStay
  <2>1. CASE MarkDownloading(w)
    <3>1. item'[f].checksum = item[f].checksum
          /\ (item'[f].status = "downloading" \/ item'[f] = item[f])
      BY <1>a, <2>1 DEF MarkDownloading, ItemRow
    <3> QED BY <2>a, <3>1 DEF Synced
  <2>2. CASE FileRateLimited(w)
    <3>1. item'[f].checksum = item[f].checksum
          /\ (item'[f].status = "pending" \/ item'[f] = item[f])
      BY <1>a, <2>2 DEF FileRateLimited, ItemRow
    <3> QED BY <2>a, <3>1 DEF Synced
  <2>3. CASE markItem(w)
    <3>1. item'[f].checksum = item[f].checksum
          /\ ((g.file = f /\ item'[f].status = g.outcome) \/ item'[f] = item[f])
      BY <1>a, <2>3 DEF markItem, ItemRow
    <3>2. g.pc = "settle" /\ asset' = asset
      BY <2>3 DEF markItem, storage
    <3> QED BY <1>b, <2>a, <3>1, <3>2
  <2>4. CASE ~MarkDownloading(w) /\ ~FileRateLimited(w) /\ ~markItem(w)
    <3>1. item' = item
      BY <2>4, Zenon DEF File, FileInterrupted, TakeItem, ReadJob, Download,
       findByChecksum, putFile, createAsset, QueueAssetProcess, bumpCounter,
       CountRemaining, FinishRead, FinishWrite, FileError, FileCrash
    <3> QED BY <2>a, <3>1
  <2> QED BY <2>1, <2>2, <2>3, <2>4
<1>4. ASSUME NEW j \in Imports, NEW f \in Files
      PROVE  /\ lister'[j].checksum[f] \in {Null, remote[f]}
             /\ lister'[j].verdict[f] = "skip" => asset'[remote[f]] # 0
  <2>1. remote[f] \in Contents
    BY <1>a
  <2> QED BY <1>a, <2>1 DEF SyncInv, AssetsStay
<1> QED BY <1>a, <1>1, <1>2, <1>3, <1>4 DEF SyncInv, SyncedMeansPresent

\* Nobody replaces a remote file between its listing and its download.
RemoteStays == "change" \notin Faults

\* Nothing is called synced before the first import.
LEMMA InitSync == Init => SyncInv
BY DEF Init, SyncInv, SyncedMeansPresent, Lister, NoWorker, Synced

\* Every step keeps what is called synced true, while no remote file is replaced.
LEMMA SyncStep ==
    ASSUME RemoteStays, Inv, SyncInv, [Next]_vars
    PROVE  SyncInv'
<1>1. ASSUME NEW f \in Files, RemoteChange(f)
      PROVE  FALSE
  BY <1>1 DEF RemoteChange, Fault, RemoteStays
<1>2. CASE UNCHANGED vars
  BY <1>2 DEF vars, storage, SyncInv, SyncedMeansPresent
<1> QED BY <1>1, <1>2, SyncFolder, SyncFile DEF Next

\* A second import of a folder loses nothing: a file called synced is there, and no
\* retry of a died worker leaves more behind than the fault cost.  A file replaced
\* between listing and download is the one exception (import.service.ts:240-260, 286).
THEOREM ResyncIsSafe ==
    ASSUME RemoteStays
    PROVE  Spec => []ResyncLosesNothing
<1> DEFINE All == Inv /\ Paid /\ SyncInv
<1>1. Init => All
  BY InitInv, InitPaid, InitSync
<1>2. All /\ [Next]_vars => All'
  BY InvStep, PaidStep, SyncStep
<1>3. All => ResyncLosesNothing
  BY PaidIsAccounted DEF StorageAccounted, ResyncLosesNothing, SyncInv
<1> QED BY <1>1, <1>2, <1>3, PTL DEF Spec

-----------------------------------------------------------------------------
(* Done *)

\* One import of the folder, and no process dies in it.
SingleImport ==
    /\ \A i, j \in Imports : i = j
    /\ "folderCrash" \notin Faults /\ "fileCrash" \notin Faults

\* Where a worker holds a file that has not been settled.
InHand == {"job", "mark", "download", "dedupe", "put", "create", "process", "settle"}

\* Until the files are fanned out nobody works on one: each is new or pending, the
\* listing has named those it is past, and counted them.
StillListing(j) ==
    LET l == lister[j]
        named == \A f \in Files \ (l.todo \cup l.page) : item[f].status = "pending"
    IN /\ \A w \in Workers : worker[w].pc = "idle"
       /\ \A f \in Files : queue[f] = 0 /\ item[f].status \in {"none", "pending"}
       /\ job[j].status # "done" /\ job[j].done = 0 /\ job[j].failed = 0
       /\ l.pc # "none" => job[j].status # "none"
       /\ l.pc # "return" /\ l.skipped = 0 /\ \A f \in Files : l.verdict[f] # "skip"
       /\ l.pc = "list" => l.page = {}
       /\ l.pc \in {"list", "upsert"} => named /\ l.listed = Cardinality(Files \ l.todo)
       /\ l.pc \in {"settle", "fanout"} =>
            /\ l.pending = Files /\ l.listed = Cardinality(Files)
            /\ \A f \in Files : item[f].status = "pending"
       /\ l.pc = "fanout" => job[j].total = l.listed /\ job[j].skipped = 0

\* After that a file is with one worker at most, or queued once, until it is settled;
SlotsTrue ==
    /\ \A f \in Files : item[f].status # "none" /\ queue[f] \in {0, 1}
    /\ \A w \in Workers : worker[w].pc \in InHand =>
         item[worker[w].file].status \in Unsettled /\ queue[worker[w].file] = 0
    /\ \A v, w \in Workers : v # w /\ worker[v].pc \in InHand /\ worker[w].pc \in InHand =>
         worker[v].file # worker[w].file

\* it ends only when none is left;
EndTrue(j) ==
    /\ \A w \in Workers : worker[w].pc \in {"read", "flip"} => Remaining(j) = {}
    /\ job[j].status = "done" => Remaining(j) = {}

\* and every file is counted, about to be, or unsettled.
Counted(j) ==
    /\ IsFiniteSet(Uncounted(j))
    /\ job[j].total = job[j].done + job[j].skipped + job[j].failed
                      + Cardinality(Uncounted(j)) + Cardinality(Remaining(j))

FannedOut(j) ==
    /\ lister[j].pc \in {"return", "none"} /\ job[j].status # "none"
    /\ SlotsTrue /\ EndTrue(j) /\ Counted(j)

DoneStrong == \A j \in Imports : StillListing(j) \/ FannedOut(j)
\* Every item there is belongs to the only import.
LEMMA OneImport ==
    ASSUME Inv, SingleImport, NEW j \in Imports
    PROVE  /\ Imports = {j} /\ job[j] \in JobRow /\ lister[j] \in ListerRow
           /\ \A f \in Files : item[f] \in ItemRow /\ (item[f].status # "none" => item[f].job = j)
           /\ \A w \in Workers : worker[w].pc # "idle" => worker[w].job = j /\ worker[w].file \in Files
<1>1. Imports = {j}
  BY DEF SingleImport
<1> QED BY <1>1 DEF Inv, RowsInv, ListersInv, WorkersInv, Handy

\* A listing that ends early or is queued again has named nothing.
LEMMA ListingRests ==
    ASSUME Inv, NEW j \in Imports, StillListing(j), NEW p \in {"queued", "none"}, NEW n,
           lister'[j] = Lister(p, n), UNCHANGED <<item, queue, worker>>,
           job'[j].status \notin {"none", "done"}, job'[j].done = 0, job'[j].failed = 0
    PROVE  StillListing(j)'
BY DEF StillListing, Lister

\* A listing that fails.
LEMMA ListingFails ==
    ASSUME Inv, NEW j \in Imports, StillListing(j), FolderFailed(j), UNCHANGED <<item, queue, worker>>
    PROVE  StillListing(j)'
<1>1. job'[j] = [job[j] EXCEPT !.status = "failed"] /\ job[j] \in JobRow
  BY DEF FolderFailed, Inv, RowsInv
<1>2. \E p \in {"queued", "none"} : \E n : lister'[j] = Lister(p, n)
  BY DEF FolderFailed, Inv, ListersInv
<1>3. job'[j].status = "failed" /\ job'[j].done = 0 /\ job'[j].failed = 0
  BY <1>1 DEF StillListing, JobRow
<1> QED BY <1>2, <1>3, ListingRests

\* A request or a step of the listing before the files are fanned out.
LEMMA ListingGoesOn ==
    ASSUME Inv, SingleImport, NEW j \in Imports, StillListing(j),
           createImport(j) \/ CancelRead(j) \/ CancelWrite(j) \/ Folder(j)
             \/ FolderInterrupted(j) \/ FolderError(j)
    PROVE  StillListing(j)' \/ FannedOut(j)'
<1>a. /\ job \in [Imports -> JobRow] /\ lister \in [Imports -> ListerRow] /\ item \in [Files -> ItemRow]
      /\ queue \in [Files -> Nat] /\ worker' = worker /\ job[j] \in JobRow /\ lister[j] \in ListerRow
  BY FolderLeaves, OneImport DEF Inv, RowsInv, ListersInv
<1>1. CASE createImport(j)
  <2>1. /\ job'[j] = [job[j] EXCEPT !.status = "listing"] /\ lister'[j] = [lister[j] EXCEPT !.pc = "queued"]
        /\ UNCHANGED <<item, queue>>
    BY <1>a, <1>1 DEF createImport
  <2> QED BY <1>a, <2>1 DEF StillListing, JobRow, ListerRow
<1>2. CASE CancelRead(j)
  BY <1>a, <1>2 DEF CancelRead, StillListing
<1>3. CASE CancelWrite(j)
  <2>1. job'[j] = [job[j] EXCEPT !.status = "cancelled"] /\ UNCHANGED <<item, queue, lister>>
    BY <1>a, <1>3 DEF CancelWrite
  <2> QED BY <1>a, <2>1 DEF StillListing, JobRow
<1>4. CASE FolderStart(j)
  <2>1. UNCHANGED <<job, item, queue>> /\ lister[j].pc = "queued"
    BY <1>4 DEF FolderStart
  <2>2. CASE job[j].status = "cancelled"
    <3>1. lister'[j] = Lister("none", lister[j].left)
      BY <1>a, <1>4, <2>2 DEF FolderStart
    <3>2. job'[j].status = "cancelled" /\ job'[j].done = 0 /\ job'[j].failed = 0
      BY <2>1, <2>2 DEF StillListing
    <3> QED BY <1>a, <2>1, <3>1, <3>2, ListingRests
  <2>3. CASE job[j].status # "cancelled"
    <3>1. lister'[j] = [Lister("list", lister[j].left) EXCEPT !.todo = Files]
      BY <1>a, <1>4, <2>3 DEF FolderStart
    <3>2. Files \ Files = {} /\ Cardinality({}) = 0
      BY FS_EmptySet
    <3>3. /\ lister'[j].pc = "list" /\ lister'[j].todo = Files /\ lister'[j].page = {}
          /\ lister'[j].listed = 0 /\ lister'[j].skipped = 0
          /\ \A f \in Files : lister'[j].verdict[f] = "insert"
      BY <3>1 DEF Lister
    <3> QED BY <1>a, <2>1, <3>2, <3>3 DEF StillListing
  <2> QED BY <2>2, <2>3
<1>5. CASE ListPage(j)
  <2>1. UNCHANGED <<job, item, queue>> /\ lister[j].pc = "list" /\ lister[j].page = {}
    BY <1>5 DEF ListPage, StillListing
  <2>2. PICK P \in (SUBSET lister[j].todo) \ {{}} :
          lister' = [lister EXCEPT
           ![j].pc = "upsert", ![j].todo = @ \ P, ![j].page = P,
           ![j].listed = @ + Cardinality(P),
           ![j].verdict = [f \in Files |-> IF f \in P THEN Classify(f) ELSE "insert"],
           ![j].checksum = [f \in Files |-> IF f \in P THEN Reported(f) ELSE Null]]
    BY <1>5, Zenon DEF ListPage
  <2>3. /\ lister'[j].pc = "upsert" /\ lister'[j].todo = lister[j].todo \ P /\ lister'[j].page = P
        /\ lister'[j].listed = lister[j].listed + Cardinality(P) /\ lister'[j].skipped = lister[j].skipped
        /\ lister'[j].verdict = [f \in Files |-> IF f \in P THEN Classify(f) ELSE "insert"]
    BY <1>a, <2>2 DEF ListerRow
  <2>4. \A f \in Files : lister'[j].verdict[f] # "skip"
    BY <2>3 DEF StillListing, Classify, Synced
  <2>5. lister'[j].listed = Cardinality(Files \ lister'[j].todo)
    <3> DEFINE past == Files \ lister[j].todo
    <3>1. IsFiniteSet(past) /\ IsFiniteSet(P) /\ past \cap P = {}
      BY <1>a, FiniteAssumption, FS_Subset DEF ListerRow
    <3>2. Cardinality(past \cup P) = Cardinality(past) + Cardinality(P) - Cardinality(past \cap P)
      BY <3>1, FS_Union
    <3>3. Cardinality(past) \in Nat /\ Cardinality(P) \in Nat /\ Cardinality(past \cap P) = 0
      BY <3>1, FS_CardinalityType, FS_EmptySet
    <3>4. Files \ lister'[j].todo = past \cup P
      BY <1>a, <2>3 DEF ListerRow
    <3>5. lister[j].listed = Cardinality(past)
      BY <2>1 DEF StillListing
    <3> HIDE DEF past
    <3>6. Cardinality(past \cup P) = Cardinality(past) + Cardinality(P)
      BY <3>2, <3>3
    <3>7. lister'[j].listed = Cardinality(past) + Cardinality(P)
      BY <2>3, <3>5
    <3> QED BY <3>4, <3>6, <3>7
  <2>6. \A f \in Files \ (lister'[j].todo \cup lister'[j].page) : item[f].status = "pending"
    BY <2>1, <2>3 DEF StillListing
  <2> QED BY <1>a, <2>1, <2>3, <2>4, <2>5, <2>6 DEF StillListing
<1>6. CASE repointItem(j)
  <2>1. UNCHANGED <<job, queue>> /\ lister[j].pc = "upsert"
    BY <1>6 DEF repointItem
  <2>2. PICK f \in lister[j].page :
          /\ item' = [item EXCEPT
                 ![f] = IF lister[j].verdict[f] = "skip"
                        THEN [@ EXCEPT !.job = j, !.status = "skipped_duplicate"]
                        ELSE [@ EXCEPT !.job = j, !.status = "pending",
                                       !.checksum = lister[j].checksum[f]]]
          /\ lister' = [lister EXCEPT
                 ![j].page = @ \ {f}, ![j].skipped = IF lister[j].verdict[f] = "skip" THEN @ + 1 ELSE @]
    BY <1>6, Zenon DEF repointItem
  <2>3. f \in Files /\ lister[j].verdict[f] # "skip"
    BY <1>a DEF StillListing, ListerRow
  <2>4. \A g \in Files : item'[g].status = IF g = f THEN "pending" ELSE item[g].status
    BY <1>a, <2>2, <2>3 DEF ItemRow
  <2>5. lister'[j] = [lister[j] EXCEPT !.page = @ \ {f}]
    BY <1>a, <2>2, <2>3 DEF ListerRow
  <2> QED BY <1>a, <2>1, <2>4, <2>5 DEF StillListing, ListerRow
<1>7. CASE insertItems(j)
  <2>1. UNCHANGED queue /\ lister[j].pc = "upsert"
    BY <1>7 DEF insertItems
  <2>2. CASE \E f \in lister[j].page : item[f].status # "none"
    BY <1>a, <1>7, <2>1, <2>2, ListingFails DEF insertItems
  <2>3. CASE ~ \E f \in lister[j].page : item[f].status # "none"
    <3>1. /\ lister' = [lister EXCEPT ![j].page = {}, ![j].pc = "list"] /\ UNCHANGED job
          /\ item' = [f \in Files |->
                 IF f \in lister[j].page
                 THEN [status |-> "pending", job |-> j,
                       checksum |-> lister[j].checksum[f], asset |-> Null]
                 ELSE item[f]]
      BY <1>7, <2>3 DEF insertItems
    <3>2. lister'[j] = [lister[j] EXCEPT !.page = {}, !.pc = "list"]
      BY <1>a, <3>1
    <3>3. \A f \in Files : item'[f].status = IF f \in lister[j].page THEN "pending" ELSE item[f].status
      BY <3>1
    <3> QED BY <1>a, <2>1, <3>1, <3>2, <3>3 DEF StillListing, ListerRow
  <2> QED BY <2>2, <2>3
<1>8. CASE pendingItemIds(j)
  <2>1. /\ UNCHANGED <<job, item, queue>> /\ lister[j].pc = "list" /\ lister[j].todo = {} /\ lister[j].page = {}
        /\ lister' = [lister EXCEPT
              ![j].pc = "settle",
              ![j].pending = {f \in Files : item[f].job = j /\ item[f].status = "pending"}]
    BY <1>8 DEF pendingItemIds, StillListing
  <2>2. \A f \in Files : item[f].status = "pending" /\ item[f].job = j
    BY <2>1, OneImport DEF StillListing
  <2>3. lister'[j] = [lister[j] EXCEPT !.pc = "settle", !.pending = Files]
    BY <1>a, <2>1, <2>2
  <2>4. Files \ lister[j].todo = Files
    BY <2>1
  <2> QED BY <1>a, <2>1, <2>2, <2>3, <2>4 DEF StillListing, ListerRow
<1>9. CASE SettleListing(j)
  <2>1. UNCHANGED <<item, queue>> /\ lister[j].pc = "settle" /\ lister[j].pending = Files
    BY <1>9 DEF SettleListing, StillListing
  <2>2. CASE Files # {}
    <3>1. /\ job'[j] = [job[j] EXCEPT !.status = "importing", !.total = lister[j].listed,
                                      !.skipped = lister[j].skipped]
          /\ lister'[j] = [lister[j] EXCEPT !.pc = "fanout"]
      BY <1>a, <1>9, <2>1, <2>2 DEF SettleListing
    <3> QED BY <1>a, <2>1, <3>1 DEF StillListing, JobRow, ListerRow
  <2>3. CASE Files = {}
    <3>1. /\ job'[j] = [job[j] EXCEPT !.status = "done", !.total = lister[j].listed,
                                      !.skipped = lister[j].skipped]
          /\ lister'[j] = Lister("return", lister[j].left)
      BY <1>a, <1>9, <2>1, <2>3 DEF SettleListing
    <3>2. Uncounted(j)' = {} /\ Remaining(j)' = {} /\ IsFiniteSet({}) /\ Cardinality({}) = 0
      BY <1>a, <2>3, FS_EmptySet DEF Uncounted, Remaining, StillListing
    <3>3. /\ lister[j].listed = 0 /\ lister[j].skipped = 0 /\ job[j].done = 0 /\ job[j].failed = 0
      BY <2>1, <2>3, <3>2 DEF StillListing
    <3>4. /\ job'[j].total = 0 /\ job'[j].done = 0 /\ job'[j].skipped = 0 /\ job'[j].failed = 0
          /\ job'[j].status = "done" /\ lister'[j].pc = "return"
      BY <1>a, <3>1, <3>3 DEF JobRow, Lister
    <3>5. SlotsTrue'
      BY <1>a, <2>3 DEF SlotsTrue, StillListing, InHand
    <3>6. Counted(j)' /\ EndTrue(j)'
      BY <3>2, <3>4 DEF Counted, EndTrue
    <3> QED BY <3>4, <3>5, <3>6 DEF FannedOut
  <2> QED BY <2>2, <2>3
<1>10. CASE FanOut(j)
  <2>1. /\ UNCHANGED <<item, job>> /\ lister[j].pc = "fanout" /\ lister[j].pending = Files
        /\ queue' = [f \in Files |-> IF f \in lister[j].pending THEN queue[f] + 1 ELSE queue[f]]
        /\ lister'[j] = Lister("return", lister[j].left)
    BY <1>a, <1>10 DEF FanOut, StillListing
  <2>2. \A f \in Files : item[f].status = "pending" /\ item[f].job = j /\ queue'[f] = 1
    BY <2>1, OneImport DEF StillListing
  <2>3. Uncounted(j)' = {} /\ Remaining(j)' = Files /\ IsFiniteSet({}) /\ Cardinality({}) = 0
    BY <1>a, <2>1, <2>2, FS_EmptySet DEF Uncounted, Remaining, StillListing, Unsettled
  <2>4. /\ job'[j].total = Cardinality(Files) /\ job'[j].done = 0 /\ job'[j].skipped = 0 /\ job'[j].failed = 0
        /\ job'[j].status \notin {"none", "done"} /\ lister'[j].pc = "return"
    BY <2>1 DEF StillListing, Lister
  <2>5. SlotsTrue'
    BY <1>a, <2>1, <2>2 DEF SlotsTrue, StillListing, InHand
  <2>6. Cardinality(Files) \in Nat
    BY FiniteAssumption, FS_CardinalityType
  <2>7. Counted(j)'
    BY <2>3, <2>4, <2>6 DEF Counted
  <2>8. EndTrue(j)'
    BY <1>a, <2>4 DEF EndTrue, StillListing
  <2> QED BY <2>4, <2>5, <2>7, <2>8 DEF FannedOut
<1>11. CASE FolderReturn(j)
  BY <1>11 DEF FolderReturn, StillListing
<1>12. CASE FolderInterrupted(j)
  <2>1. lister'[j] = Lister("queued", lister[j].left) /\ UNCHANGED <<item, queue, job>> /\ lister[j].pc # "none"
    BY <1>a, <1>12 DEF FolderInterrupted
  <2> QED BY <1>a, <2>1, ListingRests DEF StillListing
<1>13. CASE FolderError(j)
  BY <1>a, <1>13, ListingFails DEF FolderError
<1> QED BY <1>1, <1>2, <1>3, <1>4, <1>5, <1>6, <1>7, <1>8, <1>9, <1>10, <1>11, <1>12, <1>13 DEF Folder

\* Once fanned out, the listing is over: only a cancel still changes the import.
LEMMA FannedFolder ==
    ASSUME Inv, SingleImport, NEW j \in Imports, FannedOut(j),
           createImport(j) \/ CancelRead(j) \/ CancelWrite(j) \/ Folder(j)
             \/ FolderInterrupted(j) \/ FolderError(j)
    PROVE  FannedOut(j)'
<1>a. /\ job \in [Imports -> JobRow] /\ lister \in [Imports -> ListerRow]
      /\ worker' = worker /\ job[j] \in JobRow /\ lister[j] \in ListerRow
      /\ lister[j].pc \in {"return", "none"} /\ job[j].status # "none"
  BY FolderLeaves, OneImport DEF Inv, RowsInv, ListersInv, FannedOut
<1>1. UNCHANGED <<item, queue>>
  BY <1>a, Zenon DEF createImport, CancelRead, CancelWrite, Folder, FolderStart, ListPage,
     repointItem, insertItems, pendingItemIds, SettleListing, FanOut, FolderReturn,
     FolderInterrupted, FolderError
<1>2. /\ lister'[j].pc \in {"return", "none"}
      /\ \/ job' = job \/ job'[j] = [job[j] EXCEPT !.status = "cancelled"]
  <2>1. CASE createImport(j) \/ FolderError(j)
    BY <1>a, <2>1 DEF createImport, FolderError
  <2>2. CASE CancelRead(j) \/ CancelWrite(j)
    BY <1>a, <2>2 DEF CancelRead, CancelWrite
  <2>3. CASE FolderReturn(j)
    BY <1>a, <2>3 DEF FolderReturn, Lister
  <2>4. CASE FolderInterrupted(j)
    BY <1>a, <2>4 DEF FolderInterrupted, Fault, SingleImport
  <2>5. CASE FolderStart(j) \/ ListPage(j) \/ repointItem(j) \/ insertItems(j)
             \/ pendingItemIds(j) \/ SettleListing(j) \/ FanOut(j)
    BY <1>a, <2>5 DEF FolderStart, ListPage, repointItem, insertItems, pendingItemIds,
       SettleListing, FanOut
  <2> QED BY <2>1, <2>2, <2>3, <2>4, <2>5 DEF Folder
<1>3. Remaining(j)' = Remaining(j) /\ Uncounted(j)' = Uncounted(j)
  BY <1>a, <1>1 DEF Remaining, Uncounted
<1>4. /\ job'[j].total = job[j].total /\ job'[j].done = job[j].done /\ job'[j].skipped = job[j].skipped
      /\ job'[j].failed = job[j].failed /\ job'[j].status \in {job[j].status, "cancelled"}
  BY <1>a, <1>2 DEF JobRow
<1>5. SlotsTrue'
  BY <1>a, <1>1 DEF FannedOut, SlotsTrue
<1>6. EndTrue(j)' /\ Counted(j)'
  BY <1>a, <1>3, <1>4 DEF FannedOut, EndTrue, Counted
<1> QED BY <1>a, <1>2, <1>4, <1>5, <1>6 DEF FannedOut

\* A worker goes on with its file, or puts it down, and writes nothing.
LEMMA SlotMoves ==
    ASSUME Inv, NEW j \in Imports, FannedOut(j), NEW w \in Workers, NEW h,
           worker' = [worker EXCEPT ![w] = h], UNCHANGED <<lister, job, item, queue>>,
           h.pc \in InHand => worker[w].pc \in InHand /\ h.file = worker[w].file,
           h.pc \in {"read", "flip"} => Remaining(j) = {},
           h.pc # "bump", worker[w].pc # "bump"
    PROVE  FannedOut(j)'
<1>a. worker \in [Workers -> WorkerRow] /\ worker'[w] = h /\ \A v \in Workers \ {w} : worker'[v] = worker[v]
  BY DEF Inv, WorkersInv
<1>1. Remaining(j)' = Remaining(j)
  BY DEF Remaining
<1>2. Uncounted(j)' = Uncounted(j)
  BY <1>a DEF Uncounted
<1>3. SlotsTrue'
  BY <1>a DEF FannedOut, SlotsTrue
<1>4. EndTrue(j)' /\ Counted(j)'
  BY <1>a, <1>1, <1>2 DEF FannedOut, EndTrue, Counted
<1> QED BY <1>3, <1>4 DEF FannedOut

\* A file job after the listing.
LEMMA FannedFile ==
    ASSUME Inv, SingleImport, NEW j \in Imports, FannedOut(j), NEW w \in Workers,
           File(w) \/ FileInterrupted(w)
    PROVE  FannedOut(j)'
<1>a. /\ worker \in [Workers -> WorkerRow] /\ worker[w] \in WorkerRow /\ lister' = lister
      /\ item \in [Files -> ItemRow] /\ queue \in [Files -> Nat] /\ job \in [Imports -> JobRow]
      /\ job[j] \in JobRow
      /\ \A f \in Files : item[f] \in ItemRow /\ item[f].job = j
      /\ worker[w].pc # "idle" => worker[w].job = j /\ worker[w].file \in Files
      /\ SlotsTrue /\ EndTrue(j) /\ Counted(j)
  BY FileLeaves, OneImport DEF Inv, RowsInv, WorkersInv, FannedOut, SlotsTrue
<1>b. NoWorker.pc = "idle"
  BY DEF NoWorker
<1> DEFINE f == worker[w].file
<1>1. CASE TakeItem(w)
  <2>1. PICK g \in Files :
          /\ queue[g] > 0 /\ queue' = [queue EXCEPT ![g] = @ - 1]
          /\ worker' = IF item[g].status = "pending"
                       THEN [worker EXCEPT ![w].pc = "job", ![w].file = g, ![w].job = item[g].job]
                       ELSE worker
    BY <1>1 DEF TakeItem
  <2>2. UNCHANGED <<job, item>> /\ worker[w].pc = "idle"
    BY <1>1 DEF TakeItem
  <2>3. queue[g] = 1 /\ queue'[g] = 0 /\ \A e \in Files \ {g} : queue'[e] = queue[e]
    BY <1>a, <2>1 DEF SlotsTrue
  <2>4. /\ \A v \in Workers \ {w} : worker'[v] = worker[v]
        /\ \/ worker' = worker
           \/ item[g].status = "pending" /\ worker'[w].pc = "job" /\ worker'[w].file = g
    BY <1>a, <2>1 DEF WorkerRow
  <2>5. \A v \in Workers : worker[v].pc \in InHand => worker[v].file # g
    BY <1>a, <2>3 DEF SlotsTrue
  <2>6. SlotsTrue'
    <3>1. \A v \in Workers : worker'[v].pc \in InHand =>
            \/ worker'[v] = worker[v] /\ worker[v].pc \in InHand
            \/ v = w /\ worker'[v].file = g /\ item[g].status = "pending"
      BY <2>4
    <3>2. \A e \in Files : item'[e].status # "none" /\ queue'[e] \in {0, 1}
      BY <1>a, <2>2, <2>3 DEF SlotsTrue
    <3>3. \A v \in Workers : worker'[v].pc \in InHand =>
            item'[worker'[v].file].status \in Unsettled /\ queue'[worker'[v].file] = 0
      <4> SUFFICES ASSUME NEW v \in Workers, worker'[v].pc \in InHand
                   PROVE  item[worker'[v].file].status \in Unsettled /\ queue'[worker'[v].file] = 0
        BY <2>2
      <4>1. CASE worker'[v] = worker[v] /\ worker[v].pc \in InHand
        <5>1. worker[v].file \in Files \ {g}
          BY <2>5, <4>1 DEF Inv, WorkersInv, Handy, InHand
        <5> QED BY <1>a, <2>3, <4>1, <5>1 DEF SlotsTrue
      <4>2. CASE v = w /\ worker'[v].file = g /\ item[g].status = "pending"
        BY <2>3, <4>2 DEF Unsettled
      <4> QED BY <3>1, <4>1, <4>2
    <3>4. \A u, v \in Workers : u # v /\ worker'[u].pc \in InHand /\ worker'[v].pc \in InHand =>
            worker'[u].file # worker'[v].file
      BY <1>a, <2>5, <3>1 DEF SlotsTrue
    <3> QED BY <3>2, <3>3, <3>4 DEF SlotsTrue
  <2>7. Remaining(j)' = Remaining(j)
    BY <2>2 DEF Remaining
  <2>8. Uncounted(j)' = Uncounted(j)
    BY <2>2, <2>4 DEF Uncounted
  <2>9. EndTrue(j)' /\ Counted(j)'
    BY <1>a, <2>2, <2>4, <2>7, <2>8 DEF EndTrue, Counted
  <2> QED BY <1>a, <2>2, <2>6, <2>9 DEF FannedOut
<1>2. CASE ReadJob(w)
  <2>1. \/ worker' = [worker EXCEPT ![w] = NoWorker]
        \/ worker' = [worker EXCEPT ![w] = [worker[w] EXCEPT !.pc = "mark"]]
    BY <1>a, <1>2 DEF ReadJob
  <2>2. UNCHANGED <<lister, job, item, queue>> /\ worker[w].pc = "job"
    BY <1>2 DEF ReadJob
  <2>3. /\ [worker[w] EXCEPT !.pc = "mark"].pc = "mark"
        /\ [worker[w] EXCEPT !.pc = "mark"].file = worker[w].file
    BY <1>a DEF WorkerRow
  <2> QED BY <1>b, <2>1, <2>2, <2>3, SlotMoves DEF InHand
<1>3. CASE Download(w)
  <2> DEFINE h == [worker[w] EXCEPT !.content = remote[worker[w].file], !.pc = "dedupe"]
  <2>1. worker' = [worker EXCEPT ![w] = h] /\ UNCHANGED <<lister, job, item, queue>> /\ worker[w].pc = "download"
    BY <1>a, <1>3 DEF Download
  <2>2. h.pc = "dedupe" /\ h.file = worker[w].file
    BY <1>a DEF WorkerRow
  <2> QED BY <2>1, <2>2, SlotMoves DEF InHand
<1>4. CASE findByChecksum(w) \/ putFile(w) \/ createAsset(w) \/ QueueAssetProcess(w)
  <2>1. UNCHANGED <<lister, job, item, queue>> /\ worker[w].pc \in InHand
    BY <1>4 DEF findByChecksum, putFile, createAsset, QueueAssetProcess, InHand
  <2>2. ASSUME NEW o, worker' = [worker EXCEPT ![w] = [worker[w] EXCEPT !.pc = "settle", !.outcome = o]]
        PROVE  FannedOut(j)'
    <3> DEFINE h == [worker[w] EXCEPT !.pc = "settle", !.outcome = o]
    <3>1. h.pc = "settle" /\ h.file = worker[w].file
      BY <1>a DEF WorkerRow
    <3> QED BY <2>1, <2>2, <3>1, SlotMoves DEF InHand
  <2>3. ASSUME NEW p \in {"put", "process"}, worker' = [worker EXCEPT ![w] = [worker[w] EXCEPT !.pc = p]]
        PROVE  FannedOut(j)'
    <3> DEFINE h == [worker[w] EXCEPT !.pc = p]
    <3>1. h.pc = p /\ h.file = worker[w].file
      BY <1>a DEF WorkerRow
    <3> QED BY <2>1, <2>3, <3>1, SlotMoves DEF InHand
  <2>4. CASE findByChecksum(w)
    <3>1. \/ worker' = [worker EXCEPT ![w] = [worker[w] EXCEPT !.pc = "settle", !.outcome = "skipped_duplicate"]]
          \/ worker' = [worker EXCEPT ![w] = [worker[w] EXCEPT !.pc = "put"]]
      BY <1>a, <2>4 DEF findByChecksum, Settles, Goto
    <3> QED BY <2>2, <2>3, <3>1
  <2>5. CASE putFile(w)
    <3> DEFINE h == [worker[w] EXCEPT !.key = keys + 1, !.pc = "create"]
    <3>1. worker' = [worker EXCEPT ![w] = h]
      BY <1>a, <2>5 DEF putFile
    <3>2. h.pc = "create" /\ h.file = worker[w].file
      BY <1>a DEF WorkerRow
    <3> QED BY <2>1, <3>1, <3>2, SlotMoves DEF InHand
  <2>6. CASE createAsset(w)
    <3>1. \/ worker' = [worker EXCEPT ![w] = [worker[w] EXCEPT !.pc = "settle", !.outcome = "skipped_duplicate"]]
          \/ worker' = [worker EXCEPT ![w] = [worker[w] EXCEPT !.pc = "process"]]
      BY <1>a, <2>6 DEF createAsset, Settles, Goto
    <3> QED BY <2>2, <2>3, <3>1
  <2>7. CASE QueueAssetProcess(w)
    <3>1. worker' = [worker EXCEPT ![w] = [worker[w] EXCEPT !.pc = "settle", !.outcome = "done"]]
      BY <1>a, <2>7 DEF QueueAssetProcess, Settles
    <3> QED BY <2>2, <3>1
  <2> QED BY <1>4, <2>4, <2>5, <2>6, <2>7
<1>5. CASE FileError(w)
  <2> DEFINE h == [worker[w] EXCEPT !.pc = "settle", !.outcome = "failed"]
  <2>1. /\ worker' = [worker EXCEPT ![w] = h] /\ UNCHANGED <<lister, job, item, queue>>
        /\ worker[w].pc \in InHand
    BY <1>a, <1>5 DEF FileError, Settles, InHand
  <2>2. h.pc = "settle" /\ h.file = worker[w].file
    BY <1>a DEF WorkerRow
  <2> QED BY <2>1, <2>2, SlotMoves DEF InHand
<1>6. CASE MarkDownloading(w)
  <2>1. /\ item' = [item EXCEPT ![f].status = "downloading"] /\ UNCHANGED <<job, queue>>
        /\ worker' = [worker EXCEPT ![w] = [worker[w] EXCEPT !.pc = "download"]]
        /\ worker[w].pc = "mark" /\ f \in Files
    BY <1>a, <1>6 DEF MarkDownloading, Goto
  <2>2. item[f].status \in Unsettled /\ item'[f].status = "downloading" /\ item'[f].job = j
    BY <1>a, <2>1 DEF SlotsTrue, InHand, ItemRow
  <2>3. \A e \in Files \ {f} : item'[e] = item[e]
    BY <1>a, <2>1
  <2>4. /\ worker'[w].pc = "download" /\ worker'[w].file = f
        /\ \A v \in Workers \ {w} : worker'[v] = worker[v]
    BY <1>a, <2>1 DEF WorkerRow
  <2> HIDE DEF f
  <2>5. Remaining(j)' = Remaining(j)
    BY <1>a, <2>1, <2>2, <2>3 DEF Remaining, Unsettled
  <2>6. Uncounted(j)' = Uncounted(j)
    BY <2>1, <2>4 DEF Uncounted
  <2>7. SlotsTrue'
    BY <1>a, <2>1, <2>2, <2>3, <2>4 DEF SlotsTrue, InHand, Unsettled, f
  <2>8. EndTrue(j)' /\ Counted(j)'
    BY <1>a, <2>1, <2>4, <2>5, <2>6 DEF EndTrue, Counted
  <2> QED BY <1>a, <2>1, <2>7, <2>8 DEF FannedOut
<1>7. CASE markItem(w)
  <2>1. /\ item' = [item EXCEPT ![f].status = worker[w].outcome,
                                ![f].asset = IF worker[w].outcome = "failed" THEN @ ELSE worker[w].content]
        /\ UNCHANGED <<job, queue>>
        /\ worker' = [worker EXCEPT ![w] = [worker[w] EXCEPT !.pc = "bump"]]
        /\ worker[w].pc = "settle" /\ f \in Files
    BY <1>a, <1>7 DEF markItem, Goto
  <2>2. worker[w].outcome \in {"done", "skipped_duplicate", "failed"}
    BY <1>a, <2>1 DEF Inv, WorkersInv, Handy, WorkerRow
  <2>3. /\ item[f].status \in Unsettled /\ item'[f].status = worker[w].outcome
        /\ \A e \in Files \ {f} : item'[e] = item[e]
    BY <1>a, <2>1 DEF SlotsTrue, InHand, ItemRow
  <2>4. /\ worker'[w].pc = "bump" /\ worker'[w].file = f /\ worker'[w].job = j
        /\ \A v \in Workers \ {w} : worker'[v] = worker[v]
    BY <1>a, <2>1 DEF WorkerRow
  <2>5. \A v \in Workers \ {w} : worker[v].pc \in InHand => worker[v].file # f
    BY <1>a, <2>1 DEF SlotsTrue, InHand
  <2> HIDE DEF f
  <2>6. Remaining(j)' = Remaining(j) \ {f} /\ f \in Remaining(j)
    BY <1>a, <2>1, <2>2, <2>3 DEF Remaining, Unsettled
  <2>7. Uncounted(j)' = Uncounted(j) \cup {w} /\ w \notin Uncounted(j)
    BY <2>1, <2>4 DEF Uncounted
  <2>8. SlotsTrue'
    <3>1. \A v \in Workers : worker'[v].pc \in InHand =>
            worker'[v] = worker[v] /\ worker[v].pc \in InHand /\ worker[v].file \in Files \ {f}
      BY <2>4, <2>5 DEF InHand, Inv, WorkersInv, Handy
    <3>2. \A e \in Files : item'[e].status # "none"
      BY <1>a, <2>2, <2>3 DEF SlotsTrue
    <3> QED BY <1>a, <2>1, <2>3, <3>1, <3>2 DEF SlotsTrue
  <2>9. EndTrue(j)'
    BY <1>a, <2>1, <2>4, <2>6 DEF EndTrue
  <2>10. Counted(j)'
    <3>1. IsFiniteSet(Remaining(j)) /\ Cardinality(Remaining(j)) \in Nat
      BY FiniteAssumption, FS_Subset, FS_CardinalityType DEF Remaining
    <3>2. Cardinality(Remaining(j)') = Cardinality(Remaining(j)) - 1
      BY <2>6, <3>1, FS_RemoveElement
    <3>3. IsFiniteSet(Uncounted(j)') /\ Cardinality(Uncounted(j)') = Cardinality(Uncounted(j)) + 1
      BY <1>a, <2>7, FS_AddElement DEF Counted
    <3>4. Cardinality(Uncounted(j)) \in Nat
      BY <1>a, FS_CardinalityType DEF Counted
    <3>5. job[j].done + job[j].skipped + job[j].failed \in Nat
      BY <1>a DEF JobRow
    <3> QED BY <1>a, <2>1, <3>1, <3>2, <3>3, <3>4, <3>5 DEF Counted
  <2> QED BY <1>a, <2>1, <2>8, <2>9, <2>10 DEF FannedOut
<1>8. CASE bumpCounter(w)
  <2>1. /\ UNCHANGED <<item, queue>> /\ worker[w].pc = "bump" /\ worker[w].job = j
        /\ worker' = [worker EXCEPT ![w] = [worker[w] EXCEPT !.pc = "count"]]
    BY <1>a, <1>8 DEF bumpCounter, Goto
  <2>2. worker[w].outcome \in {"done", "skipped_duplicate", "failed"}
    BY <1>a, <2>1 DEF Inv, WorkersInv, Handy, WorkerRow
  <2>3. \/ job'[j] = [job[j] EXCEPT !.done = @ + 1]
        \/ job'[j] = [job[j] EXCEPT !.failed = @ + 1]
        \/ job'[j] = [job[j] EXCEPT !.skipped = @ + 1]
    <3>1. CASE worker[w].outcome = "done"
      BY <1>a, <1>8, <2>1, <3>1 DEF bumpCounter
    <3>2. CASE worker[w].outcome = "failed"
      BY <1>a, <1>8, <2>1, <3>2 DEF bumpCounter
    <3>3. CASE worker[w].outcome = "skipped_duplicate"
      BY <1>a, <1>8, <2>1, <3>3 DEF bumpCounter
    <3> QED BY <2>2, <3>1, <3>2, <3>3
  <2>4. /\ job'[j].total = job[j].total /\ job'[j].status = job[j].status
        /\ job'[j].done + job'[j].skipped + job'[j].failed = job[j].done + job[j].skipped + job[j].failed + 1
        /\ job[j].done + job[j].skipped + job[j].failed \in Nat
    BY <1>a, <2>3 DEF JobRow
  <2>5. worker'[w].pc = "count" /\ \A v \in Workers \ {w} : worker'[v] = worker[v]
    BY <1>a, <2>1 DEF WorkerRow
  <2>6. Remaining(j)' = Remaining(j)
    BY <2>1 DEF Remaining
  <2>7. Uncounted(j)' = Uncounted(j) \ {w} /\ w \in Uncounted(j)
    BY <2>1, <2>5 DEF Uncounted
  <2>8. SlotsTrue'
    BY <1>a, <2>1, <2>5 DEF SlotsTrue, InHand
  <2>9. EndTrue(j)'
    BY <1>a, <2>4, <2>5, <2>6 DEF EndTrue
  <2>10. Counted(j)'
    <3>1. /\ IsFiniteSet(Uncounted(j)') /\ Cardinality(Uncounted(j)') = Cardinality(Uncounted(j)) - 1
          /\ Cardinality(Uncounted(j)) \in Nat
      BY <1>a, <2>7, FS_RemoveElement, FS_CardinalityType DEF Counted
    <3>2. Cardinality(Remaining(j)) \in Nat
      BY FiniteAssumption, FS_Subset, FS_CardinalityType DEF Remaining
    <3> QED BY <1>a, <2>4, <2>6, <3>1, <3>2 DEF Counted
  <2> QED BY <1>a, <2>4, <2>8, <2>9, <2>10 DEF FannedOut
<1>9. CASE CountRemaining(w) \/ FinishRead(w)
  <2>1. UNCHANGED <<lister, job, item, queue>> /\ worker[w].pc \in {"count", "read"}
    BY <1>9 DEF CountRemaining, FinishRead
  <2>2. \/ worker' = [worker EXCEPT ![w] = NoWorker]
        \/ /\ Remaining(j) = {}
           /\ \E p \in {"read", "flip"} : worker' = [worker EXCEPT ![w] = [worker[w] EXCEPT !.pc = p]]
    <3>1. CASE CountRemaining(w)
      BY <1>a, <3>1 DEF CountRemaining, Goto, Retire
    <3>2. CASE FinishRead(w)
      BY <1>a, <3>2 DEF FinishRead, Goto, Retire, EndTrue
    <3> QED BY <1>9, <3>1, <3>2
  <2>3. \A p \in {"read", "flip"} : [worker[w] EXCEPT !.pc = p].pc = p
    BY <1>a DEF WorkerRow
  <2> QED BY <1>b, <2>1, <2>2, <2>3, SlotMoves DEF InHand
<1>10. CASE FinishWrite(w)
  <2>1. /\ UNCHANGED <<item, queue>> /\ worker[w].pc = "flip" /\ worker' = [worker EXCEPT ![w] = NoWorker]
        /\ job'[j] = [job[j] EXCEPT !.status = "done"]
    BY <1>a, <1>10 DEF FinishWrite, Retire
  <2>2. worker'[w].pc = "idle" /\ \A v \in Workers \ {w} : worker'[v] = worker[v]
    BY <1>a, <1>b, <2>1
  <2>3. /\ job'[j].total = job[j].total /\ job'[j].done = job[j].done /\ job'[j].skipped = job[j].skipped
        /\ job'[j].failed = job[j].failed /\ job'[j].status = "done"
    BY <1>a, <2>1 DEF JobRow
  <2>4. Remaining(j)' = Remaining(j) /\ Remaining(j) = {}
    BY <1>a, <2>1 DEF Remaining, EndTrue
  <2>5. Uncounted(j)' = Uncounted(j)
    BY <2>1, <2>2 DEF Uncounted
  <2>6. SlotsTrue'
    BY <1>a, <2>1, <2>2 DEF SlotsTrue, InHand
  <2>7. EndTrue(j)' /\ Counted(j)'
    BY <1>a, <2>3, <2>4, <2>5 DEF EndTrue, Counted
  <2> QED BY <1>a, <2>3, <2>6, <2>7 DEF FannedOut
<1>11. CASE FileRateLimited(w)
  <2>1. /\ item' = [item EXCEPT ![f].status = "pending"] /\ queue' = [queue EXCEPT ![f] = @ + 1]
        /\ UNCHANGED job /\ worker' = [worker EXCEPT ![w] = NoWorker]
        /\ worker[w].pc = "download" /\ f \in Files
    BY <1>a, <1>11 DEF FileRateLimited, Retire
  <2>2. item[f].status \in Unsettled /\ item'[f].status = "pending" /\ item'[f].job = j /\ queue'[f] = 1
    BY <1>a, <2>1 DEF SlotsTrue, InHand, ItemRow
  <2>3. \A e \in Files \ {f} : item'[e] = item[e] /\ queue'[e] = queue[e]
    BY <1>a, <2>1
  <2>4. worker'[w].pc = "idle" /\ \A v \in Workers \ {w} : worker'[v] = worker[v]
    BY <1>a, <1>b, <2>1
  <2>5. \A v \in Workers \ {w} : worker[v].pc \in InHand => worker[v].file # f
    BY <1>a, <2>1 DEF SlotsTrue, InHand
  <2> HIDE DEF f
  <2>6. Remaining(j)' = Remaining(j)
    BY <1>a, <2>1, <2>2, <2>3 DEF Remaining, Unsettled
  <2>7. Uncounted(j)' = Uncounted(j)
    BY <2>1, <2>4 DEF Uncounted
  <2>8. SlotsTrue'
    BY <1>a, <2>1, <2>2, <2>3, <2>4, <2>5 DEF SlotsTrue, InHand
  <2>9. EndTrue(j)' /\ Counted(j)'
    BY <1>a, <2>1, <2>4, <2>6, <2>7 DEF EndTrue, Counted
  <2> QED BY <1>a, <2>1, <2>8, <2>9 DEF FannedOut
<1>12. CASE FileCrash(w)
  BY <1>12 DEF FileCrash, Fault, SingleImport
<1> QED BY <1>1, <1>2, <1>3, <1>4, <1>5, <1>6, <1>7, <1>8, <1>9, <1>10, <1>11, <1>12 DEF File, FileInterrupted

\* No file job runs before the listing is over.
LEMMA NoneYet ==
    ASSUME Inv, NEW j \in Imports, StillListing(j), NEW w \in Workers, File(w) \/ FileInterrupted(w)
    PROVE  FALSE
<1>1. worker[w].pc = "idle" /\ \A f \in Files : ~ (queue[f] > 0)
  BY DEF StillListing
<1> QED BY <1>1 DEF File, FileInterrupted, TakeItem, ReadJob, MarkDownloading, Download,
   findByChecksum, putFile, createAsset, QueueAssetProcess, markItem, bumpCounter,
   CountRemaining, FinishRead, FinishWrite

\* Every step keeps it.
LEMMA DoneStep ==
    ASSUME Inv, SingleImport, DoneStrong, [Next]_vars
    PROVE  DoneStrong'
<1> SUFFICES ASSUME NEW j \in Imports PROVE StillListing(j)' \/ FannedOut(j)'
  BY DEF DoneStrong
<1>0. StillListing(j) \/ FannedOut(j)
  BY DEF DoneStrong
<1>1. ASSUME NEW i \in Imports,
             createImport(i) \/ CancelRead(i) \/ CancelWrite(i) \/ Folder(i)
               \/ FolderInterrupted(i) \/ FolderError(i)
      PROVE  StillListing(j)' \/ FannedOut(j)'
  <2>1. i = j
    BY DEF SingleImport
  <2> QED BY <1>0, <1>1, <2>1, ListingGoesOn, FannedFolder
<1>2. ASSUME NEW w \in Workers, File(w) \/ FileInterrupted(w)
      PROVE  FannedOut(j)'
  BY <1>0, <1>2, NoneYet, FannedFile
<1>3. ASSUME UNCHANGED <<job, item, lister, queue, worker>>
      PROVE  StillListing(j)' \/ FannedOut(j)'
  <2>1. StillListing(j) => StillListing(j)'
    BY <1>3 DEF StillListing
  <2>2. Remaining(j)' = Remaining(j) /\ Uncounted(j)' = Uncounted(j) /\ (SlotsTrue => SlotsTrue')
    BY <1>3 DEF Remaining, Uncounted, SlotsTrue
  <2>3. FannedOut(j) => FannedOut(j)'
    BY <1>3, <2>2 DEF FannedOut, EndTrue, Counted
  <2> QED BY <1>0, <2>1, <2>3
<1>4. ASSUME NEW f \in Files, RemoteChange(f)
      PROVE  UNCHANGED <<job, item, lister, queue, worker>>
  BY <1>4 DEF RemoteChange
<1>5. UNCHANGED vars => UNCHANGED <<job, item, lister, queue, worker>>
  BY DEF vars
<1> QED BY <1>1, <1>2, <1>3, <1>4, <1>5 DEF Next

\* It is what the run checks.
LEMMA DoneHolds ==
    ASSUME Inv, DoneStrong
    PROVE  DoneIsTrue
<1>1. ASSUME NEW j \in Imports, job[j].status = "done"
      PROVE  /\ Remaining(j) = {}
             /\ job[j].total = job[j].done + job[j].skipped + job[j].failed + Cardinality(Uncounted(j))
  <2>1. FannedOut(j)
    BY <1>1 DEF DoneStrong, StillListing
  <2>2. Remaining(j) = {} /\ Cardinality({}) = 0
    BY <1>1, <2>1, FS_EmptySet DEF FannedOut, EndTrue
  <2>3. Cardinality(Uncounted(j)) \in Nat /\ job[j] \in JobRow
    BY <2>1, FS_CardinalityType DEF FannedOut, Counted, Inv, RowsInv
  <2> QED BY <2>1, <2>2, <2>3 DEF FannedOut, Counted, JobRow
<1> QED BY <1>1, InvTypes DEF DoneIsTrue, DoneMeansSettled, CountsAddUp

\* An import shown as done has nothing pending or downloading, and its counters account
\* for each file it listed once, but for increments under way, however rate limits,
\* errors, retried listings and a cancel interleave (import.service.ts:359-368).
THEOREM DoneIsTold ==
    ASSUME SingleImport
    PROVE  Spec => []DoneIsTrue
<1>1. Init => DoneStrong
  BY DEF Init, DoneStrong, StillListing, Lister, NoWorker
<1> DEFINE All == Inv /\ DoneStrong
<1>2. Init => All
  BY <1>1, InitInv
<1>3. All /\ [Next]_vars => All'
  BY InvStep, DoneStep
<1>4. All => DoneIsTrue
  BY DoneHolds
<1> QED BY <1>2, <1>3, <1>4, PTL DEF Spec
=============================================================================
