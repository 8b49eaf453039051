--------------------------- MODULE Library_proofs ---------------------------
(***************************************************************************)
(* Bucket, rows and quota agree for any number of uploads, handlers,       *)
(* deletions, re-runs and faults.  Every file is uploaded once, which is   *)
(* why the invariant can speak of one file at a time: what a step does to  *)
(* one it does not undo for another, and only the quota counts them.       *)
(* And the crop of a photo stays inside its frame.                         *)
(***************************************************************************)
EXTENDS Library, CropBox, FiniteSetTheorems, TLAPS

Original(u) == <<u, "original">>
Derived(u) == <<u, "derived">>
IsLive(u) == asset[u] \in {"stored", "processed", "failed"}
Removed(u) == asset[u] \in {"deleted", "gone"}

\* What holds of one file's request, row and objects.
RowTrue(u) ==
    /\ request[u] # "none" => item[u] = "uploading"
    /\ asset[u] # "none" => request[u] = "none" /\ item[u] \in {"done", "error"}
    /\ event # "live" => ~ Exists(u)
    /\ Original(u) \in cleanup \/ Derived(u) \in cleanup => Removed(u)
    /\ event = "live" /\ request[u] = "put" => Original(u) \in objects \/ u \in wiped
    /\ IsLive(u) => Original(u) \in objects \/ u \in wiped
    /\ asset[u] = "processed" => (Derived(u) \in objects \/ u \in wiped) /\ u \in files

\* A handler works on an asset whose row is there, and that the grace period still covers.
WorkTrue(w) ==
    worker[w].pc # "idle" =>
        /\ worker[w].asset \in Uploads
        /\ event = "live" => Exists(worker[w].asset) /\ worker[w].asset \notin aged
        /\ worker[w].pc = "record" /\ IsLive(worker[w].asset) =>
             Derived(worker[w].asset) \in objects \/ worker[w].asset \in wiped

Recording(u) == \E w \in Slots : worker[w].pc = "record" /\ worker[w].asset = u

\* What every object of a file is there for, as long as nothing has failed.
KeptFor(u) ==
    event = "live" /\ credit = MaxFaults =>
        /\ Original(u) \in objects => Exists(u) \/ request[u] = "put" \/ Original(u) \in cleanup
        /\ Derived(u) \in objects => u \in files \/ Derived(u) \in cleanup \/ Recording(u)

PeakTrue == Cardinality(InFlight) <= peak

LibraryStrong ==
    /\ TypeOK
    /\ \A u \in Uploads : RowTrue(u) /\ KeptFor(u)
    /\ \A w \in Slots : WorkTrue(w)
    /\ PeakTrue /\ OverrunBounded

Settled == TypeOK /\ (\A u \in Uploads : RowTrue(u) /\ KeptFor(u)) /\ \A w \in Slots : WorkTrue(w)

\* The assets of the quota query are the live ones.
LEMMA LiveIsLive == LiveAssets = {u \in Uploads : IsLive(u)}
BY DEF LiveAssets, IsLive

\* The two keys of a file differ, and from those of any other.
LEMMA KeysApart ==
    ASSUME NEW u, NEW v
    PROVE  Original(u) # Derived(v) /\ (Original(u) = Original(v) => u = v)
           /\ (Derived(u) = Derived(v) => u = v)
BY DEF Original, Derived

-----------------------------------------------------------------------------
(* Requests *)

\* What a request does to the one file it uploads: it puts its object, then writes its row,
\* and a row is written at most once.
LEMMA UploadStays ==
    ASSUME Settled, NEW u \in Uploads,
           NEW i \in {"pending", "hashing", "uploading", "done", "duplicate", "error"},
           NEW q \in {"none", "sent", "staged", "admitted", "put"},
           NEW a \in {"none", "stored"},
           asset[u] = "none",
           item' = [item EXCEPT ![u] = i],
           request' = [request EXCEPT ![u] = q],
           asset' = [asset EXCEPT ![u] = a],
           q # "none" => i = "uploading" /\ a = "none",
           a = "stored" => event = "live" /\ request[u] = "put" /\ i \in {"done", "error"}
                           /\ objects' = objects,
           objects' \in SUBSET (Uploads \X Kinds),
           \A k : k # Original(u) => (k \in objects' <=> k \in objects),
           q = "put" => Original(u) \in objects',
           event = "live" /\ credit' = MaxFaults /\ Original(u) \in objects' =>
               a = "stored" \/ q = "put" \/ (Original(u) \in objects /\ request[u] # "put"),
           credit' \in 0..MaxFaults, credit' <= credit,
           staging' \subseteq Uploads, jobs' \subseteq Uploads, peak' \in Nat,
           UNCHANGED <<files, worker, workDir, removal, reruns>>
    PROVE  Settled'
<1> USE DEF Settled
<1>u. UNCHANGED <<files, worker, workDir, deleting, cleanup, aged, event, deletes, purged, wiped, reruns>>
  BY DEF removal
<1>t. TypeOK /\ RowTrue(u) /\ KeptFor(u)
  OBVIOUS
<1>1. /\ item'[u] = i /\ request'[u] = q /\ asset'[u] = a
      /\ \A v \in Uploads \ {u} : item'[v] = item[v] /\ request'[v] = request[v] /\ asset'[v] = asset[v]
  BY <1>t DEF TypeOK
<1>2. TypeOK'
  <2>1. \A v \in Uploads : Exists(v) => Exists(v)'
    BY <1>1 DEF Exists, LiveAssets
  <2>2. files' \subseteq {v \in Uploads : Exists(v)'}
    BY <1>t, <1>u, <2>1 DEF TypeOK
  <2>3. deleting' \cup aged' \subseteq {v \in Uploads : asset'[v] \in {"deleted", "gone"}}
    BY <1>t, <1>u, <1>1 DEF TypeOK
  <2> QED BY <1>t, <1>u, <2>2, <2>3 DEF TypeOK
<1>3. RowTrue(u)'
  <2>1. ~ Exists(u) /\ Original(u) \notin cleanup /\ Derived(u) \notin cleanup
    BY <1>t DEF RowTrue, Exists, LiveAssets, Removed
  <2>2. Exists(u)' => a = "stored"
    BY <1>1 DEF Exists, LiveAssets
  <2>3. a = "stored" => Original(u) \in objects' \/ u \in wiped
    BY <1>t DEF RowTrue
  <2> QED BY <1>1, <1>u, <2>1, <2>2, <2>3 DEF RowTrue, IsLive, Removed
<1>4. KeptFor(u)'
  <2>1. a = "stored" => Exists(u)'
    BY <1>1 DEF Exists, LiveAssets
  <2>2. ~ Exists(u)
    BY <1>t DEF RowTrue, Exists, LiveAssets
  <2>3. credit' = MaxFaults => credit = MaxFaults
    BY <1>t, LibraryAssumption DEF TypeOK
  <2>4. Derived(u) \in objects' <=> Derived(u) \in objects
    BY KeysApart
  <2>5. Recording(u)' <=> Recording(u)
    BY <1>u DEF Recording
  <2> QED BY <1>t, <1>u, <1>1, <2>1, <2>2, <2>3, <2>4, <2>5 DEF KeptFor
<1>5. ASSUME NEW v \in Uploads \ {u}
      PROVE  RowTrue(v)' /\ KeptFor(v)'
  <2>1. /\ Original(v) \in objects' <=> Original(v) \in objects
        /\ Derived(v) \in objects' <=> Derived(v) \in objects
    BY KeysApart
  <2>2. Exists(v)' <=> Exists(v)
    BY <1>1 DEF Exists, LiveAssets
  <2>3. credit' = MaxFaults => credit = MaxFaults
    BY <1>t, LibraryAssumption DEF TypeOK
  <2>4. Recording(v)' <=> Recording(v)
    BY <1>u DEF Recording
  <2>5. RowTrue(v)'
    BY <1>1, <1>u, <2>1, <2>2 DEF RowTrue, IsLive, Removed
  <2> QED BY <1>1, <1>u, <2>1, <2>2, <2>3, <2>4, <2>5 DEF KeptFor
<1>6. ASSUME NEW w \in Slots
      PROVE  WorkTrue(w)'
  <2>1. SUFFICES ASSUME worker[w].pc # "idle"
                 PROVE  LET v == worker[w].asset
                        IN /\ v \in Uploads
                           /\ event = "live" => Exists(v)' /\ v \notin aged
                           /\ worker[w].pc = "record" /\ IsLive(v)' => Derived(v) \in objects' \/ v \in wiped
    BY <1>u DEF WorkTrue
  <2> DEFINE v == worker[w].asset
  <2>2. /\ v \in Uploads /\ (event = "live" => Exists(v) /\ v \notin aged)
        /\ worker[w].pc = "record" /\ IsLive(v) => Derived(v) \in objects \/ v \in wiped
    BY <2>1 DEF WorkTrue
  <2>3. Derived(v) \in objects' <=> Derived(v) \in objects
    BY KeysApart
  <2>4. CASE v = u
    <3>1. event # "live"
      BY <2>2, <2>4 DEF Exists, LiveAssets
    <3>2. a = "none"
      BY <3>1
    <3> QED BY <1>1, <2>2, <2>4, <3>1, <3>2 DEF IsLive
  <2>5. CASE v # u
    BY <1>1, <2>2, <2>3, <2>5 DEF IsLive, Exists, LiveAssets
  <2> QED BY <2>4, <2>5
<1> QED BY <1>2, <1>3, <1>4, <1>5, <1>6

Requests(u) ==
    enqueue(u) \/ bulkUploadCheck(u) \/ handleFile(u) \/ admit(u) \/ putFile(u) \/ create(u)

\* A file that a request or the queue is at work on has no row yet.
LEMMA UnderWay ==
    ASSUME Settled, NEW u \in Uploads, item[u] \in {"pending", "hashing", "uploading"} \/ request[u] # "none"
    PROVE  asset[u] = "none" /\ (request[u] # "none" => item[u] = "uploading")
BY DEF Settled, RowTrue

\* An upload's steps keep each file's part of the invariant (upload.service.ts:57-96).
LEMMA RequestStep ==
    ASSUME Settled, NEW u \in Uploads, Requests(u),
           UNCHANGED <<files, worker, workDir, removal, reruns, credit>>
    PROVE  Settled'
<1>t. TypeOK
  BY DEF Settled
<1>a. /\ item \in [Uploads -> {"pending", "hashing", "uploading", "done", "duplicate", "error"}]
      /\ request \in [Uploads -> {"none", "sent", "staged", "admitted", "put"}]
      /\ asset = [asset EXCEPT ![u] = asset[u]] /\ request = [request EXCEPT ![u] = request[u]]
      /\ item = [item EXCEPT ![u] = item[u]]
      /\ staging \subseteq Uploads /\ jobs \subseteq Uploads /\ objects \subseteq Uploads \X Kinds
      /\ credit \in 0..MaxFaults /\ credit' = credit /\ credit <= credit
  BY <1>t DEF TypeOK
<1>p. peak' \in Nat
  <2>1. peak \in Nat
    BY <1>t DEF TypeOK
  <2>2. IsFiniteSet(InFlight') /\ Cardinality(InFlight') \in Nat
    BY LibraryAssumption, FS_Subset, FS_CardinalityType DEF InFlight
  <2> QED BY <2>1, <2>2 DEF Requests, enqueue, bulkUploadCheck, handleFile, admit, putFile, create
<1>b. asset[u] = "none" /\ (request[u] # "none" => item[u] = "uploading")
  BY UnderWay DEF Requests, enqueue, bulkUploadCheck, handleFile, admit, putFile, create
<1>c. Original(u) \in Uploads \X Kinds
  BY DEF Original, Kinds
<1> DEFINE goes(x, q, o) ==
             /\ item' = [item EXCEPT ![u] = x] /\ request' = [request EXCEPT ![u] = q] /\ objects' = o
             /\ UNCHANGED asset /\ staging' \subseteq Uploads /\ jobs' = jobs
<1>1. ASSUME NEW x \in {"pending", "hashing", "uploading", "done", "duplicate", "error"},
             NEW q \in {"none", "sent", "staged", "admitted"},
             goes(x, q, objects), q # "none" => x = "uploading", request[u] # "put" \/ event # "live"
      PROVE  Settled'
  <2>1. asset' = [asset EXCEPT ![u] = "none"] /\ objects' \in SUBSET (Uploads \X Kinds)
    BY <1>a, <1>b, <1>1
  <2> QED BY <1>a, <1>b, <1>1, <2>1, <1>p, UploadStays
<1>2. CASE enqueue(u)
  <2>1. item[u] = "pending" /\ request[u] = "none"
    BY <1>2, <1>a, <1>b DEF enqueue
  <2>2. goes("hashing", "none", objects)
    BY <1>2, <1>a, <2>1 DEF enqueue
  <2> QED BY <1>1, <2>1, <2>2
<1>3. CASE bulkUploadCheck(u)
  <2>1. item[u] = "hashing" /\ request[u] = "none"
    BY <1>3, <1>a, <1>b DEF bulkUploadCheck
  <2>2. goes("duplicate", "none", objects) \/ goes("uploading", "sent", objects)
    BY <1>3, <1>a, <2>1 DEF bulkUploadCheck
  <2> QED BY <1>1, <2>1, <2>2
<1>4. CASE handleFile(u)
  <2>1. request[u] = "sent" /\ item[u] = "uploading"
    BY <1>4, <1>b DEF handleFile
  <2>2. goes("uploading", "staged", objects)
    BY <1>4, <1>a, <2>1 DEF handleFile
  <2> QED BY <1>1, <2>1, <2>2
<1>5. CASE admit(u)
  <2>1. request[u] = "staged" /\ item[u] = "uploading"
    BY <1>5, <1>b DEF admit
  <2>2. goes("uploading", "admitted", objects) \/ goes("duplicate", "none", objects)
        \/ goes("error", "none", objects)
    BY <1>5, <1>a, <2>1 DEF admit, Settle
  <2> QED BY <1>1, <2>1, <2>2
<1>6. CASE putFile(u)
  <2>1. request[u] = "admitted" /\ item[u] = "uploading"
    BY <1>6, <1>b DEF putFile
  <2>2. goes("uploading", "put", objects \cup {Original(u)})
    BY <1>6, <1>a, <2>1 DEF putFile, Original
  <2>3. asset' = [asset EXCEPT ![u] = "none"]
    BY <1>a, <1>b, <2>2
  <2>4. /\ objects' \in SUBSET (Uploads \X Kinds) /\ Original(u) \in objects'
        /\ \A k : k # Original(u) => (k \in objects' <=> k \in objects)
    BY <1>a, <1>c, <2>2
  <2> QED BY <1>a, <1>b, <2>2, <2>3, <2>4, <1>p, UploadStays
<1>7. CASE create(u)
  <2>1. request[u] = "put" /\ item[u] = "uploading"
    BY <1>7, <1>b DEF create
  <2>2. CASE event = "live" /\ findByChecksum(u) = {}
    <3>1. /\ event = "live" /\ asset' = [asset EXCEPT ![u] = "stored"] /\ objects' = objects
          /\ item' = [item EXCEPT ![u] = "done"] /\ request' = [request EXCEPT ![u] = "none"]
          /\ jobs' \subseteq Uploads /\ staging' \subseteq Uploads
      BY <1>7, <1>a, <2>2 DEF create, Settle
    <3>2. objects' \in SUBSET (Uploads \X Kinds)
      BY <1>a, <3>1
    <3> QED BY <1>a, <1>b, <2>1, <3>1, <3>2, <1>p, UploadStays
  <2>3. CASE event = "live" /\ findByChecksum(u) # {}
    <3>1. goes("duplicate", "none", objects \ {Original(u)})
      BY <1>7, <1>a, <2>3 DEF create, Settle, Original
    <3>2. asset' = [asset EXCEPT ![u] = "none"]
      BY <1>a, <1>b, <3>1
    <3>3. /\ objects' \in SUBSET (Uploads \X Kinds) /\ Original(u) \notin objects'
          /\ \A k : k # Original(u) => (k \in objects' <=> k \in objects)
      BY <1>a, <3>1
    <3> QED BY <1>a, <1>b, <3>1, <3>2, <3>3, <1>p, UploadStays
  <2>4. CASE event # "live"
    <3>1. goes("error", "none", objects)
      BY <1>7, <1>a, <2>4 DEF create, Settle
    <3> QED BY <1>1, <2>4, <3>1
  <2> QED BY <2>2, <2>3, <2>4
<1> QED BY <1>2, <1>3, <1>4, <1>5, <1>6, <1>7 DEF Requests

\* So do its failures, which leave a staged file or an object behind.
LEMMA RequestFailsStep ==
    ASSUME Settled, NEW u \in Uploads, RequestFails(u),
           UNCHANGED <<files, worker, workDir, removal, reruns, peak>>
    PROVE  Settled'
<1>t. TypeOK
  BY DEF Settled
<1>a. /\ asset = [asset EXCEPT ![u] = asset[u]]
      /\ staging \subseteq Uploads /\ jobs \subseteq Uploads /\ objects \subseteq Uploads \X Kinds
      /\ credit \in 0..MaxFaults /\ MaxFaults \in Nat /\ peak' \in Nat
  BY <1>t, LibraryAssumption DEF TypeOK
<1>b. asset[u] = "none" /\ request[u] # "none"
  BY UnderWay DEF RequestFails
<1>c. credit' \in 0..MaxFaults /\ credit' <= credit /\ credit' # MaxFaults
  BY <1>a DEF RequestFails
<1>d. /\ item' = [item EXCEPT ![u] = "error"] /\ request' = [request EXCEPT ![u] = "none"]
      /\ objects' = objects /\ jobs' = jobs /\ objects' \in SUBSET (Uploads \X Kinds)
  BY <1>a DEF RequestFails, Settle
<1>e. staging' \subseteq Uploads
  BY <1>a DEF RequestFails, uploadRefused
<1>f. \/ asset' = [asset EXCEPT ![u] = "none"]
      \/ request[u] = "put" /\ event = "live" /\ asset' = [asset EXCEPT ![u] = "stored"]
  BY <1>a, <1>b DEF RequestFails, uploadRefused
<1> QED BY <1>a, <1>b, <1>c, <1>d, <1>e, <1>f, UploadStays

-----------------------------------------------------------------------------
(* Handlers *)

\* What a handler does to the one asset it works on: objects before rows, and the status
\* of a row that is still there.
LEMMA HandlerStays ==
    ASSUME Settled, NEW w \in Slots, NEW u \in Uploads,
           NEW x \in [pc : {"idle", "work", "record"}, asset : Uploads \cup {"none"}],
           NEW a \in {"stored", "failed", "processed"},
           worker' = [worker EXCEPT ![w] = x], worker[w].pc # "idle" => worker[w].asset = u,
           x.pc # "idle" => x.asset = u,
           worker[w].pc = "idle" => x.pc # "record" /\ IsLive(u),
           asset' = asset \/ (IsLive(u) /\ asset' = [asset EXCEPT ![u] = a]),
           objects' \in SUBSET (Uploads \X Kinds), objects \subseteq objects',
           \A k : k # Derived(u) => (k \in objects' <=> k \in objects),
           \/ files' = files
           \/ Exists(u) /\ files' = files \cup {u},
           IsLive(u) /\ a = "processed" => (Derived(u) \in objects' \/ u \in wiped) /\ u \in files',
           x.pc = "record" => Derived(u) \in objects',
           Derived(u) \in objects' => Derived(u) \in objects \/ x.pc = "record",
           event = "live" /\ worker[w].pc = "record" /\ credit' = MaxFaults => u \in files',
           credit' \in 0..MaxFaults, credit' <= credit,
           jobs' \subseteq Uploads, workDir' \subseteq Uploads,
           UNCHANGED <<upload, removal, reruns, peak>>
    PROVE  Settled'
<1> USE DEF Settled
<1>t. TypeOK
  OBVIOUS
<1>u. UNCHANGED <<item, request, staging, deleting, cleanup, aged, event, deletes, purged, wiped, reruns, peak>>
  BY DEF upload, removal
<1>c. credit' = MaxFaults => credit = MaxFaults
  BY <1>t, LibraryAssumption DEF TypeOK
<1>1. /\ worker'[w] = x /\ \A z \in Slots \ {w} : worker'[z] = worker[z]
      /\ \A v \in Uploads \ {u} : asset'[v] = asset[v]
      /\ asset'[u] = asset[u] \/ (IsLive(u) /\ asset'[u] = a)
  BY <1>t DEF TypeOK
<1>2. \A v \in Uploads : (Exists(v)' <=> Exists(v)) /\ (IsLive(v)' <=> IsLive(v))
                         /\ (Removed(v)' <=> Removed(v)) /\ (asset'[v] = "none" <=> asset[v] = "none")
  BY <1>1 DEF Exists, LiveAssets, IsLive, Removed
<1>3. TypeOK'
  <2>1. files' \subseteq {v \in Uploads : Exists(v)'}
    BY <1>t, <1>2 DEF TypeOK
  <2>2. deleting' \cup aged' \subseteq {v \in Uploads : asset'[v] \in {"deleted", "gone"}}
    BY <1>t, <1>u, <1>2 DEF TypeOK, Removed
  <2>3. worker' \in [Slots -> [pc : {"idle", "work", "record"}, asset : Uploads \cup {"none"}]]
    BY <1>t DEF TypeOK
  <2>4. asset' \in [Uploads -> {"none", "stored", "processed", "failed", "deleted", "gone"}]
    BY <1>t DEF TypeOK
  <2> QED BY <1>t, <1>u, <2>1, <2>2, <2>3, <2>4 DEF TypeOK
<1>4. ASSUME NEW v \in Uploads
      PROVE  RowTrue(v)'
  <2>1. Original(v) \in objects' <=> Original(v) \in objects
    BY KeysApart
  <2>2. Derived(v) \in objects => Derived(v) \in objects'
    OBVIOUS
  <2>3. asset'[v] = "processed" => (Derived(v) \in objects' \/ v \in wiped) /\ v \in files'
    <3>1. CASE v = u /\ asset'[u] = a /\ IsLive(u)
      BY <3>1
    <3>2. CASE asset'[v] = asset[v]
      BY <2>2, <3>2 DEF RowTrue
    <3> QED BY <1>1, <3>1, <3>2
  <2> QED BY <1>u, <1>2, <2>1, <2>3 DEF RowTrue
<1>5. ASSUME NEW v \in Uploads
      PROVE  KeptFor(v)'
  <2>1. SUFFICES ASSUME event = "live", credit' = MaxFaults
                 PROVE  /\ Original(v) \in objects' =>
                             Exists(v)' \/ request[v] = "put" \/ Original(v) \in cleanup
                        /\ Derived(v) \in objects' =>
                             v \in files' \/ Derived(v) \in cleanup \/ Recording(v)'
    BY <1>u DEF KeptFor
  <2>2. /\ Original(v) \in objects => Exists(v) \/ request[v] = "put" \/ Original(v) \in cleanup
        /\ Derived(v) \in objects => v \in files \/ Derived(v) \in cleanup \/ Recording(v)
    BY <1>c, <2>1 DEF KeptFor
  <2>3. Original(v) \in objects' <=> Original(v) \in objects
    BY KeysApart
  <2>4. ASSUME Recording(v)
        PROVE  Recording(v)' \/ v \in files'
    <3>1. PICK z \in Slots : worker[z].pc = "record" /\ worker[z].asset = v
      BY <2>4 DEF Recording
    <3>2. CASE z = w
      BY <2>1, <3>1, <3>2
    <3>3. CASE z # w
      BY <1>1, <3>1, <3>3 DEF Recording
    <3> QED BY <3>2, <3>3
  <2>5. Derived(v) \in objects' => Derived(v) \in objects \/ Recording(v)'
    <3>1. CASE v = u
      BY <1>1, <3>1 DEF Recording
    <3>2. CASE v # u
      BY <3>2, KeysApart
    <3> QED BY <3>1, <3>2
  <2> QED BY <1>2, <2>2, <2>3, <2>4, <2>5
<1>6. ASSUME NEW z \in Slots
      PROVE  WorkTrue(z)'
  <2>1. CASE z = w /\ x.pc = "idle"
    BY <1>1, <2>1 DEF WorkTrue
  <2>2. CASE z = w /\ x.pc # "idle"
    <3>1. worker'[z].asset = u /\ worker'[z].pc = x.pc
      BY <1>1, <2>2
    <3>2. event = "live" => Exists(u) /\ u \notin aged
      <4>1. CASE worker[w].pc = "idle"
        BY <1>t, <4>1 DEF TypeOK, IsLive, Exists, LiveAssets
      <4>2. CASE worker[w].pc # "idle"
        BY <4>2 DEF WorkTrue
      <4> QED BY <4>1, <4>2
    <3> QED BY <1>u, <1>2, <2>2, <3>1, <3>2 DEF WorkTrue
  <2>3. CASE z # w
    <3>1. worker'[z] = worker[z]
      BY <1>1, <2>3
    <3>2. worker[z].pc # "idle" =>
            /\ worker[z].asset \in Uploads
            /\ event = "live" => Exists(worker[z].asset)' /\ worker[z].asset \notin aged
            /\ worker[z].pc = "record" /\ IsLive(worker[z].asset)' =>
                 Derived(worker[z].asset) \in objects' \/ worker[z].asset \in wiped
      BY <1>2, <3>1 DEF WorkTrue
    <3> QED BY <1>u, <3>1, <3>2 DEF WorkTrue
  <2> QED BY <2>1, <2>2, <2>3
<1> QED BY <1>3, <1>4, <1>5, <1>6

\* A handler that gives up leaves what it stored to another run of the job.
LEMMA FailsStep ==
    ASSUME Settled, NEW w \in Slots, worker[w].pc # "idle", Fails(w),
           event = "live" /\ worker[w].pc = "record" => credit' # MaxFaults,
           credit' \in 0..MaxFaults, credit' <= credit,
           UNCHANGED <<upload, removal, reruns, peak, objects, files>>
    PROVE  Settled'
<1> DEFINE u == worker[w].asset
<1>1. u \in Uploads /\ TypeOK
  BY DEF Settled, WorkTrue
<1>2. Free \in [pc : {"idle", "work", "record"}, asset : Uploads \cup {"none"}] /\ Free.pc = "idle"
  BY DEF Free
<1>3. /\ worker' = [worker EXCEPT ![w] = Free] /\ jobs' = jobs \cup {u} /\ workDir' = workDir \ {u}
      /\ asset' = asset \/ (IsLive(u) /\ asset' = [asset EXCEPT ![u] = "failed"])
  BY DEF Fails, IsLive, LiveAssets
<1>4. /\ objects' \in SUBSET (Uploads \X Kinds) /\ jobs' \subseteq Uploads /\ workDir' \subseteq Uploads
  BY <1>1, <1>3 DEF TypeOK
<1> QED BY <1>1, <1>2, <1>3, <1>4, HandlerStays

\* Taking an asset, storing its derivatives and recording them keep it (media.service.ts).
LEMMA HandlerStep ==
    ASSUME Settled, NEW w \in Slots, TakeAsset(w) \/ PutDerivatives(w) \/ RecordDerivatives(w),
           UNCHANGED <<upload, removal, reruns, peak>>
    PROVE  Settled'
<1>t. TypeOK
  BY DEF Settled
<1>a. /\ credit' = credit /\ credit \in 0..MaxFaults /\ credit <= credit
      /\ worker \in [Slots -> [pc : {"idle", "work", "record"}, asset : Uploads \cup {"none"}]]
      /\ jobs \subseteq Uploads /\ workDir \subseteq Uploads /\ objects \subseteq Uploads \X Kinds
  BY <1>t DEF TypeOK, TakeAsset, PutDerivatives, RecordDerivatives
<1>b. worker[w].pc # "idle" => worker[w].asset \in Uploads
                               /\ (event = "live" => Exists(worker[w].asset))
  BY DEF Settled, WorkTrue
<1>1. CASE TakeAsset(w)
  <2>1. PICK u \in jobs :
         /\ jobs' = jobs \ {u}
         /\ IF u \in LiveAssets
            THEN /\ worker' = [worker EXCEPT ![w] = [pc |-> "work", asset |-> u]]
                 /\ workDir' = workDir \cup {u}
            ELSE UNCHANGED <<worker, workDir>>
    BY <1>1 DEF TakeAsset
  <2>2. worker[w].pc = "idle" /\ UNCHANGED <<asset, objects, files, credit>> /\ u \in Uploads
    BY <1>1, <1>a DEF TakeAsset
  <2>3. CASE u \in LiveAssets
    <3>1. [pc |-> "work", asset |-> u] \in [pc : {"idle", "work", "record"}, asset : Uploads \cup {"none"}]
      BY <2>2
    <3>2. IsLive(u) /\ jobs' \subseteq Uploads /\ workDir' \subseteq Uploads
      BY <1>a, <2>1, <2>2, <2>3, LiveIsLive
    <3>3. worker' = [worker EXCEPT ![w] = [pc |-> "work", asset |-> u]]
          /\ objects' \in SUBSET (Uploads \X Kinds)
      BY <1>a, <2>1, <2>2, <2>3
    <3> QED BY <1>a, <2>2, <3>1, <3>2, <3>3, HandlerStays
  <2>4. CASE u \notin LiveAssets
    <3>1. UNCHANGED <<upload, asset, objects, files, worker, workDir, removal, reruns, credit, peak>>
          /\ jobs' \subseteq Uploads
      BY <1>a, <2>1, <2>2, <2>4
    <3> QED BY <1>t, <3>1 DEF Settled, TypeOK, Exists, LiveAssets, RowTrue, KeptFor, Recording, WorkTrue,
          IsLive, Removed, upload, removal
  <2> QED BY <2>3, <2>4
<1>2. CASE PutDerivatives(w)
  <2> DEFINE u == worker[w].asset
  <2>1. worker[w].pc = "work" /\ UNCHANGED <<files, credit>> /\ u \in Uploads
    BY <1>2, <1>b DEF PutDerivatives
  <2>2. CASE objects' = objects \cup {Derived(u)} /\ worker' = [worker EXCEPT ![w].pc = "record"]
             /\ UNCHANGED <<asset, jobs, workDir>>
    <3> DEFINE x == [pc |-> "record", asset |-> u]
    <3>1. [worker[w] EXCEPT !.pc = "record"] = x
      BY <1>a
    <3>2. worker' = [worker EXCEPT ![w] = x]
      BY <1>a, <2>2, <3>1
    <3>3. x \in [pc : {"idle", "work", "record"}, asset : Uploads \cup {"none"}]
          /\ x.pc = "record" /\ x.asset = u
      BY <2>1
    <3>4. Derived(u) \in Uploads \X Kinds
      BY <2>1 DEF Derived, Kinds
    <3>5. /\ objects' \in SUBSET (Uploads \X Kinds) /\ objects \subseteq objects' /\ Derived(u) \in objects'
          /\ \A k : k # Derived(u) => (k \in objects' <=> k \in objects)
      BY <1>a, <2>2, <3>4
    <3>6. asset' = asset /\ jobs' \subseteq Uploads /\ workDir' \subseteq Uploads
      BY <1>a, <2>2
    <3> HIDE DEF x
    <3> QED BY <1>a, <2>1, <3>2, <3>3, <3>5, <3>6, HandlerStays
  <2>3. CASE Fails(w) /\ UNCHANGED objects
    BY <1>a, <2>1, <2>3, FailsStep
  <2> QED BY <1>2, <2>2, <2>3 DEF PutDerivatives, Derived
<1>3. CASE RecordDerivatives(w)
  <2> DEFINE u == worker[w].asset
  <2>1. worker[w].pc = "record" /\ UNCHANGED <<objects, credit>> /\ u \in Uploads
    BY <1>3, <1>b DEF RecordDerivatives
  <2>2. CASE Exists(u)
    <3>1. /\ files' = files \cup {u} /\ worker' = [worker EXCEPT ![w] = Free]
          /\ workDir' = workDir \ {u} /\ jobs' = jobs
          /\ asset' = asset \/ (IsLive(u) /\ asset' = [asset EXCEPT ![u] = "processed"])
      BY <1>3, <2>2 DEF RecordDerivatives, IsLive, LiveAssets
    <3>2. Free \in [pc : {"idle", "work", "record"}, asset : Uploads \cup {"none"}] /\ Free.pc = "idle"
      BY DEF Free
    <3>3. IsLive(u) => Derived(u) \in objects \/ u \in wiped
      BY <2>1 DEF Settled, WorkTrue
    <3>4. objects' \in SUBSET (Uploads \X Kinds) /\ workDir' \subseteq Uploads /\ u \in files'
      BY <1>a, <2>1, <3>1
    <3> QED BY <1>a, <2>1, <2>2, <3>1, <3>2, <3>3, <3>4, HandlerStays
  <2>3. CASE ~ Exists(u)
    <3>1. Fails(w) /\ UNCHANGED files /\ event # "live"
      BY <1>3, <1>b, <2>1, <2>3 DEF RecordDerivatives
    <3> QED BY <1>a, <2>1, <3>1, FailsStep
  <2> QED BY <2>2, <2>3
<1> QED BY <1>1, <1>2, <1>3

\* So does a processing job that fails.
LEMMA MediaErrorStep ==
    ASSUME Settled, NEW w \in Slots, MediaError(w), UNCHANGED <<upload, removal, reruns, peak>>
    PROVE  Settled'
<1>1. credit \in 0..MaxFaults /\ MaxFaults \in Nat
  BY LibraryAssumption DEF Settled, TypeOK
<1>2. credit' \in 0..MaxFaults /\ credit' <= credit /\ credit' # MaxFaults
  BY <1>1 DEF MediaError
<1> QED BY <1>2, FailsStep DEF MediaError

-----------------------------------------------------------------------------
(* Deletion *)

\* What deletion does: rows go, and their keys to the cleanup before anything forgets them.
LEMMA DeletionStays ==
    ASSUME Settled,
           UNCHANGED <<upload, jobs, worker, workDir, reruns, credit, peak>>,
           asset' \in [Uploads -> {"none", "stored", "processed", "failed", "deleted", "gone"}],
           \A v \in Uploads : asset'[v] = asset[v] \/ (Exists(v) /\ asset'[v] \in {"deleted", "gone"}),
           files' \subseteq files, \A v \in files' : Exists(v)',
           \A v \in files : v \in files' \/ Removed(v)',
           deleting' \subseteq Uploads, aged' \subseteq Uploads,
           \A v \in deleting' \cup aged' : Removed(v)',
           event' \in {"live", "gone", "prefix"}, deletes' \in 0..MaxDeletes,
           purged' \in {"no", "queued", "done"}, wiped' \subseteq Uploads, wiped \subseteq wiped',
           event' = event \/ (event' # "live" /\ \A v \in Uploads : ~ Exists(v)'),
           objects' \subseteq objects,
           \A v \in Uploads, k \in Kinds : <<v, k>> \in objects \ objects' =>
               v \in wiped' \/ (~ IsLive(v)' /\ (event' = "live" /\ k = "original" => Removed(v))),
           cleanup' \in SUBSET (Uploads \X Kinds),
           \A v \in Uploads : Original(v) \in cleanup' \/ Derived(v) \in cleanup' => Removed(v)',
           \A v \in Uploads : event' = "live" /\ Exists(v) /\ v \notin aged =>
               (Exists(v)' /\ v \notin aged') \/ \A w \in Slots : worker[w].asset # v,
           \A v \in Uploads : event' = "live" =>
               /\ Exists(v) /\ Original(v) \in objects' => Exists(v)' \/ Original(v) \in cleanup'
               /\ Original(v) \in cleanup /\ Original(v) \in objects' => Original(v) \in cleanup'
               /\ Derived(v) \in cleanup /\ Derived(v) \in objects' => Derived(v) \in cleanup'
               /\ v \in files /\ Derived(v) \in objects' => v \in files' \/ Derived(v) \in cleanup'
    PROVE  Settled'
<1> USE DEF Settled
<1>t. TypeOK
  OBVIOUS
<1>u. UNCHANGED <<item, request, staging, jobs, worker, workDir, reruns, credit, peak>>
  BY DEF upload
<1>1. \A v \in Uploads : /\ IsLive(v)' => IsLive(v) /\ asset'[v] = asset[v]
                         /\ Removed(v) => Removed(v)'
                         /\ Exists(v)' => Exists(v)
                         /\ asset'[v] # "none" => asset[v] # "none"
  BY DEF IsLive, Removed, Exists, LiveAssets
<1>2. TypeOK'
  <2>1. files' \subseteq {v \in Uploads : Exists(v)'}
    BY <1>t DEF TypeOK
  <2>2. deleting' \cup aged' \subseteq {v \in Uploads : asset'[v] \in {"deleted", "gone"}}
    BY DEF Removed
  <2>3. objects' \subseteq Uploads \X Kinds
    BY <1>t DEF TypeOK
  <2> QED BY <1>t, <1>u, <2>1, <2>2, <2>3 DEF TypeOK
<1>3. ASSUME NEW v \in Uploads
      PROVE  RowTrue(v)'
  <2>0. RowTrue(v)
    OBVIOUS
  <2>1. event' # "live" => ~ Exists(v)'
    BY <1>1, <2>0 DEF RowTrue
  <2>2. event' = "live" /\ request[v] = "put" => Original(v) \in objects' \/ v \in wiped'
    <3>1. SUFFICES ASSUME event' = "live", request[v] = "put", v \notin wiped'
                   PROVE  Original(v) \in objects'
      OBVIOUS
    <3>2. Original(v) \in objects /\ ~ Removed(v)
      BY <2>0, <3>1 DEF RowTrue, Removed
    <3> QED BY <3>1, <3>2 DEF Original, Kinds
  <2>3. IsLive(v)' => Original(v) \in objects' \/ v \in wiped'
    BY <1>1, <2>0 DEF RowTrue, Original, Kinds
  <2>4. asset'[v] = "processed" => (Derived(v) \in objects' \/ v \in wiped') /\ v \in files'
    <3>1. SUFFICES ASSUME asset'[v] = "processed"
                   PROVE  (Derived(v) \in objects' \/ v \in wiped') /\ v \in files'
      OBVIOUS
    <3>2. IsLive(v)' /\ asset[v] = "processed" /\ ~ Removed(v)'
      BY <3>1 DEF IsLive, Removed
    <3>3. (Derived(v) \in objects \/ v \in wiped) /\ v \in files
      BY <2>0, <3>2 DEF RowTrue
    <3> QED BY <3>2, <3>3 DEF Derived, Kinds
  <2> QED BY <1>u, <1>1, <2>0, <2>1, <2>2, <2>3, <2>4 DEF RowTrue
<1>4. ASSUME NEW v \in Uploads
      PROVE  KeptFor(v)'
  <2>1. event' = "live" => event = "live"
    BY <1>t DEF TypeOK
  <2>2. Recording(v)' <=> Recording(v)
    BY <1>u DEF Recording
  <2> QED BY <1>u, <2>1, <2>2 DEF KeptFor
<1>5. ASSUME NEW w \in Slots
      PROVE  WorkTrue(w)'
  <2>1. SUFFICES ASSUME worker[w].pc # "idle"
                 PROVE  /\ worker[w].asset \in Uploads
                        /\ event' = "live" =>
                             /\ asset'[worker[w].asset] \in {"stored", "processed", "failed", "deleted"}
                             /\ worker[w].asset \notin aged'
                        /\ worker[w].pc = "record" /\ asset'[worker[w].asset] \in {"stored", "processed", "failed"}
                             => Derived(worker[w].asset) \in objects' \/ worker[w].asset \in wiped'
    BY <1>u DEF WorkTrue, IsLive, Exists, LiveAssets
  <2> DEFINE v == worker[w].asset
  <2>2. /\ v \in Uploads /\ (event = "live" => Exists(v) /\ v \notin aged)
        /\ worker[w].pc = "record" /\ IsLive(v) => Derived(v) \in objects \/ v \in wiped
    BY <2>1 DEF WorkTrue
  <2>3. event' = "live" => event = "live"
    BY <1>t DEF TypeOK
  <2>4. event' = "live" => asset'[v] \in {"stored", "processed", "failed", "deleted"} /\ v \notin aged'
    BY <2>2, <2>3 DEF Exists, LiveAssets
  <2>5. asset'[v] \in {"stored", "processed", "failed"} /\ Derived(v) \in objects => Derived(v) \in objects' \/ v \in wiped'
    BY <2>2 DEF IsLive, Derived, Kinds
  <2>6. asset'[v] \in {"stored", "processed", "failed"} => IsLive(v)
    BY <2>2 DEF IsLive
  <2> QED BY <2>2, <2>4, <2>5, <2>6
<1> QED BY <1>2, <1>3, <1>4, <1>5

Deletions ==
    \/ \E u \in Uploads : deleteMany(u) \/ GraceEnds(u) \/ softDeleteMany(u)
    \/ CleanupKeys \/ CleanupPrefix \/ StorageReconcile \/ remove \/ purge

\* The keys a row knows are its own, and all that are kept for it.
LEMMA KeysKnown ==
    ASSUME NEW u \in Uploads
    PROVE  /\ Keys(u) \in SUBSET (Uploads \X Kinds)
           /\ Original(u) \in Keys(u)
           /\ Derived(u) \in Keys(u) <=> u \in files
           /\ \A v : Original(v) \in Keys(u) \/ Derived(v) \in Keys(u) => v = u
<1>1. Original(u) \in Uploads \X Kinds /\ Derived(u) \in Uploads \X Kinds
  BY DEF Original, Derived, Kinds
<1>2. Keys(u) = {Original(u)} \cup (IF u \in files THEN {Derived(u)} ELSE {})
  BY DEF Keys, Original, Derived
<1> QED BY <1>1, <1>2, KeysApart

\* So do deletion, the cleanup jobs and the sweeps (cleanup.service.ts).
LEMMA DeletionStep ==
    ASSUME Settled, Deletions, UNCHANGED <<upload, jobs, worker, workDir, reruns, credit, peak>>
    PROVE  Settled'
<1>t. TypeOK /\ \A v \in Uploads : RowTrue(v)
  BY DEF Settled
<1>a. /\ asset \in [Uploads -> {"none", "stored", "processed", "failed", "deleted", "gone"}]
      /\ files \subseteq Uploads /\ (\A v \in files : Exists(v))
      /\ deleting \subseteq Uploads /\ aged \subseteq Uploads /\ (\A v \in deleting \cup aged : Removed(v))
      /\ cleanup \in SUBSET (Uploads \X Kinds) /\ objects \subseteq Uploads \X Kinds
      /\ event \in {"live", "gone", "prefix"} /\ deletes \in 0..MaxDeletes /\ MaxDeletes \in Nat
      /\ purged \in {"no", "queued", "done"} /\ wiped \subseteq Uploads
  BY <1>t, LibraryAssumption DEF TypeOK, Removed
<1>b. \A v \in Uploads : /\ Original(v) \in cleanup \/ Derived(v) \in cleanup => Removed(v)
                         /\ event # "live" => ~ Exists(v)
  BY <1>t DEF RowTrue
<1>c. \A v : Exists(v) <=> (v \in LiveAssets \/ asset[v] = "deleted")
  BY DEF Exists
<1>d. \A v \in Uploads : (v \in LiveAssets <=> IsLive(v)) /\ (IsLive(v) => ~ Removed(v))
  BY LiveIsLive DEF IsLive, Removed
<1>k. \A v \in Uploads, k \in Kinds : <<v, k>> = Original(v) \/ <<v, k>> = Derived(v)
  BY DEF Original, Derived, Kinds
<1>1. ASSUME NEW u \in Uploads, softDeleteMany(u)
      PROVE  Settled'
  <2>1. /\ asset' = [asset EXCEPT ![u] = "deleted"] /\ deleting' = deleting \cup {u}
        /\ UNCHANGED <<cleanup, aged, event, purged, wiped, files, objects>> /\ deletes' = deletes - 1 /\ deletes > 0
        /\ IsLive(u)
    BY <1>1, <1>d DEF softDeleteMany
  <2>2. asset'[u] = "deleted" /\ \A v \in Uploads \ {u} : asset'[v] = asset[v]
    BY <1>a, <2>1
  <2>3. /\ \A v \in Uploads : Exists(v)' <=> Exists(v)
        /\ \A v \in Uploads : Removed(v) => Removed(v)'
        /\ Removed(u)'
    BY <2>1, <2>2 DEF Exists, LiveAssets, IsLive, Removed
  <2>4. asset' \in [Uploads -> {"none", "stored", "processed", "failed", "deleted", "gone"}]
        /\ deletes' \in 0..MaxDeletes
    BY <1>a, <2>1
  <2>5. \A v \in Uploads : asset'[v] = asset[v] \/ (Exists(v) /\ asset'[v] \in {"deleted", "gone"})
    BY <1>c, <1>d, <2>1, <2>2
  <2> QED BY <1>a, <1>b, <2>1, <2>3, <2>4, <2>5, DeletionStays
<1>2. ASSUME UNCHANGED <<deletes, asset, event, purged, wiped, files, objects>>,
             deleting' \subseteq deleting, aged' \subseteq Uploads, \A v \in aged' : Removed(v),
             cleanup' \in SUBSET (Uploads \X Kinds), cleanup \subseteq cleanup',
             \A v \in Uploads : Original(v) \in cleanup' \/ Derived(v) \in cleanup' => Removed(v),
             \A v \in Uploads : v \notin aged => v \notin aged' \/ \A w \in Slots : worker[w].asset # v
      PROVE  Settled'
  <2>1. \A v \in Uploads : (Exists(v)' <=> Exists(v)) /\ (Removed(v)' <=> Removed(v))
    BY <1>2 DEF Exists, LiveAssets, Removed
  <2> QED BY <1>a, <1>2, <2>1, DeletionStays
<1>3. ASSUME NEW u \in Uploads, deleteMany(u)
      PROVE  Settled'
  <2>1. /\ UNCHANGED <<deletes, asset, aged, event, purged, wiped, files, objects>> /\ cleanup' = cleanup \cup Keys(u)
        /\ deleting' = deleting \ {u} /\ Removed(u)
    BY <1>3, <1>a DEF deleteMany
  <2> QED BY <1>2, <1>a, <1>b, <2>1, KeysKnown
<1>4. ASSUME NEW u \in Uploads, GraceEnds(u)
      PROVE  Settled'
  <2>1. /\ UNCHANGED <<deletes, asset, deleting, cleanup, event, purged, wiped, files, objects>>
        /\ aged' = aged \cup {u} /\ Removed(u) /\ \A w \in Slots : worker[w].asset # u
    BY <1>4 DEF GraceEnds, Removed
  <2> QED BY <1>2, <1>a, <1>b, <2>1
<1>5. CASE CleanupKeys
  <2>1. /\ objects' = objects \ cleanup /\ cleanup' = {}
        /\ UNCHANGED <<deletes, asset, deleting, aged, event, purged, wiped, files>>
    BY <1>5 DEF CleanupKeys
  <2>2. \A v \in Uploads : (Exists(v)' <=> Exists(v)) /\ (Removed(v)' <=> Removed(v)) /\ (IsLive(v)' <=> IsLive(v))
    BY <2>1 DEF Exists, LiveAssets, Removed, IsLive
  <2>3. \A v \in Uploads, k \in Kinds : <<v, k>> \in objects \ objects' => Removed(v)
    BY <1>b, <1>k, <2>1
  <2>4. \A v \in Uploads, k \in Kinds : <<v, k>> \in objects \ objects' =>
               ~ IsLive(v)' /\ (event' = "live" => Removed(v))
    BY <1>d, <2>2, <2>3
  <2> QED BY <1>a, <2>1, <2>2, <2>4, DeletionStays
<1>6. CASE StorageReconcile
  <2>1. /\ cleanup' = cleanup \cup UNION {Keys(u) : u \in aged}
        /\ asset' = [u \in Uploads |-> IF u \in aged THEN "gone" ELSE asset[u]]
        /\ files' = files \ aged /\ aged' = {} /\ UNCHANGED <<deletes, deleting, event, purged, wiped, objects>>
    BY <1>6 DEF StorageReconcile
  <2>2. \A v \in Uploads : asset'[v] = IF v \in aged THEN "gone" ELSE asset[v]
    BY <2>1
  <2>3. /\ cleanup' \in SUBSET (Uploads \X Kinds)
        /\ \A v \in Uploads : Original(v) \in cleanup' \/ Derived(v) \in cleanup' =>
             Original(v) \in cleanup \/ Derived(v) \in cleanup \/ v \in aged
        /\ \A v \in aged : Original(v) \in cleanup' /\ (v \in files => Derived(v) \in cleanup')
        /\ cleanup \subseteq cleanup'
    BY <1>a, <2>1, KeysKnown
  <2>4. /\ \A v \in Uploads : Removed(v) \/ v \in aged => Removed(v)'
        /\ \A v \in Uploads \ aged : (Exists(v)' <=> Exists(v)) /\ asset'[v] = asset[v]
    BY <2>2 DEF Removed, Exists, LiveAssets
  <2>5. asset' \in [Uploads -> {"none", "stored", "processed", "failed", "deleted", "gone"}]
    BY <1>a, <2>1
  <2>6. \A v \in files : v \in files' \/ Removed(v)'
    BY <1>a, <2>1, <2>4
  <2>7. \A v \in Uploads : asset'[v] = asset[v] \/ (Exists(v) /\ asset'[v] \in {"deleted", "gone"})
    BY <1>a, <2>2 DEF Removed, Exists
  <2>8. \A v \in files' : Exists(v)'
    BY <1>a, <2>1, <2>4
  <2>9. \A v \in Uploads : Original(v) \in cleanup' \/ Derived(v) \in cleanup' => Removed(v)'
    BY <1>b, <2>3, <2>4
  <2>10. \A v \in deleting' \cup aged' : Removed(v)'
    BY <1>a, <2>1, <2>4
  <2>11. \A v \in Uploads : event' = "live" /\ Exists(v) /\ v \notin aged => Exists(v)' /\ v \notin aged'
    BY <2>1, <2>4
  <2>12. \A v \in Uploads : event' = "live" =>
               /\ Exists(v) /\ Original(v) \in objects' => Exists(v)' \/ Original(v) \in cleanup'
               /\ v \in files /\ Derived(v) \in objects' => v \in files' \/ Derived(v) \in cleanup'
    BY <2>1, <2>3, <2>4
  <2> QED BY <1>a, <2>1, <2>3, <2>5, <2>6, <2>7, <2>8, <2>9, <2>10, <2>11, <2>12, DeletionStays
<1>7. CASE remove
  <2>1. /\ deletes > 0 /\ deleting = {} /\ deletes' = deletes - 1 /\ event' = "prefix"
        /\ asset' = [u \in Uploads |-> IF Exists(u) THEN "gone" ELSE asset[u]]
        /\ files' = {} /\ aged' = {} /\ UNCHANGED <<deleting, cleanup, purged, wiped, objects>>
    BY <1>7 DEF remove
  <2>2. \A v \in Uploads : asset'[v] = IF Exists(v) THEN "gone" ELSE asset[v]
    BY <2>1
  <2>3. asset' \in [Uploads -> {"none", "stored", "processed", "failed", "deleted", "gone"}]
        /\ deletes' \in 0..MaxDeletes
    BY <1>a, <2>1
  <2>4. \A v \in Uploads : ~ Exists(v)' /\ (Exists(v) \/ Removed(v) => Removed(v)')
    BY <2>2 DEF Exists, LiveAssets, Removed
  <2> QED BY <1>a, <1>b, <2>1, <2>2, <2>3, <2>4, DeletionStays
<1>8. CASE CleanupPrefix
  <2>1. objects' = {} /\ UNCHANGED <<deletes, deleting, cleanup, aged, asset, files>>
    BY <1>8 DEF CleanupPrefix
  <2>2. \A v \in Uploads : (Exists(v)' <=> Exists(v)) /\ (Removed(v)' <=> Removed(v))
                           /\ (IsLive(v)' <=> IsLive(v))
    BY <2>1 DEF Exists, LiveAssets, Removed, IsLive
  <2>3. CASE event = "prefix" /\ event' = "gone" /\ UNCHANGED <<purged, wiped>>
    <3>1. \A v \in Uploads : ~ Exists(v) /\ ~ IsLive(v)'
      BY <1>b, <2>2, <2>3 DEF Exists, LiveAssets, IsLive
    <3> QED BY <1>a, <1>b, <2>1, <2>2, <2>3, <3>1, DeletionStays
  <2>4. CASE /\ purged' = "done" /\ UNCHANGED event
             /\ wiped' = wiped \cup {u \in Uploads : Original(u) \in objects}
    <3>1. wiped' \subseteq Uploads /\ wiped \subseteq wiped'
      BY <1>a, <2>4
    <3>2. \A v \in Uploads, k \in Kinds : <<v, k>> \in objects \ objects' =>
            v \in wiped' \/ (~ IsLive(v)' /\ (k = "original" => FALSE))
      <4> SUFFICES ASSUME NEW v \in Uploads, NEW k \in Kinds, <<v, k>> \in objects, v \notin wiped'
                   PROVE  ~ IsLive(v)' /\ k # "original"
        OBVIOUS
      <4>1. Original(v) \notin objects /\ v \notin wiped
        BY <2>4
      <4>2. ~ IsLive(v)
        BY <1>t, <4>1 DEF RowTrue
      <4> QED BY <2>2, <4>1, <4>2 DEF Original
    <3> QED BY <1>a, <1>b, <2>1, <2>2, <2>4, <3>1, <3>2, DeletionStays
  <2> QED BY <1>8, <2>3, <2>4 DEF CleanupPrefix, Original
<1>9. CASE purge
  <2>1. /\ UNCHANGED <<deleting, cleanup, aged, event, wiped, asset, files, objects>>
        /\ deletes' = deletes - 1 /\ deletes > 0 /\ purged' = "queued"
    BY <1>9 DEF purge
  <2>2. \A v \in Uploads : (Exists(v)' <=> Exists(v)) /\ (Removed(v)' <=> Removed(v))
    BY <2>1 DEF Exists, LiveAssets, Removed
  <2>3. deletes' \in 0..MaxDeletes
    BY <1>a, <2>1
  <2> QED BY <1>a, <1>b, <2>1, <2>2, <2>3, DeletionStays
<1> QED BY <1>1, <1>3, <1>4, <1>5, <1>6, <1>7, <1>8, <1>9 DEF Deletions

-----------------------------------------------------------------------------
(* Every step *)

\* So does an organiser's re-run of a photo's processing.
LEMMA RunJobStep ==
    ASSUME Settled, NEW u \in Uploads, runJob(u)
    PROVE  Settled'
<1> USE DEF Settled
<1>t. TypeOK
  OBVIOUS
<1>1. /\ asset' = [asset EXCEPT ![u] = "stored"] /\ jobs' = jobs \cup {u} /\ reruns' = reruns - 1
      /\ reruns > 0 /\ IsLive(u)
      /\ UNCHANGED <<item, request, staging, objects, files, worker, workDir, deleting, cleanup, aged,
                     event, deletes, purged, wiped, credit, peak>>
  BY LiveIsLive DEF runJob, upload, removal
<1>2. asset'[u] = "stored" /\ \A v \in Uploads \ {u} : asset'[v] = asset[v]
  BY <1>t, <1>1 DEF TypeOK
<1>3. \A v \in Uploads : (Exists(v)' <=> Exists(v)) /\ (IsLive(v)' <=> IsLive(v))
                         /\ (Removed(v)' <=> Removed(v)) /\ (asset'[v] = "none" <=> asset[v] = "none")
                         /\ (asset'[v] = "processed" => asset[v] = "processed")
  BY <1>1, <1>2 DEF Exists, LiveAssets, IsLive, Removed
<1>4. TypeOK'
  <2>1. files' \subseteq {v \in Uploads : Exists(v)'}
    BY <1>t, <1>1, <1>3 DEF TypeOK
  <2>2. deleting' \cup aged' \subseteq {v \in Uploads : asset'[v] \in {"deleted", "gone"}}
    BY <1>t, <1>1, <1>3 DEF TypeOK, Removed
  <2>3. /\ asset' \in [Uploads -> {"none", "stored", "processed", "failed", "deleted", "gone"}]
        /\ reruns' \in 0..MaxReruns
    BY <1>t, <1>1, LibraryAssumption DEF TypeOK
  <2> QED BY <1>t, <1>1, <2>1, <2>2, <2>3 DEF TypeOK
<1>5. \A v \in Uploads : RowTrue(v)'
  BY <1>1, <1>3 DEF RowTrue
<1>6. \A v \in Uploads : KeptFor(v)'
  BY <1>1, <1>3 DEF KeptFor, Recording
<1>7. \A w \in Slots : WorkTrue(w)'
  BY <1>1, <1>3 DEF WorkTrue
<1> QED BY <1>4, <1>5, <1>6, <1>7

\* Nothing but the staging folder changes, or nothing at all.
LEMMA StagingStep ==
    ASSUME Settled, staging' \subseteq staging,
           UNCHANGED <<item, request, asset, objects, media, removal, reruns, credit, peak>>
    PROVE  Settled'
BY DEF Settled, TypeOK, Exists, LiveAssets, RowTrue, KeptFor, Recording, WorkTrue, IsLive, Removed,
   media, removal

\* The part of the invariant that speaks of single files and handlers is inductive.
LEMMA SettledStep ==
    ASSUME Settled, [Next]_vars
    PROVE  Settled'
<1>1. CASE Serve
  BY <1>1, RequestStep DEF Serve, Requests
<1>2. CASE Disturb
  BY <1>2, RequestFailsStep DEF Disturb
<1>3. CASE Sweep
  BY <1>3, StagingStep DEF Sweep, StagingSweep, media
<1>4. CASE Process
  BY <1>4, HandlerStep DEF Process
<1>5. CASE Break
  BY <1>5, MediaErrorStep DEF Break
<1>6. CASE Clean \/ DeleteRequest
  BY <1>6, DeletionStep DEF Clean, DeleteRequest, Deletions
<1>7. CASE \E u \in Uploads : runJob(u)
  BY <1>7, RunJobStep
<1>8. CASE UNCHANGED vars
  BY <1>8, StagingStep DEF vars, upload
<1> QED BY <1>1, <1>2, <1>3, <1>4, <1>5, <1>6, <1>7, <1>8 DEF Next

-----------------------------------------------------------------------------
(* The quota *)

\* A set of uploads counts no less than a part of it.
LEMMA FewerCount ==
    ASSUME NEW S, NEW T, S \subseteq Uploads, T \subseteq S
    PROVE  /\ IsFiniteSet(S) /\ IsFiniteSet(T)
           /\ Cardinality(T) \in Nat /\ Cardinality(S) \in Nat /\ Cardinality(T) <= Cardinality(S)
<1>1. IsFiniteSet(S)
  BY LibraryAssumption, FS_Subset
<1>2. IsFiniteSet(T) /\ Cardinality(T) <= Cardinality(S)
  BY <1>1, FS_Subset
<1> QED BY <1>1, <1>2, FS_CardinalityType

Stored == IF event = "live" THEN LiveAssets ELSE {}

\* The overrun is about the photos stored and those in flight.
LEMMA OverrunIsSum ==
    /\ getOrgStorageBytes = Cardinality(Stored)
    /\ OverrunBounded <=> \/ Cardinality(Stored) + Cardinality(InFlight) <= Limit
                          \/ Cardinality(Stored) + Cardinality(InFlight) < Limit + peak
    /\ Stored \subseteq Uploads /\ InFlight \subseteq Uploads
<1>1. getOrgStorageBytes = Cardinality(Stored)
  BY FS_EmptySet DEF getOrgStorageBytes, Stored
<1> QED BY <1>1 DEF OverrunBounded, Stored, InFlight, LiveAssets

\* Nothing more is stored or in flight than before, or one for another.
LEMMA SumsFall ==
    ASSUME PeakTrue, OverrunBounded, peak \in Nat, UNCHANGED peak,
           Cardinality(InFlight') \in Nat, Cardinality(InFlight') <= Cardinality(InFlight),
           Cardinality(Stored') \in Nat,
           Cardinality(Stored') + Cardinality(InFlight') <= Cardinality(Stored) + Cardinality(InFlight)
    PROVE  PeakTrue' /\ OverrunBounded'
<1>1. Cardinality(InFlight) \in Nat /\ Cardinality(Stored) \in Nat /\ Limit \in Nat
  BY OverrunIsSum, FewerCount, LibraryAssumption
<1>2. \/ Cardinality(Stored') + Cardinality(InFlight') <= Limit
      \/ Cardinality(Stored') + Cardinality(InFlight') < Limit + peak
  BY <1>1, OverrunIsSum
<1>3. getOrgStorageBytes' = Cardinality(Stored')
  BY FS_EmptySet DEF getOrgStorageBytes, Stored
<1>4. OverrunBounded'
  BY <1>2, <1>3 DEF OverrunBounded
<1>5. PeakTrue'
  BY <1>1 DEF PeakTrue
<1> QED BY <1>4, <1>5

\* A step that admits nothing only makes room.
LEMMA CountsFall ==
    ASSUME PeakTrue, OverrunBounded, peak \in Nat, UNCHANGED peak,
           InFlight' \subseteq InFlight, Stored' \subseteq Stored
    PROVE  PeakTrue' /\ OverrunBounded'
<1>1. /\ Cardinality(InFlight') <= Cardinality(InFlight)
      /\ Cardinality(InFlight') \in Nat /\ Cardinality(InFlight) \in Nat
  BY OverrunIsSum, FewerCount
<1>2. /\ Cardinality(Stored') <= Cardinality(Stored)
      /\ Cardinality(Stored') \in Nat /\ Cardinality(Stored) \in Nat
  BY OverrunIsSum, FewerCount
<1>3. Cardinality(Stored') + Cardinality(InFlight') <= Cardinality(Stored) + Cardinality(InFlight)
  BY <1>1, <1>2
<1> QED BY <1>1, <1>2, <1>3, SumsFall

\* One more element counts at most one more.
LEMMA OneMore ==
    ASSUME NEW S, NEW u, IsFiniteSet(S), Cardinality(S) \in Nat
    PROVE  Cardinality(S \cup {u}) <= Cardinality(S) + 1
<1>1. CASE u \in S
  <2>1. S \cup {u} = S
    BY <1>1
  <2> QED BY <2>1
<1>2. CASE u \notin S
  <2>1. Cardinality(S \cup {u}) = Cardinality(S) + 1
    BY <1>2, FS_AddElement, Zenon
  <2> QED BY <2>1
<1> QED BY <1>1, <1>2

\* The quota had room for one, and the peak counts all that are in flight with it.
LEMMA AdmitCounts ==
    ASSUME Settled, PeakTrue, OverrunBounded, assertStorageAvailable,
           peak' = IF Cardinality(InFlight') > peak THEN Cardinality(InFlight') ELSE peak,
           UNCHANGED <<asset, event>>
    PROVE  PeakTrue' /\ OverrunBounded'
<1>1. peak \in Nat /\ Limit \in Nat
  BY LibraryAssumption DEF Settled, TypeOK
<1>2. InFlight' \subseteq Uploads
  BY DEF InFlight
<1>3. Cardinality(InFlight') \in Nat
  BY <1>2, FewerCount
<1>4. Cardinality(InFlight') <= peak'
  BY <1>1, <1>3
<1>5. Cardinality(Stored) + 1 <= Limit /\ Cardinality(Stored) \in Nat
  BY OverrunIsSum, FewerCount DEF assertStorageAvailable
<1>6. getOrgStorageBytes' = Cardinality(Stored)
  BY OverrunIsSum DEF getOrgStorageBytes, LiveAssets
<1>7. Cardinality(Stored) + Cardinality(InFlight') < Limit + peak'
  BY <1>1, <1>3, <1>4, <1>5
<1> QED BY <1>4, <1>6, <1>7 DEF PeakTrue, OverrunBounded

\* The row that is written takes the place of the upload that was admitted.
LEMMA RowCounts ==
    ASSUME Settled, PeakTrue, OverrunBounded, NEW u \in Uploads, request[u] = "put",
           asset' = [asset EXCEPT ![u] = "stored"], request' = [request EXCEPT ![u] = "none"],
           UNCHANGED <<event, peak>>
    PROVE  PeakTrue' /\ OverrunBounded'
<1>t. TypeOK /\ u \in InFlight /\ peak \in Nat
  BY DEF Settled, InFlight, TypeOK
<1>2. InFlight' \subseteq InFlight \ {u}
  BY <1>t DEF InFlight, TypeOK
<1>3. Stored' \subseteq Stored \cup {u}
  BY <1>t DEF Stored, LiveAssets, TypeOK
<1>4. Stored \cup {u} \subseteq Uploads /\ IsFiniteSet(Stored) /\ Cardinality(Stored) \in Nat
  BY OverrunIsSum, FewerCount
<1>5. Cardinality(Stored \cup {u}) <= Cardinality(Stored) + 1
  BY <1>4, OneMore
<1>6. /\ Cardinality(Stored') <= Cardinality(Stored \cup {u})
      /\ Cardinality(Stored') \in Nat /\ Cardinality(Stored \cup {u}) \in Nat
  BY <1>3, <1>4, FewerCount
<1>7. IsFiniteSet(InFlight) /\ Cardinality(InFlight) \in Nat /\ InFlight \ {u} \subseteq Uploads
  BY OverrunIsSum, FewerCount
<1>8. Cardinality(InFlight \ {u}) = Cardinality(InFlight) - 1
  BY <1>t, <1>7, FS_RemoveElement, Zenon
<1>9. /\ Cardinality(InFlight') <= Cardinality(InFlight \ {u})
      /\ Cardinality(InFlight') \in Nat
  BY <1>2, <1>7, FewerCount
<1>10. /\ Cardinality(InFlight') <= Cardinality(InFlight)
       /\ Cardinality(Stored') + Cardinality(InFlight') <= Cardinality(Stored) + Cardinality(InFlight)
  BY <1>4, <1>5, <1>6, <1>7, <1>8, <1>9
<1> QED BY <1>t, <1>6, <1>9, <1>10, SumsFall

\* The peak is kept, and the overrun of the quota stays below it.
LEMMA CountsStep ==
    ASSUME Settled, PeakTrue, OverrunBounded, [Next]_vars
    PROVE  PeakTrue' /\ OverrunBounded'
<1>t. TypeOK /\ peak \in Nat
  BY DEF Settled, TypeOK
<1>0. ASSUME UNCHANGED <<request, peak>>, Stored' \subseteq Stored
      PROVE  PeakTrue' /\ OverrunBounded'
  BY <1>t, <1>0, CountsFall DEF InFlight
<1>1. ASSUME NEW u \in Uploads, Requests(u), UNCHANGED <<removal>>
      PROVE  PeakTrue' /\ OverrunBounded'
  <2>0. UNCHANGED event
    BY <1>1 DEF removal
  <2>2. CASE admit(u) /\ assertStorageAvailable
    BY <2>0, <2>2, AdmitCounts DEF admit
  <2>3. CASE request[u] = "put" /\ asset' = [asset EXCEPT ![u] = "stored"] /\ Settle(u, "done")
             /\ UNCHANGED peak
    BY <2>0, <2>3, RowCounts DEF Settle
  <2>4. ASSUME NEW q, UNCHANGED <<asset, peak>>, request' = [request EXCEPT ![u] = q],
               q \in {"admitted", "put"} => u \in InFlight
        PROVE  PeakTrue' /\ OverrunBounded'
    <3>1. InFlight' \subseteq InFlight
      BY <1>t, <2>4 DEF InFlight, TypeOK
    <3>2. Stored' = Stored
      BY <2>0, <2>4 DEF Stored, LiveAssets
    <3> QED BY <1>t, <2>4, <3>1, <3>2, CountsFall
  <2>5. /\ request = [request EXCEPT ![u] = request[u]]
        /\ request[u] \in {"admitted", "put"} => u \in InFlight
    BY <1>t DEF TypeOK, InFlight
  <2>1. CASE enqueue(u)
    BY <2>4, <2>5, <2>1 DEF enqueue
  <2>6. CASE bulkUploadCheck(u)
    <3>1. request' = [request EXCEPT ![u] = request[u]] \/ request' = [request EXCEPT ![u] = "sent"]
      BY <2>5, <2>6 DEF bulkUploadCheck
    <3>2. UNCHANGED <<asset, peak>>
      BY <2>6 DEF bulkUploadCheck
    <3> QED BY <2>4, <2>5, <3>1, <3>2
  <2>7. CASE handleFile(u)
    BY <2>4, <2>5, <2>7 DEF handleFile
  <2>8. CASE admit(u) /\ ~ assertStorageAvailable
    <3>1. request' = [request EXCEPT ![u] = "none"] /\ UNCHANGED asset
      BY <2>8 DEF admit, Settle
    <3>2. InFlight' \subseteq InFlight
      BY <1>t, <3>1 DEF InFlight, TypeOK
    <3>3. /\ Cardinality(InFlight') <= Cardinality(InFlight)
          /\ Cardinality(InFlight') \in Nat /\ Cardinality(InFlight) \in Nat
      BY <3>2, OverrunIsSum, FewerCount
    <3>4. peak' = peak
      BY <1>t, <2>8, <3>3 DEF admit, PeakTrue
    <3> QED BY <2>4, <3>1, <3>4
  <2>9. CASE putFile(u)
    BY <2>4, <2>5, <2>9 DEF putFile
  <2>10. CASE create(u)
    BY <2>3, <2>4, <2>10 DEF create, Settle
  <2> QED BY <1>1, <2>1, <2>2, <2>6, <2>7, <2>8, <2>9, <2>10 DEF Requests
<1>2. ASSUME NEW u \in Uploads, RequestFails(u), UNCHANGED <<removal, peak>>
      PROVE  PeakTrue' /\ OverrunBounded'
  <2>0. UNCHANGED <<event, peak>>
    BY <1>2 DEF removal
  <2>1. request' = [request EXCEPT ![u] = "none"]
    BY <1>2 DEF RequestFails, Settle
  <2>2. CASE UNCHANGED asset
    <3>1. InFlight' \subseteq InFlight
      BY <1>t, <2>1 DEF InFlight, TypeOK
    <3>2. Stored' = Stored
      BY <2>0, <2>2 DEF Stored, LiveAssets
    <3> QED BY <1>t, <2>0, <3>1, <3>2, CountsFall
  <2>3. CASE request[u] = "put" /\ asset' = [asset EXCEPT ![u] = "stored"]
    BY <2>0, <2>1, <2>3, RowCounts
  <2> QED BY <1>2, <2>2, <2>3 DEF RequestFails, uploadRefused
<1>3. CASE Serve
  BY <1>1, <1>3 DEF Serve, Requests
<1>4. CASE Disturb
  BY <1>2, <1>4 DEF Disturb
<1>5. CASE Sweep
  BY <1>0, <1>5 DEF Sweep, StagingSweep, Stored, LiveAssets, removal
<1>6. CASE Process \/ Break
  <2>1. UNCHANGED <<request, event, peak>>
    BY <1>6 DEF Process, Break, upload, removal
  <2>2. PICK w \in Slots : TakeAsset(w) \/ PutDerivatives(w) \/ RecordDerivatives(w) \/ MediaError(w)
    BY <1>6 DEF Process, Break
  <2>3. \A v \in Uploads : IsLive(v)' => IsLive(v)
    <3>1. \/ asset' = asset
          \/ worker[w].asset \in LiveAssets
             /\ \E a \in {"failed", "processed"} : asset' = [asset EXCEPT ![worker[w].asset] = a]
      BY <2>2 DEF TakeAsset, PutDerivatives, RecordDerivatives, MediaError, Fails
    <3> QED BY <1>t, <3>1 DEF IsLive, LiveAssets, TypeOK
  <2>4. Stored' \subseteq Stored
    BY <2>1, <2>3 DEF Stored, LiveAssets, IsLive
  <2> QED BY <1>0, <2>1, <2>4
<1>7. CASE Clean \/ DeleteRequest
  <2>1. UNCHANGED <<request, peak>>
    BY <1>7 DEF Clean, DeleteRequest, upload
  <2>2. (event' = "live" => event = "live") /\ \A v \in Uploads : IsLive(v)' => IsLive(v)
    <3>1. ASSUME NEW u \in Uploads, deleteMany(u) \/ GraceEnds(u) \/ softDeleteMany(u)
          PROVE  event' = event /\ \A v \in Uploads : IsLive(v)' => IsLive(v)
      BY <1>t, <3>1 DEF deleteMany, GraceEnds, softDeleteMany, IsLive, TypeOK
    <3>2. CASE CleanupKeys \/ CleanupPrefix \/ purge
      BY <3>2 DEF CleanupKeys, CleanupPrefix, purge, IsLive
    <3>3. CASE StorageReconcile \/ remove
      BY <3>3 DEF StorageReconcile, remove, IsLive
    <3> QED BY <1>7, <3>1, <3>2, <3>3 DEF Clean, DeleteRequest
  <2>3. Stored' \subseteq Stored
    BY <2>2 DEF Stored, LiveAssets, IsLive
  <2> QED BY <1>0, <2>1, <2>3
<1>8. ASSUME NEW u \in Uploads, runJob(u)
      PROVE  PeakTrue' /\ OverrunBounded'
  <2>1. /\ u \in LiveAssets /\ asset' = [asset EXCEPT ![u] = "stored"] /\ UNCHANGED <<request, event, peak>>
    BY <1>8 DEF runJob, upload, removal
  <2>2. Stored' \subseteq Stored
    BY <1>t, <2>1 DEF Stored, LiveAssets, TypeOK
  <2> QED BY <1>0, <2>1, <2>2
<1>9. CASE UNCHANGED vars
  BY <1>0, <1>9 DEF vars, upload, removal, Stored, LiveAssets
<1> QED BY <1>3, <1>4, <1>5, <1>6, <1>7, <1>8, <1>9 DEF Next

-----------------------------------------------------------------------------

\* The invariant holds of an empty library.
LEMMA LibraryInit == Init => LibraryStrong
<1> SUFFICES ASSUME Init PROVE LibraryStrong
  OBVIOUS
<1> USE DEF Init
<1>0. \A u \in Uploads : ~ Exists(u) /\ ~ IsLive(u) /\ ~ Removed(u)
  BY DEF Exists, LiveAssets, IsLive, Removed
<1>1. TypeOK
  BY LibraryAssumption DEF TypeOK, Free
<1>2. \A u \in Uploads : RowTrue(u) /\ KeptFor(u)
  BY <1>0 DEF RowTrue, KeptFor
<1>3. \A w \in Slots : WorkTrue(w)
  BY DEF WorkTrue, Free
<1>4. Stored = {} /\ InFlight = {}
  BY DEF Stored, LiveAssets, InFlight
<1>5. PeakTrue /\ OverrunBounded
  <2>1. Cardinality(Stored) = 0 /\ Cardinality(InFlight) = 0
    BY <1>4, FS_EmptySet
  <2>2. peak = 0 /\ 0 + 0 <= Limit
    BY LibraryAssumption
  <2> QED BY <2>1, <2>2, OverrunIsSum DEF PeakTrue
<1> QED BY <1>1, <1>2, <1>3, <1>5 DEF LibraryStrong

\* The strong invariant says what LibraryInv does.
LEMMA StrongIsLibrary == LibraryStrong => LibraryInv
<1> SUFFICES ASSUME LibraryStrong PROVE LibraryInv
  OBVIOUS
<1>1. LiveHasObjects
  BY LiveIsLive DEF LibraryStrong, RowTrue, LiveHasObjects, Original, Derived
<1>2. ObjectsAccounted
  BY DEF LibraryStrong, KeptFor, Recording, ObjectsAccounted, Original, Derived
<1> QED BY <1>1, <1>2 DEF LibraryStrong, LibraryInv

\* Bucket, rows and quota agree whatever uploads, duplicates, re-runs, failures, deletions
\* and sweeps overlap: what is listed has its objects, an object has what it is there for,
\* and the quota is overrun by less than the uploads that overlapped; what a purge took
\* is excepted
\* (upload.service.ts:57-96, media.service.ts:47-93, cleanup.service.ts:105).
THEOREM LibraryAgrees == Spec => []LibraryInv
<1>1. LibraryStrong <=> Settled /\ PeakTrue /\ OverrunBounded
  BY DEF LibraryStrong, Settled
<1>2. LibraryStrong /\ [Next]_vars => LibraryStrong'
  <2>1. LibraryStrong /\ [Next]_vars => Settled' /\ PeakTrue' /\ OverrunBounded'
    BY <1>1, SettledStep, CountsStep
  <2> QED BY <2>1 DEF LibraryStrong, Settled
<1> QED BY <1>2, LibraryInit, StrongIsLibrary, PTL DEF Spec

-----------------------------------------------------------------------------
(* The crop *)

Box == [x : Int, y : Int, w : Int, h : Int]

(* The inductive invariant: also the rectangle a drag started from is in the frame, *)
(* because every move of the drag starts again from it.                             *)
CropInv ==
    /\ crop \in Box /\ dragStartCrop \in Box
    /\ dragStartX \in Int /\ dragStartY \in Int
    /\ InFrame(crop) /\ InFrame(dragStartCrop)

(* What one axis of a drag does: from a side that fits it makes one that fits,      *)
(* however far and in whichever direction the pointer went.                         *)
LEMMA DraggedFits ==
    ASSUME NEW near, NEW far, NEW from \in Int, NEW size \in Int, NEW by \in Int, Fits(from, size)
    PROVE  LET d == Dragged(near, far, from, size, by)
           IN  d.at \in Int /\ d.size \in Int /\ Fits(d.at, d.size)
<1> USE CropConstants
<1>1. LET d == Moved(from, size, by) IN d.at \in Int /\ d.size \in Int /\ Fits(d.at, d.size)
  BY DEF Moved, Fits, clamp01, Least, Most
<1>2. LET d == NearDragged(from, size, by) IN d.at \in Int /\ d.size \in Int /\ Fits(d.at, d.size)
  BY DEF NearDragged, Fits, clamp01, Least, Most
<1>3. LET d == FarDragged(from, size, by) IN d.at \in Int /\ d.size \in Int /\ Fits(d.at, d.size)
  BY DEF FarDragged, Fits, clamp01, Least, Most
<1>4. LET d == Kept(from, size) IN d.at \in Int /\ d.size \in Int /\ Fits(d.at, d.size)
  BY DEF Kept, Fits
<1> QED
  BY <1>1, <1>2, <1>3, <1>4, Zenon DEF Dragged

\* The whole frame, where the editor starts, is inside itself.
LEMMA WholeFrameFits == WholeFrame \in Box /\ InFrame(WholeFrame)
  BY CropConstants DEF WholeFrame, Box, InFrame, Fits

\* The editor opens with a rectangle and a drag that fit.
LEMMA CropInvInit == CropInit => CropInv
  BY WholeFrameFits DEF CropInit, CropInv

\* Every press, move, release and turn keeps them fitting.
LEMMA CropInvNext == CropInv /\ [CropNext]_cropVars => CropInv'
<1> SUFFICES ASSUME CropInv, [CropNext]_cropVars PROVE CropInv'
  OBVIOUS
<1>1. CASE rotate \/ resetCrop
  BY <1>1, WholeFrameFits DEF CropInv, rotate, resetCrop, dragVars, InFrame, Fits
<1>2. ASSUME NEW s \in Shapes, applyAspect(s) PROVE CropInv'
  <2>1. s.w \in MinSide .. Frame /\ s.h \in MinSide .. Frame
    BY CropConstants
  <2>2. ASSUME NEW side \in MinSide .. Frame
        PROVE  (Frame - side) \div 2 \in Int /\ Fits((Frame - side) \div 2, side)
    BY CropConstants DEF Fits
  <2>3. crop' \in Box /\ InFrame(crop')
    BY <1>2, <2>1, <2>2, CropConstants DEF applyAspect, Box, InFrame
  <2> QED
    BY <1>2, <2>3 DEF CropInv, applyAspect, dragVars, InFrame, Fits
<1>3. ASSUME NEW mode \in Modes, NEW px \in Point, NEW py \in Point, startDrag(mode, px, py)
      PROVE  CropInv'
  BY <1>3, CropConstants DEF CropInv, startDrag, Point, InFrame, Fits
<1>4. ASSUME NEW px \in Point, NEW py \in Point, onDragMove(px, py) PROVE CropInv'
  <2> DEFINE h == Dragged(West, East, dragStartCrop.x, dragStartCrop.w, px - dragStartX)
             v == Dragged(North, South, dragStartCrop.y, dragStartCrop.h, py - dragStartY)
  <2>1. px - dragStartX \in Int /\ py - dragStartY \in Int
    BY CropConstants DEF CropInv, Point
  <2>2. /\ dragStartCrop.x \in Int /\ dragStartCrop.w \in Int /\ Fits(dragStartCrop.x, dragStartCrop.w)
        /\ dragStartCrop.y \in Int /\ dragStartCrop.h \in Int /\ Fits(dragStartCrop.y, dragStartCrop.h)
    BY DEF CropInv, Box, InFrame
  <2>3. h.at \in Int /\ h.size \in Int /\ Fits(h.at, h.size)
    BY <2>1, <2>2, DraggedFits, Zenon
  <2>4. v.at \in Int /\ v.size \in Int /\ Fits(v.at, v.size)
    BY <2>1, <2>2, DraggedFits, Zenon
  <2>5. crop' = [x |-> h.at, y |-> v.at, w |-> h.size, h |-> v.size]
    BY <1>4, Zenon DEF onDragMove
  <2> HIDE DEF h, v
  <2>6. crop' \in Box /\ InFrame(crop')
    BY <2>3, <2>4, <2>5 DEF Box, InFrame
  <2> QED
    BY <1>4, <2>6 DEF CropInv, onDragMove, dragVars, InFrame, Fits
<1>5. CASE endDrag
  BY <1>5 DEF CropInv, endDrag, InFrame, Fits
<1>6. CASE UNCHANGED cropVars
  BY <1>6 DEF CropInv, cropVars, InFrame, Fits
<1> QED
  BY <1>1, <1>2, <1>3, <1>4, <1>5, <1>6 DEF CropNext

(* Whatever the pointer does, the rectangle that save exports (PhotoEditor.svelte) *)
(* lies inside the photo and is at least MinSide wide and high.                     *)
THEOREM CropStaysInFrame == CropSpec => []CropInFrame
<1>1. CropInv => CropInFrame
  BY DEF CropInv, CropInFrame
<1> QED
  BY <1>1, CropInvInit, CropInvNext, PTL DEF CropSpec

=============================================================================
