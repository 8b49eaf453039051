--------------------------- MODULE Selfies_proofs ---------------------------
(***************************************************************************)
(* A guest's row tells the truth, and every match has its notice asked     *)
(* for, for any number of guests, photos, handlers and failures.           *)
(***************************************************************************)
EXTENDS Selfies, TLAPS

RowType == [state : {"none", "live", "scrubbed", "removed"}, key : {0} \cup Submissions,
            status : Statuses, embedding : {0} \cup Submissions]
SelfiesType == [of : {0} \cup Submissions, count : 0..MaxSelfies, embedded : SUBSET (1..MaxSelfies)]
RequestType == [pc : {"idle", "upsert", "clear", "insert"}, of : {0} \cup Submissions, count : 0..MaxSelfies]
WorkerType == [pc : {"idle", "embed", "status"}, guest : Guests \cup {"none"},
               of : {0} \cup Submissions, todo : SUBSET (1..MaxSelfies),
               found : BOOLEAN, new : BOOLEAN, total : Totals]
MatcherType == [job : {"idle", "rematch", "sweep"}, todo : SUBSET Guests,
                guest : Guests \cup {"none"}, new : BOOLEAN, total : Totals]
Objects == Guests \X Submissions \X (1..MaxSelfies)

\* A row that is shown and a request under way belong to a submission that was made.
Numbered ==
    \A g \in Guests :
        /\ Live(g) => row[g].key \in Submissions
        /\ request[g].pc # "idle" => request[g].of \in Submissions
        /\ selfies[g].count # 0 => selfies[g].of \in Submissions

\* A handler has a guest, and announces only what it inserted.
HandlersTrue ==
    /\ \A w \in SelfieSlots : /\ worker[w].pc # "idle" => worker[w].guest \in Guests
                              /\ worker[w].new => worker[w].pc = "status"
    /\ matcher.job = "idle" => matcher.guest = "none"

\* Until the event is past retention only a removed guest's object is given up, and the
\* object is there before the row is.
StorageTrue ==
    event # "aged" =>
        /\ retention = {}
        /\ \A g \in Guests, k \in Submissions, n \in 1..MaxSelfies :
             <<g, k, n>> \in doomed => row[g].state = "removed"
        /\ \A g \in Guests :
             /\ Live(g) => <<g, row[g].key, 1>> \in objects
             /\ request[g].pc = "upsert" /\ row[g].state \in {"none", "live"} =>
                  <<g, request[g].of, 1>> \in objects

SelfiesStrong ==
    TypeOK /\ Numbered /\ HandlersTrue /\ StorageTrue /\ NoticesAskedFor

-----------------------------------------------------------------------------
(* Frames and writes *)

\* The types in parts.
Typed ==
    /\ row \in [Guests -> RowType] /\ selfies \in [Guests -> SelfiesType]
    /\ request \in [Guests -> RequestType]
    /\ matches \in [Guests -> SUBSET Photos] /\ unasked \in [Guests -> SUBSET Photos]
    /\ givenUp \subseteq Guests /\ deleted \subseteq Photos
    /\ waiting \in [Guests -> Nat] /\ worker \in [SelfieSlots -> WorkerType]
    /\ rematch \in {"none", "waiting", "active"} /\ matcher \in MatcherType
    /\ retention \subseteq Guests /\ objects \subseteq Objects /\ doomed \subseteq Objects
    /\ indexed \subseteq Photos /\ event \in {"open", "closed", "aged"}
    /\ credit \in 0..MaxFaults

\* The types in parts are the types.
LEMMA TypesAreParts == TypeOK <=> Typed
BY DEF TypeOK, Typed, RowType, SelfiesType, RequestType, WorkerType, MatcherType, Objects

\* So they are after a step.
LEMMA TypesArePartsNext == TypeOK' <=> Typed'
BY DEF TypeOK, Typed, RowType, SelfiesType, RequestType, WorkerType, MatcherType, Objects

\* An update by id writes one row, unless that row is gone.
LEMMA RowWritten ==
    ASSUME row \in [Guests -> RowType], NEW g \in Guests, NEW r \in RowType, update(g, r)
    PROVE  /\ row' \in [Guests -> RowType]
           /\ \A h \in Guests \ {g} : row'[h] = row[h]
           /\ row'[g] = IF row[g].state = "removed" THEN row[g] ELSE r
BY DEF update

\* A submission's request and selfies, and the rows' keys, are what two parts look at: a
\* write that leaves states and keys alone leaves both parts true.
LEMMA KeysKept ==
    ASSUME Numbered, StorageTrue,
           \A h \in Guests : row'[h].state = row[h].state /\ row'[h].key = row[h].key,
           UNCHANGED <<request, storage, event>>
    PROVE  /\ StorageTrue'
           /\ (\A h \in Guests : selfies'[h].of = selfies[h].of /\ selfies'[h].count = selfies[h].count)
                => Numbered'
<1>1. StorageTrue'
  BY DEF StorageTrue, storage, Live, jobs
<1>2. ASSUME \A h \in Guests : selfies'[h].of = selfies[h].of /\ selfies'[h].count = selfies[h].count
      PROVE  Numbered'
  BY <1>2 DEF Numbered, Live
<1> QED BY <1>1, <1>2

\* The records at rest.
LEMMA RestTyped ==
    /\ NoSelfies \in SelfiesType /\ IdleWorker \in WorkerType /\ IdleMatcher \in MatcherType
BY SelfiesAssumption DEF NoSelfies, SelfiesType, IdleWorker, WorkerType, IdleMatcher, MatcherType, Totals

\* A match is announced as long as neither its handler nor the credit changes.
LEMMA AskedForKept ==
    ASSUME NoticesAskedFor, UNCHANGED <<unasked, matcher, worker, credit>>
    PROVE  NoticesAskedFor'
BY DEF NoticesAskedFor

\* So are the handlers' guests.
LEMMA HandlersKept ==
    ASSUME HandlersTrue, UNCHANGED <<matcher, worker>>
    PROVE  HandlersTrue'
BY DEF HandlersTrue

\* A request that leaves its first await has no claim on its objects any more.
LEMMA RequestEnds ==
    ASSUME StorageTrue, NEW g \in Guests, request'[g].pc # "upsert",
           \A h \in Guests \ {g} : request'[h] = request[h],
           UNCHANGED <<row, retention, objects, doomed, event>>
    PROVE  StorageTrue'
<1>1. ASSUME NEW h \in Guests, event # "aged", request'[h].pc = "upsert", row[h].state \in {"none", "live"}
      PROVE  <<h, request'[h].of, 1>> \in objects
  <2>1. request'[h] = request[h]
    BY <1>1
  <2> QED BY <1>1, <2>1 DEF StorageTrue
<1> QED BY <1>1 DEF StorageTrue, Live

-----------------------------------------------------------------------------
(* The intake *)

\* A submission puts its objects under keys of its own before anything else (public.service.ts).
LEMMA SubmitStep ==
    ASSUME SelfiesStrong, NEW g \in Guests, submitSelfie(g),
           UNCHANGED <<found, worker, matching, outside, credit>>
    PROVE  SelfiesStrong'
<1>t. Typed
  BY TypesAreParts DEF SelfiesStrong
<1>1. PICK n \in 1..MaxSelfies :
         /\ request' = [request EXCEPT
              ![g] = [pc |-> "upsert", of |-> row[g].key + 1, count |-> n]]
         /\ objects' = objects \cup {<<g, row[g].key + 1, i>> : i \in 1..n}
  BY DEF submitSelfie
<1>2. UNCHANGED <<row, selfies, matches, unasked, waiting, givenUp, worker, rematch, matcher, retention,
                  doomed, indexed, deleted, event, credit>>
  BY DEF submitSelfie, found, matching, outside, jobs
<1> DEFINE k == row[g].key + 1
<1>3. k \in Submissions /\ row[g].state \in {"none", "live"} /\ n \in 0..MaxSelfies
  <2>1. row[g].key \in {0} \cup (1..EmailLimit) /\ row[g].key < EmailLimit
    BY <1>t DEF Typed, RowType, submitSelfie, Submissions
  <2> QED BY <2>1, SelfiesAssumption DEF Submissions, submitSelfie
<1>4. request' = [request EXCEPT ![g] = [pc |-> "upsert", of |-> k, count |-> n]]
      /\ objects' = objects \cup {<<g, k, i>> : i \in 1..n}
  BY <1>1
<1> HIDE DEF k
<1>5. request' \in [Guests -> RequestType] /\ objects' \subseteq Objects
  <2>1. [pc |-> "upsert", of |-> k, count |-> n] \in RequestType
    BY <1>3 DEF RequestType
  <2>2. \A i \in 1..n : i \in 1..MaxSelfies
    BY SelfiesAssumption
  <2>3. {<<g, k, i>> : i \in 1..n} \subseteq Objects
    BY <2>2, <1>3 DEF Objects
  <2> QED BY <1>t, <1>4, <2>1, <2>3 DEF Typed
<1>6. TypeOK'
  BY <1>t, <1>2, <1>5, TypesArePartsNext DEF Typed
<1>7. request'[g] = [pc |-> "upsert", of |-> k, count |-> n]
      /\ \A h \in Guests \ {g} : request'[h] = request[h]
  BY <1>t, <1>4 DEF Typed
<1>8. Numbered'
  BY <1>2, <1>3, <1>7 DEF Numbered, Live, SelfiesStrong
<1>9. StorageTrue'
  <2>1. <<g, k, 1>> \in objects'
    BY <1>4
  <2> SUFFICES ASSUME event # "aged" PROVE StorageTrue'
    BY <1>2 DEF StorageTrue
  <2>3. objects \subseteq objects' /\ k = request'[g].of
    BY <1>4, <1>7
  <2>2. ASSUME NEW h \in Guests
        PROVE  /\ row[h].state = "live" => <<h, row[h].key, 1>> \in objects'
               /\ request'[h].pc = "upsert" /\ row[h].state \in {"none", "live"} =>
                      <<h, request'[h].of, 1>> \in objects'
    <3>0. /\ row[h].state = "live" => <<h, row[h].key, 1>> \in objects
          /\ request[h].pc = "upsert" /\ row[h].state \in {"none", "live"} =>
                 <<h, request[h].of, 1>> \in objects
      BY DEF StorageTrue, Live, SelfiesStrong
    <3>1. CASE h = g
      BY <2>1, <2>3, <3>0, <3>1
    <3>2. CASE h # g
      BY <1>7, <2>3, <3>0, <3>2
    <3> QED BY <3>1, <3>2
  <2> QED BY <1>2, <2>2 DEF StorageTrue, Live, SelfiesStrong
<1>10. NoticesAskedFor' /\ HandlersTrue'
  BY <1>2, AskedForKept, HandlersKept DEF Live, SelfiesStrong
<1> QED BY <1>6, <1>8, <1>9, <1>10 DEF SelfiesStrong

\* The row is written when the objects are there; a scrubbed or removed one stays so.
LEMMA UpsertStep ==
    ASSUME SelfiesStrong, NEW g \in Guests, upsert(g),
           UNCHANGED <<found, worker, matching, outside, credit>>
    PROVE  SelfiesStrong'
<1>t. Typed
  BY TypesAreParts DEF SelfiesStrong
<1>2. UNCHANGED <<selfies, matches, unasked, waiting, givenUp, worker, rematch, matcher, retention,
                  objects, doomed, indexed, deleted, event, credit>>
  BY DEF upsert, found, matching, outside, storage, jobs
<1>3. NoticesAskedFor' /\ HandlersTrue'
  BY <1>2, AskedForKept, HandlersKept DEF SelfiesStrong
<1>4. request[g].of \in Submissions
  BY DEF upsert, SelfiesStrong, Numbered
<1>5. CASE row[g].state \in {"none", "live"}
  <2> DEFINE r == [state |-> "live", key |-> request[g].of, status |-> "processing", embedding |-> 0]
             q == [request[g] EXCEPT !.pc = "clear"]
  <2>1. row' = [row EXCEPT ![g] = r] /\ request' = [request EXCEPT ![g] = q]
    BY <1>5, <1>t DEF upsert, Typed
  <2>2. r \in RowType /\ q \in RequestType
    BY <1>4, <1>t DEF RowType, RequestType, Typed, Statuses
  <2>3. r.state = "live" /\ r.key = request[g].of /\ r.status = "processing"
        /\ q.pc = "clear" /\ q.of = request[g].of
    BY <1>t DEF Typed, RequestType
  <2> HIDE DEF r, q
  <2>4. /\ row'[g] = r /\ request'[g] = q
        /\ \A h \in Guests \ {g} : row'[h] = row[h] /\ request'[h] = request[h]
    BY <2>1, <1>t DEF Typed
  <2>5. TypeOK'
    BY <1>t, <1>2, <2>1, <2>2, TypesArePartsNext DEF Typed
  <2>6. Numbered'
    BY <1>2, <1>4, <2>3, <2>4 DEF Numbered, Live, SelfiesStrong
  <2>7. StorageTrue'
    BY <1>2, <1>4, <1>5, <2>3, <2>4 DEF StorageTrue, Live, SelfiesStrong, upsert
  <2> QED BY <1>3, <2>5, <2>6, <2>7 DEF SelfiesStrong
<1>6. CASE row[g].state \notin {"none", "live"}
  <2> DEFINE q == [request[g] EXCEPT !.pc = "idle"]
  <2>1. row' = row /\ request' = [request EXCEPT ![g] = q]
    BY <1>6, <1>t DEF upsert, Typed
  <2>2. q \in RequestType /\ q.pc = "idle"
    BY <1>t DEF RequestType, Typed
  <2> HIDE DEF q
  <2>4. request'[g] = q /\ \A h \in Guests \ {g} : request'[h] = request[h]
    BY <2>1, <1>t DEF Typed
  <2>5. TypeOK'
    BY <1>t, <1>2, <2>1, <2>2, TypesArePartsNext DEF Typed
  <2>6. Numbered'
    BY <1>2, <2>1, <2>2, <2>4 DEF Numbered, Live, SelfiesStrong
  <2>7. StorageTrue'
    BY <1>2, <2>1, <2>2, <2>4, RequestEnds DEF SelfiesStrong
  <2> QED BY <1>3, <2>5, <2>6, <2>7 DEF SelfiesStrong
<1> QED BY <1>5, <1>6

\* Selfies are replaced in two writes that neither the row nor the objects see.
LEMMA ReplaceStep ==
    ASSUME SelfiesStrong, NEW g \in Guests, replaceSelfies(g) \/ InsertSelfies(g),
           UNCHANGED <<found, worker, matching, outside, credit>>
    PROVE  SelfiesStrong'
<1>t. Typed
  BY TypesAreParts DEF SelfiesStrong
<1>2. UNCHANGED <<row, matches, unasked, worker, rematch, matcher, retention,
                  objects, doomed, indexed, deleted, event, credit>>
  BY DEF replaceSelfies, InsertSelfies, found, matching, outside, storage, jobs
<1>3. NoticesAskedFor' /\ HandlersTrue'
  BY <1>2, AskedForKept, HandlersKept DEF SelfiesStrong, Live
<1>4. request[g].of \in Submissions
  BY DEF replaceSelfies, InsertSelfies, SelfiesStrong, Numbered
<1> DEFINE s == [of |-> request[g].of, count |-> request[g].count, embedded |-> {}]
<1>5. s \in SelfiesType /\ s.of \in Submissions
  BY <1>4, <1>t DEF SelfiesType, RequestType, Typed
<1>6. NoSelfies \in SelfiesType /\ NoSelfies.count = 0
  BY RestTyped DEF NoSelfies
<1>7. PICK z \in {s, NoSelfies, selfies[g]} : selfies' = [selfies EXCEPT ![g] = z]
  <2>1. selfies = [selfies EXCEPT ![g] = selfies[g]]
    BY <1>t DEF Typed
  <2> QED BY <2>1 DEF replaceSelfies, InsertSelfies
<1>8. z \in SelfiesType /\ (z.count # 0 => z.of \in Submissions)
  BY <1>5, <1>6, <1>t DEF Typed, SelfiesStrong, Numbered
<1> HIDE DEF s
<1>9. PICK p \in {"insert", "idle"} : request' = [request EXCEPT ![g] = [request[g] EXCEPT !.pc = p]]
  BY <1>t DEF replaceSelfies, InsertSelfies, Typed
<1> DEFINE q == [request[g] EXCEPT !.pc = p]
<1>10. q \in RequestType /\ q.pc = p /\ q.of = request[g].of
  BY <1>t, <1>9 DEF Typed, RequestType
<1>11. request' = [request EXCEPT ![g] = q]
  BY <1>9
<1> HIDE DEF q
<1>12. /\ selfies'[g] = z /\ request'[g] = q
       /\ \A h \in Guests \ {g} : selfies'[h] = selfies[h] /\ request'[h] = request[h]
  BY <1>t, <1>7, <1>11 DEF Typed
<1>13. TypeOK'
  <2>1. waiting' \in [Guests -> Nat] /\ givenUp' \subseteq Guests
    BY <1>t DEF replaceSelfies, InsertSelfies, jobs, Typed
  <2> QED BY <1>t, <1>2, <1>7, <1>8, <1>10, <1>11, <2>1, TypesArePartsNext DEF Typed
<1>14. Numbered'
  BY <1>2, <1>4, <1>8, <1>10, <1>12 DEF Numbered, Live, SelfiesStrong
<1>15. StorageTrue'
  BY <1>2, <1>9, <1>10, <1>12, RequestEnds DEF SelfiesStrong
<1> QED BY <1>3, <1>13, <1>14, <1>15 DEF SelfiesStrong

-----------------------------------------------------------------------------
(* The handlers *)

\* A selfie handler that hands on, drops or finishes its work: what it inserted it goes on
\* carrying, unless it has announced it or died.
LEMMA WorkerWrites ==
    ASSUME Typed, HandlersTrue, NoticesAskedFor, NEW w \in SelfieSlots, NEW v \in WorkerType,
           worker' = [worker EXCEPT ![w] = v], matcher' = matcher,
           credit' \in 0..MaxFaults, credit' <= credit,
           v.pc # "idle" => v.guest \in Guests,
           v.new => v.pc = "status",
           \A g \in Guests : unasked'[g] # {} => unasked[g] # {} \/ (v.guest = g /\ v.new),
           worker[w].new => \/ credit' < MaxFaults \/ (v.new /\ v.guest = worker[w].guest)
                            \/ unasked'[worker[w].guest] = {}
    PROVE  worker' \in [SelfieSlots -> WorkerType] /\ HandlersTrue' /\ NoticesAskedFor'
<1>1. /\ worker' \in [SelfieSlots -> WorkerType]
      /\ worker'[w] = v /\ \A x \in SelfieSlots \ {w} : worker'[x] = worker[x]
  BY DEF Typed
<1>2. HandlersTrue'
  BY <1>1 DEF HandlersTrue
<1>3. ASSUME NEW g \in Guests, unasked'[g] # {}, ~ (credit' < MaxFaults),
             ~ (matcher'.guest = g /\ matcher'.new)
      PROVE  \E x \in SelfieSlots : worker'[x].guest = g /\ worker'[x].new
  <2>1. CASE v.guest = g /\ v.new
    BY <1>1, <2>1
  <2>2. CASE ~ (v.guest = g /\ v.new)
    <3>1. unasked[g] # {}
      BY <1>3, <2>2
    <3>2. ~ (credit < MaxFaults)
      BY <1>3, SelfiesAssumption DEF Typed
    <3>3. PICK x \in SelfieSlots : worker[x].guest = g /\ worker[x].new
      BY <1>3, <3>1, <3>2 DEF NoticesAskedFor
    <3>4. x # w
      BY <1>3, <2>2, <3>3
    <3> QED BY <1>1, <3>3, <3>4
  <2> QED BY <2>1, <2>2
<1>4. NoticesAskedFor'
  BY <1>3 DEF NoticesAskedFor
<1> QED BY <1>1, <1>2, <1>4

\* The same of the matcher.
LEMMA MatcherWrites ==
    ASSUME Typed, HandlersTrue, NoticesAskedFor, NEW m \in MatcherType,
           matcher' = m, worker' = worker, credit' \in 0..MaxFaults, credit' <= credit,
           m.job = "idle" => m.guest = "none",
           \A g \in Guests : unasked'[g] # {} => unasked[g] # {} \/ (m.guest = g /\ m.new),
           matcher.guest # "none" => \/ credit' < MaxFaults \/ unasked'[matcher.guest] = {}
                                     \/ ~ matcher.new \/ (m.new /\ m.guest = matcher.guest)
    PROVE  HandlersTrue' /\ NoticesAskedFor'
<1>1. HandlersTrue'
  BY DEF HandlersTrue
<1>2. ASSUME NEW g \in Guests, unasked'[g] # {}, ~ (credit' < MaxFaults),
             ~ (m.guest = g /\ m.new)
      PROVE  \E x \in SelfieSlots : worker[x].guest = g /\ worker[x].new
  <2>1. unasked[g] # {}
    BY <1>2
  <2>2. ~ (credit < MaxFaults)
    BY <1>2, SelfiesAssumption DEF Typed
  <2>3. g # "none"
    BY SelfiesAssumption
  <2>4. ~ (matcher.guest = g /\ matcher.new)
    BY <1>2, <2>3
  <2> QED BY <2>1, <2>2, <2>4 DEF NoticesAskedFor
<1>3. NoticesAskedFor'
  BY <1>2 DEF NoticesAskedFor
<1> QED BY <1>1, <1>3

\* A status or an embedding is written where the row is, whatever it is by then: keys and
\* states stay.
LEMMA StatusWrites ==
    ASSUME SelfiesStrong, NEW g \in Guests, NEW r, update(g, r), r \in RowType,
           r.state = row[g].state, r.key = row[g].key,
           UNCHANGED <<request, storage, event>>,
           \A h \in Guests : selfies'[h].of = selfies[h].of /\ selfies'[h].count = selfies[h].count
    PROVE  row' \in [Guests -> RowType] /\ Numbered' /\ StorageTrue'
<1>t. Typed
  BY TypesAreParts DEF SelfiesStrong
<1>1. /\ row' \in [Guests -> RowType]
      /\ \A h \in Guests \ {g} : row'[h] = row[h]
      /\ row'[g] = IF row[g].state = "removed" THEN row[g] ELSE r
  BY <1>t, RowWritten DEF Typed
<1>2. \A h \in Guests : row'[h].state = row[h].state /\ row'[h].key = row[h].key
  BY <1>1
<1>3. Numbered' /\ StorageTrue'
  BY <1>2, KeysKept DEF SelfiesStrong
<1> QED BY <1>1, <1>3

\* What a search found is inserted, and is for its handler to announce.
LEMMA InsertedMatches ==
    ASSUME Typed, NEW g \in Guests, insertMatches(g)
    PROVE  /\ matches' \in [Guests -> SUBSET Photos] /\ unasked' \in [Guests -> SUBSET Photos]
           /\ \A h \in Guests : matches[h] \subseteq matches'[h]
           /\ \A h \in Guests : unasked'[h] # {} => unasked[h] # {} \/ (h = g /\ IsNew(g))
<1> DEFINE new == searchFacesByEmbedding(g) \ matches[g]
<1>1. new \subseteq Photos
  BY DEF searchFacesByEmbedding, Typed
<1>2. /\ matches' = [matches EXCEPT ![g] = matches[g] \cup new]
      /\ unasked' = [unasked EXCEPT ![g] = unasked[g] \cup new]
  BY DEF insertMatches, Typed
<1>3. IsNew(g) <=> new # {}
  BY DEF IsNew
<1> HIDE DEF new
<1> QED BY <1>1, <1>2, <1>3 DEF Typed

\* Settling writes the status the count calls for, and takes the notices asked for off.
LEMMA MatchSettled ==
    ASSUME SelfiesStrong, NEW g \in Guests, NEW n \in BOOLEAN, NEW t, SettleMatch(g, n, t),
           UNCHANGED event
    PROVE  /\ row' \in [Guests -> RowType] /\ unasked' \in [Guests -> SUBSET Photos]
           /\ \A h \in Guests : unasked'[h] # {} => unasked[h] # {}
           /\ n => unasked'[g] = {}
           /\ Numbered' /\ StorageTrue'
<1>t. Typed
  BY TypesAreParts DEF SelfiesStrong
<1> DEFINE status == IF t = "some" THEN "matched" ELSE "pending_match"
           r == [row[g] EXCEPT !.status = status]
<1>1. update(g, r) /\ UNCHANGED <<selfies, request, matches, storage>>
  BY DEF SettleMatch
<1>2. r \in RowType /\ r.state = row[g].state /\ r.key = row[g].key /\ r.status = status
  BY <1>t DEF Typed, RowType, Statuses
<1> HIDE DEF status, r
<1>4. row' \in [Guests -> RowType] /\ Numbered' /\ StorageTrue'
  BY <1>1, <1>2, StatusWrites
<1>5. unasked' = IF n THEN [unasked EXCEPT ![g] = {}] ELSE unasked
  BY DEF SettleMatch
<1>6. /\ unasked' \in [Guests -> SUBSET Photos]
      /\ \A h \in Guests : unasked'[h] # {} => unasked[h] # {}
      /\ n => unasked'[g] = {}
  BY <1>5, <1>t DEF Typed
<1> QED BY <1>4, <1>6

\* The rows and the storage stay as they are.
LEMMA ElsewhereKept ==
    ASSUME SelfiesStrong, UNCHANGED <<intake, storage, event>>
    PROVE  Numbered' /\ StorageTrue'
<1>1. Numbered'
  BY DEF Numbered, Live, intake, SelfiesStrong
<1>2. StorageTrue'
  BY DEF StorageTrue, Live, intake, storage, SelfiesStrong
<1> QED BY <1>1, <1>2

\* A selfie job is taken, or skipped when the row has no selfie.
LEMMA TakeStep ==
    ASSUME SelfiesStrong, NEW w \in SelfieSlots, TakeSelfie(w), UNCHANGED <<matching, outside, credit>>
    PROVE  SelfiesStrong'
<1>t. Typed
  BY TypesAreParts DEF SelfiesStrong
<1>2. UNCHANGED <<row, selfies, request, matches, unasked, givenUp, rematch, matcher, retention,
                  objects, doomed, indexed, deleted, event, credit>>
  BY DEF TakeSelfie, matching, outside, intake, found, storage, jobs
<1>3. PICK g \in Guests :
         /\ waiting[g] > 0
         /\ waiting' = [waiting EXCEPT ![g] = @ - 1]
         /\ worker' = IF Live(g) /\ row[g].key # 0
                      THEN [worker EXCEPT ![w] = [IdleWorker EXCEPT
                              !.pc = "embed", !.guest = g, !.of = selfies[g].of,
                              !.todo = 1..selfies[g].count]]
                      ELSE worker
  BY DEF TakeSelfie
<1>4. waiting' \in [Guests -> Nat]
  <2>1. waiting[g] \in Nat /\ waiting[g] - 1 \in Nat
    BY <1>3, <1>t DEF Typed
  <2> QED BY <1>3, <1>t, <2>1 DEF Typed
<1> DEFINE e == [IdleWorker EXCEPT !.pc = "embed", !.guest = g, !.of = selfies[g].of,
                                   !.todo = 1..selfies[g].count]
<1>5. e \in WorkerType /\ e.guest = g /\ ~ e.new
  <2>1. selfies[g].of \in {0} \cup Submissions /\ selfies[g].count \in 0..MaxSelfies
    BY <1>t DEF Typed, SelfiesType
  <2>2. 1..selfies[g].count \subseteq 1..MaxSelfies
    BY <2>1, SelfiesAssumption
  <2> QED BY <2>1, <2>2 DEF WorkerType, IdleWorker, Totals
<1>6. worker[w] \in WorkerType /\ worker[w].pc = "idle" /\ ~ worker[w].new
  BY <1>t DEF Typed, HandlersTrue, TakeSelfie, SelfiesStrong
<1>7. PICK v \in {e, worker[w]} : worker' = [worker EXCEPT ![w] = v]
  <2>1. worker = [worker EXCEPT ![w] = worker[w]]
    BY <1>t DEF Typed
  <2> QED BY <1>3, <2>1
<1> HIDE DEF e
<1>8. worker' \in [SelfieSlots -> WorkerType] /\ HandlersTrue' /\ NoticesAskedFor'
  <2>1. credit' \in 0..MaxFaults /\ credit' <= credit
    BY <1>2, <1>t, SelfiesAssumption DEF Typed
  <2>2. v \in WorkerType /\ (v.pc # "idle" => v.guest \in Guests) /\ ~ v.new
    BY <1>5, <1>6
  <2> QED BY <1>2, <1>t, <1>6, <1>7, <2>1, <2>2, WorkerWrites DEF SelfiesStrong
<1>9. TypeOK'
  BY <1>t, <1>2, <1>4, <1>8, TypesArePartsNext DEF Typed
<1>10. Numbered' /\ StorageTrue'
  BY <1>2, ElsewhereKept DEF intake, storage
<1> QED BY <1>8, <1>9, <1>10 DEF SelfiesStrong

\* One selfie is searched: the row may be another submission's by now, or gone.
LEMMA EmbedStep ==
    ASSUME SelfiesStrong, NEW w \in SelfieSlots, EmbedSelfie(w), UNCHANGED <<matching, outside, credit>>
    PROVE  SelfiesStrong'
<1>t. Typed
  BY TypesAreParts DEF SelfiesStrong
<1> DEFINE g == worker[w].guest
           n == CHOOSE n \in worker[w].todo : \A m \in worker[w].todo : n <= m
<1>1. /\ worker[w].pc = "embed" /\ worker[w].todo # {}
      /\ <<g, worker[w].of, n>> \in objects
      /\ \E face \in BOOLEAN :
           /\ selfies' = IF selfies[g].of # worker[w].of THEN selfies
                         ELSE [selfies EXCEPT ![g].embedded =
                                 IF face THEN @ \cup {n} ELSE @ \ {n}]
           /\ IF face /\ ~worker[w].found
              THEN update(g, [row[g] EXCEPT !.embedding = worker[w].of])
              ELSE UNCHANGED row
           /\ worker' = [worker EXCEPT ![w].todo = @ \ {n}, ![w].found = @ \/ face]
  BY DEF EmbedSelfie
<1>2. UNCHANGED <<request, matches, unasked, waiting, givenUp, rematch, matcher, retention,
                  objects, doomed, indexed, deleted, event, credit>>
  BY DEF EmbedSelfie, matching, outside, found, storage, jobs
<1> HIDE DEF n
<1>3. g \in Guests /\ worker[w].of \in Submissions /\ n \in 1..MaxSelfies
  BY <1>1, <1>t DEF Typed, Objects
<1>4. worker[w] \in WorkerType /\ ~ worker[w].new
  BY <1>1, <1>t DEF Typed, HandlersTrue, SelfiesStrong
<1> HIDE DEF g
<1>5. PICK face \in BOOLEAN :
           /\ selfies' = IF selfies[g].of # worker[w].of THEN selfies
                         ELSE [selfies EXCEPT ![g].embedded =
                                 IF face THEN @ \cup {n} ELSE @ \ {n}]
           /\ IF face /\ ~worker[w].found
              THEN update(g, [row[g] EXCEPT !.embedding = worker[w].of])
              ELSE UNCHANGED row
           /\ worker' = [worker EXCEPT ![w].todo = @ \ {n}, ![w].found = @ \/ face]
  BY <1>1
<1> DEFINE faces == IF face THEN selfies[g].embedded \cup {n} ELSE selfies[g].embedded \ {n}
           z == IF selfies[g].of # worker[w].of THEN selfies[g]
                ELSE [selfies[g] EXCEPT !.embedded = faces]
           r == IF face /\ ~worker[w].found THEN [row[g] EXCEPT !.embedding = worker[w].of] ELSE row[g]
           v == [worker[w] EXCEPT !.todo = worker[w].todo \ {n}, !.found = worker[w].found \/ face]
<1>6. z \in SelfiesType /\ z.of = selfies[g].of /\ z.count = selfies[g].count
  <2>1. faces \in SUBSET (1..MaxSelfies) /\ selfies[g] \in SelfiesType
    BY <1>3, <1>t DEF Typed, SelfiesType
  <2> HIDE DEF faces
  <2> QED BY <2>1 DEF SelfiesType
<1>7. selfies' = [selfies EXCEPT ![g] = z]
  <2>1. CASE selfies[g].of # worker[w].of
    BY <1>3, <1>5, <1>t, <2>1 DEF Typed
  <2>2. CASE selfies[g].of = worker[w].of
    BY <1>3, <1>5, <1>t, <2>2 DEF Typed
  <2> QED BY <2>1, <2>2
<1>8. r \in RowType /\ r.state = row[g].state /\ r.key = row[g].key /\ r.status = row[g].status
  BY <1>3, <1>t DEF Typed, RowType
<1>9. update(g, r)
  <2>1. CASE face /\ ~worker[w].found
    BY <1>5, <2>1
  <2>2. CASE ~ (face /\ ~worker[w].found)
    BY <1>3, <1>5, <1>t, <2>2 DEF Typed, update
  <2> QED BY <2>1, <2>2
<1>10. worker' = [worker EXCEPT ![w] = v]
  BY <1>5, <1>t DEF Typed
<1>11. v \in WorkerType /\ v.pc = "embed" /\ v.guest = g /\ ~ v.new
  BY <1>1, <1>4 DEF WorkerType, g
<1> HIDE DEF z, r, v, faces
<1>12. selfies' \in [Guests -> SelfiesType]
       /\ \A h \in Guests : selfies'[h].of = selfies[h].of /\ selfies'[h].count = selfies[h].count
  BY <1>3, <1>6, <1>7, <1>t DEF Typed
<1>13. row' \in [Guests -> RowType] /\ Numbered' /\ StorageTrue'
  BY <1>2, <1>3, <1>8, <1>9, <1>12, StatusWrites DEF storage
<1>14. worker' \in [SelfieSlots -> WorkerType] /\ HandlersTrue' /\ NoticesAskedFor'
  <2>1. credit' \in 0..MaxFaults /\ credit' <= credit
    BY <1>2, <1>t, SelfiesAssumption DEF Typed
  <2> QED BY <1>2, <1>3, <1>t, <1>4, <1>10, <1>11, <2>1, WorkerWrites DEF SelfiesStrong
<1>15. TypeOK'
  BY <1>t, <1>2, <1>12, <1>13, <1>14, TypesArePartsNext DEF Typed
<1> QED BY <1>13, <1>14, <1>15 DEF SelfiesStrong

\* A handler that drops its work: the object is gone, no face was found, or it failed.
LEMMA DropStep ==
    ASSUME SelfiesStrong, NEW w \in SelfieSlots,
           \/ (ObjectGone(w) \/ NoFaceFound(w)) /\ UNCHANGED <<matching, outside, credit>>
           \/ ProcessFails(w)
    PROVE  SelfiesStrong'
<1>t. Typed
  BY TypesAreParts DEF SelfiesStrong
<1>2. UNCHANGED <<selfies, request, matches, unasked, rematch, matcher, retention,
                  objects, doomed, indexed, deleted, event>>
  BY DEF ObjectGone, NoFaceFound, ProcessFails, matching, outside, intake, found, storage, jobs
<1>3. worker' = [worker EXCEPT ![w] = IdleWorker]
  BY DEF ObjectGone, NoFaceFound, ProcessFails
<1>4. worker[w].pc # "idle" /\ worker[w].guest \in Guests
  BY DEF ObjectGone, NoFaceFound, ProcessFails, HandlersTrue, SelfiesStrong
<1>5. credit' \in 0..MaxFaults /\ credit' <= credit /\ (worker[w].new => credit' < MaxFaults)
  <2>1. credit \in 0..MaxFaults
    BY <1>t DEF Typed
  <2>2. CASE ProcessFails(w)
    BY <2>1, <2>2, SelfiesAssumption DEF ProcessFails
  <2>3. CASE (ObjectGone(w) \/ NoFaceFound(w)) /\ credit' = credit
    <3>1. ~ worker[w].new
      BY <2>3 DEF ObjectGone, NoFaceFound, HandlersTrue, SelfiesStrong
    <3> QED BY <2>1, <2>3, <3>1, SelfiesAssumption
  <2> QED BY <2>2, <2>3
<1>6. waiting' \in [Guests -> Nat] /\ givenUp' \subseteq Guests
  <2>1. waiting' \in {waiting, [waiting EXCEPT ![worker[w].guest] = @ + 1]}
        /\ givenUp' \in {givenUp, givenUp \cup {worker[w].guest}}
    BY DEF ObjectGone, NoFaceFound, ProcessFails, jobs
  <2> QED BY <1>t, <1>4, <2>1 DEF Typed
<1>7. worker' \in [SelfieSlots -> WorkerType] /\ HandlersTrue' /\ NoticesAskedFor'
  <2>1. IdleWorker \in WorkerType /\ IdleWorker.pc = "idle" /\ ~ IdleWorker.new
    BY RestTyped DEF IdleWorker
  <2> QED BY <1>t, <1>2, <1>3, <1>5, <2>1, WorkerWrites DEF SelfiesStrong
<1>8. row' \in [Guests -> RowType] /\ Numbered' /\ StorageTrue'
  <2>1. CASE NoFaceFound(w)
    <3> DEFINE g == worker[w].guest
               r == [row[g] EXCEPT !.status = "no_face"]
    <3>1. update(g, r)
      BY <2>1 DEF NoFaceFound
    <3>2. r \in RowType /\ r.state = row[g].state /\ r.key = row[g].key /\ r.status = "no_face"
      BY <1>t, <1>4 DEF Typed, RowType, Statuses
    <3> HIDE DEF r, g
    <3>3. g \in Guests
      BY <1>4 DEF g
    <3> QED BY <1>2, <3>1, <3>2, <3>3, StatusWrites DEF storage
  <2>2. CASE row' = row
    BY <1>2, <1>t, <2>2, ElsewhereKept DEF intake, storage, Typed
  <2> QED BY <2>1, <2>2 DEF ObjectGone, ProcessFails, intake
<1>9. TypeOK'
  BY <1>t, <1>2, <1>5, <1>6, <1>7, <1>8, TypesArePartsNext DEF Typed
<1> QED BY <1>7, <1>8, <1>9 DEF SelfiesStrong

\* What the search found is inserted, and becomes this handler's to announce.
LEMMA MatchStep ==
    ASSUME SelfiesStrong, NEW w \in SelfieSlots, MatchSelfie(w), UNCHANGED <<matching, outside, credit>>
    PROVE  SelfiesStrong'
<1>t. Typed
  BY TypesAreParts DEF SelfiesStrong
<1> DEFINE g == worker[w].guest
<1>2. UNCHANGED <<row, selfies, request, waiting, givenUp, rematch, matcher, retention,
                  objects, doomed, indexed, deleted, event, credit>>
  BY DEF MatchSelfie, matching, outside, intake, storage, jobs
<1>3. worker[w].pc = "embed" /\ g \in Guests /\ ~ worker[w].new /\ worker[w] \in WorkerType
  BY <1>t DEF MatchSelfie, HandlersTrue, SelfiesStrong, Typed
<1>4. credit' \in 0..MaxFaults /\ credit' <= credit
  BY <1>2, <1>t, SelfiesAssumption DEF Typed
<1>5. CASE insertMatches(g) /\ worker' = [worker EXCEPT ![w].pc = "status", ![w].new = IsNew(g)]
  <2>1. /\ matches' \in [Guests -> SUBSET Photos] /\ unasked' \in [Guests -> SUBSET Photos]
        /\ \A h \in Guests : matches[h] \subseteq matches'[h]
        /\ \A h \in Guests : unasked'[h] # {} => unasked[h] # {} \/ (h = g /\ IsNew(g))
    BY <1>t, <1>3, <1>5, InsertedMatches
  <2> DEFINE v == [worker[w] EXCEPT !.pc = "status", !.new = IsNew(g)]
  <2>2. IsNew(g) \in BOOLEAN
    BY DEF IsNew
  <2>3. v \in WorkerType /\ v.pc = "status" /\ v.guest = g /\ (v.new <=> IsNew(g))
    BY <1>3, <2>2 DEF WorkerType
  <2>4. worker' = [worker EXCEPT ![w] = v]
    BY <1>5, <1>t DEF Typed
  <2> HIDE DEF v, g
  <2>5. worker' \in [SelfieSlots -> WorkerType] /\ HandlersTrue' /\ NoticesAskedFor'
    BY <1>t, <1>2, <1>3, <1>4, <2>1, <2>3, <2>4, WorkerWrites DEF SelfiesStrong
  <2>6. TypeOK'
    BY <1>t, <1>2, <2>1, <2>5, TypesArePartsNext DEF Typed
  <2>7. Numbered' /\ StorageTrue'
    BY <1>2, <2>1, ElsewhereKept DEF intake, storage
  <2> QED BY <2>5, <2>6, <2>7 DEF SelfiesStrong
<1>6. CASE worker' = [worker EXCEPT ![w] = IdleWorker] /\ UNCHANGED found
  <2>1. IdleWorker \in WorkerType /\ IdleWorker.pc = "idle" /\ ~ IdleWorker.new
    BY RestTyped DEF IdleWorker
  <2>2. UNCHANGED <<matches, unasked>>
    BY <1>6 DEF found
  <2>3. worker' \in [SelfieSlots -> WorkerType] /\ HandlersTrue' /\ NoticesAskedFor'
    BY <1>t, <1>2, <1>3, <1>4, <1>6, <2>1, <2>2, WorkerWrites DEF SelfiesStrong
  <2>4. TypeOK'
    BY <1>t, <1>2, <2>2, <2>3, TypesArePartsNext DEF Typed
  <2>5. Numbered' /\ StorageTrue'
    BY <1>2, <2>2, ElsewhereKept DEF intake, storage
  <2> QED BY <2>3, <2>4, <2>5 DEF SelfiesStrong
<1> QED BY <1>5, <1>6 DEF MatchSelfie

\* The handler settles the status from the matches there are then, and announces.
LEMMA MatchedStep ==
    ASSUME SelfiesStrong, NEW w \in SelfieSlots, SelfieMatched(w), UNCHANGED <<matching, outside, credit>>
    PROVE  SelfiesStrong'
<1>t. Typed
  BY TypesAreParts DEF SelfiesStrong
<1> DEFINE g == worker[w].guest
<1>2. UNCHANGED <<selfies, request, matches, waiting, givenUp, rematch, matcher, retention,
                  objects, doomed, indexed, deleted, event, credit>>
  BY DEF SelfieMatched, SettleMatch, matching, outside, storage, jobs
<1>3. g \in Guests /\ worker[w].new \in BOOLEAN /\ SettleMatch(g, worker[w].new, worker[w].total)
      /\ worker' = [worker EXCEPT ![w] = IdleWorker]
  BY <1>t DEF SelfieMatched, HandlersTrue, SelfiesStrong, Typed, WorkerType
<1>4. /\ row' \in [Guests -> RowType] /\ unasked' \in [Guests -> SUBSET Photos]
      /\ \A h \in Guests : unasked'[h] # {} => unasked[h] # {}
      /\ worker[w].new => unasked'[g] = {}
      /\ Numbered' /\ StorageTrue'
  BY <1>2, <1>3, MatchSettled
<1>5. worker' \in [SelfieSlots -> WorkerType] /\ HandlersTrue' /\ NoticesAskedFor'
  <2>1. IdleWorker \in WorkerType /\ IdleWorker.pc = "idle" /\ ~ IdleWorker.new
    BY RestTyped DEF IdleWorker
  <2>2. credit' \in 0..MaxFaults /\ credit' <= credit
    BY <1>2, <1>t, SelfiesAssumption DEF Typed
  <2> QED BY <1>t, <1>2, <1>3, <1>4, <2>1, <2>2, WorkerWrites DEF SelfiesStrong
<1>6. TypeOK'
  BY <1>t, <1>2, <1>4, <1>5, TypesArePartsNext DEF Typed
<1> QED BY <1>4, <1>5, <1>6 DEF SelfiesStrong

\* The handler counts the matches.
LEMMA CountStep ==
    ASSUME SelfiesStrong, NEW w \in SelfieSlots, CountSelfie(w), UNCHANGED <<matching, outside, credit>>
    PROVE  SelfiesStrong'
<1>t. Typed
  BY TypesAreParts DEF SelfiesStrong
<1>2. UNCHANGED <<row, selfies, request, matches, unasked, waiting, givenUp, rematch, matcher, retention,
                  objects, doomed, indexed, deleted, event, credit>>
  BY DEF CountSelfie, matching, outside, intake, found, storage, jobs
<1> DEFINE v == [worker[w] EXCEPT !.total = countMatches(worker[w].guest)]
<1>3. worker[w] \in WorkerType /\ worker[w].pc = "status" /\ worker[w].guest \in Guests
  BY <1>t DEF Typed, CountSelfie, HandlersTrue, SelfiesStrong
<1>4. v \in WorkerType /\ v.pc = "status" /\ v.guest = worker[w].guest /\ v.new = worker[w].new
  BY <1>3 DEF WorkerType, countMatches, Totals
<1>5. worker' = [worker EXCEPT ![w] = v]
  BY <1>t DEF Typed, CountSelfie
<1> HIDE DEF v
<1>6. worker' \in [SelfieSlots -> WorkerType] /\ HandlersTrue' /\ NoticesAskedFor'
  <2>1. credit' \in 0..MaxFaults /\ credit' <= credit
    BY <1>2, <1>t, SelfiesAssumption DEF Typed
  <2> QED BY <1>2, <1>t, <1>3, <1>4, <1>5, <2>1, WorkerWrites DEF SelfiesStrong
<1>7. TypeOK'
  BY <1>t, <1>2, <1>6, TypesArePartsNext DEF Typed
<1>8. Numbered' /\ StorageTrue'
  BY <1>2, ElsewhereKept DEF intake, storage
<1> QED BY <1>6, <1>7, <1>8 DEF SelfiesStrong

\* A failed job is put back.
LEMMA RetryStep ==
    ASSUME SelfiesStrong, NEW g \in Guests, retryFailed(g)
    PROVE  SelfiesStrong'
<1>t. Typed
  BY TypesAreParts DEF SelfiesStrong
<1>2. UNCHANGED <<row, selfies, request, matches, unasked, worker, rematch, matcher, retention,
                  objects, doomed, indexed, deleted, event, credit>>
  BY DEF retryFailed, matching, outside, intake, found, storage
<1>3. waiting' \in [Guests -> Nat] /\ givenUp' \subseteq Guests
  BY <1>t DEF retryFailed, Typed
<1>4. TypeOK'
  BY <1>t, <1>2, <1>3, TypesArePartsNext DEF Typed
<1>5. Numbered' /\ StorageTrue' /\ HandlersTrue' /\ NoticesAskedFor'
  BY <1>2, ElsewhereKept, HandlersKept, AskedForKept DEF intake, storage, SelfiesStrong
<1> QED BY <1>4, <1>5 DEF SelfiesStrong

-----------------------------------------------------------------------------
(* The matcher *)

\* The matcher takes a job, returns it, or dies.
LEMMA MatcherJobStep ==
    ASSUME SelfiesStrong,
           \/ (Rematch \/ MatcherReturns) /\ UNCHANGED <<worker, outside, credit>>
           \/ MatchSweep /\ UNCHANGED <<worker, outside, credit>>
           \/ MatcherCrash
    PROVE  SelfiesStrong'
<1>t. Typed
  BY TypesAreParts DEF SelfiesStrong
<1>2. UNCHANGED <<row, selfies, request, matches, unasked, waiting, givenUp, worker, retention,
                  objects, doomed, indexed, deleted, event>>
  BY DEF Rematch, MatcherReturns, MatchSweep, MatcherCrash, outside, intake, found, storage, jobs
<1>3. getMatchableByEvent \subseteq Guests /\ getPendingForSweep \subseteq Guests
  BY DEF getMatchableByEvent, getPendingForSweep
<1>4. /\ IdleMatcher \in MatcherType /\ IdleMatcher.guest = "none"
      /\ matcher \in MatcherType /\ (matcher.job = "idle" => matcher.guest = "none")
  BY <1>t, RestTyped DEF IdleMatcher, Typed, HandlersTrue, SelfiesStrong
<1> DEFINE a == [IdleMatcher EXCEPT !.job = "rematch", !.todo = getMatchableByEvent]
           b == [IdleMatcher EXCEPT !.job = "sweep", !.todo = getPendingForSweep]
<1>5. a \in MatcherType /\ b \in MatcherType /\ a.guest = "none" /\ b.guest = "none"
  BY <1>3 DEF IdleMatcher, MatcherType, Totals
<1>6. matcher' \in {a, b, IdleMatcher, matcher}
  BY DEF Rematch, MatcherReturns, MatchSweep, MatcherCrash
<1> HIDE DEF a, b
<1>7. credit' \in 0..MaxFaults /\ credit' <= credit
      /\ (matcher.guest # "none" => credit' < MaxFaults \/ matcher' = matcher)
  <2>1. credit \in 0..MaxFaults
    BY <1>t DEF Typed
  <2>2. CASE MatcherCrash
    BY <2>1, <2>2, SelfiesAssumption DEF MatcherCrash
  <2>3. CASE credit' = credit /\ matcher.guest = "none"
    BY <2>1, <2>3, SelfiesAssumption
  <2>4. Rematch \/ MatcherReturns \/ MatchSweep => matcher.guest = "none"
    BY <1>4 DEF Rematch, MatcherReturns, MatchSweep
  <2> QED BY <2>2, <2>3, <2>4
<1>8. matcher' \in MatcherType /\ (matcher'.job = "idle" => matcher'.guest = "none")
  BY <1>4, <1>5, <1>6
<1>9. rematch' \in {"none", "waiting", "active"}
  BY <1>t DEF Typed, Rematch, MatcherReturns, MatchSweep, MatcherCrash
<1>10. HandlersTrue' /\ NoticesAskedFor'
  BY <1>t, <1>2, <1>7, <1>8, MatcherWrites DEF SelfiesStrong
<1>11. TypeOK'
  BY <1>t, <1>2, <1>7, <1>8, <1>9, TypesArePartsNext DEF Typed
<1>12. Numbered' /\ StorageTrue'
  BY <1>2, ElsewhereKept DEF intake, storage
<1> QED BY <1>10, <1>11, <1>12 DEF SelfiesStrong

\* The matcher inserts a guest's new matches, which become its to announce.
LEMMA MatchNextStep ==
    ASSUME SelfiesStrong, MatchNext, UNCHANGED <<worker, outside, credit>>
    PROVE  SelfiesStrong'
<1>t. Typed
  BY TypesAreParts DEF SelfiesStrong
<1>1. PICK g \in matcher.todo :
         /\ insertMatches(g)
         /\ matcher' = [matcher EXCEPT !.todo = @ \ {g}, !.guest = g, !.new = IsNew(g)]
  BY DEF MatchNext
<1>2. UNCHANGED <<row, selfies, request, waiting, givenUp, worker, rematch, retention,
                  objects, doomed, indexed, deleted, event, credit>>
  BY DEF MatchNext, outside, intake, storage, jobs
<1>3. matcher \in MatcherType /\ g \in Guests /\ matcher.job # "idle" /\ matcher.guest = "none"
  BY <1>t DEF Typed, MatcherType, MatchNext
<1>4. /\ matches' \in [Guests -> SUBSET Photos] /\ unasked' \in [Guests -> SUBSET Photos]
      /\ \A h \in Guests : matches[h] \subseteq matches'[h]
      /\ \A h \in Guests : unasked'[h] # {} => unasked[h] # {} \/ (h = g /\ IsNew(g))
  BY <1>t, <1>1, <1>3, InsertedMatches
<1> DEFINE m == [matcher EXCEPT !.todo = matcher.todo \ {g}, !.guest = g, !.new = IsNew(g)]
<1>5. m \in MatcherType /\ m.job # "idle" /\ m.guest = g /\ (m.new <=> IsNew(g)) /\ matcher' = m
  <2>1. IsNew(g) \in BOOLEAN
    BY DEF IsNew
  <2> QED BY <1>1, <1>3, <2>1 DEF MatcherType
<1> HIDE DEF m
<1>6. HandlersTrue' /\ NoticesAskedFor'
  <2>1. credit' \in 0..MaxFaults /\ credit' <= credit
    BY <1>2, <1>t, SelfiesAssumption DEF Typed
  <2> QED BY <1>t, <1>2, <1>3, <1>4, <1>5, <2>1, MatcherWrites DEF SelfiesStrong
<1>7. TypeOK'
  BY <1>t, <1>2, <1>4, <1>5, TypesArePartsNext DEF Typed
<1>8. Numbered' /\ StorageTrue'
  BY <1>2, ElsewhereKept DEF intake, storage
<1> QED BY <1>6, <1>7, <1>8 DEF SelfiesStrong

\* It counts them.
LEMMA CountNextStep ==
    ASSUME SelfiesStrong, CountNext, UNCHANGED <<worker, outside, credit>>
    PROVE  SelfiesStrong'
<1>t. Typed
  BY TypesAreParts DEF SelfiesStrong
<1>2. UNCHANGED <<row, selfies, request, matches, unasked, waiting, givenUp, worker, rematch, retention,
                  objects, doomed, indexed, deleted, event, credit>>
  BY DEF CountNext, outside, intake, found, storage, jobs
<1> DEFINE m == [matcher EXCEPT !.total = countMatches(matcher.guest)]
<1>3. matcher \in MatcherType /\ matcher.guest # "none" /\ matcher.job # "idle"
  BY <1>t DEF Typed, CountNext, HandlersTrue, SelfiesStrong
<1>4. m \in MatcherType /\ m.job = matcher.job /\ m.guest = matcher.guest /\ m.new = matcher.new /\ matcher' = m
  BY <1>3 DEF MatcherType, countMatches, Totals, CountNext
<1> HIDE DEF m
<1>5. HandlersTrue' /\ NoticesAskedFor'
  <2>1. credit' \in 0..MaxFaults /\ credit' <= credit
    BY <1>2, <1>t, SelfiesAssumption DEF Typed
  <2> QED BY <1>t, <1>2, <1>3, <1>4, <2>1, MatcherWrites DEF SelfiesStrong
<1>6. TypeOK'
  BY <1>t, <1>2, <1>4, TypesArePartsNext DEF Typed
<1>7. Numbered' /\ StorageTrue'
  BY <1>2, ElsewhereKept DEF intake, storage
<1> QED BY <1>5, <1>6, <1>7 DEF SelfiesStrong

\* It settles that guest's status and announces before it takes the next.
LEMMA SettleNextStep ==
    ASSUME SelfiesStrong, SettleNext, UNCHANGED <<worker, outside, credit>>
    PROVE  SelfiesStrong'
<1>t. Typed
  BY TypesAreParts DEF SelfiesStrong
<1> DEFINE g == matcher.guest
<1>2. UNCHANGED <<selfies, request, matches, waiting, givenUp, worker, rematch, retention,
                  objects, doomed, indexed, deleted, event, credit>>
  BY DEF SettleNext, SettleMatch, outside, storage, jobs
<1>3. matcher \in MatcherType /\ g \in Guests /\ matcher.new \in BOOLEAN
      /\ SettleMatch(g, matcher.new, matcher.total)
  BY <1>t DEF Typed, MatcherType, SettleNext
<1>4. /\ row' \in [Guests -> RowType] /\ unasked' \in [Guests -> SUBSET Photos]
      /\ \A h \in Guests : unasked'[h] # {} => unasked[h] # {}
      /\ matcher.new => unasked'[g] = {}
      /\ Numbered' /\ StorageTrue'
  BY <1>2, <1>3, MatchSettled
<1> DEFINE m == [matcher EXCEPT !.guest = "none", !.new = FALSE, !.total = "unread"]
<1>5. m \in MatcherType /\ m.guest = "none" /\ matcher' = m
  BY <1>3 DEF SettleNext, MatcherType, Totals
<1> HIDE DEF m
<1>6. HandlersTrue' /\ NoticesAskedFor'
  <2>1. credit' \in 0..MaxFaults /\ credit' <= credit
    BY <1>2, <1>t, SelfiesAssumption DEF Typed
  <2> QED BY <1>t, <1>2, <1>3, <1>4, <1>5, <2>1, MatcherWrites DEF SelfiesStrong
<1>7. TypeOK'
  BY <1>t, <1>2, <1>4, <1>5, TypesArePartsNext DEF Typed
<1> QED BY <1>4, <1>6, <1>7 DEF SelfiesStrong

-----------------------------------------------------------------------------
(* Erasure and retention, and the rest *)

\* A removal takes the row, its selfies and its matches, and dooms the row's object.
LEMMA RemoveStep ==
    ASSUME SelfiesStrong, NEW g \in Guests, remove(g),
           UNCHANGED <<jobs, worker, matching, outside, credit>>
    PROVE  SelfiesStrong'
<1>t. Typed
  BY TypesAreParts DEF SelfiesStrong
<1>2. UNCHANGED <<request, waiting, givenUp, worker, rematch, matcher, retention, objects, indexed, deleted, event, credit>>
  BY DEF remove, matching, outside, jobs
<1> DEFINE r == [row[g] EXCEPT !.state = "removed"]
<1>3. /\ row' = [row EXCEPT ![g] = r] /\ selfies' = [selfies EXCEPT ![g] = NoSelfies]
      /\ matches' = [matches EXCEPT ![g] = {}] /\ unasked' = [unasked EXCEPT ![g] = {}]
      /\ doomed' = doomed \cup {<<g, row[g].key, 1>>}
  BY <1>t DEF remove, Typed
<1>4. r \in RowType /\ r.state = "removed"
  BY <1>t DEF Typed, RowType
<1> HIDE DEF r
<1>5. /\ row'[g] = r /\ selfies'[g] = NoSelfies /\ unasked'[g] = {}
      /\ \A h \in Guests \ {g} : /\ row'[h] = row[h] /\ selfies'[h] = selfies[h]
                                  /\ matches'[h] = matches[h] /\ unasked'[h] = unasked[h]
  BY <1>t, <1>3 DEF Typed
<1>6. TypeOK'
  <2>1. row[g].key \in Submissions /\ 1 \in 1..MaxSelfies
    BY SelfiesAssumption DEF remove, SelfiesStrong, Numbered
  <2>2. doomed' \subseteq Objects
    BY <1>t, <1>3, <2>1 DEF Typed, Objects
  <2> QED BY <1>t, <1>2, <1>3, <1>4, <2>2, RestTyped, TypesArePartsNext DEF Typed
<1>7. Numbered'
  BY <1>2, <1>4, <1>5 DEF Numbered, Live, NoSelfies, SelfiesStrong
<1>8. StorageTrue'
  <2> SUFFICES ASSUME event # "aged" PROVE StorageTrue'
    BY <1>2 DEF StorageTrue
  <2>1. ASSUME NEW h \in Guests, NEW k \in Submissions, NEW n \in 1..MaxSelfies, <<h, k, n>> \in doomed'
        PROVE  row'[h].state = "removed"
    <3>1. CASE h = g
      BY <1>4, <1>5, <3>1
    <3>2. CASE h # g
      <4>1. <<h, k, n>> \in doomed
        BY <1>3, <2>1, <3>2
      <4> QED BY <1>5, <3>2, <4>1 DEF StorageTrue, SelfiesStrong
    <3> QED BY <3>1, <3>2
  <2>2. ASSUME NEW h \in Guests
        PROVE  /\ row'[h].state = "live" => <<h, row'[h].key, 1>> \in objects
               /\ request[h].pc = "upsert" /\ row'[h].state \in {"none", "live"} =>
                      <<h, request[h].of, 1>> \in objects
    BY <1>4, <1>5 DEF StorageTrue, Live, SelfiesStrong
  <2> QED BY <1>2, <2>1, <2>2 DEF StorageTrue, Live, SelfiesStrong
<1>10. HandlersTrue' /\ NoticesAskedFor'
  BY <1>2, <1>5, HandlersKept DEF NoticesAskedFor, SelfiesStrong
<1> QED BY <1>6, <1>7, <1>8, <1>10 DEF SelfiesStrong

\* The retention sweep dooms keys only of an event past retention.
LEMMA RetentionStep ==
    ASSUME SelfiesStrong, SelfieRetentionSweep,
           UNCHANGED <<jobs, worker, matching, outside, credit>>
    PROVE  SelfiesStrong'
<1>t. Typed
  BY TypesAreParts DEF SelfiesStrong
<1>2. UNCHANGED <<row, selfies, request, matches, unasked, waiting, givenUp, worker, rematch, matcher,
                  objects, indexed, deleted, event, credit>>
  BY DEF SelfieRetentionSweep, matching, outside, intake, found, jobs
<1>3. event = "aged" /\ getExpiredSelfies \subseteq Guests
  BY DEF SelfieRetentionSweep, getExpiredSelfies
<1> DEFINE Keys(g) == {<<g, row[g].key, 1>>} \cup listSelfieKeys(g)
<1>4. ASSUME NEW g \in getExpiredSelfies
      PROVE  Keys(g) \subseteq Objects
  <2>1. g \in Guests /\ row[g].key \in Submissions /\ 1 \in 1..MaxSelfies
    BY SelfiesAssumption DEF getExpiredSelfies, SelfiesStrong, Numbered
  <2>2. selfies[g].count \in 0..MaxSelfies /\ (selfies[g].count # 0 => selfies[g].of \in Submissions)
    BY <2>1, <1>t DEF Typed, SelfiesType, SelfiesStrong, Numbered
  <2>3. ASSUME NEW n \in 1..selfies[g].count
        PROVE  <<g, selfies[g].of, n>> \in Objects
    <3>1. n \in 1..MaxSelfies /\ selfies[g].count # 0
      BY <2>2, <2>3, SelfiesAssumption
    <3> QED BY <2>1, <2>2, <3>1 DEF Objects
  <2> QED BY <2>1, <2>3 DEF listSelfieKeys, Objects
<1>5. doomed' = doomed \cup UNION {Keys(g) : g \in getExpiredSelfies} /\ retention' = getExpiredSelfies
  BY DEF SelfieRetentionSweep
<1> HIDE DEF Keys
<1>6. TypeOK'
  <2>1. doomed' \subseteq Objects
    BY <1>t, <1>4, <1>5 DEF Typed
  <2> QED BY <1>t, <1>2, <1>3, <1>5, <2>1, TypesArePartsNext DEF Typed
<1>7. Numbered' /\ StorageTrue' /\ HandlersTrue' /\ NoticesAskedFor'
  BY <1>2, <1>3, HandlersKept, AskedForKept
  DEF Numbered, StorageTrue, Live, SelfiesStrong
<1> QED BY <1>6, <1>7 DEF SelfiesStrong

\* A scrubbed row points at nothing.
LEMMA ScrubStep ==
    ASSUME SelfiesStrong, NEW g \in Guests, softDeleteAndScrub(g),
           UNCHANGED <<jobs, worker, matching, outside, credit>>
    PROVE  SelfiesStrong'
<1>t. Typed
  BY TypesAreParts DEF SelfiesStrong
<1>2. UNCHANGED <<request, matches, unasked, waiting, givenUp, worker, rematch, matcher,
                  objects, doomed, indexed, deleted, event, credit>>
  BY DEF softDeleteAndScrub, matching, outside, found, jobs
<1>3. event = "aged"
  BY <1>t DEF softDeleteAndScrub, SelfiesStrong, StorageTrue
<1> DEFINE r == [row[g] EXCEPT !.embedding = 0, !.key = 0, !.state = "scrubbed"]
<1>4. r \in RowType /\ r.state = "scrubbed" /\ update(g, r)
  BY <1>t DEF Typed, RowType, softDeleteAndScrub
<1> HIDE DEF r
<1>5. /\ row' \in [Guests -> RowType]
      /\ \A h \in Guests \ {g} : row'[h] = row[h]
      /\ row'[g] = IF row[g].state = "removed" THEN row[g] ELSE r
  BY <1>4, <1>t, RowWritten DEF Typed
<1>6. row'[g].state # "live"
  BY <1>4, <1>5
<1>7. /\ selfies' \in [Guests -> SelfiesType] /\ selfies'[g] = NoSelfies
      /\ \A h \in Guests \ {g} : selfies'[h] = selfies[h]
      /\ retention' \subseteq Guests
  BY <1>t, RestTyped DEF softDeleteAndScrub, Typed
<1>8. TypeOK'
  BY <1>t, <1>2, <1>5, <1>7, TypesArePartsNext DEF Typed
<1>9. Numbered'
  BY <1>2, <1>5, <1>6, <1>7 DEF Numbered, Live, NoSelfies, SelfiesStrong
<1>10. StorageTrue'
  BY <1>2, <1>3 DEF StorageTrue
<1>12. HandlersTrue' /\ NoticesAskedFor'
  BY <1>2, HandlersKept, AskedForKept DEF SelfiesStrong
<1> QED BY <1>8, <1>9, <1>10, <1>12 DEF SelfiesStrong

\* A cleanup removes what is doomed, which until retention is a removed guest's.
LEMMA CleanupStep ==
    ASSUME SelfiesStrong, CleanupKeys,
           UNCHANGED <<jobs, worker, matching, outside, credit>>
    PROVE  SelfiesStrong'
<1>t. Typed
  BY TypesAreParts DEF SelfiesStrong
<1>2. UNCHANGED <<row, selfies, request, matches, unasked, waiting, givenUp, worker, rematch, matcher,
                  retention, indexed, deleted, event, credit>>
      /\ objects' = objects \ doomed /\ doomed' = {}
  BY DEF CleanupKeys, matching, outside, intake, found, jobs
<1>3. TypeOK'
  BY <1>t, <1>2, TypesArePartsNext DEF Typed
<1>4. StorageTrue'
  <2> SUFFICES ASSUME event # "aged" PROVE StorageTrue'
    BY <1>2 DEF StorageTrue
  <2>1. 1 \in 1..MaxSelfies
    BY SelfiesAssumption
  <2>2. ASSUME NEW h \in Guests
        PROVE  /\ row[h].state = "live" => <<h, row[h].key, 1>> \in objects'
               /\ request[h].pc = "upsert" /\ row[h].state \in {"none", "live"} =>
                      <<h, request[h].of, 1>> \in objects'
    BY <1>2, <2>1 DEF StorageTrue, Numbered, Live, SelfiesStrong
  <2> QED BY <1>2, <2>2 DEF StorageTrue, Live, SelfiesStrong
<1>5. Numbered' /\ HandlersTrue' /\ NoticesAskedFor'
  BY <1>2, HandlersKept, AskedForKept DEF Numbered, Live, SelfiesStrong
<1> QED BY <1>3, <1>4, <1>5 DEF SelfiesStrong

\* New photos, deleted ones and the event's end change no row; a photo whose row is
\* dropped takes its matches along.
LEMMA OutsideStep ==
    ASSUME SelfiesStrong,
           (\E p \in Photos : Detected(p) \/ softDeleteMany(p) \/ StorageReconcile(p)) \/ EventChanges,
           UNCHANGED <<intake, jobs, worker, matcher, storage, credit>>
    PROVE  SelfiesStrong'
<1>t. Typed
  BY TypesAreParts DEF SelfiesStrong
<1>2. UNCHANGED <<row, selfies, request, waiting, givenUp, worker, matcher,
                  retention, objects, doomed, credit>>
  BY DEF intake, jobs, storage
<1>3. /\ indexed' \subseteq Photos /\ deleted' \subseteq Photos
      /\ event' \in {"open", "closed", "aged"}
      /\ rematch' \in {"none", "waiting", "active"} /\ (event' # "aged" => event # "aged")
  BY <1>t DEF Typed, Detected, softDeleteMany, StorageReconcile, EventChanges, queueRematch
<1>4. /\ matches' \in [Guests -> SUBSET Photos] /\ unasked' \in [Guests -> SUBSET Photos]
      /\ \A g \in Guests : unasked'[g] \subseteq unasked[g]
  <2>1. CASE UNCHANGED <<matches, unasked>>
    BY <1>t, <2>1 DEF Typed
  <2>2. CASE \E p \in Photos : StorageReconcile(p)
    BY <1>t, <2>2 DEF Typed, StorageReconcile
  <2> QED BY <2>1, <2>2 DEF Detected, softDeleteMany, EventChanges, found
<1>5. TypeOK'
  BY <1>t, <1>2, <1>3, <1>4, TypesArePartsNext DEF Typed
<1>6. NoticesAskedFor'
  BY <1>2, <1>4 DEF NoticesAskedFor, SelfiesStrong
<1>7. Numbered' /\ StorageTrue' /\ HandlersTrue'
  BY <1>2, <1>3, HandlersKept DEF Numbered, StorageTrue, Live, SelfiesStrong
<1> QED BY <1>5, <1>6, <1>7 DEF SelfiesStrong

-----------------------------------------------------------------------------
(* The invariant *)

\* The invariant holds before the first guest.
LEMMA SelfiesInit == Init => SelfiesStrong
<1> SUFFICES ASSUME Init PROVE SelfiesStrong
  OBVIOUS
<1>1. Typed
  <2>1. [state |-> "none", key |-> 0, status |-> "processing", embedding |-> 0] \in RowType
    BY DEF RowType, Statuses
  <2>2. [pc |-> "idle", of |-> 0, count |-> 0] \in RequestType
    BY SelfiesAssumption DEF RequestType
  <2>3. MaxFaults \in 0..MaxFaults
    BY SelfiesAssumption
  <2> QED BY <2>1, <2>2, <2>3, RestTyped DEF Init, Typed
<1>2. Numbered /\ HandlersTrue /\ StorageTrue /\ NoticesAskedFor
  BY DEF Init, Numbered, HandlersTrue, StorageTrue, NoticesAskedFor, Live,
         NoSelfies, IdleWorker, IdleMatcher
<1> QED BY <1>1, <1>2, TypesAreParts DEF SelfiesStrong

\* The invariant is inductive.
LEMMA SelfiesStep == SelfiesStrong /\ [Next]_vars => SelfiesStrong'
<1> SUFFICES ASSUME SelfiesStrong, [Next]_vars PROVE SelfiesStrong'
  OBVIOUS
<1>1. CASE \E g \in Guests : Intake(g)
  BY <1>1, UpsertStep, ReplaceStep DEF Intake
<1>2. CASE (\E g \in Guests : submitSelfie(g)) /\ UNCHANGED <<found, worker, matching, outside, credit>>
  BY <1>2, SubmitStep
<1>3. CASE \E w \in SelfieSlots : Process(w) \/ ProcessFails(w)
  BY <1>3, TakeStep, EmbedStep, DropStep, MatchStep, CountStep, MatchedStep DEF Process
<1>4. CASE MatchSweep /\ UNCHANGED <<worker, outside, credit>>
  BY <1>4, MatcherJobStep
<1>5. CASE Matching \/ MatcherCrash
  BY <1>5, MatcherJobStep, MatchNextStep, CountNextStep, SettleNextStep DEF Matching
<1>6. CASE /\ \/ \E g \in Guests : remove(g) \/ softDeleteAndScrub(g)
              \/ SelfieRetentionSweep \/ CleanupKeys
           /\ UNCHANGED <<jobs, worker, matching, outside, credit>>
  BY <1>6, RemoveStep, ScrubStep, RetentionStep, CleanupStep
<1>7. CASE /\ (\E p \in Photos : Detected(p) \/ softDeleteMany(p) \/ StorageReconcile(p)) \/ EventChanges
           /\ UNCHANGED <<intake, jobs, worker, matcher, storage, credit>>
  BY <1>7, OutsideStep
<1>9. CASE \E g \in Guests : retryFailed(g)
  BY <1>9, RetryStep
<1>8. CASE UNCHANGED vars
  <2>t. Typed
    BY TypesAreParts DEF SelfiesStrong
  <2>1. UNCHANGED <<row, selfies, request, matches, unasked, waiting, givenUp, worker, rematch, matcher,
                    retention, objects, doomed, indexed, deleted, event, credit>>
    BY <1>8 DEF vars, intake, found, matching, storage, outside, jobs
  <2>2. TypeOK'
    BY <2>t, <2>1, TypesArePartsNext DEF Typed
  <2>3. Numbered' /\ StorageTrue' /\ HandlersTrue' /\ NoticesAskedFor'
    BY <2>1, HandlersKept, AskedForKept DEF Numbered, StorageTrue, Live, SelfiesStrong
  <2> QED BY <2>2, <2>3 DEF SelfiesStrong
<1> QED BY <1>1, <1>2, <1>3, <1>4, <1>5, <1>6, <1>7, <1>8, <1>9 DEF Next

-----------------------------------------------------------------------------
(* What a count of matches is worth when the status is written *)

\* A guest with matches keeps some, or a photo that shows them was deleted, or they are
\* gone: a count stays worth as much, however late it is used.
Held(g) ==
    \/ matches[g] # {}
    \/ \E p \in deleted : g \in Shows[p]
    \/ row[g].state = "removed"

\* A match is with a photo that shows the guest, and whoever says or has read "some" is
\* right about the guest.
CountsTrue ==
    /\ \A g \in Guests : \A p \in matches[g] : g \in Shows[p]
    /\ \A g \in Guests : row[g].status = "matched" => Held(g)
    /\ \A w \in SelfieSlots : worker[w].total = "some" => worker[w].guest \in Guests /\ Held(worker[w].guest)
    /\ matcher.total = "some" => matcher.guest \in Guests /\ Held(matcher.guest)

\* What a step has to keep for that to stay so.
LEMMA CountsKept ==
    ASSUME CountsTrue, deleted \subseteq deleted',
           \A g \in Guests : row[g].state = "removed" => row'[g].state = "removed",
           \A g \in Guests : matches[g] \subseteq matches'[g] \cup deleted' \/ row'[g].state = "removed",
           \A g \in Guests : \A p \in matches'[g] : p \in matches[g] \/ g \in Shows[p],
           \A g \in Guests : row'[g].status = "matched" => row[g].status = "matched" \/ Held(g),
           \A w \in SelfieSlots : worker'[w].total = "some" =>
               \/ worker[w].total = "some" /\ worker'[w].guest = worker[w].guest
               \/ worker'[w].guest \in Guests /\ Held(worker'[w].guest),
           matcher'.total = "some" =>
               \/ matcher.total = "some" /\ matcher'.guest = matcher.guest
               \/ matcher'.guest \in Guests /\ Held(matcher'.guest)
    PROVE  CountsTrue'
<1> DEFINE HeldNext(g) == \/ matches'[g] # {}
                          \/ \E p \in deleted' : g \in Shows[p]
                          \/ row'[g].state = "removed"
<1>1. ASSUME NEW g \in Guests, Held(g)
      PROVE  HeldNext(g)
  <2>1. CASE matches[g] # {}
    <3>1. PICK p \in matches[g] : g \in Shows[p]
      BY <2>1 DEF CountsTrue
    <3> QED BY <3>1
  <2>2. CASE ~ (matches[g] # {})
    BY <1>1, <2>2 DEF Held
  <2> QED BY <2>1, <2>2
<1>2. \A g \in Guests : \A p \in matches'[g] : g \in Shows[p]
  BY DEF CountsTrue
<1>3. \A g \in Guests : row'[g].status = "matched" => HeldNext(g)
  BY <1>1 DEF CountsTrue
<1>4. ASSUME NEW w \in SelfieSlots, worker'[w].total = "some"
      PROVE  worker'[w].guest \in Guests /\ HeldNext(worker'[w].guest)
  <2>1. worker'[w].guest \in Guests /\ Held(worker'[w].guest)
    BY <1>4 DEF CountsTrue
  <2> QED BY <1>1, <2>1
<1>5. ASSUME matcher'.total = "some"
      PROVE  matcher'.guest \in Guests /\ HeldNext(matcher'.guest)
  <2>1. matcher'.guest \in Guests /\ Held(matcher'.guest)
    BY <1>5 DEF CountsTrue
  <2> QED BY <1>1, <2>1
<1> QED BY <1>2, <1>3, <1>4, <1>5 DEF CountsTrue, Held

\* A status is written where the row is.
LEMMA StatusCounts ==
    ASSUME Typed, NEW g \in Guests, NEW r \in RowType, update(g, r), r.state = row[g].state,
           r.status = "matched" => row[g].status = "matched" \/ Held(g)
    PROVE  /\ \A h \in Guests : row[h].state = "removed" => row'[h].state = "removed"
           /\ \A h \in Guests : row'[h].status = "matched" => row[h].status = "matched" \/ Held(h)
<1>1. /\ \A h \in Guests \ {g} : row'[h] = row[h]
      /\ row'[g] = IF row[g].state = "removed" THEN row[g] ELSE r
  BY RowWritten DEF Typed
<1> QED BY <1>1

\* Only rows that show the guest are inserted.
LEMMA InsertCounts ==
    ASSUME Typed, NEW g \in Guests, insertMatches(g)
    PROVE  \A h \in Guests : /\ matches[h] \subseteq matches'[h]
                             /\ \A p \in matches'[h] : p \in matches[h] \/ h \in Shows[p]
<1> DEFINE new == searchFacesByEmbedding(g) \ matches[g]
<1>1. \A p \in new : g \in Shows[p]
  BY DEF searchFacesByEmbedding
<1>2. matches' = [matches EXCEPT ![g] = matches[g] \cup new]
  BY DEF insertMatches, Typed
<1> HIDE DEF new
<1> QED BY <1>1, <1>2 DEF Typed

\* The selfie jobs keep the counts true.
LEMMA ProcessCounts ==
    ASSUME SelfiesStrong, CountsTrue, NEW w \in SelfieSlots, Process(w)
    PROVE  CountsTrue'
<1>t. Typed
  BY TypesAreParts DEF SelfiesStrong
<1>0. UNCHANGED <<matcher, deleted>>
  BY DEF Process, matching, outside
<1>w. ASSUME NEW v, worker' = [worker EXCEPT ![w] = v],
             v.total = "some" => \/ worker[w].total = "some" /\ v.guest = worker[w].guest
                                 \/ v.guest \in Guests /\ Held(v.guest)
      PROVE  \A x \in SelfieSlots : worker'[x].total = "some" =>
               \/ worker[x].total = "some" /\ worker'[x].guest = worker[x].guest
               \/ worker'[x].guest \in Guests /\ Held(worker'[x].guest)
  <2>1. worker'[w] = v /\ \A x \in SelfieSlots \ {w} : worker'[x] = worker[x]
    BY <1>t, <1>w DEF Typed
  <2> QED BY <1>w, <2>1
<1>i. IdleWorker.total # "some"
  BY DEF IdleWorker
<1>1. CASE TakeSelfie(w)
  <2>1. PICK g \in Guests :
         worker' = IF Live(g) /\ row[g].key # 0
                      THEN [worker EXCEPT ![w] = [IdleWorker EXCEPT
                              !.pc = "embed", !.guest = g, !.of = selfies[g].of,
                              !.todo = 1..selfies[g].count]]
                      ELSE worker
    BY <1>1 DEF TakeSelfie
  <2>2. UNCHANGED <<row, matches>>
    BY <1>1 DEF TakeSelfie, intake, found
  <2> DEFINE e == [IdleWorker EXCEPT !.pc = "embed", !.guest = g, !.of = selfies[g].of,
                                     !.todo = 1..selfies[g].count]
  <2>3. e.total = "unread"
    BY DEF IdleWorker
  <2>4. worker' = [worker EXCEPT ![w] = e] \/ worker' = worker
    BY <2>1
  <2> HIDE DEF e
  <2>5. \A x \in SelfieSlots : worker'[x].total = "some" =>
               \/ worker[x].total = "some" /\ worker'[x].guest = worker[x].guest
               \/ worker'[x].guest \in Guests /\ Held(worker'[x].guest)
    BY <1>w, <2>3, <2>4
  <2> QED BY <1>0, <2>2, <2>5, CountsKept
<1>2. CASE EmbedSelfie(w)
  <2> DEFINE g == worker[w].guest
             n == CHOOSE n \in worker[w].todo : \A m \in worker[w].todo : n <= m
  <2>1. g \in Guests /\ worker[w].of \in Submissions
    BY <1>2, <1>t DEF EmbedSelfie, Typed, Objects
  <2>2. PICK face \in BOOLEAN :
           /\ IF face /\ ~worker[w].found
              THEN update(g, [row[g] EXCEPT !.embedding = worker[w].of])
              ELSE UNCHANGED row
           /\ worker' = [worker EXCEPT ![w].todo = @ \ {n}, ![w].found = @ \/ face]
    BY <1>2 DEF EmbedSelfie
  <2>3. UNCHANGED matches
    BY <1>2 DEF EmbedSelfie, found
  <2> HIDE DEF n
  <2> DEFINE r == IF face /\ ~worker[w].found THEN [row[g] EXCEPT !.embedding = worker[w].of] ELSE row[g]
             v == [worker[w] EXCEPT !.todo = worker[w].todo \ {n}, !.found = worker[w].found \/ face]
  <2>4. r \in RowType /\ r.state = row[g].state /\ r.status = row[g].status
    BY <2>1, <1>t DEF Typed, RowType
  <2>5. update(g, r)
    <3>1. CASE face /\ ~worker[w].found
      BY <2>2, <3>1
    <3>2. CASE ~ (face /\ ~worker[w].found)
      BY <2>1, <2>2, <1>t, <3>2 DEF Typed, update
    <3> QED BY <3>1, <3>2
  <2>6. worker' = [worker EXCEPT ![w] = v] /\ v.total = worker[w].total /\ v.guest = worker[w].guest
    BY <2>2, <1>t DEF Typed, WorkerType
  <2> HIDE DEF r, v, g
  <2> QED BY <1>t, <1>0, <1>w, <2>1, <2>3, <2>4, <2>5, <2>6, StatusCounts, CountsKept
<1>3. CASE ObjectGone(w)
  <2>1. UNCHANGED <<row, matches>> /\ worker' = [worker EXCEPT ![w] = IdleWorker]
    BY <1>3 DEF ObjectGone, intake, found
  <2> QED BY <1>0, <1>w, <1>i, <2>1, CountsKept
<1>4. CASE NoFaceFound(w)
  <2> DEFINE g == worker[w].guest
             r == [row[g] EXCEPT !.status = "no_face"]
  <2>1. g \in Guests /\ update(g, r) /\ UNCHANGED matches /\ worker' = [worker EXCEPT ![w] = IdleWorker]
    BY <1>4 DEF NoFaceFound, found, HandlersTrue, SelfiesStrong
  <2>2. r \in RowType /\ r.state = row[g].state /\ r.status = "no_face"
    BY <2>1, <1>t DEF Typed, RowType, Statuses
  <2> HIDE DEF r, g
  <2> QED BY <1>t, <1>0, <1>w, <1>i, <2>1, <2>2, StatusCounts, CountsKept
<1>5. CASE MatchSelfie(w)
  <2>1. UNCHANGED row
    BY <1>5 DEF MatchSelfie, intake
  <2>2. CASE insertMatches(worker[w].guest)
             /\ worker' = [worker EXCEPT ![w].pc = "status", ![w].new = IsNew(worker[w].guest)]
    <3> DEFINE v == [worker[w] EXCEPT !.pc = "status", !.new = IsNew(worker[w].guest)]
    <3>1. worker' = [worker EXCEPT ![w] = v] /\ v.total = worker[w].total /\ v.guest = worker[w].guest
      BY <2>2, <1>t DEF Typed, WorkerType
    <3> HIDE DEF v
    <3>2. worker[w].guest \in Guests
      BY <1>5 DEF MatchSelfie, HandlersTrue, SelfiesStrong
    <3> QED BY <1>t, <1>0, <1>w, <2>1, <2>2, <3>1, <3>2, InsertCounts, CountsKept
  <2>3. CASE worker' = [worker EXCEPT ![w] = IdleWorker] /\ UNCHANGED matches
    BY <1>0, <1>w, <1>i, <2>1, <2>3, CountsKept
  <2> QED BY <1>5, <2>2, <2>3 DEF MatchSelfie, found
<1>6. CASE CountSelfie(w)
  <2> DEFINE g == worker[w].guest
             v == [worker[w] EXCEPT !.total = countMatches(g)]
  <2>1. UNCHANGED <<row, matches>> /\ g \in Guests
    BY <1>6 DEF CountSelfie, intake, found, HandlersTrue, SelfiesStrong
  <2>2. worker' = [worker EXCEPT ![w] = v] /\ v.total = countMatches(g) /\ v.guest = g
    BY <1>6, <1>t DEF CountSelfie, Typed, WorkerType
  <2>3. countMatches(g) = "some" => Held(g)
    BY DEF countMatches, Held
  <2> HIDE DEF v, g
  <2> QED BY <1>0, <1>w, <2>1, <2>2, <2>3, CountsKept
<1>7. CASE SelfieMatched(w)
  <2> DEFINE g == worker[w].guest
             r == [row[g] EXCEPT !.status = IF worker[w].total = "some" THEN "matched" ELSE "pending_match"]
  <2>1. g \in Guests /\ update(g, r) /\ UNCHANGED matches /\ worker' = [worker EXCEPT ![w] = IdleWorker]
    BY <1>7 DEF SelfieMatched, SettleMatch, HandlersTrue, SelfiesStrong
  <2>2. r \in RowType /\ r.state = row[g].state /\ (r.status = "matched" => worker[w].total = "some")
    BY <2>1, <1>t DEF Typed, RowType, Statuses
  <2>3. worker[w].total = "some" => Held(g)
    BY DEF CountsTrue
  <2> HIDE DEF r, g
  <2> QED BY <1>t, <1>0, <1>w, <1>i, <2>1, <2>2, <2>3, StatusCounts, CountsKept
<1> QED BY <1>1, <1>2, <1>3, <1>4, <1>5, <1>6, <1>7 DEF Process

\* So does the matcher.
LEMMA MatchingCounts ==
    ASSUME SelfiesStrong, CountsTrue,
           Matching \/ (MatchSweep /\ UNCHANGED <<worker, outside, credit>>) \/ MatcherCrash
    PROVE  CountsTrue'
<1>t. Typed
  BY TypesAreParts DEF SelfiesStrong
<1>0. UNCHANGED <<worker, deleted>>
  BY DEF Matching, MatcherCrash, outside
<1>1. CASE Rematch \/ MatchSweep \/ MatcherReturns \/ MatcherCrash
  <2>1. UNCHANGED <<row, matches>>
    BY <1>1 DEF Rematch, MatchSweep, MatcherReturns, MatcherCrash, intake, found
  <2> DEFINE a == [IdleMatcher EXCEPT !.job = "rematch", !.todo = getMatchableByEvent]
             b == [IdleMatcher EXCEPT !.job = "sweep", !.todo = getPendingForSweep]
  <2>3. a.total = "unread" /\ b.total = "unread" /\ IdleMatcher.total = "unread"
    BY DEF IdleMatcher
  <2>4. matcher' \in {a, b, IdleMatcher, matcher}
    BY <1>1 DEF Rematch, MatchSweep, MatcherReturns, MatcherCrash
  <2> HIDE DEF a, b
  <2>2. matcher' = matcher \/ matcher'.total = "unread"
    BY <2>3, <2>4
  <2> QED BY <1>0, <2>1, <2>2, CountsKept
<1>2. CASE MatchNext
  <2>1. PICK g \in matcher.todo :
         /\ insertMatches(g)
         /\ matcher' = [matcher EXCEPT !.todo = @ \ {g}, !.guest = g, !.new = IsNew(g)]
    BY <1>2 DEF MatchNext
  <2>2. UNCHANGED row /\ matcher.guest = "none" /\ g \in Guests
    BY <1>2, <1>t DEF MatchNext, intake, Typed, MatcherType
  <2>3. matcher.total # "some" /\ matcher'.total = matcher.total
    BY <1>t, <2>1, <2>2, SelfiesAssumption DEF CountsTrue, Typed, MatcherType
  <2> QED BY <1>t, <1>0, <2>1, <2>2, <2>3, InsertCounts, CountsKept
<1>3. CASE CountNext
  <2>1. UNCHANGED <<row, matches>> /\ matcher.guest \in Guests
    BY <1>3, <1>t DEF CountNext, intake, found, Typed, MatcherType
  <2>2. matcher'.total = countMatches(matcher.guest) /\ matcher'.guest = matcher.guest
    BY <1>3, <1>t DEF CountNext, Typed, MatcherType
  <2>3. countMatches(matcher.guest) = "some" => Held(matcher.guest)
    BY DEF countMatches, Held
  <2> QED BY <1>0, <2>1, <2>2, <2>3, CountsKept
<1>4. CASE SettleNext
  <2> DEFINE g == matcher.guest
             r == [row[g] EXCEPT !.status = IF matcher.total = "some" THEN "matched" ELSE "pending_match"]
  <2>1. g \in Guests /\ update(g, r) /\ UNCHANGED matches
    BY <1>4, <1>t DEF SettleNext, SettleMatch, Typed, MatcherType
  <2>2. r \in RowType /\ r.state = row[g].state /\ (r.status = "matched" => matcher.total = "some")
    BY <2>1, <1>t DEF Typed, RowType, Statuses
  <2>3. matcher.total = "some" => Held(g)
    BY DEF CountsTrue
  <2>4. matcher'.total = "unread"
    BY <1>4, <1>t DEF SettleNext, Typed, MatcherType
  <2> HIDE DEF r, g
  <2> QED BY <1>t, <1>0, <2>1, <2>2, <2>3, <2>4, StatusCounts, CountsKept
<1> QED BY <1>1, <1>2, <1>3, <1>4 DEF Matching

\* And everything else: no row is removed back to life, and a match goes with its guest
\* or with a deleted photo.
LEMMA OtherCounts ==
    ASSUME SelfiesStrong, CountsTrue, [Next]_vars
    PROVE  \/ CountsTrue'
           \/ \E w \in SelfieSlots : Process(w)
           \/ Matching \/ (MatchSweep /\ UNCHANGED <<worker, outside, credit>>) \/ MatcherCrash
<1>t. Typed
  BY TypesAreParts DEF SelfiesStrong
<1>1. ASSUME UNCHANGED <<row, matches, deleted, worker, matcher>>
      PROVE  CountsTrue'
  BY <1>1, CountsKept
<1>2. ASSUME NEW g \in Guests, Intake(g)
      PROVE  CountsTrue'
  <2>1. UNCHANGED <<matches, deleted, worker, matcher>>
    BY <1>2 DEF Intake, found, outside, matching
  <2>2. CASE row' = row
    BY <1>1, <2>1, <2>2
  <2>3. CASE upsert(g) /\ row[g].state \in {"none", "live"}
    <3> DEFINE r == [state |-> "live", key |-> request[g].of, status |-> "processing", embedding |-> 0]
    <3>1. row' = [row EXCEPT ![g] = r] /\ r.status = "processing"
      BY <2>3 DEF upsert
    <3> HIDE DEF r
    <3>2. row'[g] = r /\ \A h \in Guests \ {g} : row'[h] = row[h]
      BY <3>1, <1>t DEF Typed
    <3>3. \A h \in Guests : /\ row[h].state = "removed" => row'[h].state = "removed"
                            /\ row'[h].status = "matched" => row[h].status = "matched" \/ Held(h)
      BY <2>3, <3>1, <3>2
    <3> QED BY <2>1, <3>3, CountsKept
  <2> QED BY <1>2, <2>2, <2>3 DEF Intake, upsert, replaceSelfies, InsertSelfies
<1>3. CASE (\E g \in Guests : submitSelfie(g)) /\ UNCHANGED <<found, worker, matching, outside, credit>>
  BY <1>1, <1>3 DEF submitSelfie, found, outside, matching
<1>4. ASSUME NEW w \in SelfieSlots, ProcessFails(w)
      PROVE  CountsTrue'
  <2>1. UNCHANGED <<row, matches, deleted, matcher>> /\ worker' = [worker EXCEPT ![w] = IdleWorker]
    BY <1>4 DEF ProcessFails, intake, found, outside, matching
  <2>2. \A x \in SelfieSlots : worker'[x] = worker[x] \/ worker'[x].total = "unread"
    BY <1>t, <2>1 DEF Typed, IdleWorker
  <2> QED BY <2>1, <2>2, CountsKept
<1>5. CASE \E g \in Guests : retryFailed(g)
  BY <1>1, <1>5 DEF retryFailed, intake, found, outside, matching
<1>6. ASSUME NEW g \in Guests, remove(g), UNCHANGED <<jobs, worker, matching, outside, credit>>
      PROVE  CountsTrue'
  <2>1. UNCHANGED <<deleted, worker, matcher>>
    BY <1>6 DEF outside, matching
  <2> DEFINE r == [row[g] EXCEPT !.state = "removed"]
  <2>2. row' = [row EXCEPT ![g] = r] /\ matches' = [matches EXCEPT ![g] = {}]
        /\ r.state = "removed" /\ r.status = row[g].status
    BY <1>6, <1>t DEF remove, Typed, RowType
  <2> HIDE DEF r
  <2>3. /\ row'[g] = r /\ matches'[g] = {}
        /\ \A h \in Guests \ {g} : row'[h] = row[h] /\ matches'[h] = matches[h]
    BY <2>2, <1>t DEF Typed
  <2> QED BY <2>1, <2>2, <2>3, CountsKept
<1>7. ASSUME NEW g \in Guests, softDeleteAndScrub(g), UNCHANGED <<jobs, worker, matching, outside, credit>>
      PROVE  CountsTrue'
  <2>1. UNCHANGED <<matches, deleted, worker, matcher>>
    BY <1>7 DEF softDeleteAndScrub, outside, matching, found
  <2> DEFINE r == [row[g] EXCEPT !.embedding = 0, !.key = 0, !.state = "scrubbed"]
  <2>2. update(g, r) /\ r.status = row[g].status /\ r \in RowType
    BY <1>7, <1>t DEF softDeleteAndScrub, Typed, RowType
  <2> HIDE DEF r
  <2>3. /\ \A h \in Guests \ {g} : row'[h] = row[h]
        /\ row'[g] = IF row[g].state = "removed" THEN row[g] ELSE r
    BY <2>2, <1>t, RowWritten DEF Typed
  <2>4. \A h \in Guests : /\ row[h].state = "removed" => row'[h].state = "removed"
                          /\ row'[h].status = row[h].status
    BY <2>2, <2>3
  <2> QED BY <2>1, <2>4, CountsKept
<1>8. CASE (SelfieRetentionSweep \/ CleanupKeys) /\ UNCHANGED <<jobs, worker, matching, outside, credit>>
  BY <1>1, <1>8 DEF SelfieRetentionSweep, CleanupKeys, intake, found, outside, matching
<1>9. ASSUME NEW p \in Photos, Detected(p) \/ softDeleteMany(p) \/ StorageReconcile(p),
             UNCHANGED <<intake, jobs, worker, matcher, storage, credit>>
      PROVE  CountsTrue'
  <2>1. UNCHANGED <<row, worker, matcher>> /\ deleted \subseteq deleted'
    BY <1>9 DEF intake, Detected, softDeleteMany, StorageReconcile
  <2>2. \A g \in Guests : matches'[g] \subseteq matches[g] /\ matches[g] \subseteq matches'[g] \cup deleted'
    <3>1. CASE StorageReconcile(p)
      <4>1. \A g \in Guests : matches'[g] = matches[g] \ {p}
        BY <3>1 DEF StorageReconcile
      <4>2. p \in deleted'
        BY <3>1 DEF StorageReconcile
      <4> QED BY <4>1, <4>2
    <3>2. CASE matches' = matches
      BY <3>2
    <3> QED BY <1>9, <3>1, <3>2 DEF Detected, softDeleteMany, found
  <2> QED BY <2>1, <2>2, CountsKept
<1>10. CASE EventChanges /\ UNCHANGED <<intake, jobs, worker, matcher, storage, credit>>
  BY <1>1, <1>10 DEF EventChanges, intake, found
<1>11. CASE UNCHANGED vars
  BY <1>1, <1>11 DEF vars, intake, found, outside, matching
<1> QED BY <1>2, <1>3, <1>4, <1>5, <1>6, <1>7, <1>8, <1>9, <1>10, <1>11 DEF Next

\* The counts are true to begin with, and stay so.
LEMMA CountsInit == Init => CountsTrue
BY DEF Init, CountsTrue, IdleWorker, IdleMatcher

\* One step keeps them.
LEMMA CountsStep == SelfiesStrong /\ CountsTrue /\ [Next]_vars => CountsTrue'
BY ProcessCounts, MatchingCounts, OtherCounts

\* Whichever submission, handler, matcher or cleanup wrote last, and however old the count
\* it wrote from, "matched" means photos in the gallery unless one that shows the guest was
\* deleted; and a live guest's row points at a selfie in storage until the retention sweep
\* is due (participant.service.ts:215-231, cleanup.service.ts:146, participant-admin.controller.ts:43).
THEOREM RowsAreTrue == Spec => []RowIsTrue
<1>1. SelfiesStrong /\ CountsTrue => RowIsTrue
  <2> SUFFICES ASSUME SelfiesStrong, CountsTrue PROVE RowIsTrue
    OBVIOUS
  <2>1. ASSUME NEW g \in Guests, Live(g), row[g].status = "matched", getMatchedAssets(g) = {}
        PROVE  \E p \in deleted : g \in Shows[p]
    <3>1. Held(g) /\ row[g].state # "removed"
      BY <2>1 DEF CountsTrue, Live
    <3>2. CASE matches[g] # {}
      BY <2>1, <3>2 DEF getMatchedAssets, CountsTrue
    <3> QED BY <3>1, <3>2 DEF Held
  <2>2. MatchedHasPhotos
    BY <2>1 DEF MatchedHasPhotos
  <2> QED BY <2>2 DEF SelfiesStrong, RowIsTrue, SelfieKeyHasObject, StorageTrue
<1> QED BY <1>1, SelfiesInit, SelfiesStep, CountsInit, CountsStep, PTL DEF Spec

\* A match no notice was asked for is in the hands of the handler that inserted it, or cost
\* a failure: no overlap of selfie jobs, rematches and sweeps passes one over. Asking is not
\* mailing: the digest's fixed id may drop the call, and its sender the mail
\* (participant.service.ts:217-234, job.repository.ts:424-426).
THEOREM NoticesAlwaysAskedFor == Spec => []NoticesAskedFor
BY SelfiesInit, SelfiesStep, PTL DEF Spec, SelfiesStrong

=============================================================================
