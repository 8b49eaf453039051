------------------------------ MODULE Selfies ------------------------------
(***************************************************************************)
(* From a guest's selfie to the photos they are in: the intake of          *)
(* services/public.service.ts, services/participant.service.ts over        *)
(* repositories/participant.repository.ts, and what becomes of the         *)
(* selfies.                                                                *)
(*                                                                         *)
(* A guest is a participant id: a submission after the row was removed or  *)
(* scrubbed makes another one.  A selfie set and its storage keys are      *)
(* named by the number of the submission.  Rows are read in one step and   *)
(* written, by id and unconditionally, in a later one.  The mail a match   *)
(* leads to is GuestMail's, the cluster it names FacePipeline's.           *)
(***************************************************************************)
EXTENDS Integers, FiniteSets

CONSTANTS
    Guests, Photos,
    Shows,           \* the guests each photo shows
    SelfieSlots,     \* QUEUE_CONCURRENCY of the Selfie queue
    MaxSelfies,      \* MAX_SELFIES
    EmailLimit,      \* submissions the e-mail limiter admits in a day
    MaxFaults        \* bound: handlers that die or throw

ASSUME SelfiesAssumption ==
    /\ Shows \in [Photos -> SUBSET Guests]
    /\ MaxSelfies \in Nat \ {0} /\ EmailLimit \in Nat \ {0} /\ MaxFaults \in Nat
    /\ "none" \notin Guests

VARIABLES
    row,         \* participant rows
    selfies,     \* participant_selfie rows: their submission, how many, the embedded ones
    request,     \* submitSelfie in flight, one per guest
    matches,     \* participant_match rows
    unasked,     \* matches whose handler has not called queue() for a notice
    waiting,     \* SelfieProcess jobs waiting, per guest
    givenUp,     \* guests whose SelfieProcess job ended as failed
    worker,      \* SelfieProcess handlers running
    rematch,     \* the job with id rematch-<event>
    matcher,     \* the Match queue's only slot
    retention,   \* guests the retention sweep has still to scrub
    objects,     \* selfie objects in storage
    doomed,      \* keys handed to CleanupKeys
    indexed,     \* photos whose faces a search finds
    deleted,     \* photos deleted, their rows dropped or not yet
    event,       \* whether the event is open to selfies, and past retention
    credit

intake == <<row, selfies, request>>
found == <<matches, unasked>>
jobs == <<waiting, givenUp>>
matching == <<rematch, matcher>>
storage == <<retention, objects, doomed>>
outside == <<indexed, deleted, event>>
vars == <<intake, found, jobs, worker, matching, storage, outside, credit>>

Statuses == {"processing", "pending_match", "matched", "no_face"}
Submissions == 1..EmailLimit
NoSelfies == [of |-> 0, count |-> 0, embedded |-> {}]
IdleWorker == [pc |-> "idle", guest |-> "none", of |-> 0, todo |-> {},
               found |-> FALSE, new |-> FALSE, total |-> "unread"]
IdleMatcher == [job |-> "idle", todo |-> {}, guest |-> "none", new |-> FALSE, total |-> "unread"]
Totals == {"unread", "zero", "some"}   \* countMatches, as read

\* Guests' rows, selfies and the jobs over them have their types; a handler carries
\* only a submission that was made (participant.service.ts, public.service.ts).
TypeOK ==
    /\ row \in [Guests -> [state : {"none", "live", "scrubbed", "removed"},
                           key : {0} \cup Submissions, status : Statuses,
                           embedding : {0} \cup Submissions]]
    /\ selfies \in [Guests -> [of : {0} \cup Submissions, count : 0..MaxSelfies,
                               embedded : SUBSET (1..MaxSelfies)]]
    /\ request \in [Guests -> [pc : {"idle", "upsert", "clear", "insert"},
                               of : {0} \cup Submissions, count : 0..MaxSelfies]]
    /\ matches \in [Guests -> SUBSET Photos]
    /\ unasked \in [Guests -> SUBSET Photos]
    /\ givenUp \subseteq Guests
    /\ waiting \in [Guests -> Nat]
    /\ worker \in [SelfieSlots ->
         [pc : {"idle", "embed", "status"}, guest : Guests \cup {"none"},
          of : {0} \cup Submissions, todo : SUBSET (1..MaxSelfies),
          found : BOOLEAN, new : BOOLEAN, total : Totals]]
    /\ rematch \in {"none", "waiting", "active"}
    /\ matcher \in [job : {"idle", "rematch", "sweep"}, todo : SUBSET Guests,
                    guest : Guests \cup {"none"}, new : BOOLEAN, total : Totals]
    /\ retention \subseteq Guests
    /\ objects \subseteq Guests \X Submissions \X (1..MaxSelfies)
    /\ doomed \subseteq Guests \X Submissions \X (1..MaxSelfies)
    /\ indexed \subseteq Photos /\ deleted \subseteq Photos
    /\ event \in {"open", "closed", "aged"}
    /\ credit \in 0..MaxFaults

-----------------------------------------------------------------------------
(* Queries *)

Live(g) == row[g].state = "live"
\* An update by id finds the row even when it has been scrubbed.
update(g, r) == row' = IF row[g].state = "removed" THEN row ELSE [row EXCEPT ![g] = r]
getMatchableByEvent == {g \in Guests : Live(g) /\ row[g].embedding # 0}
getPendingForSweep ==
    {g \in getMatchableByEvent : row[g].status = "pending_match" /\ event # "closed"}
getExpiredSelfies == {g \in Guests : event = "aged" /\ Live(g) /\ row[g].key # 0}
listSelfieKeys(g) == {<<g, selfies[g].of, n>> : n \in 1..selfies[g].count}
searchFacesByEmbedding(g) == {p \in indexed : g \in Shows[p]}
getMatchedAssets(g) == matches[g] \ deleted

\* The job's id makes an add a no-op while a job holds it, the active one too.
queueRematch == rematch' = IF rematch = "none" THEN "waiting" ELSE rematch

-----------------------------------------------------------------------------
(* submitSelfie: objects under keys of a new random id, the row, its selfies *)

OverwritesInPlace(g) ==
    /\ event # "closed" /\ request[g].pc = "idle" /\ row[g].state \in {"none", "live"}
    /\ request' = [request EXCEPT ![g] = [pc |-> "upsert", of |-> 1, count |-> 1]]
    /\ objects' = objects \cup {<<g, 1, 1>>}
    /\ doomed' = doomed \cup objects
    /\ UNCHANGED <<row, selfies, jobs, retention>>
submitSelfie(g) ==
    /\ event # "closed" /\ request[g].pc = "idle" /\ row[g].state \in {"none", "live"}
    /\ row[g].key < EmailLimit
    /\ \E n \in 1..MaxSelfies :
         /\ request' = [request EXCEPT
              ![g] = [pc |-> "upsert", of |-> row[g].key + 1, count |-> n]]
         /\ objects' = objects \cup {<<g, row[g].key + 1, i>> : i \in 1..n}
    /\ UNCHANGED <<row, selfies, jobs, retention, doomed>>

\* A row that went meanwhile stays so: the insert makes another participant.
upsert(g) ==
    /\ request[g].pc = "upsert"
    /\ IF row[g].state \in {"none", "live"}
       THEN /\ row' = [row EXCEPT ![g] = [state |-> "live", key |-> request[g].of,
                                          status |-> "processing", embedding |-> 0]]
            /\ request' = [request EXCEPT ![g].pc = "clear"]
       ELSE request' = [request EXCEPT ![g].pc = "idle"] /\ UNCHANGED row
    /\ UNCHANGED <<selfies, jobs, storage>>

replaceSelfies(g) ==
    /\ request[g].pc = "clear"
    /\ selfies' = [selfies EXCEPT ![g] = NoSelfies]
    /\ request' = [request EXCEPT ![g].pc = "insert"]
    /\ UNCHANGED <<row, jobs, storage>>

\* Mutant: only a guest's first submission queues the job.
QueuesOnFirst(g) ==
    /\ request[g].pc = "insert"
    /\ IF row[g].state = "removed" THEN UNCHANGED <<selfies, waiting>>
       ELSE /\ selfies' = [selfies EXCEPT ![g] =
                 [of |-> request[g].of, count |-> request[g].count, embedded |-> {}]]
            /\ waiting' = IF request[g].of = 1 THEN [waiting EXCEPT ![g] = @ + 1] ELSE waiting
    /\ request' = [request EXCEPT ![g].pc = "idle"]
    /\ givenUp' = givenUp \ {g}
    /\ UNCHANGED <<row, storage>>
\* The new rows and the job; the foreign key refuses those of a removed guest.
InsertSelfies(g) ==
    /\ request[g].pc = "insert"
    /\ IF row[g].state = "removed" THEN UNCHANGED <<selfies, waiting>>
       ELSE /\ selfies' = [selfies EXCEPT ![g] =
                 [of |-> request[g].of, count |-> request[g].count, embedded |-> {}]]
            /\ waiting' = [waiting EXCEPT ![g] = @ + 1]
    /\ request' = [request EXCEPT ![g].pc = "idle"]
    /\ givenUp' = givenUp \ {g}
    /\ UNCHANGED <<row, storage>>

Intake(g) ==
    /\ upsert(g) \/ replaceSelfies(g) \/ InsertSelfies(g)
    /\ UNCHANGED <<found, worker, matching, outside, credit>>

-----------------------------------------------------------------------------
(* matchParticipant: insert what is new, count, then settle the status and announce *)

insertMatches(g) ==
    LET new == searchFacesByEmbedding(g) \ matches[g]
    IN /\ matches' = [matches EXCEPT ![g] = @ \cup new]
       /\ unasked' = [unasked EXCEPT ![g] = @ \cup new]
IsNew(g) == searchFacesByEmbedding(g) \ matches[g] # {}
\* Deleted photos count as long as their rows are there.
countMatches(g) == IF matches[g] = {} THEN "zero" ELSE "some"

StatusOfHits(g, new, total) ==
    /\ update(g, [row[g] EXCEPT !.status =
         IF searchFacesByEmbedding(g) # {} THEN "matched" ELSE "pending_match"])
    /\ UNCHANGED <<selfies, request, found, storage>>
\* A selfie job queues a gallery mail, the others a digest once the guest had one. A
\* digest goes under the guest's fixed id: while another that has looked already, or
\* failed and was kept, holds the id, the call adds nothing.
SettleMatch(g, new, total) ==
    /\ update(g, [row[g] EXCEPT !.status =
         IF total = "some" THEN "matched" ELSE "pending_match"])
    /\ unasked' = IF new THEN [unasked EXCEPT ![g] = {}] ELSE unasked
    /\ UNCHANGED <<selfies, request, matches, storage>>

-----------------------------------------------------------------------------
(* handleSelfieProcess *)

TakeSelfie(w) ==
    /\ worker[w].pc = "idle"
    /\ \E g \in Guests :
         /\ waiting[g] > 0
         /\ waiting' = [waiting EXCEPT ![g] = @ - 1]
         /\ worker' = IF Live(g) /\ row[g].key # 0
                      THEN [worker EXCEPT ![w] = [IdleWorker EXCEPT
                              !.pc = "embed", !.guest = g, !.of = selfies[g].of,
                              !.todo = 1..selfies[g].count]]
                      ELSE worker
    /\ UNCHANGED <<intake, found, givenUp, storage>>

\* One selfie is downloaded and searched for a face; its row may be gone.
EmbedSelfie(w) ==
    LET g == worker[w].guest
        n == CHOOSE n \in worker[w].todo : \A m \in worker[w].todo : n <= m
    IN /\ worker[w].pc = "embed" /\ worker[w].todo # {}
       /\ <<g, worker[w].of, n>> \in objects
       /\ \E face \in BOOLEAN :
            /\ selfies' = IF selfies[g].of # worker[w].of THEN selfies
                          ELSE [selfies EXCEPT ![g].embedded =
                                  IF face THEN @ \cup {n} ELSE @ \ {n}]
            /\ IF face /\ ~worker[w].found
               THEN update(g, [row[g] EXCEPT !.embedding = worker[w].of])
               ELSE UNCHANGED row
            /\ worker' = [worker EXCEPT ![w].todo = @ \ {n}, ![w].found = @ \/ face]
       /\ UNCHANGED <<request, found, jobs, storage>>

\* A selfie whose object is gone fails the job on every attempt.
ObjectGone(w) ==
    /\ worker[w].pc = "embed"
    /\ \E n \in worker[w].todo : <<worker[w].guest, worker[w].of, n>> \notin objects
    /\ worker' = [worker EXCEPT ![w] = IdleWorker]
    /\ givenUp' = givenUp \cup {worker[w].guest}
    /\ UNCHANGED <<intake, found, waiting, storage>>

NoFaceFound(w) ==
    LET g == worker[w].guest
    IN /\ worker[w].pc = "embed" /\ worker[w].todo = {} /\ ~worker[w].found
       /\ update(g, [row[g] EXCEPT !.status = "no_face"])
       /\ worker' = [worker EXCEPT ![w] = IdleWorker]
       /\ UNCHANGED <<selfies, request, found, jobs, storage>>

\* The row is read again: gone, the handler throws and its retry skips it;
\* reset by a newer submission, there is nothing to match.
MatchSelfie(w) ==
    LET g == worker[w].guest
    IN /\ worker[w].pc = "embed" /\ worker[w].todo = {} /\ worker[w].found
       /\ IF Live(g) /\ row[g].embedding # 0
          THEN /\ insertMatches(g)
               /\ worker' = [worker EXCEPT ![w].pc = "status", ![w].new = IsNew(g)]
          ELSE worker' = [worker EXCEPT ![w] = IdleWorker] /\ UNCHANGED found
       /\ UNCHANGED <<intake, jobs, storage>>

CountSelfie(w) ==
    /\ worker[w].pc = "status" /\ worker[w].total = "unread"
    /\ worker' = [worker EXCEPT ![w].total = countMatches(worker[w].guest)]
    /\ UNCHANGED <<intake, found, jobs, storage>>
SelfieMatched(w) ==
    /\ worker[w].pc = "status" /\ worker[w].total # "unread"
    /\ SettleMatch(worker[w].guest, worker[w].new, worker[w].total)
    /\ worker' = [worker EXCEPT ![w] = IdleWorker]
    /\ UNCHANGED jobs

Process(w) ==
    /\ \/ TakeSelfie(w) \/ EmbedSelfie(w) \/ ObjectGone(w) \/ NoFaceFound(w)
       \/ MatchSelfie(w) \/ CountSelfie(w) \/ SelfieMatched(w)
    /\ UNCHANGED <<matching, outside, credit>>

\* The worker dies and the stalled check puts the job back; or a download, the face
\* service or a query throws and the job is retried, or was on its last attempt.
ProcessFails(w) ==
    /\ worker[w].pc # "idle" /\ credit > 0
    /\ \/ waiting' = [waiting EXCEPT ![worker[w].guest] = @ + 1] /\ UNCHANGED givenUp
       \/ givenUp' = givenUp \cup {worker[w].guest} /\ UNCHANGED waiting
    /\ worker' = [worker EXCEPT ![w] = IdleWorker]
    /\ credit' = credit - 1
    /\ UNCHANGED <<intake, found, matching, storage, outside>>
\* An administrator retries the failed jobs; clearing them instead leaves the guest given up.
retryFailed(g) ==
    /\ g \in givenUp
    /\ givenUp' = givenUp \ {g}
    /\ waiting' = [waiting EXCEPT ![g] = @ + 1]
    /\ UNCHANGED <<intake, found, worker, matching, storage, outside, credit>>

-----------------------------------------------------------------------------
(* handleParticipantRematch and handleParticipantMatchSweep *)

Rematch ==
    /\ matcher.job = "idle" /\ rematch = "waiting"
    /\ IF getMatchableByEvent = {}
       THEN rematch' = "none" /\ UNCHANGED matcher
       ELSE /\ rematch' = "active"
            /\ matcher' = [IdleMatcher EXCEPT !.job = "rematch", !.todo = getMatchableByEvent]
    /\ UNCHANGED <<intake, found, jobs, storage>>

MatchSweep ==
    /\ matcher.job = "idle" /\ getPendingForSweep # {}
    /\ matcher' = [IdleMatcher EXCEPT !.job = "sweep", !.todo = getPendingForSweep]
    /\ UNCHANGED <<intake, found, jobs, rematch, storage>>

MatchNext ==
    /\ matcher.job # "idle" /\ matcher.guest = "none"
    /\ \E g \in matcher.todo :
         /\ row[g].state # "removed"
         /\ insertMatches(g)
         /\ matcher' = [matcher EXCEPT !.todo = @ \ {g}, !.guest = g, !.new = IsNew(g)]
    /\ UNCHANGED <<intake, jobs, rematch, storage>>

CountNext ==
    /\ matcher.guest # "none" /\ matcher.total = "unread"
    /\ matcher' = [matcher EXCEPT !.total = countMatches(matcher.guest)]
    /\ UNCHANGED <<intake, found, jobs, rematch, storage>>
SettleNext ==
    /\ matcher.guest # "none" /\ matcher.total # "unread"
    /\ SettleMatch(matcher.guest, matcher.new, matcher.total)
    /\ matcher' = [matcher EXCEPT !.guest = "none", !.new = FALSE, !.total = "unread"]
    /\ UNCHANGED <<jobs, rematch>>

\* Done; or a guest was removed, whose match breaks the foreign key and fails
\* the job, to be retried.
MatcherReturns ==
    /\ matcher.job # "idle" /\ matcher.guest = "none"
    /\ \/ matcher.todo = {} /\ rematch' = IF matcher.job = "rematch" THEN "none" ELSE rematch
       \/ /\ \E g \in matcher.todo : row[g].state = "removed"
          /\ rematch' = IF matcher.job = "rematch" THEN "waiting" ELSE rematch
    /\ matcher' = IdleMatcher
    /\ UNCHANGED <<intake, found, jobs, storage>>

Matching ==
    /\ Rematch \/ MatchNext \/ CountNext \/ SettleNext \/ MatcherReturns
    /\ UNCHANGED <<worker, outside, credit>>

MatcherCrash ==
    /\ matcher.job # "idle" /\ credit > 0
    /\ matcher' = IdleMatcher
    /\ rematch' = IF matcher.job = "rematch" THEN "waiting" ELSE rematch
    /\ credit' = credit - 1
    /\ UNCHANGED <<intake, found, jobs, worker, storage, outside>>

-----------------------------------------------------------------------------
(* Erasure and retention *)

remove(g) ==
    /\ Live(g)
    /\ doomed' = doomed \cup {<<g, row[g].key, 1>>}
    /\ row' = [row EXCEPT ![g].state = "removed"]
    /\ selfies' = [selfies EXCEPT ![g] = NoSelfies]
    /\ matches' = [matches EXCEPT ![g] = {}]
    /\ unasked' = [unasked EXCEPT ![g] = {}]
    /\ UNCHANGED <<request, retention, objects>>

\* The keys are queued for deletion before the rows are scrubbed one by one.
SelfieRetentionSweep ==
    /\ retention = {} /\ getExpiredSelfies # {}
    /\ retention' = getExpiredSelfies
    /\ doomed' = doomed \cup
         UNION {{<<g, row[g].key, 1>>} \cup listSelfieKeys(g) : g \in getExpiredSelfies}
    /\ UNCHANGED <<intake, found, objects>>
softDeleteAndScrub(g) ==
    /\ g \in retention
    /\ retention' = retention \ {g}
    /\ selfies' = [selfies EXCEPT ![g] = NoSelfies]
    /\ update(g, [row[g] EXCEPT !.embedding = 0, !.key = 0, !.state = "scrubbed"])
    /\ UNCHANGED <<request, found, objects, doomed>>

CleanupKeys ==
    /\ doomed # {}
    /\ objects' = objects \ doomed
    /\ doomed' = {}
    /\ UNCHANGED <<intake, found, retention>>

-----------------------------------------------------------------------------
(* The rest of the system *)

\* handleDetectFaces has stored a photo's faces and asks for a rematch; the
\* event closes, or ended a month ago.
Detected(p) ==
    /\ p \notin indexed \cup deleted
    /\ indexed' = indexed \cup {p}
    /\ queueRematch /\ UNCHANGED <<found, deleted, event>>
\* asset.service deletes a photo: face searches and galleries leave it out at once, and
\* after the grace period the nightly reconciliation drops its row, the faces and the
\* matches with it. No status is touched.
softDeleteMany(p) ==
    /\ p \in indexed
    /\ indexed' = indexed \ {p} /\ deleted' = deleted \cup {p}
    /\ UNCHANGED <<found, rematch, event>>
StorageReconcile(p) ==
    /\ p \in deleted /\ \E g \in Guests : p \in matches[g]
    /\ matches' = [g \in Guests |-> matches[g] \ {p}]
    /\ unasked' = [g \in Guests |-> unasked[g] \ {p}]
    /\ UNCHANGED <<rematch, indexed, deleted, event>>
EventChanges ==
    /\ event = "open" /\ event' \in {"closed", "aged"}
    /\ UNCHANGED <<found, rematch, indexed, deleted>>

Init ==
    /\ row = [g \in Guests |-> [state |-> "none", key |-> 0, status |-> "processing",
                                embedding |-> 0]]
    /\ selfies = [g \in Guests |-> NoSelfies]
    /\ request = [g \in Guests |-> [pc |-> "idle", of |-> 0, count |-> 0]]
    /\ matches = [g \in Guests |-> {}]
    /\ unasked = [g \in Guests |-> {}]
    /\ givenUp = {} /\ deleted = {}
    /\ waiting = [g \in Guests |-> 0]
    /\ worker = [w \in SelfieSlots |-> IdleWorker]
    /\ rematch = "none"
    /\ matcher = IdleMatcher
    /\ retention = {} /\ objects = {} /\ doomed = {}
    /\ indexed = {}
    /\ event = "open"
    /\ credit = MaxFaults

Next ==
    \/ \E g \in Guests : Intake(g)
    \/ /\ \E g \in Guests : submitSelfie(g)
       /\ UNCHANGED <<found, worker, matching, outside, credit>>
    \/ \E w \in SelfieSlots : Process(w) \/ ProcessFails(w)
    \/ \E g \in Guests : retryFailed(g)
    \/ MatchSweep /\ UNCHANGED <<worker, outside, credit>>
    \/ Matching \/ MatcherCrash
    \/ /\ \/ \E g \in Guests : remove(g) \/ softDeleteAndScrub(g)
          \/ SelfieRetentionSweep \/ CleanupKeys
       /\ UNCHANGED <<jobs, worker, matching, outside, credit>>
    \/ /\ (\E p \in Photos : Detected(p) \/ softDeleteMany(p) \/ StorageReconcile(p)) \/ EventChanges
       /\ UNCHANGED <<intake, jobs, worker, matcher, storage, credit>>

Spec == Init /\ [][Next]_vars

\* The queues are served and their crons fire; nothing is assumed of guests,
\* organisers and crashes.
Fairness ==
    /\ \A g \in Guests : WF_vars(Intake(g)) /\ WF_vars(softDeleteAndScrub(g)
                            /\ UNCHANGED <<jobs, worker, matching, outside, credit>>)
    /\ \A w \in SelfieSlots : WF_vars(Process(w))
    /\ WF_vars(Matching)
    /\ SF_vars(MatchSweep /\ UNCHANGED <<worker, outside, credit>>)

FairSpec == Spec /\ Fairness

-----------------------------------------------------------------------------
(* Properties *)

\* A guest whose page says "matched" has photos in their gallery, whichever of several
\* overlapping handlers wrote the status last, from a count that may be stale - unless
\* a photo that shows them was deleted, which no status follows (cleanup.service.ts:146).
MatchedHasPhotos ==
    \A g \in Guests : Live(g) /\ row[g].status = "matched" =>
        getMatchedAssets(g) # {} \/ \E p \in deleted : g \in Shows[p]

\* The selfie a live guest's row points at is in storage until the retention
\* sweep has taken the row on, however cleanups of earlier ones are delayed.
SelfieKeyHasObject ==
    \A g \in Guests : Live(g) /\ event # "aged" => <<g, row[g].key, 1>> \in objects

\* Whoever inserts a match asks for its notice: a match that nobody has called queue()
\* for, or is about to, cost a failure between the two, whatever other handlers of the
\* guest find at the same time. Asking is not mailing: a digest is dropped while its id
\* is held (job.repository.ts:424-426), and a sender may skip its mail (GuestMail).
NoticesAskedFor ==
    \A g \in Guests : unasked[g] # {} =>
        \/ credit < MaxFaults
        \/ matcher.guest = g /\ matcher.new
        \/ \E w \in SelfieSlots : worker[w].guest = g /\ worker[w].new

\* A submitted selfie does not stay "processing", but for a job that ended as failed:
\* nothing but an administrator's retry or another submission takes that up.
SelfieSettles ==
    \A g \in Guests :
        Live(g) /\ row[g].status = "processing" ~>
            ~Live(g) \/ row[g].status # "processing" \/ g \in givenUp

\* A guest waiting for a first match gets it once a photo shows them, also when
\* the rematch it asked for was swallowed by the one then running, or a slower
\* handler wrote "pending" over "matched" from a count taken before.
PendingIsMatched ==
    \A g \in Guests :
        Live(g) /\ row[g].status = "pending_match" /\ row[g].embedding # 0
            /\ searchFacesByEmbedding(g) # {} ~>
        ~Live(g) \/ row[g].status # "pending_match" \/ row[g].embedding = 0
            \/ event = "closed" \/ searchFacesByEmbedding(g) = {}

\* The row tells the truth about the guest: "matched" has photos but for deleted ones,
\* and the selfie it points at is there, whichever handler or cleanup came last
\* (participant.service.ts:215-231, participant-admin.controller.ts:43).
RowIsTrue == TypeOK /\ MatchedHasPhotos /\ SelfieKeyHasObject

\* Every guest is served in the end: no selfie stays "processing" whose job did not end
\* as failed, and nobody who is in the photos stays without a match (participant.service.ts:177, job.repository.ts:422).
GuestsAreServed == SelfieSettles /\ PendingIsMatched
=============================================================================
