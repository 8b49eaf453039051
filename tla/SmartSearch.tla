---------------------------- MODULE SmartSearch ----------------------------
(***************************************************************************)
(* CLIP embeddings of one event's photos: the job each processed photo     *)
(* queues, the backfill that pages through what is missing, and the        *)
(* failover over several machine-learning servers.                         *)
(***************************************************************************)
EXTENDS Integers, FiniteSets, FiniteSetsExt, Sequences, Functions

CONSTANTS Images,               \* asset ids, a set of numbers: the backfill's order
          QUEUE_ALL_PAGE_SIZE,
          Servers,              \* MACHINE_LEARNING_URL
          MaxAttempts

ASSUME SmartSearchConstants ==
    /\ Images \subseteq Nat /\ IsFiniteSet(Images) /\ QUEUE_ALL_PAGE_SIZE \in Nat \ {0}
    /\ MaxAttempts \in Nat /\ IsFiniteSet(Servers)

VARIABLES
    image,    \* [state: "none", "processed", "deleted" (deletedAt) or "gone", embedded]
    jobs,     \* SmartSearch jobs: function from asset to attempts left, 0 none
    predict,  \* the call in hand: [image, untried: sequence of servers, tried]
    healthy,  \* the process's healthyMap
    serving,  \* servers that answer
    backfill, \* [on, force, afterId, missing: what it must reach, reached]
    outage    \* a failed prediction although some server answered throughout

smartVars == <<image, jobs, predict, healthy, serving, backfill, outage>>

LiveImage(a) == image[a].state = "processed"

NoPredict == [image |-> -1, untried |-> <<>>, tried |-> <<>>]

(***************************************************************************)
(* Assets.                                                                 *)
(***************************************************************************)
\* The media pipeline settles an asset and queues its embedding; the queueing may
\* be lost with the process.
AssetProcessed(a) ==
    /\ image[a].state = "none"
    /\ image' = [image EXCEPT ![a].state = "processed"]
    /\ jobs' \in {jobs, [jobs EXCEPT ![a] = MaxAttempts]}
    /\ UNCHANGED <<predict, healthy, serving, backfill, outage>>

\* Soft deletion, then the row and by cascade its embedding.
DeleteImage(a) ==
    /\ image[a].state \in {"processed", "deleted"}
    /\ image' = [image EXCEPT ![a] = IF LiveImage(a) THEN [@ EXCEPT !.state = "deleted"]
                                                ELSE [state |-> "gone", embedded |-> FALSE]]
    /\ UNCHANGED <<jobs, predict, healthy, serving, backfill, outage>>

(***************************************************************************)
(* One embedding.                                                          *)
(***************************************************************************)
\* Every server once, those believed healthy first.
TryOrder == {q \in [1..Cardinality(Servers) -> Servers] :
                 /\ \A s \in Servers : \E i \in DOMAIN q : q[i] = s
                 /\ \A i, j \in DOMAIN q : healthy[q[j]] /\ ~ healthy[q[i]] => j < i}

\* The job starts; it is skipped when the asset is gone.
handleSmartSearch(a) ==
    /\ jobs[a] > 0 /\ predict = NoPredict
    /\ IF image[a].state \in {"none", "deleted", "gone"}
       THEN jobs' = [jobs EXCEPT ![a] = 0] /\ UNCHANGED predict
       ELSE /\ \E q \in TryOrder : predict' = [image |-> a, untried |-> q, tried |-> <<>>]
            /\ UNCHANGED jobs
    /\ UNCHANGED <<image, healthy, serving, backfill, outage>>

\* upsert; on a row deleted meanwhile the foreign key refuses it.
EmbedImage(a) ==
    IF image[a].state = "gone"
    THEN jobs' = [jobs EXCEPT ![a] = @ - 1] /\ UNCHANGED image
    ELSE jobs' = [jobs EXCEPT ![a] = 0] /\ image' = [image EXCEPT ![a].embedded = TRUE]

Attempt ==
    LET url == Head(predict.untried)
    IN /\ predict.untried # <<>>
       /\ healthy' = [healthy EXCEPT ![url] = url \in serving]
       /\ IF url \in serving
          THEN predict' = NoPredict /\ EmbedImage(predict.image)
          ELSE /\ predict' = [predict EXCEPT !.untried = Tail(@), !.tried = Append(@, url)]
               /\ UNCHANGED <<image, jobs>>
       /\ UNCHANGED <<serving, backfill, outage>>

\* All failed: the attempt is spent.
PredictFails ==
    /\ predict # NoPredict /\ predict.untried = <<>>
    /\ jobs' = [jobs EXCEPT ![predict.image] = @ - 1]
    /\ predict' = NoPredict
    /\ outage' = (outage \/ \E s \in serving : \A i \in DOMAIN predict.tried : predict.tried[i] # s)
    /\ UNCHANGED <<image, healthy, serving, backfill>>

\* The ping every 30 seconds.
check(s) ==
    /\ healthy[s] # (s \in serving)
    /\ healthy' = [healthy EXCEPT ![s] = s \in serving]
    /\ UNCHANGED <<image, jobs, predict, serving, backfill, outage>>

ServerUpOrDown(s) ==
    /\ serving' = IF s \in serving THEN serving \ {s} ELSE serving \cup {s}
    /\ UNCHANGED <<image, jobs, predict, healthy, backfill, outage>>

(***************************************************************************)
(* The backfill.                                                           *)
(***************************************************************************)
Wanted(force) == {a \in Images : LiveImage(a) /\ (force \/ ~ image[a].embedded)}

Smallest(S, n) == {a \in S : Cardinality({b \in S : b < a}) < n}

\* Mutant: pages are counted off instead of following the last id.
PagesByOffset ==
    LET before == Cardinality(backfill.reached)
    IN {a \in Wanted(backfill.force) :
            LET rank == Cardinality({b \in Wanted(backfill.force) : b < a})
            IN before <= rank /\ rank < before + QUEUE_ALL_PAGE_SIZE}

getProcessedAssetIds ==
    Smallest({a \in Wanted(backfill.force) : a > backfill.afterId}, QUEUE_ALL_PAGE_SIZE)

QueueAll(force) ==
    /\ ~ backfill.on /\ backfill.missing = {}
    /\ backfill' = [on |-> TRUE, force |-> force, afterId |-> -1, missing |-> Wanted(force), reached |-> {}]
    /\ UNCHANGED <<image, jobs, predict, healthy, serving, outage>>

handleQueueAll ==
    /\ backfill.on
    /\ LET page == getProcessedAssetIds IN
       IF page = {}
       THEN backfill' = [backfill EXCEPT !.on = FALSE] /\ UNCHANGED jobs
       ELSE /\ backfill' = [backfill EXCEPT !.afterId = Max(page), !.reached = @ \cup page]
            /\ jobs' = [a \in Images |-> IF a \in page THEN MaxAttempts ELSE jobs[a]]
    /\ UNCHANGED <<image, predict, healthy, serving, outage>>

-----------------------------------------------------------------------------
SmartSearchInit ==
    /\ image = [a \in Images |-> [state |-> "none", embedded |-> FALSE]]
    /\ jobs = [a \in Images |-> 0]
    /\ predict = NoPredict
    /\ healthy = [s \in Servers |-> FALSE] /\ serving = Servers
    /\ backfill = [on |-> FALSE, force |-> FALSE, afterId |-> -1, missing |-> {}, reached |-> {}]
    /\ outage = FALSE

SmartSearchNext ==
    \/ \E a \in Images : AssetProcessed(a) \/ DeleteImage(a) \/ handleSmartSearch(a)
    \/ Attempt \/ PredictFails \/ handleQueueAll
    \/ \E s \in Servers : check(s) \/ ServerUpOrDown(s)
    \/ \E force \in BOOLEAN : QueueAll(force)

SmartSearchSpec == SmartSearchInit /\ [][SmartSearchNext]_smartVars

-----------------------------------------------------------------------------
(* The backfill misses nothing: a photo that lacked its embedding when it began   *)
(* got a job from it, or was embedded or deleted meanwhile, although jobs finish  *)
(* and photos go while it pages.                                                  *)
BackfillReachesAll ==
    ~ backfill.on =>
        \A a \in backfill.missing \ backfill.reached : image[a].embedded \/ ~ LiveImage(a)

(* An embedding is given up only when every configured server was asked: a server *)
(* that came back and was never tried fails no job.                               *)
EveryServerTried == ~ outage

(* Search misses no photo for want of an embedding: the backfill queues each that    *)
(* lacks one, and a call fails only when every server was tried.                     *)
SearchComplete == BackfillReachesAll /\ EveryServerTried
=============================================================================
