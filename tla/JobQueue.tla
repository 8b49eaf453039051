------------------------------ MODULE JobQueue ------------------------------
(***************************************************************************)
(* The queues in Redis and the processes that consume them: which process  *)
(* starts which worker, how a job is queued, run, retried and reclaimed,   *)
(* and what an administrator may do to a queue meanwhile.                  *)
(***************************************************************************)
EXTENDS Integers, FiniteSets

CONSTANTS Hosts, Deployments,  \* processes; their [workers, included, excluded] settings
          Jobs, NameOf,        \* the jobs followed, each with its JobName
          MaxFaults,           \* processes killed, locks lost
          MaxActions           \* administrator actions

ASSUME JobQueueConstants ==
    /\ IsFiniteSet(Hosts) /\ IsFiniteSet(Jobs)
    /\ MaxFaults \in Nat /\ MaxActions \in Nat

(***************************************************************************)
(* The catalogue.                                                          *)
(***************************************************************************)
QueueName == {"mediaProcess", "videoTranscode", "faceDetection", "smartSearch",
              "personThumbnail", "selfie", "facialRecognition", "import", "match",
              "notification", "storageCleanup", "background"}

\* WorkerRole of each queue.
QUEUE_ROLES ==
    [q \in QueueName |->
        IF q \in {"mediaProcess", "videoTranscode", "faceDetection", "smartSearch",
                  "personThumbnail", "selfie"} THEN "media" ELSE "ingest"]

QUEUE_CONCURRENCY ==
    [q \in QueueName |->
        CASE q = "faceDetection" -> 6
          [] q \in {"mediaProcess", "import"} -> 4
          [] q \in {"videoTranscode", "facialRecognition", "match"} -> 1
          [] OTHER -> 2]

QUEUE_RETRY == [q \in QueueName |-> IF q = "import" THEN 5 ELSE 3]

maxStalledCount == 2

\* The @OnJob registry: the names whose handler is on each queue.
handlers ==
    [mediaProcess |-> {"AssetProcess"}, videoTranscode |-> {"VideoTranscode"},
     faceDetection |-> {"FaceDetect"},
     facialRecognition |-> {"FaceRecognize", "FaceRecognizeQueueAll"},
     smartSearch |-> {"SmartSearch", "SmartSearchQueueAll"},
     personThumbnail |-> {"PersonThumbnail"}, selfie |-> {"SelfieProcess"},
     import |-> {"ImportFolder", "ImportFile"},
     match |-> {"ParticipantRematch", "ParticipantMatchSweep"},
     notification |-> {"SendSelfieReceived", "SendGalleryEmail", "SendDigest",
                       "SendNoFaceEmail", "SendEventExpiry"},
     storageCleanup |-> {"CleanupKeys", "CleanupPrefix", "SelfieRetentionSweep",
                         "EventPurgeSweep", "AuditRetentionSweep"},
     background |-> {"StagingSweep", "SessionCleanup", "StorageReconcile", "PersonCleanup",
                     "PersonNameBackfill", "EventExpirySweep", "GpuLifecycleSweep"}]

JobName == UNION {handlers[q] : q \in QueueName}

ASSUME NamesAssumption == NameOf \in [Jobs -> JobName]

\* Startup stops at a job with no handler, or with two.
setup == \A n \in JobName : Cardinality({q \in QueueName : n \in handlers[q]}) = 1

getQueueName(j) == CHOOSE q \in QueueName : NameOf[j] \in handlers[q]

Cron(q, names) == {[queue |-> q, name |-> n] : n \in names}

crons ==
    Cron("match", {"ParticipantMatchSweep"})
    \cup Cron("background", {"StagingSweep", "StorageReconcile", "SessionCleanup", "PersonCleanup",
                             "EventExpirySweep", "GpuLifecycleSweep"})
    \cup Cron("storageCleanup", {"SelfieRetentionSweep", "EventPurgeSweep", "AuditRetentionSweep"})

VARIABLES
    env,      \* the deployment's settings, by process
    up,       \* processes that run
    schedules,\* job schedulers in Redis
    job,      \* [state, made: attempts, stalls, holder: the run with the lock (0 none)]
    started,  \* how often each job's handler was started
    runs,     \* handlers running: [host, job, nth]
    paused,   \* paused queues
    killing,  \* jobs a kill-active read and has not come to yet
    acts, faults,
    \* what the properties remember
    queued, done, dropped, retried

jobVars == <<env, up, schedules, job, started, runs, paused, killing, acts, faults, queued, done, dropped, retried>>

JobStates == {"absent", "delayed", "waiting", "active", "failed"}

Fresh == [state |-> "absent", made |-> 0, stalls |-> 0, holder |-> 0]

On(q) == {j \in Jobs : getQueueName(j) = q}

In(q, s) == {j \in On(q) : job[j].state = s}

Move(j, to) == job' = [job EXCEPT ![j].state = to, ![j].holder = 0]

(***************************************************************************)
(* Processes.                                                              *)
(***************************************************************************)
\* A process refuses to start on a queue both included and excluded.
getEnv(h) == env[h].included \cap env[h].excluded = {}

\* Mutant: the queues a process opted into are forgotten.
RolesOnly(h) == {q \in QueueName : QUEUE_ROLES[q] \in env[h].workers} \ env[h].excluded

\* Mutant: exclusion only applies to the queues a process opted into.
RoleBeatsExclude(h) == {q \in QueueName : QUEUE_ROLES[q] \in env[h].workers}
                       \cup (env[h].included \ env[h].excluded)

WorkersOf(e, h) ==
    {q \in QueueName : QUEUE_ROLES[q] \in e[h].workers \/ q \in e[h].included} \ e[h].excluded

startWorkers(h) == WorkersOf(env, h)

\* What the settings must come to in the fleet, which no process checks at startup:
\* each queue with a consumer, clustering with one only (types.ts:70, :84), and a
\* process that ingests.
Arranged(e) ==
    /\ \A q \in QueueName : \E h \in Hosts : q \in WorkersOf(e, h)
    /\ \A h, k \in Hosts : "facialRecognition" \in WorkersOf(e, h) \cap WorkersOf(e, k) => h = k
    /\ \E h \in Hosts : "ingest" \in e[h].workers

Consumers(q) == {h \in up : q \in startWorkers(h)}

\* Upserts, by every ingest process, whichever queues it excludes.
registerCronSchedules(h) ==
    schedules' = IF "ingest" \in env[h].workers THEN schedules \cup crons ELSE schedules

bootstrap(h) ==
    /\ h \notin up /\ getEnv(h) /\ setup
    /\ up' = up \cup {h}
    /\ registerCronSchedules(h)
    /\ UNCHANGED <<env, job, started, runs, paused, killing, acts, faults, queued, done, dropped, retried>>

\* SIGTERM or SIGKILL alike: nothing closes the workers, so a run in hand is
\* abandoned and its record stays active.
Stop(h) ==
    /\ h \in up /\ faults < MaxFaults
    /\ up' = up \ {h}
    /\ runs' = {r \in runs : r.host # h}
    /\ faults' = faults + 1
    /\ UNCHANGED <<env, schedules, job, started, paused, killing, acts, queued, done, dropped, retried>>

(***************************************************************************)
(* A job's life.                                                           *)
(***************************************************************************)
\* One add; what a fixed id swallows is in Selfies, GuestMail and FacePipeline.
queueAll(j) ==
    /\ j \notin queued
    /\ job' = [job EXCEPT ![j] = [Fresh EXCEPT !.state =
                   IF NameOf[j] = "ParticipantRematch" THEN "delayed" ELSE "waiting"]]
    /\ queued' = queued \cup {j}
    /\ UNCHANGED <<env, schedules, up, started, runs, paused, killing, acts, faults, done, dropped, retried>>

DelayPasses(j) ==
    /\ job[j].state = "delayed"
    /\ Move(j, "waiting")
    /\ UNCHANGED <<env, schedules, up, started, runs, paused, killing, acts, faults, queued, done, dropped, retried>>

\* Mutant: the worker does not count what it already runs.
IgnoresConcurrency(h, q) == TRUE

HasSlot(h, q) ==
    Cardinality({r \in runs : r.host = h /\ getQueueName(r.job) = q}) < QUEUE_CONCURRENCY[q]

Take(h, j) ==
    LET q == getQueueName(j)
        nth == started[j] + 1
    IN /\ job[j].state = "waiting" /\ h \in Consumers(q) /\ q \notin paused /\ HasSlot(h, q)
       /\ job' = [job EXCEPT ![j].state = "active", ![j].holder = nth]
       /\ started' = [started EXCEPT ![j] = nth]
       /\ runs' = runs \cup {[host |-> h, job |-> j, nth |-> nth]}
       /\ UNCHANGED <<env, schedules, up, paused, killing, acts, faults, queued, done, dropped, retried>>

\* Mutant: a failure leaves the attempts as they were.
FailsForFree(j) == job' = [job EXCEPT ![j].state = "delayed", ![j].holder = 0]

\* A failed attempt: back after the backoff, or failed and kept once they are spent.
moveToFailed(j) ==
    job' = [job EXCEPT ![j].made = @ + 1, ![j].holder = 0,
                       ![j].state = IF job[j].made + 1 < QUEUE_RETRY[getQueueName(j)]
                                    THEN "delayed" ELSE "failed"]

\* The handler returns or throws; without the lock its outcome is discarded.
run(r, ok) ==
    /\ r \in runs
    /\ runs' = runs \ {r}
    /\ IF job[r.job].state = "active" /\ job[r.job].holder = r.nth
       THEN IF ok THEN Move(r.job, "absent") ELSE moveToFailed(r.job)
       ELSE UNCHANGED job
    /\ done' = IF ok THEN done \cup {r.job} ELSE done
    /\ UNCHANGED <<env, schedules, up, started, paused, killing, acts, faults, queued, dropped, retried>>

\* A handler that cannot renew its lock goes on without it.
LockLost(r) ==
    /\ r \in runs /\ job[r.job].holder = r.nth /\ faults < MaxFaults
    /\ job' = [job EXCEPT ![r.job].holder = 0]
    /\ faults' = faults + 1
    /\ UNCHANGED <<env, schedules, up, started, runs, paused, killing, acts, queued, done, dropped, retried>>

Held(j) == \E r \in runs : r.job = j /\ r.nth = job[j].holder

\* Any worker of the queue reclaims an active job nobody holds.
Stalled(j) ==
    /\ job[j].state = "active" /\ ~ Held(j) /\ Consumers(getQueueName(j)) # {}
    /\ job' = [job EXCEPT ![j].stalls = @ + 1, ![j].holder = 0,
                   ![j].state = IF job[j].stalls < maxStalledCount THEN "waiting" ELSE "failed"]
    /\ UNCHANGED <<env, schedules, up, started, runs, paused, killing, acts, faults, queued, done, dropped, retried>>

(***************************************************************************)
(* The administrator's queue actions.                                      *)
(***************************************************************************)
Act == acts < MaxActions /\ acts' = acts + 1

pause(q) ==
    /\ q \notin paused /\ paused' = paused \cup {q} /\ Act
    /\ UNCHANGED <<env, schedules, up, job, started, runs, killing, faults, queued, done, dropped, retried>>

resume(q) ==
    /\ q \in paused /\ paused' = paused \ {q}
    /\ UNCHANGED <<env, schedules, up, job, started, runs, killing, acts, faults, queued, done, dropped, retried>>

Discard(S) ==
    /\ job' = [j \in Jobs |-> IF j \in S THEN Fresh ELSE job[j]]
    /\ dropped' = dropped \cup S

\* drain(): what waits goes, what is delayed or active stays.
empty(q) ==
    /\ In(q, "waiting") # {} /\ Act /\ Discard(In(q, "waiting"))
    /\ UNCHANGED <<env, schedules, up, started, runs, paused, killing, faults, queued, done, retried>>

clear(q) ==
    /\ In(q, "failed") # {} /\ Act /\ Discard(In(q, "failed"))
    /\ UNCHANGED <<env, schedules, up, started, runs, paused, killing, faults, queued, done, retried>>

\* retry() keeps the attempts made.
RetryEach(q) == job' = [j \in Jobs |-> IF j \in In(q, "failed")
                                       THEN [job[j] EXCEPT !.state = "waiting"] ELSE job[j]]

retryFailed(q) ==
    /\ In(q, "failed") # {} /\ Act
    /\ RetryEach(q)
    /\ retried' = retried + 1
    /\ UNCHANGED <<env, schedules, up, started, runs, paused, killing, faults, queued, done, dropped>>

\* killActive reads the active jobs ...
killActive(q) ==
    /\ killing = {} /\ In(q, "active") # {} /\ Act
    /\ killing' = In(q, "active")
    /\ UNCHANGED <<env, schedules, up, job, started, runs, paused, faults, queued, done, dropped, retried>>

\* ... and fails each, which fetches the next waiting one for nobody (fetchNext);
\* one that is no longer active is removed instead, a scheduled retry included.
KillOne(j) ==
    /\ j \in killing
    /\ killing' = killing \ {j}
    /\ IF job[j].state = "active"
       THEN LET q == getQueueName(j)
                failed == [job[j] EXCEPT !.made = @ + 1, !.holder = 0,
                               !.state = IF job[j].made + 1 < QUEUE_RETRY[q] THEN "delayed" ELSE "failed"]
            IN /\ IF In(q, "waiting") = {} \/ q \in paused
                  THEN job' = [job EXCEPT ![j] = failed]
                  ELSE \E next \in In(q, "waiting") :
                           job' = [job EXCEPT ![j] = failed, ![next].state = "active"]
               /\ UNCHANGED dropped
       ELSE Discard({j})
    /\ UNCHANGED <<env, schedules, up, started, runs, paused, acts, faults, queued, done, retried>>

runQueueAction(q) ==
    pause(q) \/ resume(q) \/ empty(q) \/ clear(q) \/ retryFailed(q) \/ killActive(q)

-----------------------------------------------------------------------------
JobQueueInit ==
    /\ env \in Deployments
    /\ up = {} /\ schedules = {}
    /\ job = [j \in Jobs |-> Fresh]
    /\ started = [j \in Jobs |-> 0]
    /\ runs = {} /\ paused = {} /\ killing = {}
    /\ acts = 0 /\ faults = 0
    /\ queued = {} /\ done = {} /\ dropped = {} /\ retried = 0

JobQueueNext ==
    \/ \E h \in Hosts : bootstrap(h) \/ Stop(h)
    \/ \E j \in Jobs : queueAll(j) \/ DelayPasses(j) \/ Stalled(j) \/ KillOne(j)
    \/ \E h \in Hosts, j \in Jobs : Take(h, j)
    \/ \E r \in runs : LockLost(r) \/ \E ok \in BOOLEAN : run(r, ok)
    \/ \E q \in {getQueueName(j) : j \in Jobs} : runQueueAction(q)

JobQueueSpec == JobQueueInit /\ [][JobQueueNext]_jobVars

-----------------------------------------------------------------------------
(* Clustering never runs twice at once: through restarts, lost locks, stalled     *)
(* jobs and terminated ones, one FaceRecognize handler runs in the whole fleet    *)
(* (types.ts: facialRecognition must stay 1, and globally single-consumer).       *)
OneClusterer == Cardinality({r \in runs : getQueueName(r.job) = "facialRecognition"}) <= 1

(* Every queue has a consumer once the deployment is up, whichever process took   *)
(* the selfie queue over and whichever gave clustering away, and every sweep is   *)
(* scheduled on the queue whose worker knows its handler.                         *)
EveryQueueServed ==
    up = Hosts =>
        /\ \A q \in QueueName : Consumers(q) # {}
        /\ schedules = crons
        /\ \A c \in schedules : c.name \in handlers[c.queue]

(* A job that was accepted stays in Redis until its handler succeeded: crashes,   *)
(* lost locks and exhausted attempts never lose it, only an administrator does.   *)
OnlyAdminDropsJobs == \A j \in queued \ (done \cup dropped) : job[j].state # "absent"

(* A job that always fails, or always takes its process with it, is given up: its *)
(* handler starts at most once per attempt, per reclaim and per manual retry.     *)
PoisonIsBounded ==
    \A j \in Jobs :
        started[j] <= QUEUE_RETRY[getQueueName(j)] + maxStalledCount + retried

(* The consumers fit the queues: every queue is served, and clustering, which     *)
(* must not run beside itself, by one handler only (types.ts, job.repository.ts:90). *)
QueuesServedOnce == EveryQueueServed /\ OneClusterer

(* Every accepted job is accounted for: it ends in success or with an             *)
(* administrator's removal, and a job that cannot succeed is not run for ever.    *)
JobsAccounted == OnlyAdminDropsJobs /\ PoisonIsBounded
=============================================================================
