---------------------------- MODULE GpuLifecycle ----------------------------
(***************************************************************************)
(* The GPU box's lifecycle: services/gpu-lifecycle.service.ts, the record  *)
(* it keeps in system_config, the box itself with its self-shutdown        *)
(* watchdog (scripts/gpu-autoshutdown.sh), and the GPU queues it serves.   *)
(*                                                                         *)
(* Every `await` of the service is a step boundary.  The record is read    *)
(* whole and written whole (SystemConfigRepository.set is an unconditional *)
(* upsert), so an actor holds in rec[a] the copy it is about to write.     *)
(*                                                                         *)
(* Time is kept as ages: a timestamp is the number of ticks since it was   *)
(* taken, saturating at Cap, which is above every interval the code        *)
(* compares with; holdUntil is the number of ticks still to run.  So time  *)
(* never ends and the model stays finite.                                  *)
(***************************************************************************)
EXTENDS Integers

CONSTANTS
    Sweepers,          \* Background-queue slots that run GpuLifecycleSweep
    Admins,            \* admin requests: start, stop, hold, clear hold
    Enabled,           \* config.enabled
    Provider,          \* config.provider: "webhook" or "jarvislabs"
    Watchdog,          \* does the box run gpu-autoshutdown.sh
    IdleShutdown,      \* config.idleShutdownMinutes, in ticks
    StartTimeout,      \* config.startTimeoutMinutes
    PendingThreshold,  \* config.pendingThreshold
    MaxPendingAge,     \* config.maxPendingAgeMinutes
    StuckAfter,        \* STUCK_ACTIVE_AFTER_MS
    CheckInterval,     \* PROVIDER_CHECK_INTERVAL_MS
    HoldFor,           \* the minutes an admin asks holdIdle for
    FailureGrace,      \* FAILURE_GRACE of the watchdog
    Cap,               \* where ages saturate
    Faults,            \* the kinds of fault the environment may inject
    MaxJobs,           \* bound: jobs in the GPU queues at once
    MaxEvents          \* bound: faults, arrivals and admin requests together

FaultKinds == {"crash", "refuse", "lost", "blip", "unreadable", "reassign",
               "worker", "poll", "garbled", "jobFail"}

ASSUME SwitchAssumption ==
    /\ Enabled \in BOOLEAN /\ Watchdog \in BOOLEAN
    /\ Provider \in {"webhook", "jarvislabs"}
    /\ Faults \subseteq FaultKinds
    /\ Sweepers \cap Admins = {}

ASSUME IntervalAssumption ==
    /\ {IdleShutdown, MaxPendingAge, CheckInterval, HoldFor,
        FailureGrace, PendingThreshold} \subseteq Nat \ {0}
    /\ {StartTimeout, StuckAfter, MaxJobs, MaxEvents, Cap} \subseteq Nat
    /\ \A t \in {IdleShutdown, StartTimeout, MaxPendingAge, StuckAfter,
                 CheckInterval, HoldFor} : t < Cap

Null   == -1
Actors == Sweepers \cup Admins

States == {"off", "starting", "running", "stopping"}

\* GpuLifecycleState.  mid says whether the id the code falls back on (the
\* recorded one, else the configured one) still names the live machine.
\* lastStartedAt, lastStoppedAt and lastError are display only.
Record == [state : States, since : 0..Cap, hold : 0..Cap,
           idle  : {Null} \cup 0..Cap, mid : {"live", "stale"}]

PCs == {"idle", "check", "write", "start", "mark", "call",
        "stop", "stopmark", "stopcall"}

VARIABLES
    st,          \* the stored GpuLifecycleState
    pc, rec,     \* per actor: where it awaits, and the copy it carries
    arg,         \* per actor: start()'s `manual`, or the sweep's trigger
    power,       \* the machine: off, dark (on, no worker), up, halting
    seen,        \* the worker's telemetry key is present in Redis
    jobs,        \* the GPU queues, with the oldest waiting and active ages
    lastCheck,   \* age of lastProviderCheckAt
    fails,       \* the watchdog's consecutive failed polls
    credit,      \* environment events left, see MaxEvents
    on,          \* age of the machine's run: since it was last powered on
    stale,       \* actors that another has written or called past since they began
    overlapped   \* one of those has written or called since the last start was marked

vars == <<st, pc, rec, arg, power, seen, jobs, lastCheck, fails, credit, on, stale, overlapped>>
boxVars   == <<power, seen, jobs, fails>>
actorVars == <<pc, rec, arg>>
pastVars  == <<on, stale, overlapped>>

NoJobs == [waiting |-> 0, active |-> 0, delayed |-> 0, orphan |-> FALSE,
           waitAge |-> 0, activeAge |-> 0]

JobsType == [waiting : 0..MaxJobs, active : 0..1, delayed : 0..MaxJobs,
             orphan : BOOLEAN, waitAge : 0..Cap, activeAge : 0..Cap]

\* The stored record and every carried copy have the fields the schema declares,
\* and counts stay within bounds: the watchdog's stops at its grace because it halts
\* the box there (gpu-autoshutdown.sh:43).
TypeOK ==
    /\ st \in Record
    /\ pc \in [Actors -> PCs]
    /\ rec \in [Actors -> Record]
    /\ arg \in [Actors -> BOOLEAN]
    /\ power \in {"off", "dark", "up", "halting"}
    /\ seen \in BOOLEAN
    /\ jobs \in JobsType
    /\ lastCheck \in 0..Cap
    /\ fails \in 0..FailureGrace
    /\ credit \in 0..MaxEvents
    /\ on \in 0..Cap /\ stale \in SUBSET Actors /\ overlapped \in BOOLEAN

-----------------------------------------------------------------------------
(* Ages *)

Older(n) == IF n < Cap THEN n + 1 ELSE n
Sooner(n) == IF n > 0 THEN n - 1 ELSE n
Aged(r) == [r EXCEPT !.since = Older(@), !.hold = Sooner(@),
                     !.idle = IF @ = Null THEN Null ELSE Older(@)]

(* Environment events *)

Event == credit > 0 /\ credit' = credit - 1
Fault(kind) == kind \in Faults /\ Event
NoEvent == credit' = credit

(* What is remembered of how operations overlap, for the properties alone *)

Begins(a) == stale' = stale \ {a} /\ UNCHANGED <<on, overlapped>>
GoesPast(a) == stale' = {b \in Actors \ {a} : b \in stale \/ pc[b] # "idle"}
Touches(a) == GoesPast(a) /\ overlapped' = (overlapped \/ a \in stale)

-----------------------------------------------------------------------------
(* What the service reads *)

\* getQueueSummary: an active set whose oldest job is ancient is orphaned.
LiveActive == IF jobs.activeAge > StuckAfter THEN 0 ELSE jobs.active
Pending == jobs.waiting + LiveActive + jobs.delayed

\* evaluateTrigger: enough work, or work that waited too long.
ShouldStart ==
    /\ Pending > 0
    /\ \/ Pending >= PendingThreshold
       \/ jobs.waiting > 0 /\ jobs.waitAge >= MaxPendingAge

\* heartbeat: what the box is told when its watchdog asks.
KeepAlive ==
    \/ LiveActive > 0
    \/ st.hold > 0
    \/ Pending > 0
    \/ st.state # "stopping" /\ st.since < IdleShutdown

\* predictNextAction: the panel's status line, as [kind, eta].
predictNextAction ==
    LET none == [kind |-> "none", eta |-> Null]
    IN CASE ~Enabled -> none
         [] Enabled /\ st.state = "off" ->
              IF Pending = 0 THEN none
              ELSE LET oldest == IF jobs.waiting > 0 THEN jobs.waitAge ELSE 0
                   IN IF \/ PendingThreshold - Pending <= 0
                         \/ MaxPendingAge - oldest <= 0
                      THEN [kind |-> "start", eta |-> 0]
                      ELSE [kind |-> "waiting", eta |-> MaxPendingAge - oldest]
         [] Enabled /\ st.state = "running" ->
              IF st.hold > 0 THEN [kind |-> "none", eta |-> st.hold]
              ELSE IF Pending > 0 THEN none
              ELSE LET idleFor == IF st.idle = Null THEN 0 ELSE st.idle
                   IN [kind |-> "stop",
                       eta  |-> IF idleFor > IdleShutdown THEN 0
                                ELSE IdleShutdown - idleFor]
         [] Enabled /\ st.state \in {"starting", "stopping"} -> none

-----------------------------------------------------------------------------
(* The records the service writes *)

\* start(): marked before the provider is called; an old countdown is dropped.
StartingRecord(s, manual) ==
    [s EXCEPT !.state = "starting", !.since = 0, !.idle = Null,
              !.hold = IF manual THEN IdleShutdown ELSE @]

\* stop(): marked before the provider is called; drops hold and countdown.
StoppingRecord(s) ==
    [s EXCEPT !.state = "stopping", !.since = 0, !.hold = 0, !.idle = Null]

\* The sweep's own transitions.
AdoptedRecord(s) == [s EXCEPT !.state = "starting", !.since = 0, !.idle = Null]
CountsFromStart(s) == [s EXCEPT !.state = "running", !.idle = Null]
RunningRecord(s) == [s EXCEPT !.state = "running", !.since = 0, !.idle = Null]
VanishedRecord(s) == [s EXCEPT !.state = "off", !.since = 0]

-----------------------------------------------------------------------------
(* handleGpuLifecycleSweep, once the provider has been asked: the branches  *)
(* in the order the code tests them.                                        *)
StopsAtOnce(s, online, pend, go) ==
    CASE s.state = "starting" /\ online -> "running"
      [] s.state = "starting" /\ ~online ->
           IF s.since > StartTimeout THEN "timeout" ELSE "none"
      [] s.state \in {"running", "stopping"} /\ ~online -> "vanished"
      [] s.state = "off" -> IF go THEN "start" ELSE "none"
      [] s.state = "running" /\ online ->
           IF pend > 0 THEN IF s.idle = Null THEN "none" ELSE "busy"
           ELSE IF s.hold = 0 /\ s.since >= IdleShutdown
           THEN "idleStop" ELSE "none"
      [] s.state = "stopping" /\ online -> "none"
SweepDecision(s, online, pend, go) ==
    CASE s.state = "starting" /\ online -> "running"
      [] s.state = "starting" /\ ~online ->
           IF s.since > StartTimeout THEN "timeout" ELSE "none"
      [] s.state \in {"running", "stopping"} /\ ~online -> "vanished"
      [] s.state = "off" -> IF go THEN "start" ELSE "none"
      [] s.state = "running" /\ online ->
           IF pend > 0 THEN IF s.idle = Null THEN "none" ELSE "busy"
           ELSE IF s.idle = Null THEN "lull"
           ELSE IF s.hold = 0 /\ s.idle >= IdleShutdown
           THEN "idleStop" ELSE "none"
      [] s.state = "stopping" /\ online -> "none"

Goto(a, where) == pc' = [pc EXCEPT ![a] = where]
Carry(a, r) == rec' = [rec EXCEPT ![a] = r]

\* Carry out a branch: nothing, a call of start()/stop(), or one write.
Apply(a, s, decision) ==
    CASE decision = "none" -> Goto(a, "idle") /\ UNCHANGED <<rec, arg>>
      [] decision = "start" ->
           Goto(a, "start") /\ arg' = [arg EXCEPT ![a] = FALSE] /\ UNCHANGED rec
      [] decision \in {"timeout", "idleStop"} ->
           Goto(a, "stop") /\ UNCHANGED <<rec, arg>>
      [] decision = "running" ->
           Goto(a, "write") /\ Carry(a, RunningRecord(s)) /\ UNCHANGED arg
      [] decision = "vanished" ->
           Goto(a, "write") /\ Carry(a, VanishedRecord(s)) /\ UNCHANGED arg
      [] decision = "busy" ->
           Goto(a, "write") /\ Carry(a, [s EXCEPT !.idle = Null]) /\ UNCHANGED arg
      [] decision = "lull" ->
           Goto(a, "write") /\ Carry(a, [s EXCEPT !.idle = 0]) /\ UNCHANGED arg

\* The sweep reads the record, the queues and the telemetry key, then acts.
\* getProviderState is asked only of JarvisLabs, and only now and then.
CheckDue == Provider = "jarvislabs" /\ lastCheck >= CheckInterval

Sweep(a) ==
    /\ Enabled
    /\ pc[a] = "idle"
    /\ \E online \in BOOLEAN :
         /\ \/ online = seen /\ NoEvent
            \/ online /\ ~seen /\ Fault("blip")   \* unknown is not "off"
         /\ IF st.state = "off" /\ CheckDue
            THEN /\ lastCheck' = 0
                 /\ Goto(a, "check")
                 /\ Carry(a, st)
                 /\ arg' = [arg EXCEPT ![a] = ShouldStart]
            ELSE /\ Apply(a, st, SweepDecision(st, online, Pending, ShouldStart))
                 /\ UNCHANGED lastCheck
    /\ Begins(a)
    /\ UNCHANGED <<st, boxVars>>

\* resolveMachineId + get: can the code see the machine it means to act on?
\* The live listing wins; unreadable, it falls back on the recorded id.
Reaches(r) ==
    \/ NoEvent
    \/ r.mid = "live" /\ Fault("unreadable")
Misses(r) == r.mid = "stale" /\ Fault("unreadable")

\* The answer of getProviderState arrives.
ProviderChecked(a) ==
    /\ pc[a] = "check"
    /\ \/ /\ power # "off"
          /\ NoEvent
          /\ Goto(a, "write")
          /\ Carry(a, AdoptedRecord(rec[a]))
          /\ UNCHANGED arg
       \/ /\ \/ power = "off" /\ NoEvent
             \/ power # "off" /\ Fault("unreadable")
          /\ Apply(a, rec[a], IF arg[a] THEN "start" ELSE "none")
    /\ UNCHANGED <<st, boxVars, lastCheck, pastVars>>

-----------------------------------------------------------------------------
(* start() *)

StartRead(a) ==
    /\ pc[a] = "start"
    /\ \/ /\ st.state \in {"starting", "running"}
          /\ IF arg[a]
             THEN Goto(a, "write") /\ Carry(a, [st EXCEPT !.hold = IdleShutdown])
             ELSE Goto(a, "idle") /\ UNCHANGED rec
       \/ /\ st.state \in {"off", "stopping"}
          /\ Goto(a, "mark")
          /\ Carry(a, StartingRecord(st, arg[a]))
    /\ NoEvent
    /\ UNCHANGED <<st, arg, boxVars, lastCheck, pastVars>>

StartMark(a) ==
    /\ pc[a] = "mark"
    /\ st' = rec[a]
    /\ Goto(a, "call")
    /\ NoEvent
    /\ GoesPast(a) /\ overlapped' = (a \in stale)
    /\ UNCHANGED <<rec, arg, boxVars, lastCheck, on>>

PowerOn == power' = IF power = "off" THEN "dark" ELSE power

\* The start webhook: any error, a lost answer included, records "off".
StartWebhook(a) ==
    /\ Provider = "webhook"
    /\ \/ /\ PowerOn /\ NoEvent
          /\ Goto(a, "idle")
          /\ UNCHANGED rec
       \/ /\ Fault("refuse")
          /\ Goto(a, "write") /\ Carry(a, [rec[a] EXCEPT !.state = "off"])
          /\ UNCHANGED power
       \/ /\ PowerOn /\ Fault("lost")
          /\ Goto(a, "write") /\ Carry(a, [rec[a] EXCEPT !.state = "off"])
    /\ UNCHANGED st

\* JarvisLabs: a machine already running is adopted, otherwise resumed.
\* Resume may hand back a new id, which makes every other copy's id stale.
StartJarvisLabs(a) ==
    LET failed == Carry(a, [rec[a] EXCEPT !.state = "off"])
    IN /\ Provider = "jarvislabs"
       /\ Goto(a, "write")
       /\ \/ /\ power # "off" /\ Reaches(rec[a])
             /\ Carry(a, [rec[a] EXCEPT !.mid = "live"])
             /\ UNCHANGED <<st, power>>
          \/ /\ \/ Misses(rec[a])
                \/ power # "off" /\ Fault("unreadable")
                \/ power = "off" /\ Fault("refuse")
             /\ failed
             /\ UNCHANGED <<st, power>>
          \/ /\ power = "off" /\ Fault("lost")
             /\ power' = "dark"
             /\ failed
             /\ UNCHANGED st
          \/ /\ power = "off" /\ Reaches(rec[a])
             /\ power' = "dark"
             /\ Carry(a, [rec[a] EXCEPT !.mid = "live"])
             /\ UNCHANGED st
          \/ /\ power = "off" /\ Fault("reassign")
             /\ power' = "dark"
             /\ st' = [st EXCEPT !.mid = "stale"]
             /\ rec' = [b \in Actors |->
                          [rec[b] EXCEPT !.mid = IF b = a THEN "live" ELSE "stale"]]

StartCall(a) ==
    /\ pc[a] = "call"
    /\ StartWebhook(a) \/ StartJarvisLabs(a)
    /\ on' = IF power = "off" THEN 0 ELSE on
    /\ Touches(a)
    /\ UNCHANGED <<arg, seen, jobs, fails, lastCheck>>

-----------------------------------------------------------------------------
(* stop(): reads again, but asks nothing of what it reads *)

StopRead(a) ==
    /\ pc[a] = "stop"
    /\ Goto(a, "stopmark")
    /\ Carry(a, StoppingRecord(st))
    /\ NoEvent
    /\ UNCHANGED <<st, arg, boxVars, lastCheck, pastVars>>

StopMark(a) ==
    /\ pc[a] = "stopmark"
    /\ st' = rec[a]
    /\ Goto(a, "stopcall")
    /\ NoEvent
    /\ Touches(a)
    /\ UNCHANGED <<rec, arg, boxVars, lastCheck, on>>

\* The machine goes down; whatever it was running is left active.
PowerDown ==
    /\ power' = "off"
    /\ fails' = 0 /\ on' = 0
    /\ jobs' = [jobs EXCEPT !.orphan = jobs.active > 0]

StopCall(a) ==
    LET stopped == Carry(a, [rec[a] EXCEPT !.state = "off"])
        untouched == UNCHANGED <<power, fails, jobs, on>>
    IN /\ pc[a] = "stopcall"
       /\ Goto(a, "write")
       /\ \/ Provider = "webhook" /\ NoEvent /\ PowerDown /\ stopped
          \/ Provider = "jarvislabs" /\ Reaches(rec[a]) /\ PowerDown /\ stopped
          \/ Provider = "jarvislabs" /\ Misses(rec[a]) /\ UNCHANGED rec /\ untouched
          \/ Fault("refuse") /\ UNCHANGED rec /\ untouched  \* left in "stopping"
          \/ Fault("lost") /\ UNCHANGED rec /\ PowerDown
       /\ Touches(a)
       /\ UNCHANGED <<st, arg, seen, lastCheck>>

\* The write that ends an operation: setGpuLifecycleState(rec[a]).
WriteState(a) ==
    /\ pc[a] = "write"
    /\ st' = rec[a]
    /\ Goto(a, "idle")
    /\ NoEvent
    /\ Touches(a)
    /\ UNCHANGED <<rec, arg, boxVars, lastCheck, on>>

-----------------------------------------------------------------------------
(* Admin requests *)

HoldIdle(a) ==
    /\ pc[a] = "idle" /\ Event
    /\ Goto(a, "write")
    /\ Carry(a, [st EXCEPT !.hold = HoldFor])
    /\ Begins(a)
    /\ UNCHANGED <<st, arg, boxVars, lastCheck>>

ClearHold(a) ==
    /\ pc[a] = "idle" /\ Event
    /\ Goto(a, "write")
    /\ Carry(a, [st EXCEPT !.hold = 0])
    /\ Begins(a)
    /\ UNCHANGED <<st, arg, boxVars, lastCheck>>

StartNow(a) ==
    /\ pc[a] = "idle" /\ Event
    /\ Goto(a, "start")
    /\ arg' = [arg EXCEPT ![a] = TRUE]
    /\ Begins(a)
    /\ UNCHANGED <<st, rec, boxVars, lastCheck>>

StopNow(a) ==
    /\ pc[a] = "idle" /\ Event
    /\ Goto(a, "stop")
    /\ Begins(a)
    /\ UNCHANGED <<st, rec, arg, boxVars, lastCheck>>

\* The process running the operation dies at an await.
Crash(a) ==
    /\ pc[a] # "idle" /\ Fault("crash")
    /\ Goto(a, "idle")
    /\ UNCHANGED <<st, rec, arg, boxVars, lastCheck, pastVars>>

-----------------------------------------------------------------------------
(* The box *)

\* The worker comes up and publishes its telemetry key.
Boot ==
    /\ power = "dark"
    /\ power' = "up" /\ seen' = TRUE
    /\ NoEvent
    /\ UNCHANGED <<st, actorVars, jobs, lastCheck, fails, pastVars>>

\* The worker process dies, the machine stays on.
WorkerDies ==
    /\ power = "up" /\ Fault("worker")
    /\ power' = "dark"
    /\ jobs' = [jobs EXCEPT !.orphan = jobs.active > 0]
    /\ UNCHANGED <<st, actorVars, seen, lastCheck, fails, pastVars>>

\* gpu-autoshutdown.sh polls; told not to stay up, it sleeps 5 s and halts.
IgnoresAnswer ==
    /\ Watchdog /\ power \in {"dark", "up"}
    /\ fails' = 0
    /\ NoEvent
    /\ UNCHANGED <<st, actorVars, power, seen, jobs, lastCheck, pastVars>>
Heartbeat ==
    /\ Watchdog /\ power \in {"dark", "up"}
    /\ fails' = 0
    /\ power' = IF KeepAlive THEN power ELSE "halting"
    /\ NoEvent
    /\ UNCHANGED <<st, actorVars, seen, jobs, lastCheck, pastVars>>

\* No answer: after FailureGrace of them in a row the box halts.
ForgetsGrace ==
    /\ Watchdog /\ power \in {"dark", "up"} /\ Fault("poll")
    /\ fails' = fails + 1
    /\ UNCHANGED <<st, actorVars, power, seen, jobs, lastCheck, pastVars>>
HeartbeatFails ==
    /\ Watchdog /\ power \in {"dark", "up"} /\ Fault("poll")
    /\ fails' = fails + 1
    /\ power' = IF fails + 1 >= FailureGrace THEN "halting" ELSE power
    /\ UNCHANGED <<st, actorVars, seen, jobs, lastCheck, pastVars>>

\* An answer that is not understood.  The count was reset when the answer came,
\* so it is 1 at most; an answer without the field ends the script (set -e, a
\* grep that finds nothing) and systemd starts it afresh.
HeartbeatUnparsed ==
    /\ Watchdog /\ power \in {"dark", "up"} /\ Fault("garbled")
    /\ \/ fails' = 0 /\ UNCHANGED power
       \/ /\ fails' = 1
          /\ power' = IF FailureGrace = 1 THEN "halting" ELSE power
    /\ UNCHANGED <<st, actorVars, seen, jobs, lastCheck, pastVars>>

\* A worker told to terminate takes its telemetry key away; one that is cut off
\* leaves it to expire.
Halt ==
    /\ power = "halting"
    /\ PowerDown
    /\ seen' \in {seen, FALSE}
    /\ NoEvent
    /\ UNCHANGED <<st, actorVars, lastCheck, stale, overlapped>>

-----------------------------------------------------------------------------
(* The GPU queues *)

Total == jobs.waiting + jobs.active + jobs.delayed
Working == power \in {"up", "halting"} /\ seen

JobArrives ==
    /\ Total < MaxJobs /\ Event
    /\ jobs' = [jobs EXCEPT !.waiting = @ + 1,
                            !.waitAge = IF jobs.waiting = 0 THEN 0 ELSE @]
    /\ UNCHANGED <<st, actorVars, power, seen, lastCheck, fails, pastVars>>

JobTaken ==
    /\ Working /\ jobs.waiting > 0 /\ jobs.active = 0
    /\ \E age \in 0..jobs.waitAge :       \* the age of the next in line
         /\ jobs.waiting = 1 => age = 0
         /\ jobs' = [jobs EXCEPT !.waiting = @ - 1, !.active = 1,
                                 !.waitAge = age, !.activeAge = 0]
    /\ NoEvent
    /\ UNCHANGED <<st, actorVars, power, seen, lastCheck, fails, pastVars>>

JobDone ==
    /\ Working /\ jobs.active = 1 /\ ~jobs.orphan
    /\ jobs' = [jobs EXCEPT !.active = 0, !.activeAge = 0]
    /\ NoEvent
    /\ UNCHANGED <<st, actorVars, power, seen, lastCheck, fails, pastVars>>

\* A failed attempt waits out its backoff in the delayed set, from which only
\* a worker of the queue promotes it.
JobFails ==
    /\ Working /\ jobs.active = 1 /\ ~jobs.orphan /\ Fault("jobFail")
    /\ jobs' = [jobs EXCEPT !.active = 0, !.activeAge = 0, !.delayed = @ + 1]
    /\ UNCHANGED <<st, actorVars, power, seen, lastCheck, fails, pastVars>>

JobRetried ==
    /\ Working /\ jobs.delayed > 0
    /\ jobs' = [jobs EXCEPT !.delayed = @ - 1, !.waiting = @ + 1,
                            !.waitAge = IF jobs.waiting = 0 THEN 0 ELSE @]
    /\ NoEvent
    /\ UNCHANGED <<st, actorVars, power, seen, lastCheck, fails, pastVars>>

\* A worker's stalled check puts an orphaned job back in line.
JobStalled ==
    /\ Working /\ jobs.orphan
    /\ jobs' = [jobs EXCEPT !.active = 0, !.activeAge = 0, !.orphan = FALSE,
                            !.waiting = @ + 1,
                            !.waitAge = IF jobs.waiting = 0 THEN 0 ELSE @]
    /\ NoEvent
    /\ UNCHANGED <<st, actorVars, power, seen, lastCheck, fails, pastVars>>

\* One sweep period: longer than the telemetry key's TTL.
Tick ==
    /\ st' = Aged(st)
    /\ rec' = [a \in Actors |-> Aged(rec[a])]
    /\ lastCheck' = Older(lastCheck)
    /\ jobs' = [jobs EXCEPT
                  !.waitAge   = IF jobs.waiting > 0 THEN Older(@) ELSE 0,
                  !.activeAge = IF jobs.active > 0 THEN Older(@) ELSE 0]
    /\ seen' = (power = "up" \/ (power = "halting" /\ seen))
    /\ on' = IF power = "off" THEN 0 ELSE Older(on)
    /\ NoEvent
    /\ UNCHANGED <<pc, arg, power, fails, stale, overlapped>>

-----------------------------------------------------------------------------

Init ==
    /\ \E id \in {"live", "stale"} :   \* the configured id may be old already
         /\ Provider = "webhook" => id = "live"
         /\ st = [state |-> "off", since |-> Cap, hold |-> 0, idle |-> Null,
                  mid |-> id]
    /\ pc = [a \in Actors |-> "idle"]
    /\ rec = [a \in Actors |-> st]
    /\ arg = [a \in Actors |-> FALSE]
    /\ power = "off"
    /\ seen = FALSE
    /\ jobs = NoJobs
    /\ lastCheck = Cap            \* lastProviderCheckAt starts at 0
    /\ fails = 0
    /\ credit = MaxEvents
    /\ on = 0 /\ stale = {} /\ overlapped = FALSE

Step(a) ==
    \/ ProviderChecked(a)
    \/ StartRead(a) \/ StartMark(a) \/ StartCall(a)
    \/ StopRead(a) \/ StopMark(a) \/ StopCall(a)
    \/ WriteState(a)
    \/ Crash(a)

Box ==
    \/ Boot \/ WorkerDies
    \/ Heartbeat \/ HeartbeatFails \/ HeartbeatUnparsed
    \/ Halt

Queue == JobArrives \/ JobTaken \/ JobDone \/ JobFails \/ JobRetried \/ JobStalled

Next ==
    \/ \E a \in Sweepers : Sweep(a)
    \/ \E a \in Admins : HoldIdle(a) \/ ClearHold(a) \/ StartNow(a) \/ StopNow(a)
    \/ \E a \in Actors : Step(a)
    \/ Box
    \/ Queue
    \/ Tick

Spec == Init /\ [][Next]_vars

\* The sweep has not yet given up on the start.
TimelyBoot ==
    Boot /\ st.state = "starting" /\ \A a \in Actors : pc[a] = "idle"

\* The cron queues a sweep every two minutes; an await returns or times out;
\* a machine that is started again and again boots in time once, and runs its
\* worker and its watchdog from systemd; workers
\* drain the queues; time passes.  Nothing is assumed of admins and faults.
Fairness ==
    /\ \A a \in Sweepers : WF_vars(Sweep(a))
    /\ \A a \in Actors : WF_vars(Step(a))
    /\ WF_vars(Boot) /\ SF_vars(TimelyBoot) /\ WF_vars(Heartbeat) /\ WF_vars(Halt)
    /\ SF_vars(JobTaken) /\ SF_vars(JobDone)
    /\ SF_vars(JobRetried) /\ SF_vars(JobStalled)
    /\ WF_vars(Tick)

FairSpec == Spec /\ Fairness

-----------------------------------------------------------------------------
(* Properties *)

\* A record of a running box is not older than the machine's run, nor its countdown
\* older than the record; so a countdown left over from an earlier run never counts
\* against this one (gpu-lifecycle.service.ts:722).  What breaks this is an operation
\* that went on past another - a start whose call comes after another's write, or a
\* late write of the whole record, which brings an earlier run's back (line 697) -
\* until the next start that no other has gone past is marked.
CountdownInv ==
    st.state = "running" /\ power # "off" /\ ~ overlapped =>
        /\ st.since <= on
        /\ st.idle # Null => st.idle <= st.since

\* A sweep marks a box "stopping" only when the record says its worker never reported
\* within the start timeout, or that the queues have been empty for a whole idle window
\* and no hold is left, the machine itself having been on that long - whatever the
\* administrators held, started and stopped meanwhile, but for what went on past
\* another's write or call: stop() asks nothing again of the record it reads (line 822).
StopsOnlyWhenEarned ==
    [][\A a \in Sweepers : pc[a] = "stopmark" /\ pc'[a] = "stopcall" /\ a \notin stale =>
          \/ /\ st.state = "running" /\ st.hold = 0 /\ st.idle >= IdleShutdown
             /\ power # "off" /\ ~ overlapped => on >= IdleShutdown
          \/ st.state = "starting" /\ st.since > StartTimeout]_vars

\* The status line and the sweep never drift: "start" is predicted exactly
\* when a sweep would start the box, and "stop now" exactly when one would
\* stop it for idleness.
PredictionMatchesSweep ==
    Enabled /\ ~(st.state = "off" /\ CheckDue) =>
        LET does == SweepDecision(st, seen, Pending, ShouldStart)
            says == predictNextAction
        IN /\ does = "start" <=> says.kind = "start"
           /\ does = "idleStop" => says = [kind |-> "stop", eta |-> 0]
           /\ says = [kind |-> "stop", eta |-> 0] /\ seen => does = "idleStop"

\* Once faults, arrivals and admin requests stop, no job is left waiting and
\* the machine is off and recorded off, for good: no straggler waits below the
\* threshold, no box is left billing, whatever was lost or crashed on the way.
Quiesces == <>[](jobs.waiting = 0 /\ power = "off" /\ st.state = "off")
=============================================================================
