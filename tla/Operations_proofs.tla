-------------------------- MODULE Operations_proofs -------------------------
(***************************************************************************)
(* What the administrator's machinery guarantees, for every number of       *)
(* boxes, processes, jobs and log rows: the lifecycle of the GPU box, the    *)
(* queues, the heartbeats and the audit log with the page that tails it.     *)
(***************************************************************************)
EXTENDS GpuLifecycle, JobQueue, AuditTrail, FiniteSetTheorems, TLAPS

-----------------------------------------------------------------------------
(* The GPU lifecycle *)

\* A record whose countdown is not older than it.
CountdownOfThisRun(r) ==
    /\ r.state \in {"starting", "stopping"} => r.idle = Null
    /\ r.state = "running" /\ r.idle # Null => r.idle <= r.since

Good == {r \in Record : CountdownOfThisRun(r)}

Decisions == {"none", "start", "timeout", "idleStop", "running", "vanished",
              "busy", "lull"}

\* Cap is a natural number above every interval that enters a record.
LEMMA Bounds ==
    /\ Cap \in Nat /\ 0 \in 0..Cap /\ Cap \in 0..Cap
    /\ IdleShutdown \in 0..Cap /\ HoldFor \in 0..Cap
    /\ FailureGrace \in Nat \ {0} /\ MaxEvents \in Nat /\ MaxJobs \in Nat
BY IntervalAssumption

-----------------------------------------------------------------------------
(* The record transformers keep a good record good *)

\* Marking a start drops an old countdown.
LEMMA GoodStart ==
    ASSUME NEW s \in Good, NEW m \in BOOLEAN
    PROVE  StartingRecord(s, m) \in Good
BY Bounds DEF Good, Record, States, CountdownOfThisRun, StartingRecord, Null

\* Neither do stop(), the adoption, the reconciling writes or a failed call
\* leave a countdown behind that is not the run's own.
LEMMA GoodTransitions ==
    ASSUME NEW s \in Good
    PROVE  /\ StoppingRecord(s) \in Good
           /\ AdoptedRecord(s) \in Good
           /\ RunningRecord(s) \in Good
           /\ VanishedRecord(s) \in Good
           /\ [s EXCEPT !.state = "off"] \in Good
<1> USE Bounds DEF Good, Record, States, CountdownOfThisRun, Null
<1>1. StoppingRecord(s) \in Good BY DEF StoppingRecord
<1>2. AdoptedRecord(s) \in Good BY DEF AdoptedRecord
<1>3. RunningRecord(s) \in Good BY DEF RunningRecord
<1>4. VanishedRecord(s) \in Good BY DEF VanishedRecord
<1>5. [s EXCEPT !.state = "off"] \in Good OBVIOUS
<1> QED BY <1>1, <1>2, <1>3, <1>4, <1>5

\* A hold, a new machine id, and dropping a countdown are always sound; starting
\* one is sound for a running box.
LEMMA GoodFields ==
    ASSUME NEW s \in Good
    PROVE  /\ \A h \in 0..Cap : [s EXCEPT !.hold = h] \in Good
           /\ \A m \in {"live", "stale"} : [s EXCEPT !.mid = m] \in Good
           /\ [s EXCEPT !.idle = Null] \in Good
           /\ s.state = "running" => [s EXCEPT !.idle = 0] \in Good
BY Bounds DEF Good, Record, States, CountdownOfThisRun, Null

\* ... and so does the passing of time: both ages grow, saturating together.
LEMMA GoodAged ==
    ASSUME NEW s \in Good
    PROVE  Aged(s) \in Good
<1>1. \A n \in 0..Cap : Older(n) \in 0..Cap /\ Sooner(n) \in 0..Cap
  BY Bounds DEF Older, Sooner
<1>2. \A m, n \in 0..Cap : m <= n => Older(m) <= Older(n)
  BY Bounds DEF Older
<1>3. s.since \in 0..Cap /\ s.hold \in 0..Cap /\ s.idle \in {Null} \cup 0..Cap
  BY DEF Good, Record
<1>4. Aged(s) = [s EXCEPT !.since = Older(s.since), !.hold = Sooner(s.hold),
                          !.idle = IF s.idle = Null THEN Null ELSE Older(s.idle)]
  BY DEF Aged
<1>5. Aged(s) \in Record
  BY <1>1, <1>3, <1>4 DEF Good, Record
<1>6. CountdownOfThisRun(Aged(s))
  BY <1>1, <1>2, <1>3, <1>4, Bounds DEF Good, Record, CountdownOfThisRun, Null
<1> QED BY <1>5, <1>6 DEF Good

-----------------------------------------------------------------------------
(* The inductive invariant, in parts *)

ActorsInv ==
    /\ st \in Good
    /\ pc \in [Actors -> PCs]
    /\ rec \in [Actors -> Good]
    /\ arg \in [Actors -> BOOLEAN]

\* The strengthening of the types: a watchdog that has used up its grace has
\* halted the box, the queues hold no more jobs than the bound, and only an
\* active job is orphaned.
JobsInv ==
    /\ jobs \in JobsType
    /\ Total <= MaxJobs
    /\ jobs.orphan => jobs.active = 1

WorldInv ==
    /\ power \in {"off", "dark", "up", "halting"}
    /\ seen \in BOOLEAN
    /\ JobsInv
    /\ lastCheck \in 0..Cap
    /\ fails \in 0..FailureGrace
    /\ fails < FailureGrace \/ power = "halting"

CreditInv == credit \in 0..MaxEvents

PastInv == on \in 0..Cap /\ stale \in SUBSET Actors /\ overlapped \in BOOLEAN

Inv == ActorsInv /\ WorldInv /\ CreditInv /\ PastInv

\* The invariant is strong enough: it implies the types.
LEMMA InvImplies == Inv => TypeOK
BY DEF Inv, ActorsInv, WorldInv, JobsInv, CreditInv, PastInv, TypeOK, Good

-----------------------------------------------------------------------------
(* The records and the actors *)

\* Carrying out a branch of the sweep: a countdown is only ever started for a
\* record that says running.
LEMMA ApplyActors ==
    ASSUME ActorsInv, NEW a \in Actors, NEW s \in Good, NEW decision \in Decisions,
           decision = "lull" => s.state = "running", Apply(a, s, decision)
    PROVE  /\ pc' \in [Actors -> PCs] /\ rec' \in [Actors -> Good]
           /\ arg' \in [Actors -> BOOLEAN]
<1> USE DEF ActorsInv, PCs, Goto, Carry
<1>1. CASE decision = "none"
  BY <1>1 DEF Apply
<1>2. CASE decision = "start"
  BY <1>2 DEF Apply
<1>3. CASE decision \in {"timeout", "idleStop"}
  BY <1>3 DEF Apply
<1>4. CASE decision = "running"
  BY <1>4, GoodTransitions DEF Apply
<1>5. CASE decision = "vanished"
  BY <1>5, GoodTransitions DEF Apply
<1>6. CASE decision = "busy"
  BY <1>6, GoodFields DEF Apply
<1>7. CASE decision = "lull"
  BY <1>7, GoodFields DEF Apply
<1> QED BY <1>1, <1>2, <1>3, <1>4, <1>5, <1>6, <1>7 DEF Decisions

\* A lull is only ever decided for a record that says running.
LEMMA DecisionType ==
    ASSUME NEW s \in Good, NEW online \in BOOLEAN, NEW pend, NEW go
    PROVE  LET d == SweepDecision(s, online, pend, go)
           IN d \in Decisions /\ (d = "lull" => s.state = "running")
BY DEF SweepDecision, Decisions, Good, Record, States

\* What the calls of the JarvisLabs start leave in the records.
LEMMA JarvisLabsWrites ==
    ASSUME NEW a \in Actors, StartJarvisLabs(a)
    PROVE  \/ st' = st /\ Carry(a, [rec[a] EXCEPT !.mid = "live"])
           \/ st' = st /\ Carry(a, [rec[a] EXCEPT !.state = "off"])
           \/ /\ st' = [st EXCEPT !.mid = "stale"]
              /\ rec' = [b \in Actors |->
                           [rec[b] EXCEPT !.mid = IF b = a THEN "live" ELSE "stale"]]
BY Zenon DEF StartJarvisLabs

\* ... and those are good records, a reassigned machine's included.
LEMMA JarvisLabsGood ==
    ASSUME ActorsInv, NEW a \in Actors, StartJarvisLabs(a)
    PROVE  st' \in Good /\ rec' \in [Actors -> Good]
<1>1. st \in Good /\ rec \in [Actors -> Good]
  BY DEF ActorsInv
<1>2. \A r \in Good : \A m \in {"live", "stale"} : [r EXCEPT !.mid = m] \in Good
  BY GoodFields
<1>3. CASE st' = st /\ Carry(a, [rec[a] EXCEPT !.mid = "live"])
  BY <1>1, <1>2, <1>3 DEF Carry
<1>4. CASE st' = st /\ Carry(a, [rec[a] EXCEPT !.state = "off"])
  BY <1>1, <1>4, GoodTransitions DEF Carry
<1>5. CASE /\ st' = [st EXCEPT !.mid = "stale"]
           /\ rec' = [b \in Actors |->
                        [rec[b] EXCEPT !.mid = IF b = a THEN "live" ELSE "stale"]]
  BY <1>1, <1>2, <1>5
<1> QED BY <1>3, <1>4, <1>5, JarvisLabsWrites, Zenon

\* The steps of a sweeper or an admin keep every record good.
LEMMA ActorStep ==
    ASSUME ActorsInv, NEW a \in Actors, Step(a)
    PROVE  ActorsInv'
<1> USE DEF ActorsInv, PCs, Goto, Carry
<1>1. CASE ProviderChecked(a)
  <2>1. CASE pc' = [pc EXCEPT ![a] = "write"]
             /\ rec' = [rec EXCEPT ![a] = AdoptedRecord(rec[a])] /\ arg' = arg
    BY <1>1, <2>1, GoodTransitions DEF ProviderChecked
  <2>2. CASE Apply(a, rec[a], IF arg[a] THEN "start" ELSE "none")
    <3>1. PICK d \in {"start", "none"} : Apply(a, rec[a], d)
      BY <2>2
    <3> QED BY <1>1, <3>1, ApplyActors DEF ProviderChecked, Decisions
  <2> QED BY <1>1, <2>1, <2>2 DEF ProviderChecked
<1>2. CASE StartRead(a)
  <2>1. st' = st /\ arg' = arg
    BY <1>2 DEF StartRead
  <2>2. StartingRecord(st, arg[a]) \in Good /\ [st EXCEPT !.hold = IdleShutdown] \in Good
    BY GoodStart, GoodFields, Bounds
  <2> QED BY <1>2, <2>1, <2>2 DEF StartRead
<1>3. CASE StartMark(a) \/ StopMark(a) \/ WriteState(a)
  BY <1>3 DEF StartMark, StopMark, WriteState
<1>4. CASE StartCall(a)
  <2>1. arg' = arg
    BY <1>4 DEF StartCall
  <2>2. CASE StartWebhook(a)
    BY <2>1, <2>2, GoodTransitions DEF StartWebhook
  <2>3. CASE StartJarvisLabs(a)
    <3>1. pc' = [pc EXCEPT ![a] = "write"]
      BY <2>3 DEF StartJarvisLabs
    <3>2. st' \in Good /\ rec' \in [Actors -> Good]
      BY <2>3, JarvisLabsGood
    <3> QED BY <2>1, <3>1, <3>2
  <2> QED BY <1>4, <2>2, <2>3 DEF StartCall
<1>5. CASE StopRead(a)
  BY <1>5, GoodTransitions DEF StopRead
<1>6. CASE StopCall(a)
  <2>1. st' = st /\ arg' = arg /\ pc' = [pc EXCEPT ![a] = "write"]
    BY <1>6 DEF StopCall
  <2>2. rec' = rec \/ rec' = [rec EXCEPT ![a] = [rec[a] EXCEPT !.state = "off"]]
    BY <1>6 DEF StopCall
  <2> QED BY <2>1, <2>2, GoodTransitions
<1>7. CASE Crash(a)
  BY <1>7 DEF Crash
<1> QED BY <1>1, <1>2, <1>3, <1>4, <1>5, <1>6, <1>7 DEF Step

\* The sweep hands on the record it read, or a good one made from it.
LEMMA SweepActors ==
    ASSUME ActorsInv, NEW a \in Actors, Sweep(a)
    PROVE  ActorsInv'
<1>1. st' = st
  BY DEF Sweep
<1>2. CASE /\ Goto(a, "check") /\ Carry(a, st)
           /\ arg' = [arg EXCEPT ![a] = ShouldStart]
  <2>1. ShouldStart \in BOOLEAN
    BY DEF ShouldStart
  <2> QED BY <1>1, <1>2, <2>1 DEF ActorsInv, PCs, Goto, Carry
<1>3. ASSUME NEW online \in BOOLEAN,
             Apply(a, st, SweepDecision(st, online, Pending, ShouldStart))
      PROVE  ActorsInv'
  <2>1. st \in Good
    BY DEF ActorsInv
  <2> DEFINE d == SweepDecision(st, online, Pending, ShouldStart)
  <2>2. d \in Decisions /\ (d = "lull" => st.state = "running")
    BY <2>1, DecisionType
  <2>3. Apply(a, st, d)
    BY <1>3
  <2> HIDE DEF d
  <2>4. /\ pc' \in [Actors -> PCs] /\ rec' \in [Actors -> Good]
        /\ arg' \in [Actors -> BOOLEAN]
    BY <2>1, <2>2, <2>3, ApplyActors
  <2> QED BY <1>1, <2>1, <2>4 DEF ActorsInv
<1>4. PICK online \in BOOLEAN :
        \/ /\ Goto(a, "check") /\ Carry(a, st)
           /\ arg' = [arg EXCEPT ![a] = ShouldStart]
        \/ Apply(a, st, SweepDecision(st, online, Pending, ShouldStart))
  BY Zenon DEF Sweep
<1> QED BY <1>2, <1>3, <1>4, Zenon

\* Every step keeps the records and the actors as they should be.
LEMMA ActorsStep ==
    ASSUME ActorsInv, [Next]_vars
    PROVE  ActorsInv'
<1>1. ASSUME NEW a \in Sweepers, Sweep(a) PROVE ActorsInv'
  BY <1>1, SweepActors DEF Actors
<1>2. ASSUME NEW a \in Admins, HoldIdle(a) \/ ClearHold(a) PROVE ActorsInv'
  <2>1. [st EXCEPT !.hold = HoldFor] \in Good /\ [st EXCEPT !.hold = 0] \in Good
    BY GoodFields, Bounds DEF ActorsInv
  <2> QED BY <1>2, <2>1 DEF HoldIdle, ClearHold, ActorsInv, PCs, Goto, Carry
<1>3. ASSUME NEW a \in Admins, StartNow(a) \/ StopNow(a) PROVE ActorsInv'
  BY <1>3 DEF StartNow, StopNow, ActorsInv, PCs, Goto
<1>4. ASSUME NEW a \in Actors, Step(a) PROVE ActorsInv'
  BY <1>4, ActorStep
<1>5. CASE Box
  <2>1. UNCHANGED <<st, pc, rec, arg>>
    BY <1>5 DEF Box, Boot, WorkerDies, Heartbeat, HeartbeatFails, HeartbeatUnparsed,
                Halt, actorVars
  <2> QED BY <2>1 DEF ActorsInv
<1>6. CASE Queue
  <2>1. UNCHANGED <<st, pc, rec, arg>>
    BY <1>6 DEF Queue, JobArrives, JobTaken, JobDone, JobFails, JobRetried,
                JobStalled, actorVars
  <2> QED BY <2>1 DEF ActorsInv
<1>7. CASE Tick
  <2>1. \A r \in Good : Aged(r) \in Good
    BY GoodAged
  <2>2. st' = Aged(st) /\ rec' = [a \in Actors |-> Aged(rec[a])] /\ pc' = pc /\ arg' = arg
    BY <1>7 DEF Tick
  <2> QED BY <2>1, <2>2 DEF ActorsInv
<1>8. CASE UNCHANGED vars
  BY <1>8 DEF vars, ActorsInv
<1> QED BY <1>1, <1>2, <1>3, <1>4, <1>5, <1>6, <1>7, <1>8 DEF Next

-----------------------------------------------------------------------------
(* The machine, the queues and the bounds *)

\* An age stays an age.
LEMMA OlderType == \A n \in 0..Cap : Older(n) \in 0..Cap
BY Bounds DEF Older

\* The queues after a step, from their new contents.
LEMMA JobsWritten ==
    ASSUME NEW w \in 0..MaxJobs, NEW c \in 0..1, NEW d \in 0..MaxJobs,
           NEW o \in BOOLEAN, NEW x \in 0..Cap, NEW y \in 0..Cap,
           w + c + d <= MaxJobs, o => c = 1,
           jobs' = [waiting |-> w, active |-> c, delayed |-> d, orphan |-> o,
                    waitAge |-> x, activeAge |-> y]
    PROVE  JobsInv'
<1>1. jobs' \in JobsType
  BY DEF JobsType
<1>2. Total' <= MaxJobs
  BY DEF Total
<1>3. jobs'.orphan => jobs'.active = 1
  OBVIOUS
<1> QED BY <1>1, <1>2, <1>3 DEF JobsInv

\* What the bounds say of the counts.
LEMMA JobsCounts ==
    ASSUME JobsInv
    PROVE  /\ jobs.waiting \in 0..MaxJobs /\ jobs.delayed \in 0..MaxJobs
           /\ jobs.active \in 0..1 /\ jobs.orphan \in BOOLEAN
           /\ jobs.waitAge \in 0..Cap /\ jobs.activeAge \in 0..Cap
           /\ jobs.waiting + jobs.active + jobs.delayed <= MaxJobs
           /\ 0 \in 0..Cap /\ MaxJobs \in Nat
BY Bounds DEF JobsInv, JobsType, Total

\* A job whose worker is gone stays in its set.
LEMMA Orphaned ==
    ASSUME JobsInv, jobs' = [jobs EXCEPT !.orphan = jobs.active > 0]
    PROVE  JobsInv'
<1> DEFINE o == jobs.active > 0
<1>1. o \in BOOLEAN /\ (o => jobs.active = 1)
  BY JobsCounts
<1>2. jobs' = [jobs EXCEPT !.orphan = o]
  OBVIOUS
<1> HIDE DEF o
<1>3. jobs' = [waiting |-> jobs.waiting, active |-> jobs.active,
               delayed |-> jobs.delayed, orphan |-> o,
               waitAge |-> jobs.waitAge, activeAge |-> jobs.activeAge]
  BY <1>2 DEF JobsInv, JobsType
<1> QED BY <1>1, <1>3, JobsCounts, JobsWritten

\* Switching the machine off forgets the failed polls and the lost answers.
LEMMA PowerDownWorld ==
    ASSUME WorldInv, PowerDown, seen' \in {seen, FALSE}, UNCHANGED lastCheck
    PROVE  WorldInv'
<1>1. jobs' = [jobs EXCEPT !.orphan = jobs.active > 0]
  BY Zenon DEF PowerDown
<1>2. JobsInv'
  BY <1>1, Orphaned, Zenon DEF WorldInv
<1>3. power' = "off" /\ fails' = 0
  BY Zenon DEF PowerDown
<1>4. seen' \in BOOLEAN /\ lastCheck' \in 0..Cap
  BY DEF WorldInv
<1>5. fails' \in 0..FailureGrace /\ fails' < FailureGrace
  BY <1>3, Bounds
<1> QED BY <1>2, <1>3, <1>4, <1>5, Zenon DEF WorldInv

\* Jobs left alone.
LEMMA JobsSame == ASSUME JobsInv, jobs' = jobs PROVE JobsInv'
BY DEF JobsInv, Total

\* The provider's start only ever switches a machine on.
LEMMA StartPower ==
    ASSUME NEW a \in Actors, StartCall(a)
    PROVE  power' = power \/ (power' = "dark" /\ power = "off")
<1> DEFINE OnlyOn == power' = power \/ (power' = "dark" /\ power = "off")
<1>1. PowerOn => OnlyOn
  BY DEF PowerOn
<1>2. StartWebhook(a) => OnlyOn
  <2>1. StartWebhook(a) => PowerOn \/ power' = power
    BY Zenon DEF StartWebhook
  <2> QED BY <1>1, <2>1
<1>3. StartJarvisLabs(a) => OnlyOn
  BY Zenon DEF StartJarvisLabs
<1> QED BY <1>2, <1>3, Zenon DEF StartCall

\* The steps of sweepers and admins touch the machine only by its power.
LEMMA ActorWorld ==
    ASSUME WorldInv, NEW a \in Actors, Step(a)
    PROVE  WorldInv'
<1>1. CASE UNCHANGED <<boxVars, lastCheck>>
  BY <1>1, JobsSame DEF WorldInv, boxVars
<1>2. CASE StartCall(a)
  <2>1. UNCHANGED <<seen, jobs, fails, lastCheck>>
    BY <1>2 DEF StartCall
  <2> QED BY <1>2, <2>1, JobsSame, StartPower DEF WorldInv
<1>3. CASE StopCall(a)
  <2>1. UNCHANGED <<seen, lastCheck>>
    BY <1>3 DEF StopCall
  <2>2. PowerDown \/ UNCHANGED <<power, fails, jobs>>
    BY <1>3, Zenon DEF StopCall
  <2>3. CASE UNCHANGED <<power, fails, jobs>>
    BY <2>1, <2>3, JobsSame DEF WorldInv
  <2> QED BY <2>1, <2>2, <2>3, PowerDownWorld
<1>4. StartCall(a) \/ StopCall(a) \/ UNCHANGED <<boxVars, lastCheck>>
  BY DEF Step, ProviderChecked, StartRead, StartMark, StopRead, StopMark,
         WriteState, Crash
<1> QED BY <1>1, <1>2, <1>3, <1>4

\* The box: a poll that fails for the last time halts it.
LEMMA BoxWorld ==
    ASSUME WorldInv, Box
    PROVE  WorldInv'
<1>1. CASE Boot
  BY <1>1, JobsSame DEF Boot, WorldInv
<1>2. CASE WorkerDies
  <2>1. jobs' = [jobs EXCEPT !.orphan = jobs.active > 0]
    BY <1>2, Zenon DEF WorkerDies
  <2>2. JobsInv'
    BY <2>1, Orphaned, Zenon DEF WorldInv
  <2>3. power = "up" /\ power' = "dark" /\ UNCHANGED <<seen, lastCheck, fails>>
    BY <1>2 DEF WorkerDies
  <2> QED BY <2>2, <2>3 DEF WorldInv
<1>3. CASE Heartbeat
  BY <1>3, Bounds, JobsSame DEF Heartbeat, WorldInv
<1>4. CASE HeartbeatFails
  BY <1>4, Bounds, JobsSame DEF HeartbeatFails, WorldInv
<1>5. CASE HeartbeatUnparsed
  BY <1>5, Bounds, JobsSame DEF HeartbeatUnparsed, WorldInv
<1>6. CASE Halt
  BY <1>6, PowerDownWorld, Zenon DEF Halt
<1> QED BY <1>1, <1>2, <1>3, <1>4, <1>5, <1>6 DEF Box

\* The queues: a job moves between the sets, only an arrival adds one.
LEMMA QueueJobs ==
    ASSUME JobsInv, Queue
    PROVE  JobsInv'
<1> DEFINE age == IF jobs.waiting = 0 THEN 0 ELSE jobs.waitAge
           w == jobs.waiting + 1
           As(wt, ac, de, or, wa, aa) ==
              [waiting |-> wt, active |-> ac, delayed |-> de, orphan |-> or,
               waitAge |-> wa, activeAge |-> aa]
<1> USE JobsCounts
<1>0. age \in 0..Cap /\ jobs \in JobsType
  BY DEF JobsInv
<1>1. CASE JobArrives
  <2>1. jobs' = As(w, jobs.active, jobs.delayed, jobs.orphan, age, jobs.activeAge)
    BY <1>0, <1>1 DEF JobArrives, JobsType
  <2>2. w \in 0..MaxJobs /\ w + jobs.active + jobs.delayed <= MaxJobs
    BY <1>1 DEF JobArrives, Total
  <2>3. jobs.orphan => jobs.active = 1
    BY DEF JobsInv
  <2> HIDE DEF age, w
  <2> QED BY <1>0, <2>1, <2>2, <2>3, JobsWritten
<1>2. CASE JobTaken
  <2> DEFINE v == jobs.waiting - 1
  <2>1. PICK next \in 0..jobs.waitAge :
          jobs' = [jobs EXCEPT !.waiting = v, !.active = 1,
                               !.waitAge = next, !.activeAge = 0]
    BY <1>2 DEF JobTaken
  <2>2. jobs.waiting > 0 /\ jobs.active = 0
    BY <1>2 DEF JobTaken
  <2>3. jobs' = As(v, 1, jobs.delayed, jobs.orphan, next, 0)
    BY <1>0, <2>1 DEF JobsType
  <2>4. v \in 0..MaxJobs /\ v + 1 + jobs.delayed <= MaxJobs /\ 1 \in 0..1
    BY <2>2
  <2>5. next \in 0..Cap
    BY Bounds
  <2> HIDE DEF age, w, v
  <2> QED BY <1>0, <2>3, <2>4, <2>5, JobsWritten
<1>3. CASE JobDone
  <2>1. jobs' = As(jobs.waiting, 0, jobs.delayed, jobs.orphan, jobs.waitAge, 0)
    BY <1>0, <1>3 DEF JobDone, JobsType
  <2>2. ~jobs.orphan /\ jobs.waiting + 0 + jobs.delayed <= MaxJobs /\ 0 \in 0..1
    BY <1>3 DEF JobDone
  <2> HIDE DEF age, w
  <2> QED BY <2>1, <2>2, JobsWritten
<1>4. CASE JobFails
  <2> DEFINE d == jobs.delayed + 1
  <2>1. jobs' = As(jobs.waiting, 0, d, jobs.orphan, jobs.waitAge, 0)
    BY <1>0, <1>4 DEF JobFails, JobsType
  <2>2. /\ ~jobs.orphan /\ d \in 0..MaxJobs
        /\ jobs.waiting + 0 + d <= MaxJobs /\ 0 \in 0..1
    BY <1>4 DEF JobFails
  <2> HIDE DEF age, w, d
  <2> QED BY <2>1, <2>2, JobsWritten
<1>5. CASE JobRetried
  <2> DEFINE d == jobs.delayed - 1
  <2>1. jobs' = As(w, jobs.active, d, jobs.orphan, age, jobs.activeAge)
    BY <1>0, <1>5 DEF JobRetried, JobsType
  <2>2. /\ w \in 0..MaxJobs /\ d \in 0..MaxJobs
        /\ w + jobs.active + d <= MaxJobs
    BY <1>5 DEF JobRetried
  <2>3. jobs.orphan => jobs.active = 1
    BY DEF JobsInv
  <2> HIDE DEF age, w, d
  <2> QED BY <1>0, <2>1, <2>2, <2>3, JobsWritten
<1>6. CASE JobStalled
  <2>1. jobs' = As(w, 0, jobs.delayed, FALSE, age, 0)
    BY <1>0, <1>6 DEF JobStalled, JobsType
  <2>2. jobs.active = 1
    BY <1>6 DEF JobStalled, JobsInv
  <2>3. w \in 0..MaxJobs /\ w + 0 + jobs.delayed <= MaxJobs /\ 0 \in 0..1
    BY <2>2
  <2> HIDE DEF age, w
  <2> QED BY <1>0, <2>1, <2>3, JobsWritten
<1> QED BY <1>1, <1>2, <1>3, <1>4, <1>5, <1>6 DEF Queue

\* Time moves the ages of the queues and expires a dead worker's key.
LEMMA TickWorld ==
    ASSUME WorldInv, Tick
    PROVE  WorldInv'
<1> DEFINE x == IF jobs.waiting > 0 THEN Older(jobs.waitAge) ELSE 0
           y == IF jobs.active > 0 THEN Older(jobs.activeAge) ELSE 0
<1>1. jobs' = [jobs EXCEPT !.waitAge = x, !.activeAge = y]
  BY DEF Tick
<1>2. JobsInv /\ jobs \in JobsType /\ (jobs.orphan => jobs.active = 1)
  BY DEF WorldInv, JobsInv
<1>3. x \in 0..Cap /\ y \in 0..Cap
  BY <1>2, JobsCounts, OlderType
<1> HIDE DEF x, y
<1>4. jobs' = [waiting |-> jobs.waiting, active |-> jobs.active,
               delayed |-> jobs.delayed, orphan |-> jobs.orphan,
               waitAge |-> x, activeAge |-> y]
  BY <1>1, <1>2 DEF JobsType
<1>5. JobsInv'
  BY <1>2, <1>3, <1>4, JobsCounts, JobsWritten
<1>6. lastCheck' \in 0..Cap
  BY OlderType DEF Tick, WorldInv
<1>7. seen' \in BOOLEAN
  BY Zenon DEF Tick
<1>8. UNCHANGED <<power, fails>>
  BY DEF Tick
<1> QED BY <1>5, <1>6, <1>7, <1>8 DEF WorldInv

\* Every step keeps the machine and the queues as they should be.
LEMMA WorldStep ==
    ASSUME WorldInv, [Next]_vars
    PROVE  WorldInv'
<1>1. ASSUME NEW a \in Sweepers, Sweep(a) PROVE WorldInv'
  <2>1. UNCHANGED <<boxVars>>
    BY <1>1 DEF Sweep
  <2>2. lastCheck' = 0 \/ lastCheck' = lastCheck
    BY <1>1, Zenon DEF Sweep
  <2> QED BY <2>1, <2>2, Bounds, JobsSame DEF WorldInv, boxVars
<1>2. ASSUME NEW a \in Admins,
             HoldIdle(a) \/ ClearHold(a) \/ StartNow(a) \/ StopNow(a)
      PROVE  WorldInv'
  <2>1. UNCHANGED <<boxVars, lastCheck>>
    BY <1>2 DEF HoldIdle, ClearHold, StartNow, StopNow
  <2> QED BY <2>1, JobsSame DEF WorldInv, boxVars
<1>3. ASSUME NEW a \in Actors, Step(a) PROVE WorldInv'
  BY <1>3, ActorWorld
<1>4. CASE Box
  BY <1>4, BoxWorld
<1>5. CASE Queue
  <2>1. UNCHANGED <<power, seen, lastCheck, fails>>
    BY <1>5 DEF Queue, JobArrives, JobTaken, JobDone, JobFails, JobRetried, JobStalled
  <2> QED BY <1>5, <2>1, QueueJobs DEF WorldInv
<1>6. CASE Tick
  BY <1>6, TickWorld
<1>7. CASE UNCHANGED vars
  BY <1>7, JobsSame DEF vars, WorldInv
<1> QED BY <1>1, <1>2, <1>3, <1>4, <1>5, <1>6, <1>7 DEF Next

\* Every step spends one environment event or none.
LEMMA CreditStep ==
    ASSUME CreditInv, [Next]_vars
    PROVE  CreditInv'
<1>1. Event \/ NoEvent \/ UNCHANGED vars
  <2> USE DEF Fault
  <2>1. ASSUME NEW a \in Sweepers, Sweep(a) PROVE Event \/ NoEvent
    BY <2>1, Zenon DEF Sweep
  <2>2. ASSUME NEW a \in Admins,
               HoldIdle(a) \/ ClearHold(a) \/ StartNow(a) \/ StopNow(a)
        PROVE  Event
    BY <2>2, Zenon DEF HoldIdle, ClearHold, StartNow, StopNow
  <2>3. ASSUME NEW a \in Actors, Step(a) PROVE Event \/ NoEvent
    <3>1. StartCall(a) => Event \/ NoEvent
      BY Zenon DEF StartCall, StartWebhook, StartJarvisLabs, Reaches, Misses
    <3>2. StopCall(a) => Event \/ NoEvent
      BY Zenon DEF StopCall, Reaches, Misses
    <3> QED BY <2>3, <3>1, <3>2, Zenon
            DEF Step, ProviderChecked, StartRead, StartMark, StopRead, StopMark,
                WriteState, Crash
  <2>4. Box => Event \/ NoEvent
    BY Zenon DEF Box, Boot, WorkerDies, Heartbeat, HeartbeatFails, HeartbeatUnparsed, Halt
  <2>5. Queue => Event \/ NoEvent
    BY Zenon DEF Queue, JobArrives, JobTaken, JobDone, JobFails, JobRetried, JobStalled
  <2>6. Tick => NoEvent
    BY Zenon DEF Tick
  <2> QED BY <2>1, <2>2, <2>3, <2>4, <2>5, <2>6, Zenon DEF Next
<1>2. CASE Event
  BY <1>2, Bounds DEF CreditInv, Event
<1>3. CASE NoEvent
  BY <1>3 DEF CreditInv, NoEvent
<1>4. CASE UNCHANGED vars
  BY <1>4 DEF CreditInv, vars
<1> QED BY <1>1, <1>2, <1>3, <1>4

\* What is remembered of the overlaps keeps its types.
LEMMA PastStep ==
    ASSUME PastInv, [Next]_vars
    PROVE  PastInv'
<1>1. CASE UNCHANGED pastVars
  BY <1>1 DEF PastInv, pastVars
<1>2. ASSUME NEW a \in Actors, Begins(a) PROVE PastInv'
  BY <1>2 DEF PastInv, Begins
<1>3. ASSUME NEW a \in Actors, GoesPast(a), on' \in 0..Cap,
             overlapped' \in BOOLEAN \/ overlapped' = (overlapped \/ a \in stale)
      PROVE  PastInv'
  BY <1>3 DEF PastInv, GoesPast
<1>4. ASSUME NEW a \in Actors, Step(a) PROVE PastInv'
  <2>1. CASE ProviderChecked(a) \/ StartRead(a) \/ StopRead(a) \/ Crash(a)
    BY <1>1, <2>1, Zenon DEF ProviderChecked, StartRead, StopRead, Crash
  <2>2. CASE StartMark(a)
    <3>1. GoesPast(a) /\ on' = on /\ overlapped' = (a \in stale)
      BY <2>2 DEF StartMark
    <3>2. overlapped' \in BOOLEAN
      BY <3>1
    <3> QED BY <1>3, <3>1, <3>2 DEF PastInv
  <2>3. CASE StopMark(a) \/ WriteState(a)
    <3>1. Touches(a) /\ on' = on
      BY <2>3 DEF StopMark, WriteState
    <3> QED BY <1>3, <3>1 DEF PastInv, Touches
  <2>4. CASE StartCall(a)
    <3>1. Touches(a) /\ on' = IF power = "off" THEN 0 ELSE on
      BY <2>4, Zenon DEF StartCall
    <3> QED BY <1>3, <3>1, Bounds DEF PastInv, Touches
  <2>5. CASE StopCall(a)
    <3>1. Touches(a) /\ (on' = 0 \/ on' = on)
      BY <2>5, Zenon DEF StopCall, PowerDown
    <3> QED BY <1>3, <3>1, Bounds DEF PastInv, Touches
  <2> QED BY <1>4, <2>1, <2>2, <2>3, <2>4, <2>5 DEF Step
<1>5. ASSUME NEW a \in Sweepers, Sweep(a) PROVE PastInv'
  BY <1>2, <1>5, Zenon DEF Sweep, Actors
<1>6. ASSUME NEW a \in Admins, HoldIdle(a) \/ ClearHold(a) \/ StartNow(a) \/ StopNow(a)
      PROVE  PastInv'
  BY <1>2, <1>6, Zenon DEF HoldIdle, ClearHold, StartNow, StopNow, Actors
<1>7. CASE Box
  <2>1. CASE Halt
    <3>1. on' = 0 /\ UNCHANGED <<stale, overlapped>>
      BY <2>1, Zenon DEF Halt, PowerDown
    <3> QED BY <3>1, Bounds DEF PastInv
  <2> QED BY <1>1, <1>7, <2>1, Zenon DEF Box, Boot, WorkerDies, Heartbeat, HeartbeatFails, HeartbeatUnparsed
<1>8. CASE Queue
  BY <1>1, <1>8, Zenon DEF Queue, JobArrives, JobTaken, JobDone, JobFails, JobRetried, JobStalled
<1>9. CASE Tick
  <2>1. on' = (IF power = "off" THEN 0 ELSE Older(on)) /\ UNCHANGED <<stale, overlapped>>
    BY <1>9 DEF Tick
  <2> QED BY <2>1, Bounds, OlderType DEF PastInv
<1>10. CASE UNCHANGED vars
  BY <1>1, <1>10 DEF vars, pastVars
<1> QED BY <1>4, <1>5, <1>6, <1>7, <1>8, <1>9, <1>10 DEF Next

-----------------------------------------------------------------------------
(* The theorems *)

\* The record a fresh installation starts from is a good one.
LEMMA InitInv == Init => Inv
<1> SUFFICES ASSUME Init PROVE Inv
  OBVIOUS
<1>1. PICK id \in {"live", "stale"} :
        st = [state |-> "off", since |-> Cap, hold |-> 0, idle |-> Null, mid |-> id]
  BY DEF Init
<1>2. st \in Good
  BY <1>1, Bounds DEF Good, Record, States, CountdownOfThisRun, Null
<1>3. ActorsInv
  BY <1>2 DEF Init, ActorsInv, PCs
<1>4. JobsInv
  BY Bounds DEF Init, NoJobs, JobsInv, JobsType, Total
<1>5. WorldInv
  <2>1. fails \in 0..FailureGrace /\ fails < FailureGrace /\ lastCheck \in 0..Cap
    BY Bounds DEF Init
  <2> QED BY <1>4, <2>1, Zenon DEF Init, WorldInv
<1>6. CreditInv
  BY Bounds DEF Init, CreditInv
<1>7. PastInv
  BY Bounds DEF Init, PastInv
<1> QED BY <1>3, <1>5, <1>6, <1>7 DEF Inv

\* The invariant is inductive.
LEMMA InvStep == Inv /\ [Next]_vars => Inv'
BY ActorsStep, WorldStep, CreditStep, PastStep DEF Inv

\* The types, whatever is read stale, lost or written back late: in particular
\* a box whose watchdog has counted FailureGrace failed polls is going down.
THEOREM TypeCorrect == Spec => []TypeOK
BY InitInv, InvStep, InvImplies, PTL DEF Spec

-----------------------------------------------------------------------------
(* The status line *)

\* What the status line and the sweep are computed from.
LEMMA CountsAndLimits ==
    ASSUME Inv
    PROVE  /\ st \in Record
           /\ Pending \in Nat /\ jobs.waiting \in Nat /\ jobs.waitAge \in Nat
           /\ PendingThreshold \in Nat \ {0} /\ MaxPendingAge \in Nat \ {0}
           /\ IdleShutdown \in Nat \ {0} /\ Cap \in Nat
<1>1. JobsInv
  BY DEF Inv, WorldInv
<1>2. jobs.waiting \in Nat /\ jobs.active \in Nat /\ jobs.delayed \in Nat /\ jobs.waitAge \in Nat
  BY <1>1, JobsCounts
<1> QED BY <1>2, IntervalAssumption DEF Inv, ActorsInv, Good, Pending, LiveActive

\* For an idle machine both ask the same two questions: the sweep with >= of what
\* there is, the status line with <= 0 of what is still missing.
LEMMA StartAgrees ==
    ASSUME Inv, Enabled, st.state = "off"
    PROVE  /\ SweepDecision(st, seen, Pending, ShouldStart) = "start" <=>
                predictNextAction.kind = "start"
           /\ SweepDecision(st, seen, Pending, ShouldStart) # "idleStop"
           /\ predictNextAction # [kind |-> "stop", eta |-> 0]
<1>1. SweepDecision(st, seen, Pending, ShouldStart) = IF ShouldStart THEN "start" ELSE "none"
  BY DEF SweepDecision
<1> DEFINE oldest == IF jobs.waiting > 0 THEN jobs.waitAge ELSE 0
           due == PendingThreshold - Pending <= 0 \/ MaxPendingAge - oldest <= 0
<1>2. predictNextAction = IF Pending = 0 THEN [kind |-> "none", eta |-> Null]
                          ELSE IF due THEN [kind |-> "start", eta |-> 0]
                          ELSE [kind |-> "waiting", eta |-> MaxPendingAge - oldest]
  BY DEF predictNextAction
<1>3. ShouldStart <=> Pending # 0 /\ due
  BY CountsAndLimits DEF ShouldStart
<1> HIDE DEF due, oldest
<1>4. CASE Pending = 0
  BY <1>1, <1>2, <1>3, <1>4
<1>5. CASE Pending # 0 /\ due
  BY <1>1, <1>2, <1>3, <1>5
<1>6. CASE Pending # 0 /\ ~due
  BY <1>1, <1>2, <1>3, <1>6
<1> QED BY <1>4, <1>5, <1>6

\* For a running machine both count from idleSince, which is missing while there is
\* work: no countdown is not a countdown of zero, because the window is not empty.
LEMMA StopAgrees ==
    ASSUME Inv, Enabled, st.state = "running"
    PROVE  LET does == SweepDecision(st, seen, Pending, ShouldStart)
               says == predictNextAction
           IN /\ does # "start" /\ says.kind # "start"
              /\ does = "idleStop" => says = [kind |-> "stop", eta |-> 0]
              /\ says = [kind |-> "stop", eta |-> 0] /\ seen => does = "idleStop"
<1> DEFINE left == LET idleFor == IF st.idle = Null THEN 0 ELSE st.idle
                   IN IF idleFor > IdleShutdown THEN 0 ELSE IdleShutdown - idleFor
<1>1. predictNextAction =
        IF st.hold > 0 THEN [kind |-> "none", eta |-> st.hold]
        ELSE IF Pending > 0 THEN [kind |-> "none", eta |-> Null]
        ELSE [kind |-> "stop", eta |-> left]
  BY DEF predictNextAction
<1>2. SweepDecision(st, seen, Pending, ShouldStart) =
        IF ~seen THEN "vanished"
        ELSE IF Pending > 0 THEN IF st.idle = Null THEN "none" ELSE "busy"
        ELSE IF st.idle = Null THEN "lull"
        ELSE IF st.hold = 0 /\ st.idle >= IdleShutdown THEN "idleStop" ELSE "none"
  BY DEF SweepDecision, Inv, WorldInv
<1>3. st.hold \in Nat /\ st.idle \in {Null} \cup Nat
  BY CountsAndLimits DEF Record
<1>4. left = 0 <=> st.idle # Null /\ st.idle >= IdleShutdown
  BY <1>3, CountsAndLimits DEF Null
<1> HIDE DEF left
<1>5. CASE st.hold > 0
  BY <1>1, <1>2, <1>3, <1>5
<1>6. CASE st.hold = 0 /\ Pending > 0
  BY <1>1, <1>2, <1>6
<1>7. CASE st.hold = 0 /\ ~(Pending > 0)
  BY <1>1, <1>2, <1>4, <1>7
<1> QED BY <1>3, <1>5, <1>6, <1>7

\* In between neither starts nor stops for idleness.
LEMMA BetweenAgrees ==
    ASSUME Inv, Enabled, st.state \in {"starting", "stopping"}
    PROVE  /\ SweepDecision(st, seen, Pending, ShouldStart) \notin {"start", "idleStop"}
           /\ predictNextAction = [kind |-> "none", eta |-> Null]
BY DEF SweepDecision, predictNextAction, Inv, WorldInv

\* The status line never promises what the sweep would not do, nor hides what it
\* would, for any thresholds and intervals, backlog, hold and countdown.
THEOREM PredictionAgrees == Spec => []PredictionMatchesSweep
<1>1. Inv => PredictionMatchesSweep
  <2> SUFFICES ASSUME Inv, Enabled PROVE PredictionMatchesSweep
    BY DEF PredictionMatchesSweep
  <2>1. st.state \in States
    BY CountsAndLimits DEF Record
  <2>2. CASE st.state = "off"
    BY <2>2, StartAgrees DEF PredictionMatchesSweep
  <2>3. CASE st.state = "running"
    BY <2>3, StopAgrees DEF PredictionMatchesSweep
  <2>4. CASE st.state \in {"starting", "stopping"}
    BY <2>4, BetweenAgrees DEF PredictionMatchesSweep
  <2> QED BY <2>1, <2>2, <2>3, <2>4 DEF States
<1> QED BY <1>1, InitInv, InvStep, PTL DEF Spec

-----------------------------------------------------------------------------
(* Whose run a record is about, and what a stop is earned by *)

\* A record the sweep may stop the machine for.
Earned(r) ==
    \/ r.state = "running" /\ r.hold = 0 /\ r.idle # Null /\ r.idle >= IdleShutdown
    \/ r.state = "starting" /\ r.since > StartTimeout

\* A record that does not tell of a longer run than the machine's.
Timely(r) == power # "off" /\ r.state = "running" => r.since <= on

\* Where an actor holds a copy it will write or decide on.
Holding == PCs \ {"idle", "start", "stop"}

\* An operation no other has gone past carries a timely copy, and finds its own mark
\* when it calls the provider.
OwnRun ==
    /\ \A a \in Actors : pc[a] \in {"mark", "call"} => rec[a].state = "starting"
    /\ \A a \in Actors \ stale : pc[a] = "call" => st.state = "starting"
    /\ ~ overlapped =>
          /\ Timely(st)
          /\ \A a \in Actors \ stale : pc[a] \in Holding => Timely(rec[a])

\* What a sweep that no other operation has gone past decided on is still so when it
\* marks the record.
EarnedInv == \A a \in Sweepers \ stale : pc[a] \in {"stop", "stopmark"} => Earned(st)

PastAgrees == OwnRun /\ EarnedInv

\* Waiting does not take it away: the ages saturate above the intervals.
LEMMA EarnedAged ==
    ASSUME NEW r \in Record, Earned(r)
    PROVE  Earned(Aged(r))
<1>1. r.since \in 0..Cap /\ r.hold \in 0..Cap /\ r.idle \in {Null} \cup 0..Cap
  BY DEF Record
<1>2. /\ Cap \in Nat /\ IdleShutdown \in Nat /\ StartTimeout \in Nat
  BY IntervalAssumption
<1>3. /\ Aged(r).state = r.state /\ Aged(r).since = Older(r.since)
      /\ Aged(r).hold = Sooner(r.hold)
      /\ Aged(r).idle = IF r.idle = Null THEN Null ELSE Older(r.idle)
  BY DEF Aged, Record
<1>4. \A n \in 0..Cap : Older(n) >= n /\ Older(n) # Null
  BY <1>2 DEF Older, Null
<1>5. r.hold = 0 => Sooner(r.hold) = 0
  BY DEF Sooner
<1> QED BY <1>1, <1>2, <1>3, <1>4, <1>5 DEF Earned, Older

\* The sweep calls stop() for a whole idle window without a hold, or a start that
\* timed out, and for nothing else.
LEMMA DecisionEarned ==
    ASSUME NEW s \in Record, NEW online \in BOOLEAN, NEW pend, NEW go,
           SweepDecision(s, online, pend, go) \in {"timeout", "idleStop"}
    PROVE  Earned(s)
BY DEF SweepDecision, Earned, Record, States

\* The records made from a timely one are timely.
LEMMA TimelyMade ==
    ASSUME PastInv, NEW s \in Good, Timely(s)
    PROVE  /\ Timely(AdoptedRecord(s)) /\ Timely(RunningRecord(s)) /\ Timely(VanishedRecord(s))
           /\ Timely(StoppingRecord(s)) /\ \A m \in BOOLEAN : Timely(StartingRecord(s, m))
           /\ \A h \in 0..Cap : Timely([s EXCEPT !.hold = h])
           /\ Timely([s EXCEPT !.idle = Null]) /\ Timely([s EXCEPT !.idle = 0])
<1>1. s \in Record /\ on \in Nat
  BY Bounds DEF Good, PastInv
<1>2. Timely(RunningRecord(s))
  BY <1>1 DEF Timely, RunningRecord, Record
<1>3. Timely(AdoptedRecord(s)) /\ Timely(VanishedRecord(s)) /\ Timely(StoppingRecord(s))
  BY <1>1 DEF Timely, AdoptedRecord, VanishedRecord, StoppingRecord, Record
<1>4. \A m \in BOOLEAN : Timely(StartingRecord(s, m))
  BY <1>1 DEF Timely, StartingRecord, Record
<1>5. /\ \A h \in 0..Cap : Timely([s EXCEPT !.hold = h])
      /\ Timely([s EXCEPT !.idle = Null]) /\ Timely([s EXCEPT !.idle = 0])
  BY <1>1 DEF Timely, Record
<1> QED BY <1>2, <1>3, <1>4, <1>5

\* A step of one actor that only reads: the others are left as they were.
LEMMA ReadStep ==
    ASSUME Inv, PastAgrees, NEW a \in Actors, NEW where \in PCs, NEW r,
           UNCHANGED <<st, power, on, overlapped>>, stale' \in {stale, stale \ {a}},
           pc' = [pc EXCEPT ![a] = where], rec' = [rec EXCEPT ![a] = r],
           where # "call", where = "mark" => r.state = "starting",
           where \in Holding /\ ~ overlapped /\ a \notin stale' => Timely(r),
           a \in Sweepers /\ a \notin stale' /\ where \in {"stop", "stopmark"} => Earned(st)
    PROVE  PastAgrees'
<1>1. pc \in [Actors -> PCs] /\ rec \in [Actors -> Good]
  BY DEF Inv, ActorsInv
<1>2. \A b \in Actors : pc'[b] = (IF b = a THEN where ELSE pc[b]) /\ rec'[b] = IF b = a THEN r ELSE rec[b]
  BY <1>1
<1>3. \A b \in Actors : b # a => (b \in stale' <=> b \in stale)
  OBVIOUS
<1>4. \A b \in Actors : pc'[b] \in {"mark", "call"} => rec'[b].state = "starting"
  BY <1>2 DEF PastAgrees, OwnRun
<1>5. \A b \in Actors \ stale' : pc'[b] = "call" => st'.state = "starting"
  BY <1>2, <1>3 DEF PastAgrees, OwnRun
<1>6. ASSUME ~ overlapped'
      PROVE  Timely(st)' /\ \A b \in Actors \ stale' : pc'[b] \in Holding => Timely(rec[b])'
  <2>1. Timely(st) /\ \A b \in Actors \ stale : pc[b] \in Holding => Timely(rec[b])
    BY <1>6 DEF PastAgrees, OwnRun
  <2>2. Timely(st)'
    BY <2>1 DEF Timely
  <2>3. ASSUME NEW b \in Actors \ stale', pc'[b] \in Holding PROVE Timely(rec[b])'
    <3>1. Timely(rec'[b])
      BY <1>2, <1>3, <1>6, <2>1, <2>3
    <3> QED BY <3>1 DEF Timely
  <2> QED BY <2>2, <2>3
<1>7. \A b \in Sweepers \ stale' : pc'[b] \in {"stop", "stopmark"} => Earned(st)
  BY <1>2, <1>3 DEF PastAgrees, EarnedInv, Actors
<1>8. OwnRun'
  BY <1>4, <1>5, <1>6 DEF OwnRun
<1>9. EarnedInv'
  BY <1>7 DEF EarnedInv, Earned
<1> QED BY <1>8, <1>9 DEF PastAgrees

\* A step of one actor that writes or calls: whoever else is under way has been gone past.
LEMMA TouchStep ==
    ASSUME Inv, PastAgrees, NEW a \in Actors, NEW where \in {"idle", "write", "call", "stopcall"},
           GoesPast(a), pc' = [pc EXCEPT ![a] = where],
           \A b \in Actors : rec'[b].state = rec[b].state \/ b = a,
           where = "call" => st'.state = "starting" /\ rec'[a].state = "starting",
           ~ overlapped' => Timely(st)' /\ (where # "idle" => Timely(rec[a])')
    PROVE  PastAgrees'
<1>1. pc \in [Actors -> PCs]
  BY DEF Inv, ActorsInv
<1>2. \A b \in Actors : pc'[b] = (IF b = a THEN where ELSE pc[b])
  BY <1>1
<1>3. \A b \in Actors \ stale' : b = a \/ pc'[b] = "idle"
  BY <1>2 DEF GoesPast
<1>4. \A b \in Actors : pc'[b] \in {"mark", "call"} => rec'[b].state = "starting"
  BY <1>2 DEF PastAgrees, OwnRun
<1>5. \A b \in Actors \ stale' : pc'[b] = "call" => st'.state = "starting"
  BY <1>2, <1>3
<1>6. ASSUME ~ overlapped'
      PROVE  Timely(st)' /\ \A b \in Actors \ stale' : pc'[b] \in Holding => Timely(rec[b])'
  <2>1. ASSUME NEW b \in Actors \ stale', pc'[b] \in Holding PROVE Timely(rec[b])'
    <3>1. b = a /\ where # "idle"
      BY <1>2, <1>3, <2>1 DEF Holding
    <3>2. Timely(rec[a])'
      BY <1>6, <3>1
    <3> QED BY <3>1, <3>2
  <2> QED BY <1>6, <2>1
<1>7. \A b \in Sweepers \ stale' : ~ (pc'[b] \in {"stop", "stopmark"})
  BY <1>2, <1>3 DEF Actors
<1>8. OwnRun'
  BY <1>4, <1>5, <1>6 DEF OwnRun
<1>9. EarnedInv'
  BY <1>7 DEF EarnedInv
<1> QED BY <1>8, <1>9 DEF PastAgrees

\* Carrying out a branch of the sweep.
LEMMA ApplyAgrees ==
    ASSUME Inv, PastAgrees, NEW a \in Actors, NEW s \in Good, NEW decision \in Decisions,
           Apply(a, s, decision),
           UNCHANGED <<st, power, on, overlapped>>, stale' \in {stale, stale \ {a}},
           ~ overlapped /\ a \notin stale' => Timely(s),
           a \in Sweepers /\ decision \in {"timeout", "idleStop"} => Earned(st)
    PROVE  PastAgrees'
<1>1. pc \in [Actors -> PCs] /\ rec \in [Actors -> Good] /\ rec = [rec EXCEPT ![a] = rec[a]]
  BY DEF Inv, ActorsInv
<1>2. ASSUME NEW r, pc' = [pc EXCEPT ![a] = "write"], rec' = [rec EXCEPT ![a] = r],
             ~ overlapped /\ a \notin stale' => Timely(r)
      PROVE  PastAgrees'
  BY <1>2, ReadStep DEF PCs, Holding
<1>3. CASE decision = "none"
  <2>1. pc' = [pc EXCEPT ![a] = "idle"] /\ rec' = [rec EXCEPT ![a] = rec[a]]
    BY <1>1, <1>3 DEF Apply, Goto
  <2> QED BY <2>1, ReadStep DEF PCs, Holding
<1>4. CASE decision = "start"
  <2>1. pc' = [pc EXCEPT ![a] = "start"] /\ rec' = [rec EXCEPT ![a] = rec[a]]
    BY <1>1, <1>4 DEF Apply, Goto
  <2> QED BY <2>1, ReadStep DEF PCs, Holding
<1>5. CASE decision \in {"timeout", "idleStop"}
  <2>1. pc' = [pc EXCEPT ![a] = "stop"] /\ rec' = [rec EXCEPT ![a] = rec[a]]
    BY <1>1, <1>5 DEF Apply, Goto
  <2> QED BY <1>5, <2>1, ReadStep DEF PCs, Holding
<1>6. PastInv
  BY DEF Inv
<1>7. CASE decision = "running"
  BY <1>2, <1>6, <1>7, TimelyMade DEF Apply, Goto, Carry
<1>8. CASE decision = "vanished"
  BY <1>2, <1>6, <1>8, TimelyMade DEF Apply, Goto, Carry
<1>9. CASE decision = "busy"
  BY <1>2, <1>6, <1>9, TimelyMade DEF Apply, Goto, Carry
<1>10. CASE decision = "lull"
  BY <1>2, <1>6, <1>10, TimelyMade DEF Apply, Goto, Carry
<1> QED BY <1>3, <1>4, <1>5, <1>7, <1>8, <1>9, <1>10 DEF Decisions

\* A sweep reads the record as it is.
LEMMA SweepAgrees ==
    ASSUME Inv, PastAgrees, NEW a \in Sweepers, Sweep(a)
    PROVE  PastAgrees'
<1>1. UNCHANGED <<st, power, on, overlapped>> /\ stale' = stale \ {a} /\ a \in Actors
  BY DEF Sweep, Begins, boxVars, Actors
<1>2. st \in Good /\ (~ overlapped => Timely(st)) /\ pc \in [Actors -> PCs]
  BY DEF Inv, ActorsInv, PastAgrees, OwnRun
<1>3. CASE Goto(a, "check") /\ Carry(a, st)
  BY <1>1, <1>2, <1>3, ReadStep DEF Goto, Carry, PCs
<1>4. ASSUME NEW online \in BOOLEAN, Apply(a, st, SweepDecision(st, online, Pending, ShouldStart))
      PROVE  PastAgrees'
  <2> DEFINE d == SweepDecision(st, online, Pending, ShouldStart)
  <2>1. d \in Decisions
    BY <1>2, DecisionType
  <2>2. d \in {"timeout", "idleStop"} => Earned(st)
    BY <1>2, DecisionEarned DEF Good
  <2>3. Apply(a, st, d)
    BY <1>4
  <2> HIDE DEF d
  <2> QED BY <1>1, <1>2, <2>1, <2>2, <2>3, ApplyAgrees
<1>5. PICK online \in BOOLEAN :
        \/ Goto(a, "check") /\ Carry(a, st)
        \/ Apply(a, st, SweepDecision(st, online, Pending, ShouldStart))
  BY Zenon DEF Sweep
<1> QED BY <1>3, <1>4, <1>5, Zenon

\* The steps of start() and stop(), up to the write that ends them.
LEMMA StepAgrees ==
    ASSUME Inv, PastAgrees, NEW a \in Actors, Step(a)
    PROVE  PastAgrees'
<1>1. /\ st \in Good /\ pc \in [Actors -> PCs] /\ rec \in [Actors -> Good] /\ arg \in [Actors -> BOOLEAN]
      /\ PastInv /\ rec = [rec EXCEPT ![a] = rec[a]] /\ arg[a] \in BOOLEAN
  BY DEF Inv, ActorsInv
<1>2. ~ overlapped => Timely(st) /\ (a \notin stale /\ pc[a] \in Holding => Timely(rec[a]))
  BY DEF PastAgrees, OwnRun
<1>3. CASE ProviderChecked(a)
  <2>1. pc[a] = "check" /\ UNCHANGED <<st, power, on, overlapped, stale>>
    BY <1>3 DEF ProviderChecked, boxVars, pastVars
  <2>2. ~ overlapped /\ a \notin stale => Timely(rec[a])
    BY <1>2, <2>1 DEF Holding, PCs
  <2>3. CASE Goto(a, "write") /\ Carry(a, AdoptedRecord(rec[a]))
    <3>1. ~ overlapped /\ a \notin stale => Timely(AdoptedRecord(rec[a]))
      BY <1>1, <2>2, TimelyMade
    <3> QED BY <2>1, <2>3, <3>1, ReadStep DEF Goto, Carry, PCs
  <2>4. CASE Apply(a, rec[a], IF arg[a] THEN "start" ELSE "none")
    <3>1. PICK d \in {"start", "none"} : Apply(a, rec[a], d)
      BY <2>4
    <3> QED BY <1>1, <2>1, <2>2, <3>1, ApplyAgrees DEF Decisions
  <2> QED BY <1>3, <2>3, <2>4, Zenon DEF ProviderChecked
<1>4. CASE StartRead(a)
  <2>1. UNCHANGED <<st, power, on, overlapped, stale>>
    BY <1>4 DEF StartRead, boxVars, pastVars
  <2>2. CASE Goto(a, "idle") /\ rec' = rec
    BY <1>1, <2>1, <2>2, ReadStep DEF Goto, PCs, Holding
  <2>3. CASE Goto(a, "write") /\ Carry(a, [st EXCEPT !.hold = IdleShutdown])
    <3>1. ~ overlapped => Timely([st EXCEPT !.hold = IdleShutdown])
      BY <1>1, <1>2, TimelyMade, Bounds
    <3> QED BY <2>1, <2>3, <3>1, ReadStep DEF Goto, Carry, PCs
  <2>4. CASE Goto(a, "mark") /\ Carry(a, StartingRecord(st, arg[a]))
    <3>1. ~ overlapped => Timely(StartingRecord(st, arg[a]))
      BY <1>1, <1>2, TimelyMade
    <3>2. StartingRecord(st, arg[a]).state = "starting"
      BY <1>1 DEF StartingRecord, Good, Record
    <3> QED BY <2>1, <2>4, <3>1, <3>2, ReadStep DEF Goto, Carry, PCs
  <2> QED BY <1>4, <2>2, <2>3, <2>4, Zenon DEF StartRead
<1>5. CASE StopRead(a)
  <2>1. /\ UNCHANGED <<st, power, on, overlapped, stale>> /\ pc[a] = "stop"
        /\ pc' = [pc EXCEPT ![a] = "stopmark"] /\ rec' = [rec EXCEPT ![a] = StoppingRecord(st)]
    BY <1>5 DEF StopRead, boxVars, pastVars, Goto, Carry
  <2>2. ~ overlapped => Timely(StoppingRecord(st))
    BY <1>1, <1>2, TimelyMade
  <2>3. a \in Sweepers /\ a \notin stale => Earned(st)
    BY <2>1 DEF PastAgrees, EarnedInv
  <2> QED BY <2>1, <2>2, <2>3, ReadStep DEF PCs
<1>6. CASE Crash(a)
  <2>1. UNCHANGED <<st, power, on, overlapped, stale, rec>> /\ pc' = [pc EXCEPT ![a] = "idle"]
    BY <1>6 DEF Crash, boxVars, pastVars, Goto
  <2> QED BY <1>1, <2>1, ReadStep DEF PCs, Holding
<1>7. CASE StartMark(a)
  <2>1. /\ GoesPast(a) /\ pc[a] = "mark" /\ pc' = [pc EXCEPT ![a] = "call"]
        /\ st' = rec[a] /\ rec' = rec
    BY <1>7 DEF StartMark, Goto
  <2>2. rec[a].state = "starting"
    BY <2>1 DEF PastAgrees, OwnRun
  <2>3. Timely(st)' /\ Timely(rec[a])'
    BY <2>1, <2>2 DEF Timely
  <2> QED BY <2>1, <2>2, <2>3, TouchStep
<1>8. CASE StopMark(a) \/ WriteState(a)
  <2>1. PICK where \in {"stopcall", "idle"} : pc' = [pc EXCEPT ![a] = where]
    BY <1>8 DEF StopMark, WriteState, Goto
  <2>2. /\ Touches(a) /\ st' = rec[a] /\ rec' = rec /\ UNCHANGED <<power, on>>
        /\ pc[a] \in Holding
    BY <1>8 DEF StopMark, WriteState, boxVars, Holding, PCs
  <2>3. ASSUME ~ overlapped' PROVE Timely(st)' /\ Timely(rec[a])'
    <3>1. Timely(rec[a])
      BY <1>2, <2>2, <2>3 DEF Touches
    <3> QED BY <2>2, <3>1 DEF Timely
  <2> QED BY <2>1, <2>2, <2>3, TouchStep DEF Touches
<1>9. CASE StartCall(a)
  <2>1. Touches(a) /\ pc[a] = "call"
    BY <1>9, Zenon DEF StartCall
  <2>2. rec[a].state = "starting" /\ (a \notin stale => st.state = "starting")
    BY <2>1 DEF PastAgrees, OwnRun
  <2>3. /\ \E where \in {"idle", "write"} : pc' = [pc EXCEPT ![a] = where]
        /\ st'.state = st.state /\ rec'[a].state # "running"
        /\ \A b \in Actors : rec'[b].state = rec[b].state \/ b = a
    <3>1. CASE StartWebhook(a)
      <4>1. st' = st /\ (rec' = rec \/ rec' = [rec EXCEPT ![a] = [rec[a] EXCEPT !.state = "off"]])
        BY <3>1, Zenon DEF StartWebhook, Carry
      <4>2. \E where \in {"idle", "write"} : pc' = [pc EXCEPT ![a] = where]
        BY <3>1, Zenon DEF StartWebhook, Goto
      <4>3. CASE rec' = rec
        BY <2>2, <4>1, <4>2, <4>3
      <4>4. CASE rec' = [rec EXCEPT ![a] = [rec[a] EXCEPT !.state = "off"]]
        <5>1. [rec[a] EXCEPT !.state = "off"].state = "off"
          BY <1>1 DEF Good, Record
        <5>2. rec'[a].state = "off" /\ \A b \in Actors : b # a => rec'[b] = rec[b]
          BY <1>1, <4>4, <5>1
        <5> QED BY <4>1, <4>2, <5>2
      <4> QED BY <4>1, <4>3, <4>4
    <3>2. CASE StartJarvisLabs(a)
      <4>1. pc' = [pc EXCEPT ![a] = "write"]
        BY <3>2, Zenon DEF StartJarvisLabs, Goto
      <4>2. CASE st' = st /\ Carry(a, [rec[a] EXCEPT !.mid = "live"])
        BY <1>1, <2>2, <4>1, <4>2 DEF Carry, Good, Record
      <4>3. CASE st' = st /\ Carry(a, [rec[a] EXCEPT !.state = "off"])
        BY <1>1, <2>2, <4>1, <4>3 DEF Carry, Good, Record
      <4>4. CASE /\ st' = [st EXCEPT !.mid = "stale"]
                 /\ rec' = [b \in Actors |-> [rec[b] EXCEPT !.mid = IF b = a THEN "live" ELSE "stale"]]
        BY <1>1, <2>2, <4>1, <4>4 DEF Good, Record
      <4> QED BY <3>2, <4>2, <4>3, <4>4, JarvisLabsWrites, Zenon
    <3> QED BY <1>9, <3>1, <3>2, Zenon DEF StartCall
  <2>4. ASSUME ~ overlapped' PROVE Timely(st)' /\ Timely(rec[a])'
    BY <2>1, <2>2, <2>3, <2>4 DEF Touches, Timely
  <2>5. PICK where \in {"idle", "write"} : pc' = [pc EXCEPT ![a] = where]
    BY <2>3
  <2> QED BY <2>1, <2>3, <2>4, <2>5, TouchStep DEF Touches
<1>10. CASE StopCall(a)
  <2>1. Touches(a) /\ pc[a] = "stopcall" /\ pc' = [pc EXCEPT ![a] = "write"] /\ st' = st
    BY <1>10, Zenon DEF StopCall, Goto
  <2>2. rec' = rec \/ rec' = [rec EXCEPT ![a] = [rec[a] EXCEPT !.state = "off"]]
    BY <1>10, Zenon DEF StopCall, Carry
  <2>3. power' = "off" \/ UNCHANGED <<power, on>>
    BY <1>10, Zenon DEF StopCall, PowerDown
  <2>4. \A b \in Actors : rec'[b].state = rec[b].state \/ b = a
    BY <1>1, <2>2
  <2>5. rec'[a] = rec[a] \/ rec'[a].state = "off"
    BY <1>1, <2>2 DEF Good, Record
  <2>6. ASSUME ~ overlapped' PROVE Timely(st)' /\ Timely(rec[a])'
    <3>1. Timely(st) /\ Timely(rec[a])
      BY <1>2, <2>1, <2>6 DEF Touches, Holding, PCs
    <3> QED BY <2>1, <2>3, <2>5, <3>1 DEF Timely
  <2> QED BY <2>1, <2>4, <2>6, TouchStep DEF Touches
<1> QED BY <1>3, <1>4, <1>5, <1>6, <1>7, <1>8, <1>9, <1>10 DEF Step

\* What an administrator begins.
LEMMA AdminAgrees ==
    ASSUME Inv, PastAgrees, NEW a \in Admins, HoldIdle(a) \/ ClearHold(a) \/ StartNow(a) \/ StopNow(a)
    PROVE  PastAgrees'
<1>1. /\ a \in Actors /\ a \notin Sweepers
      /\ UNCHANGED <<st, power, on, overlapped>> /\ stale' = stale \ {a}
  BY SwitchAssumption DEF HoldIdle, ClearHold, StartNow, StopNow, Begins, boxVars, Actors
<1>2. /\ st \in Good /\ pc \in [Actors -> PCs] /\ PastInv /\ (~ overlapped => Timely(st))
      /\ rec \in [Actors -> Good] /\ rec = [rec EXCEPT ![a] = rec[a]]
  BY <1>1 DEF Inv, ActorsInv, PastAgrees, OwnRun
<1>3. CASE StartNow(a) \/ StopNow(a)
  <2>1. PICK where \in {"start", "stop"} : pc' = [pc EXCEPT ![a] = where] /\ rec' = [rec EXCEPT ![a] = rec[a]]
    BY <1>2, <1>3 DEF StartNow, StopNow, Goto
  <2> QED BY <1>1, <2>1, ReadStep DEF PCs, Holding
<1>4. CASE HoldIdle(a) \/ ClearHold(a)
  <2>1. PICK h \in 0..Cap : rec' = [rec EXCEPT ![a] = [st EXCEPT !.hold = h]] /\ pc' = [pc EXCEPT ![a] = "write"]
    BY <1>4, Bounds DEF HoldIdle, ClearHold, Goto, Carry
  <2>2. ~ overlapped => Timely([st EXCEPT !.hold = h])
    BY <1>2, TimelyMade
  <2> QED BY <1>1, <2>1, <2>2, ReadStep DEF PCs
<1> QED BY <1>3, <1>4

\* One case per action; time ages the record and the machine's run together.
LEMMA PastAgreesStep ==
    ASSUME Inv, PastAgrees, [Next]_vars
    PROVE  PastAgrees'
<1>1. ASSUME UNCHANGED <<st, pc, rec, stale, overlapped>>, power' = "off" \/ (power # "off" /\ on' = on)
                                                            \/ UNCHANGED <<power, on>>
      PROVE  PastAgrees'
  <2>1. \A r : Timely(r) => (power' # "off" /\ r.state = "running" => r.since <= on')
    BY <1>1 DEF Timely
  <2>2. OwnRun'
    BY <1>1, <2>1 DEF PastAgrees, OwnRun, Timely
  <2>3. EarnedInv'
    BY <1>1 DEF PastAgrees, EarnedInv, Earned
  <2> QED BY <2>2, <2>3 DEF PastAgrees
<1>2. CASE Box
  <2>1. CASE Halt
    BY <1>1, <2>1, Zenon DEF Halt, PowerDown, actorVars
  <2>2. CASE Boot \/ WorkerDies
    BY <1>1, <2>2 DEF Boot, WorkerDies, actorVars, pastVars
  <2>3. CASE Heartbeat \/ HeartbeatFails \/ HeartbeatUnparsed
    BY <1>1, <2>3 DEF Heartbeat, HeartbeatFails, HeartbeatUnparsed, actorVars, pastVars
  <2> QED BY <1>2, <2>1, <2>2, <2>3 DEF Box
<1>3. CASE Queue
  BY <1>1, <1>3 DEF Queue, JobArrives, JobTaken, JobDone, JobFails, JobRetried, JobStalled, actorVars, pastVars
<1>4. CASE UNCHANGED vars
  BY <1>1, <1>4 DEF vars
<1>5. CASE Tick
  <2>1. /\ st' = Aged(st) /\ rec' = [a \in Actors |-> Aged(rec[a])] /\ UNCHANGED <<pc, power, stale, overlapped>>
        /\ on' = IF power = "off" THEN 0 ELSE Older(on)
    BY <1>5 DEF Tick
  <2>2. st \in Good /\ rec \in [Actors -> Good] /\ on \in 0..Cap
    BY DEF Inv, ActorsInv, PastInv
  <2>3. \A m, n \in 0..Cap : m <= n => Older(m) <= Older(n)
    BY Bounds DEF Older
  <2>4. \A r \in Good : Aged(r).state = r.state /\ Aged(r).since = Older(r.since) /\ r.since \in 0..Cap
    BY DEF Aged, Good, Record
  <2>5. ASSUME NEW r \in Good, Timely(r)
        PROVE  power' # "off" /\ Aged(r).state = "running" => Aged(r).since <= on'
    BY <2>1, <2>2, <2>3, <2>4, <2>5 DEF Timely
  <2>6. OwnRun'
    <3>1. \A a \in Actors : pc'[a] \in {"mark", "call"} => rec'[a].state = "starting"
      BY <2>1, <2>2, <2>4 DEF PastAgrees, OwnRun
    <3>2. \A a \in Actors \ stale' : pc'[a] = "call" => st'.state = "starting"
      BY <2>1, <2>2, <2>4 DEF PastAgrees, OwnRun
    <3>3. ASSUME ~ overlapped'
          PROVE  Timely(st)' /\ \A a \in Actors \ stale' : pc'[a] \in Holding => Timely(rec[a])'
      <4>1. Timely(st) /\ \A a \in Actors \ stale : pc[a] \in Holding => Timely(rec[a])
        BY <2>1, <3>3 DEF PastAgrees, OwnRun
      <4>2. Timely(st)'
        BY <2>1, <2>2, <2>5, <4>1 DEF Timely
      <4>3. ASSUME NEW a \in Actors \ stale', pc'[a] \in Holding PROVE Timely(rec[a])'
        <5>1. Timely(rec[a]) /\ rec[a] \in Good /\ rec'[a] = Aged(rec[a])
          BY <2>1, <2>2, <4>1, <4>3
        <5> QED BY <2>5, <5>1 DEF Timely
      <4> QED BY <4>2, <4>3
    <3> QED BY <3>1, <3>2, <3>3 DEF OwnRun
  <2>7. EarnedInv'
    <3>1. Earned(st) => Earned(st')
      BY <2>1, <2>2, EarnedAged DEF Good
    <3> QED BY <2>1, <3>1 DEF PastAgrees, EarnedInv, Earned
  <2> QED BY <2>6, <2>7 DEF PastAgrees
<1> QED BY <1>2, <1>3, <1>4, <1>5, SweepAgrees, StepAgrees, AdminAgrees DEF Next

\* Nothing has run yet.
LEMMA PastAgreesInit == Init => PastAgrees
<1> SUFFICES ASSUME Init PROVE PastAgrees
  OBVIOUS
<1>1. power = "off" /\ \A a \in Actors : pc[a] = "idle"
  BY DEF Init
<1> QED BY <1>1 DEF PastAgrees, OwnRun, EarnedInv, Timely, Holding, Actors

\* Whatever the sweeps and the administrators hold, start and stop, the record of a
\* running box is not older than the machine's run, nor its countdown older than the
\* record, until an operation has written or called past another's write or call.
THEOREM CountdownHolds == Spec => []CountdownInv
<1>1. Inv /\ PastAgrees => CountdownInv
  BY DEF Inv, ActorsInv, Good, PastAgrees, OwnRun, Timely, CountdownInv, CountdownOfThisRun
<1>2. Inv /\ PastAgrees /\ [Next]_vars => (Inv /\ PastAgrees)'
  BY InvStep, PastAgreesStep
<1> QED BY <1>1, <1>2, InitInv, PastAgreesInit, PTL DEF Spec

\* A sweep that no other operation has gone past marks the box "stopping" only for a
\* start that timed out, or for a whole idle window without a hold, which the machine
\* itself has been on for unless an operation went past another before: whatever
\* crashed, was refused, lost or reassigned.
THEOREM StopsAreEarned == Spec => StopsOnlyWhenEarned
<1>1. Inv /\ PastAgrees =>
        \A a \in Sweepers : pc[a] = "stopmark" /\ pc'[a] = "stopcall" /\ a \notin stale =>
          \/ /\ st.state = "running" /\ st.hold = 0 /\ st.idle >= IdleShutdown
             /\ power # "off" /\ ~ overlapped => on >= IdleShutdown
          \/ st.state = "starting" /\ st.since > StartTimeout
  <2> SUFFICES ASSUME Inv, PastAgrees, NEW a \in Sweepers, pc[a] = "stopmark", a \notin stale
               PROVE  \/ /\ st.state = "running" /\ st.hold = 0 /\ st.idle >= IdleShutdown
                         /\ power # "off" /\ ~ overlapped => on >= IdleShutdown
                      \/ st.state = "starting" /\ st.since > StartTimeout
    OBVIOUS
  <2>1. Earned(st)
    BY DEF PastAgrees, EarnedInv
  <2>2. CountdownOfThisRun(st) /\ st \in Record /\ on \in 0..Cap /\ (~ overlapped => Timely(st))
    BY DEF Inv, ActorsInv, PastInv, Good, PastAgrees, OwnRun
  <2>3. st.since \in Nat /\ on \in Nat /\ st.idle \in {Null} \cup Nat /\ IdleShutdown \in Nat
    BY <2>2, Bounds, IntervalAssumption DEF Record
  <2> QED BY <2>1, <2>2, <2>3 DEF Earned, CountdownOfThisRun, Timely
<1>2. Inv /\ PastAgrees /\ [Next]_vars => (Inv /\ PastAgrees)'
  BY InvStep, PastAgreesStep
<1> QED BY <1>1, <1>2, InitInv, PastAgreesInit, PTL DEF Spec, StopsOnlyWhenEarned

-----------------------------------------------------------------------------
(* The queues: a job's life *)

JobRow == [state : JobStates, made : Nat, stalls : Nat, holder : Nat]
RunRow == [host : Hosts, job : Jobs, nth : Nat]

QueueTypes ==
    /\ job \in [Jobs -> JobRow] /\ started \in [Jobs -> Nat] /\ retried \in Nat
    /\ runs \subseteq RunRow /\ killing \subseteq Jobs /\ queued \subseteq Jobs

Retry(j) == QUEUE_RETRY[getQueueName(j)]
Least(a, b) == IF a < b THEN a ELSE b

\* The start to come of a job that waits.
Due(state) == IF state \in {"delayed", "waiting"} THEN 1 ELSE 0

\* What has put a job back before it is given up: the failed attempts that were not the
\* last, and the reclaims within the limit.
Returns(j, r) == Least(r.made, Retry(j) - 1) + Least(r.stalls, maxStalledCount)

\* n starts of a job with row r, the one to come included, are paid for by k retries.
Paid(j, n, r, k) == n + Due(r.state) <= 1 + Returns(j, r) + k

\* A job in Redis started no more often than it was put there.
StartsCounted(j) ==
    /\ j \notin queued => started[j] = 0 /\ job[j].state = "absent"
    /\ job[j].state # "absent" => Paid(j, started[j], job[j], retried)
    /\ started[j] <= Retry(j) + maxStalledCount + retried

QueueStrong ==
    /\ QueueTypes /\ \A j \in Jobs : StartsCounted(j)
    /\ OnlyAdminDropsJobs

\* Every job has a queue, and every queue some attempts.
LEMMA QueuesRetry ==
    ASSUME NEW j \in Jobs
    PROVE  getQueueName(j) \in QueueName /\ Retry(j) \in Nat \ {0}
<1>1. \E q \in QueueName : NameOf[j] \in handlers[q]
  BY NamesAssumption DEF JobName
<1>2. getQueueName(j) \in QueueName
  BY <1>1 DEF getQueueName
<1> QED BY <1>2 DEF Retry, QUEUE_RETRY

\* A start is due exactly while the job is delayed or waits.
LEMMA DueValue ==
    ASSUME NEW s
    PROVE  /\ Due(s) \in {0, 1}
           /\ s \in {"delayed", "waiting"} => Due(s) = 1
           /\ s \notin {"delayed", "waiting"} => Due(s) = 0
BY DEF Due

\* One more counts for one until the limit.
LEMMA LeastStep ==
    ASSUME NEW a \in Nat, NEW b \in Nat
    PROVE  /\ Least(a, b) \in Nat /\ Least(a + 1, b) \in Nat
           /\ a < b => Least(a + 1, b) = Least(a, b) + 1
           /\ ~ (a < b) => Least(a + 1, b) = Least(a, b)
BY DEF Least

\* A job is put back at most so often; a row's returns only grow with it.
LEMMA ReturnsRange ==
    ASSUME NEW j \in Jobs, NEW r \in JobRow
    PROVE  Returns(j, r) \in Nat /\ Returns(j, r) <= (Retry(j) - 1) + maxStalledCount
<1>1. Retry(j) \in Nat \ {0} /\ r.made \in Nat /\ r.stalls \in Nat
  BY QueuesRetry DEF JobRow
<1> QED BY <1>1 DEF Returns, Least, maxStalledCount

\* What is paid stays paid when the row's counts and its start to come are the same.
LEMMA CountSame ==
    ASSUME QueueTypes, NEW i \in Jobs, StartsCounted(i), job'[i] \in JobRow,
           job'[i].state = job[i].state, job'[i].made = job[i].made, job'[i].stalls = job[i].stalls,
           started'[i] = started[i], i \in queued' <=> i \in queued,
           retried' \in Nat, retried <= retried'
    PROVE  StartsCounted(i)'
<1>1. /\ Retry(i) \in Nat \ {0} /\ Retry(i)' = Retry(i)
      /\ job[i] \in JobRow /\ started[i] \in Nat /\ retried \in Nat
  BY QueuesRetry DEF Retry, getQueueName, QueueTypes
<1>2. Returns(i, job[i]) \in Nat /\ Returns(i, job'[i]) = Returns(i, job[i])
  BY <1>1, ReturnsRange DEF Returns
<1>3. Due(job'[i].state) = Due(job[i].state) /\ Due(job[i].state) \in {0, 1}
  BY DueValue
<1>4. Paid(i, started[i], job[i], retried) => Paid(i, started'[i], job'[i], retried')
  BY <1>1, <1>2, <1>3 DEF Paid
<1>5. Paid(i, started[i], job[i], retried)' <=> Paid(i, started'[i], job'[i], retried')
  BY DEF Paid, Returns, Due, Retry, getQueueName
<1> QED BY <1>1, <1>4, <1>5 DEF StartsCounted, maxStalledCount

\* One that a step moves, if it is gone or its starts are paid for.
LEMMA CountMoved ==
    ASSUME QueueTypes, NEW i \in Jobs, StartsCounted(i), i \in queued => i \in queued',
           NEW r \in JobRow, job'[i] = r, started'[i] \in Nat,
           retried' \in Nat, retried <= retried',
           \/ r.state = "absent" /\ started'[i] = started[i]
           \/ i \in queued' /\ Paid(i, started'[i], r, retried')
    PROVE  StartsCounted(i)'
<1>1. /\ Retry(i) \in Nat \ {0} /\ Retry(i)' = Retry(i)
      /\ started[i] \in Nat /\ retried \in Nat
  BY QueuesRetry DEF Retry, getQueueName, QueueTypes
<1>5. Paid(i, started[i], job[i], retried)' <=> Paid(i, started'[i], r, retried')
  BY DEF Paid, Returns, Due, Retry, getQueueName
<1>2. CASE r.state = "absent" /\ started'[i] = started[i]
  BY <1>1, <1>2, <1>5 DEF StartsCounted, maxStalledCount
<1>3. CASE i \in queued' /\ Paid(i, started'[i], r, retried')
  <2>1. /\ Returns(i, r) \in Nat /\ Returns(i, r) <= (Retry(i) - 1) + maxStalledCount
        /\ Due(r.state) \in {0, 1}
    BY ReturnsRange, DueValue
  <2>2. started'[i] <= Retry(i) + maxStalledCount + retried'
    BY <1>1, <1>3, <2>1 DEF Paid, maxStalledCount
  <2> QED BY <1>1, <1>3, <1>5, <2>2 DEF StartsCounted
<1> QED BY <1>2, <1>3

\* A step that writes one job's row.
LEMMA JobMoves ==
    ASSUME QueueStrong, NEW j \in Jobs, NEW r \in JobRow, NEW n \in Nat,
           job' = [job EXCEPT ![j] = r], started' = [started EXCEPT ![j] = n],
           retried' = retried, queued' \in {queued, queued \cup {j}}, j \in queued',
           runs' \subseteq RunRow, killing' \subseteq Jobs,
           \/ r.state = "absent" /\ n = started[j] /\ j \in done' \cup dropped'
           \/ r.state # "absent" /\ Paid(j, n, r, retried),
           done \subseteq done', dropped \subseteq dropped'
    PROVE  QueueStrong'
<1>t. QueueTypes /\ \A i \in Jobs : StartsCounted(i)
  BY DEF QueueStrong
<1>0. retried \in Nat /\ retried <= retried
  BY <1>t DEF QueueTypes
<1>1. /\ job'[j] = r /\ started'[j] = n
      /\ \A i \in Jobs \ {j} : job'[i] = job[i] /\ started'[i] = started[i] /\ job[i] \in JobRow
  BY <1>t DEF QueueTypes
<1>2. QueueTypes'
  BY <1>t DEF QueueTypes
<1>3. StartsCounted(j)'
  BY <1>t, <1>0, <1>1, CountMoved
<1>4. ASSUME NEW i \in Jobs \ {j} PROVE StartsCounted(i)'
  <2>1. i \in queued' <=> i \in queued
    OBVIOUS
  <2> QED BY <1>t, <1>0, <1>1, <2>1, CountSame
<1>5. OnlyAdminDropsJobs'
  BY <1>1 DEF OnlyAdminDropsJobs, QueueStrong, QueueTypes
<1> QED BY <1>2, <1>3, <1>4, <1>5 DEF QueueStrong

\* Jobs removed by the administrator count as that, and start no more.
LEMMA JobsDropped ==
    ASSUME QueueStrong, NEW S \in SUBSET Jobs, Discard(S),
           killing' \subseteq Jobs, UNCHANGED <<started, runs, queued, done, retried>>
    PROVE  QueueStrong'
<1>t. QueueTypes /\ \A i \in Jobs : StartsCounted(i)
  BY DEF QueueStrong
<1>0. retried \in Nat /\ retried <= retried /\ retried' = retried
  BY <1>t DEF QueueTypes
<1>1. Fresh \in JobRow /\ Fresh.state = "absent"
  BY DEF Fresh, JobRow, JobStates
<1>2. /\ \A i \in S : job'[i] = Fresh
      /\ \A i \in Jobs \ S : job'[i] = job[i] /\ job[i] \in JobRow
      /\ job' \in [Jobs -> JobRow]
  BY <1>t, <1>1 DEF Discard, QueueTypes
<1>3. ASSUME NEW i \in Jobs PROVE StartsCounted(i)'
  <2>1. CASE i \in S
    BY <1>t, <1>0, <1>1, <1>2, <2>1, CountMoved DEF QueueTypes
  <2>2. CASE i \notin S
    BY <1>t, <1>0, <1>2, <2>2, CountSame
  <2> QED BY <2>1, <2>2
<1>4. OnlyAdminDropsJobs'
  <2>1. dropped' = dropped \cup S /\ queued' = queued /\ done' = done /\ queued \subseteq Jobs
    BY <1>t DEF Discard, QueueTypes
  <2> QED BY <1>2, <2>1 DEF OnlyAdminDropsJobs, QueueStrong
<1>5. QueueTypes'
  BY <1>t, <1>2 DEF QueueTypes
<1> QED BY <1>3, <1>4, <1>5 DEF QueueStrong

\* A job in Redis was queued.
LEMMA InRedis ==
    ASSUME QueueStrong, NEW j \in Jobs, job[j].state # "absent"
    PROVE  j \in queued
BY DEF QueueStrong, StartsCounted

\* The rows and what was counted are left alone.
LEMMA JobsKept ==
    ASSUME QueueStrong, UNCHANGED <<job, started, retried, queued>>,
           runs' \subseteq RunRow, killing' \subseteq Jobs,
           done \subseteq done', dropped \subseteq dropped'
    PROVE  QueueStrong'
<1>1. QueueTypes' /\ OnlyAdminDropsJobs'
  BY DEF QueueStrong, QueueTypes, OnlyAdminDropsJobs
<1>2. \A i \in Jobs : StartsCounted(i)'
  BY DEF QueueStrong, StartsCounted, Paid, Returns, Due, Retry, getQueueName
<1> QED BY <1>1, <1>2 DEF QueueStrong

\* A failed attempt: a retry is due while attempts are left, and then pays for itself.
AttemptMade(j) ==
    [job[j] EXCEPT !.made = @ + 1, !.holder = 0,
                   !.state = IF job[j].made + 1 < Retry(j) THEN "delayed" ELSE "failed"]

\* A failed attempt goes back to the queue or to the failed jobs.
LEMMA AttemptFailed ==
    ASSUME QueueStrong, NEW j \in Jobs, job[j].state = "active"
    PROVE  /\ AttemptMade(j) \in JobRow /\ AttemptMade(j).state # "absent"
           /\ Paid(j, started[j], AttemptMade(j), retried)
<1> DEFINE m == job[j].made
           state == IF m + 1 < Retry(j) THEN "delayed" ELSE "failed"
           r == AttemptMade(j)
<1>1. /\ Retry(j) \in Nat \ {0} /\ m \in Nat /\ job[j].stalls \in Nat /\ started[j] \in Nat
      /\ retried \in Nat /\ job[j] \in JobRow
  BY QueuesRetry DEF QueueStrong, QueueTypes, JobRow
<1>2. Due(job[j].state) = 0
  BY DueValue
<1>3. started[j] <= 1 + Returns(j, job[j]) + retried
  BY <1>1, <1>2 DEF QueueStrong, StartsCounted, Paid
<1>4. /\ state \in {"delayed", "failed"}
      /\ Due(state) = IF m + 1 < Retry(j) THEN 1 ELSE 0
  BY DEF Due
<1>0. r = [job[j] EXCEPT !.made = m + 1, !.holder = 0, !.state = state]
  BY DEF AttemptMade
<1> HIDE DEF m, state, r
<1>5. r = [state |-> state, made |-> m + 1, stalls |-> job[j].stalls, holder |-> 0]
  BY <1>0, <1>1 DEF JobRow
<1>6. r \in JobRow /\ r.made = m + 1 /\ r.state = state /\ r.stalls = job[j].stalls
  BY <1>1, <1>4, <1>5 DEF JobRow, JobStates
<1>7. Returns(j, job[j]) + Due(state) <= Returns(j, r)
  <2>0. Retry(j) - 1 \in Nat /\ maxStalledCount \in Nat
    BY <1>1 DEF maxStalledCount
  <2>6. m < Retry(j) - 1 <=> m + 1 < Retry(j)
    BY <1>1
  <2>1. Least(job[j].stalls, maxStalledCount) \in Nat
    BY <1>1, <2>0, LeastStep
  <2>2. /\ Returns(j, r) = Least(m + 1, Retry(j) - 1) + Least(job[j].stalls, maxStalledCount)
        /\ Returns(j, job[j]) = Least(m, Retry(j) - 1) + Least(job[j].stalls, maxStalledCount)
    BY <1>6 DEF Returns, m
  <2>3. /\ Least(m, Retry(j) - 1) \in Nat
        /\ m < Retry(j) - 1 => Least(m + 1, Retry(j) - 1) = Least(m, Retry(j) - 1) + 1
        /\ ~ (m < Retry(j) - 1) => Least(m + 1, Retry(j) - 1) = Least(m, Retry(j) - 1)
    BY <1>1, <2>0, LeastStep
  <2>4. CASE m + 1 < Retry(j)
    BY <1>4, <2>1, <2>2, <2>3, <2>4, <2>6
  <2>5. CASE ~ (m + 1 < Retry(j))
    BY <1>4, <2>1, <2>2, <2>3, <2>5, <2>6
  <2> QED BY <2>4, <2>5
<1>8. Returns(j, job[j]) \in Nat /\ Returns(j, r) \in Nat /\ Due(state) \in {0, 1}
  BY <1>1, <1>6, ReturnsRange, DueValue
<1>9. Paid(j, started[j], r, retried)
  BY <1>1, <1>3, <1>6, <1>7, <1>8 DEF Paid
<1> QED BY <1>4, <1>6, <1>9 DEF r

\* A job is queued, comes out of its delay, or is reclaimed.
LEMMA LifeStep ==
    ASSUME QueueStrong, NEW j \in Jobs, queueAll(j) \/ DelayPasses(j) \/ Stalled(j)
    PROVE  QueueStrong'
<1>t. QueueTypes /\ StartsCounted(j)
  BY DEF QueueStrong
<1>1. /\ Retry(j) \in Nat \ {0} /\ job[j].made \in Nat /\ job[j].stalls \in Nat /\ started[j] \in Nat
      /\ retried \in Nat /\ job[j] \in JobRow
  BY <1>t, QueuesRetry DEF QueueTypes, JobRow
<1>2. started' = [started EXCEPT ![j] = started[j]]
  BY <1>t DEF QueueTypes, queueAll, DelayPasses, Stalled
<1>3. /\ retried' = retried /\ runs' \subseteq RunRow /\ killing' \subseteq Jobs
      /\ UNCHANGED <<done, dropped>>
  BY <1>t DEF QueueTypes, queueAll, DelayPasses, Stalled
<1>r. \A r \in JobRow : Returns(j, r) \in Nat /\ Due(r.state) \in {0, 1}
  BY ReturnsRange, DueValue
<1>4. CASE queueAll(j)
  <2> DEFINE state == IF NameOf[j] = "ParticipantRematch" THEN "delayed" ELSE "waiting"
             r == [Fresh EXCEPT !.state = state]
  <2>1. job' = [job EXCEPT ![j] = r] /\ queued' = queued \cup {j} /\ started[j] = 0
    BY <1>4, <1>t DEF queueAll, StartsCounted
  <2>2. r \in JobRow /\ r.state # "absent"
    BY DEF Fresh, JobRow, JobStates
  <2> HIDE DEF r
  <2>3. Paid(j, started[j], r, retried)
    BY <1>1, <1>r, <2>1, <2>2 DEF Paid
  <2> QED BY <1>1, <1>2, <1>3, <2>1, <2>2, <2>3, JobMoves
<1>5. CASE DelayPasses(j)
  <2> DEFINE r == [job[j] EXCEPT !.state = "waiting", !.holder = 0]
  <2>1. job' = [job EXCEPT ![j] = r] /\ queued' = queued /\ job[j].state = "delayed" /\ j \in queued
    BY <1>5, <1>t, InRedis DEF DelayPasses, Move, QueueTypes
  <2>2. r \in JobRow /\ r.made = job[j].made /\ r.stalls = job[j].stalls /\ r.state = "waiting"
    BY <1>1 DEF JobRow, JobStates
  <2> HIDE DEF r
  <2>3. Due(r.state) = Due(job[j].state) /\ Returns(j, r) = Returns(j, job[j])
    BY <2>1, <2>2, DueValue DEF Returns
  <2>4. Paid(j, started[j], r, retried)
    BY <1>t, <2>1, <2>3 DEF StartsCounted, Paid
  <2> QED BY <1>1, <1>2, <1>3, <2>1, <2>2, <2>4, JobMoves
<1>6. CASE Stalled(j)
  <2> DEFINE state == IF job[j].stalls < maxStalledCount THEN "waiting" ELSE "failed"
             r == [job[j] EXCEPT !.stalls = job[j].stalls + 1, !.holder = 0, !.state = state]
  <2>1. job' = [job EXCEPT ![j] = r] /\ queued' = queued /\ job[j].state = "active" /\ j \in queued
    BY <1>6, <1>t, InRedis DEF Stalled, QueueTypes
  <2>2. /\ state \in {"waiting", "failed"}
        /\ Due(state) = IF job[j].stalls < maxStalledCount THEN 1 ELSE 0
    BY DEF Due
  <2>3. r = [job[j] EXCEPT !.stalls = job[j].stalls + 1, !.holder = 0, !.state = state]
    OBVIOUS
  <2>8. state \in JobStates /\ job[j].stalls + 1 \in Nat
    BY <1>1, <2>2 DEF JobStates
  <2> HIDE DEF state, r
  <2>4. /\ r \in JobRow /\ r.made = job[j].made /\ r.stalls = job[j].stalls + 1
        /\ r.state = state
    BY <1>1, <2>3, <2>8 DEF JobRow
  <2>5. Returns(j, job[j]) + Due(state) <= Returns(j, r)
    <3> DEFINE s == job[j].stalls
    <3>0. Retry(j) - 1 \in Nat
      BY <1>1
    <3>1. Least(job[j].made, Retry(j) - 1) \in Nat
      BY <1>1, <3>0, LeastStep
    <3>2. /\ Returns(j, r) = Least(job[j].made, Retry(j) - 1) + Least(s + 1, maxStalledCount)
          /\ Returns(j, job[j]) = Least(job[j].made, Retry(j) - 1) + Least(s, maxStalledCount)
      BY <2>4 DEF Returns
    <3>3. /\ maxStalledCount \in Nat /\ Least(s, maxStalledCount) \in Nat
          /\ s < maxStalledCount => Least(s + 1, maxStalledCount) = Least(s, maxStalledCount) + 1
          /\ ~ (s < maxStalledCount) => Least(s + 1, maxStalledCount) = Least(s, maxStalledCount)
      BY <1>1, LeastStep DEF maxStalledCount
    <3>4. CASE s < maxStalledCount
      BY <2>2, <3>1, <3>2, <3>3, <3>4
    <3>5. CASE ~ (s < maxStalledCount)
      BY <2>2, <3>1, <3>2, <3>3, <3>5
    <3> QED BY <3>4, <3>5
  <2>6. Due(job[j].state) = 0
    BY <2>1, DueValue
  <2>7. Paid(j, started[j], r, retried)
    BY <1>1, <1>t, <1>r, <2>1, <2>4, <2>5, <2>6 DEF StartsCounted, Paid
  <2> QED BY <1>1, <1>2, <1>3, <2>1, <2>2, <2>4, <2>7, JobMoves
<1> QED BY <1>4, <1>5, <1>6

\* A start is the one that was due.
LEMMA TakeStep ==
    ASSUME QueueStrong, NEW h \in Hosts, NEW j \in Jobs, Take(h, j)
    PROVE  QueueStrong'
<1>t. QueueTypes /\ StartsCounted(j)
  BY DEF QueueStrong
<1> DEFINE n == started[j] + 1
           r == [job[j] EXCEPT !.state = "active", !.holder = n]
<1>1. /\ job[j] \in JobRow /\ n \in Nat /\ job[j].state = "waiting" /\ j \in queued
      /\ started[j] \in Nat /\ retried \in Nat
  BY <1>t, InRedis DEF QueueTypes, Take
<1>2. /\ job' = [job EXCEPT ![j] = r] /\ started' = [started EXCEPT ![j] = n]
      /\ runs' = runs \cup {[host |-> h, job |-> j, nth |-> n]}
      /\ UNCHANGED <<retried, queued, killing, done, dropped>>
  BY <1>t DEF Take, QueueTypes
<1>3. /\ r \in JobRow /\ r.made = job[j].made /\ r.stalls = job[j].stalls /\ r.state = "active"
  BY <1>1 DEF JobRow, JobStates
<1>5. runs' \subseteq RunRow
  BY <1>t, <1>1, <1>2 DEF QueueTypes, RunRow
<1>8. killing' \subseteq Jobs
  BY <1>t, <1>2 DEF QueueTypes
<1> HIDE DEF r
<1>4. Due(job[j].state) = 1 /\ Due(r.state) = 0 /\ Returns(j, r) = Returns(j, job[j])
  BY <1>1, <1>3, DueValue DEF Returns
<1>6. Returns(j, r) \in Nat
  BY <1>3, ReturnsRange
<1>7. Paid(j, n, r, retried)
  BY <1>1, <1>4, <1>6, <1>t DEF StartsCounted, Paid
<1> HIDE DEF n
<1> QED BY <1>1, <1>2, <1>3, <1>5, <1>7, <1>8, JobMoves

\* A handler's end: a job that succeeds is done, one that fails has used up an attempt.
LEMMA RunStep ==
    ASSUME QueueStrong, NEW r \in runs, NEW ok \in BOOLEAN, run(r, ok)
    PROVE  QueueStrong'
<1>t. QueueTypes /\ r.job \in Jobs
  BY DEF QueueStrong, QueueTypes, RunRow
<1> DEFINE j == r.job
<1>1. /\ runs' \subseteq RunRow /\ killing' \subseteq Jobs
      /\ UNCHANGED <<started, queued, retried, dropped>> /\ done \subseteq done'
  BY <1>t DEF run, QueueTypes
<1>2. started' = [started EXCEPT ![j] = started[j]] /\ started[j] \in Nat /\ job[j] \in JobRow
  BY <1>t, <1>1 DEF QueueTypes
<1>3. CASE job' = job
  BY <1>1, <1>3, JobsKept
<1>4. CASE job[j].state = "active" /\ ok /\ Move(j, "absent")
  <2> DEFINE z == [job[j] EXCEPT !.state = "absent", !.holder = 0]
  <2>1. job' = [job EXCEPT ![j] = z] /\ j \in done' /\ j \in queued
    BY <1>4, <1>t, InRedis DEF Move, QueueTypes, run
  <2>2. z \in JobRow /\ z.state = "absent"
    BY <1>2 DEF JobRow, JobStates
  <2> HIDE DEF z
  <2> QED BY <1>t, <1>1, <1>2, <2>1, <2>2, JobMoves
<1>5. CASE job[j].state = "active" /\ moveToFailed(j)
  <2>1. job' = [job EXCEPT ![j] = AttemptMade(j)] /\ j \in queued
    BY <1>5, <1>t, InRedis DEF moveToFailed, AttemptMade, QueueTypes, Retry
  <2>2. /\ AttemptMade(j) \in JobRow /\ AttemptMade(j).state # "absent"
        /\ Paid(j, started[j], AttemptMade(j), retried)
    BY <1>5, <1>t, AttemptFailed
  <2> QED BY <1>t, <1>1, <1>2, <2>1, <2>2, JobMoves
<1> QED BY <1>3, <1>4, <1>5 DEF run

\* Failed jobs put back by hand: the retry pays for the start of each.
LEMMA RetryStep ==
    ASSUME QueueStrong, NEW q, retryFailed(q)
    PROVE  QueueStrong'
<1>t. QueueTypes /\ \A i \in Jobs : StartsCounted(i)
  BY DEF QueueStrong
<1> DEFINE F == In(q, "failed")
           back(i) == [job[i] EXCEPT !.state = "waiting"]
<1>1. /\ retried \in Nat /\ retried' = retried + 1 /\ retried' \in Nat /\ retried <= retried'
      /\ UNCHANGED <<started, runs, queued, done, dropped, killing>>
  BY <1>t DEF retryFailed, QueueTypes
<1>2. /\ F \subseteq Jobs /\ \A i \in F : job[i].state = "failed"
  BY DEF In, On
<1>3. /\ \A i \in F : job'[i] = back(i)
      /\ \A i \in Jobs \ F : job'[i] = job[i]
      /\ job' = [i \in Jobs |-> IF i \in F THEN back(i) ELSE job[i]]
  BY <1>2 DEF retryFailed, RetryEach
<1>4. \A i \in Jobs : /\ job[i] \in JobRow /\ back(i) \in JobRow /\ back(i).state = "waiting"
                      /\ back(i).made = job[i].made /\ back(i).stalls = job[i].stalls
  BY <1>t DEF QueueTypes, JobRow, JobStates
<1> HIDE DEF F, back
<1>5. job' \in [Jobs -> JobRow] /\ QueueTypes'
  BY <1>1, <1>3, <1>4, <1>t DEF QueueTypes
<1>6. ASSUME NEW i \in F PROVE StartsCounted(i)'
  <2>1. i \in Jobs /\ job[i].state = "failed" /\ i \in queued' /\ started[i] \in Nat /\ started'[i] = started[i]
    BY <1>1, <1>2, <1>t, InRedis DEF QueueTypes
  <2>2. /\ Due(job[i].state) = 0 /\ Due(back(i).state) = 1
        /\ Returns(i, back(i)) = Returns(i, job[i]) /\ Returns(i, job[i]) \in Nat
    BY <1>4, <2>1, DueValue, ReturnsRange DEF Returns
  <2>3. Paid(i, started[i], job[i], retried)
    BY <1>t, <2>1 DEF StartsCounted
  <2>4. Paid(i, started'[i], back(i), retried')
    BY <1>1, <2>1, <2>2, <2>3 DEF Paid
  <2> QED BY <1>1, <1>3, <1>4, <1>t, <2>1, <2>4, CountMoved
<1>7. ASSUME NEW i \in Jobs \ F PROVE StartsCounted(i)'
  BY <1>1, <1>3, <1>4, <1>t, CountSame
<1>8. OnlyAdminDropsJobs'
  <2>1. queued \subseteq Jobs
    BY <1>t DEF QueueTypes
  <2>2. \A i \in Jobs : job[i].state # "absent" => job'[i].state # "absent"
    BY <1>3, <1>4
  <2> QED BY <1>1, <2>1, <2>2 DEF OnlyAdminDropsJobs, QueueStrong
<1> QED BY <1>5, <1>6, <1>7, <1>8 DEF QueueStrong

\* A terminated job has used up an attempt, and the one fetched in its place is
\* handed to nobody; one that is no longer active is dropped.
LEMMA KillStep ==
    ASSUME QueueStrong, NEW j \in Jobs, KillOne(j)
    PROVE  QueueStrong'
<1>t. QueueTypes /\ \A i \in Jobs : StartsCounted(i)
  BY DEF QueueStrong
<1>1. /\ runs' \subseteq RunRow /\ killing' \subseteq Jobs
      /\ UNCHANGED <<started, runs, queued, retried, done>> /\ dropped \subseteq dropped'
  BY <1>t DEF KillOne, QueueTypes, Discard
<1>2. started' = [started EXCEPT ![j] = started[j]] /\ started[j] \in Nat /\ job[j] \in JobRow
  BY <1>t, <1>1 DEF QueueTypes
<1>3. CASE job[j].state # "active"
  BY <1>1, <1>3, JobsDropped DEF KillOne
<1>4. CASE job[j].state = "active"
  <2>1. /\ AttemptMade(j) \in JobRow /\ AttemptMade(j).state # "absent"
        /\ Paid(j, started[j], AttemptMade(j), retried)
    BY <1>4, AttemptFailed
  <2>4. j \in queued
    BY <1>4, InRedis
  <2>2. CASE job' = [job EXCEPT ![j] = AttemptMade(j)]
    BY <1>1, <1>2, <2>1, <2>2, <2>4, JobMoves
  <2>3. ASSUME NEW next \in In(getQueueName(j), "waiting"),
               job' = [job EXCEPT ![j] = AttemptMade(j), ![next].state = "active"]
        PROVE  QueueStrong'
    <3> DEFINE z == [job[next] EXCEPT !.state = "active"]
    <3>1. /\ next \in Jobs /\ next # j /\ job[next].state = "waiting" /\ next \in queued
          /\ job[next] \in JobRow /\ started[next] \in Nat /\ retried \in Nat /\ retried <= retried
      BY <1>4, <1>t, InRedis DEF In, On, QueueTypes
    <3>2. /\ job'[j] = AttemptMade(j) /\ job'[next] = z
          /\ \A i \in Jobs \ {j, next} : job'[i] = job[i] /\ job[i] \in JobRow
          /\ job' = [[job EXCEPT ![j] = AttemptMade(j)] EXCEPT ![next] = z]
      BY <1>t, <2>3, <3>1 DEF QueueTypes
    <3>3. /\ z \in JobRow /\ z.state = "active" /\ z.made = job[next].made
          /\ z.stalls = job[next].stalls
      BY <3>1 DEF JobRow, JobStates
    <3> HIDE DEF z
    <3>4. QueueTypes'
      BY <1>1, <1>t, <2>1, <3>2, <3>3 DEF QueueTypes
    <3>5. /\ Due(job[next].state) = 1 /\ Due(z.state) = 0
          /\ Returns(next, z) = Returns(next, job[next]) /\ Returns(next, z) \in Nat
      BY <3>1, <3>3, DueValue, ReturnsRange DEF Returns
    <3>6. Paid(next, started[next], z, retried)
      BY <1>t, <3>1, <3>5 DEF StartsCounted, Paid
    <3>7. StartsCounted(next)'
      BY <1>1, <1>t, <3>1, <3>2, <3>3, <3>6, CountMoved
    <3>8. StartsCounted(j)'
      BY <1>1, <1>2, <1>t, <2>1, <2>4, <3>1, <3>2, CountMoved
    <3>9. ASSUME NEW i \in Jobs \ {j, next} PROVE StartsCounted(i)'
      BY <1>1, <1>t, <3>1, <3>2, CountSame
    <3>10. OnlyAdminDropsJobs'
      <4>1. queued \subseteq Jobs
        BY <1>t DEF QueueTypes
      <4>2. \A i \in Jobs : job[i].state # "absent" => job'[i].state # "absent"
        BY <2>1, <3>2, <3>3
      <4> QED BY <1>1, <4>1, <4>2 DEF OnlyAdminDropsJobs, QueueStrong
    <3> QED BY <3>4, <3>7, <3>8, <3>9, <3>10 DEF QueueStrong
  <2> QED BY <1>4, <2>2, <2>3 DEF KillOne, AttemptMade, Retry
<1> QED BY <1>3, <1>4

\* A process starts or stops, a lock is lost, or the administrator acts on a queue.
LEMMA OtherStep ==
    ASSUME QueueStrong,
           \/ \E h \in Hosts : bootstrap(h) \/ Stop(h)
           \/ \E q : pause(q) \/ resume(q) \/ killActive(q)
    PROVE  QueueStrong'
<1>1. /\ runs' \subseteq runs /\ killing' \subseteq Jobs
      /\ UNCHANGED <<job, started, retried, queued, done, dropped>>
  BY DEF bootstrap, Stop, pause, resume, killActive, In, On, QueueStrong, QueueTypes
<1>2. runs' \subseteq RunRow
  BY <1>1 DEF QueueStrong, QueueTypes
<1> QED BY <1>1, <1>2, JobsKept

\* A lost lock leaves the row's counts as they are.
LEMMA LockStep ==
    ASSUME QueueStrong, NEW r \in runs, LockLost(r)
    PROVE  QueueStrong'
<1>t. QueueTypes /\ r.job \in Jobs /\ \A i \in Jobs : StartsCounted(i)
  BY DEF QueueStrong, QueueTypes, RunRow
<1>1. retried \in Nat /\ retried <= retried /\ retried' = retried
  BY <1>t DEF QueueTypes, LockLost
<1>2. job' = [job EXCEPT ![r.job] = [job[r.job] EXCEPT !.holder = 0]]
  BY <1>t DEF LockLost, QueueTypes
<1>3. \A i \in Jobs : /\ job'[i] \in JobRow /\ job'[i].state = job[i].state
                      /\ job'[i].made = job[i].made /\ job'[i].stalls = job[i].stalls
  BY <1>2, <1>t DEF QueueTypes, JobRow
<1>4. /\ UNCHANGED <<started, runs, killing, queued, done, dropped, retried>>
  BY DEF LockLost
<1>5. QueueTypes'
  BY <1>2, <1>3, <1>4, <1>t DEF QueueTypes
<1>6. ASSUME NEW i \in Jobs PROVE StartsCounted(i)'
  BY <1>1, <1>3, <1>4, <1>t, CountSame
<1>7. OnlyAdminDropsJobs'
  <2>1. queued \subseteq Jobs
    BY <1>t DEF QueueTypes
  <2> QED BY <1>3, <1>4, <2>1 DEF OnlyAdminDropsJobs, QueueStrong
<1> QED BY <1>5, <1>6, <1>7 DEF QueueStrong

\* Emptying a queue and clearing its failed jobs.
LEMMA DropStep ==
    ASSUME QueueStrong, NEW q, empty(q) \/ clear(q)
    PROVE  QueueStrong'
<1>1. /\ In(q, "waiting") \in SUBSET Jobs /\ In(q, "failed") \in SUBSET Jobs
      /\ UNCHANGED <<started, runs, killing, queued, done, retried>>
      /\ Discard(In(q, "waiting")) \/ Discard(In(q, "failed"))
  BY DEF empty, clear, In, On
<1>2. killing' \subseteq Jobs
  BY <1>1 DEF QueueStrong, QueueTypes
<1> QED BY <1>1, <1>2, JobsDropped

\* The queues start with no job in them.
LEMMA QueueStart == JobQueueInit => QueueStrong
<1> SUFFICES ASSUME JobQueueInit PROVE QueueStrong
  OBVIOUS
<1>1. Fresh \in JobRow /\ Fresh.state = "absent"
  BY DEF Fresh, JobRow, JobStates
<1>2. QueueTypes /\ OnlyAdminDropsJobs
  BY <1>1 DEF JobQueueInit, QueueTypes, OnlyAdminDropsJobs
<1>3. ASSUME NEW j \in Jobs PROVE StartsCounted(j)
  <2>1. started[j] = 0 /\ job[j].state = "absent" /\ retried = 0 /\ Retry(j) \in Nat
    BY <1>1, QueuesRetry DEF JobQueueInit
  <2> QED BY <2>1 DEF StartsCounted, maxStalledCount
<1> QED BY <1>2, <1>3 DEF QueueStrong

\* One case per action of the queues.
LEMMA QueueInductive == QueueStrong /\ [JobQueueNext]_jobVars => QueueStrong'
<1> SUFFICES ASSUME QueueStrong, [JobQueueNext]_jobVars PROVE QueueStrong'
  OBVIOUS
<1>1. ASSUME NEW h \in Hosts, bootstrap(h) \/ Stop(h) PROVE QueueStrong'
  BY <1>1, OtherStep
<1>2. ASSUME NEW j \in Jobs, queueAll(j) \/ DelayPasses(j) \/ Stalled(j) PROVE QueueStrong'
  BY <1>2, LifeStep
<1>3. ASSUME NEW j \in Jobs, KillOne(j) PROVE QueueStrong'
  BY <1>3, KillStep
<1>4. ASSUME NEW h \in Hosts, NEW j \in Jobs, Take(h, j) PROVE QueueStrong'
  BY <1>4, TakeStep
<1>5. ASSUME NEW r \in runs, LockLost(r) PROVE QueueStrong'
  BY <1>5, LockStep
<1>6. ASSUME NEW r \in runs, NEW ok \in BOOLEAN, run(r, ok) PROVE QueueStrong'
  BY <1>6, RunStep
<1>7. ASSUME NEW q, pause(q) \/ resume(q) \/ killActive(q) PROVE QueueStrong'
  BY <1>7, OtherStep
<1>8. ASSUME NEW q, empty(q) \/ clear(q) PROVE QueueStrong'
  BY <1>8, DropStep
<1>9. ASSUME NEW q, retryFailed(q) PROVE QueueStrong'
  BY <1>9, RetryStep
<1>10. CASE UNCHANGED jobVars
  <2>1. UNCHANGED <<job, started, retried, queued, runs, killing, done, dropped>>
    BY <1>10 DEF jobVars
  <2>2. runs' \subseteq RunRow /\ killing' \subseteq Jobs
    BY <2>1 DEF QueueStrong, QueueTypes
  <2> QED BY <2>1, <2>2, JobsKept
<1> QED BY <1>1, <1>2, <1>3, <1>4, <1>5, <1>6, <1>7, <1>8, <1>9, <1>10
        DEF JobQueueNext, runQueueAction

(* Every accepted job is accounted for: through crashes, lost locks, reclaims,     *)
(* exhausted attempts and everything an administrator does to its queue, it is in  *)
(* Redis until its handler succeeded or the administrator removed it, and its      *)
(* handler starts no more than once per attempt, reclaim and manual retry          *)
(* (job.repository.ts, job.service.ts).                                            *)
THEOREM JobsAreAccounted == JobQueueSpec => []JobsAccounted
<1>1. QueueStrong => JobsAccounted
  BY DEF QueueStrong, StartsCounted, JobsAccounted, PoisonIsBounded, Retry
<1> QED BY <1>1, QueueStart, QueueInductive, PTL DEF JobQueueSpec

-----------------------------------------------------------------------------
(* The queues: who consumes them *)

Clusters(r) == getQueueName(r.job) = "facialRecognition"

\* A clustering handler is on the one process that clusters, which has one slot for it.
ServedStrong ==
    /\ QueueTypes /\ env \in Deployments /\ up \subseteq Hosts /\ IsFiniteSet(runs)
    /\ \A r \in runs : Clusters(r) => "facialRecognition" \in WorkersOf(env, r.host)
    /\ \A r, s \in runs : Clusters(r) /\ Clusters(s) => r = s
    /\ schedules \subseteq crons
    /\ (\E h \in up : "ingest" \in env[h].workers) => schedules = crons

\* The settings are read once: what a process consumes never changes.
LEMMA WorkersAreSettings == \A h : startWorkers(h) = WorkersOf(env, h)
BY DEF startWorkers

\* Every sweep is scheduled on the queue whose worker has its handler.
LEMMA CronsHandled == \A c \in crons : c.name \in handlers[c.queue]
BY DEF crons, Cron, handlers

\* Types alone are kept by every step, whatever the deployment.
LEMMA TypesKept == JobQueueSpec => []QueueTypes
<1>1. QueueStrong => QueueTypes
  BY DEF QueueStrong
<1> QED BY <1>1, QueueStart, QueueInductive, PTL DEF JobQueueSpec

\* A process that starts upserts the sweeps if it ingests.
LEMMA ServedStart ==
    ASSUME ServedStrong, QueueTypes', NEW h \in Hosts, bootstrap(h)
    PROVE  ServedStrong'
<1>1. /\ up' = up \cup {h} /\ UNCHANGED <<env, runs>>
      /\ schedules' = IF "ingest" \in env[h].workers THEN schedules \cup crons ELSE schedules
  BY DEF bootstrap, registerCronSchedules
<1>2. schedules' \subseteq crons /\ ((\E k \in up' : "ingest" \in env'[k].workers) => schedules' = crons)
  BY <1>1 DEF ServedStrong
<1> QED BY <1>1, <1>2 DEF ServedStrong, WorkersOf, Clusters, getQueueName

\* Nothing else adds a process or a schedule, and only a start adds a handler.
LEMMA ServedKept ==
    ASSUME ServedStrong, QueueTypes', UNCHANGED <<env, schedules>>, up' \subseteq up, runs' \subseteq runs
    PROVE  ServedStrong'
<1>1. IsFiniteSet(runs')
  BY FS_Subset DEF ServedStrong
<1> QED BY <1>1 DEF ServedStrong, WorkersOf, Clusters, getQueueName

\* The slot: a second clustering handler would be on the same process, beside the first.
LEMMA ServedTake ==
    ASSUME ServedStrong, QueueTypes', \A e \in Deployments : Arranged(e),
           NEW h \in Hosts, NEW j \in Jobs, Take(h, j)
    PROVE  ServedStrong'
<1> DEFINE t == [host |-> h, job |-> j, nth |-> started[j] + 1]
           q == getQueueName(j)
<1>1. /\ runs' = runs \cup {t} /\ UNCHANGED <<env, up, schedules>>
      /\ q \in WorkersOf(env, h) /\ HasSlot(h, q)
  BY WorkersAreSettings DEF Take, Consumers
<1>2. t.host = h /\ t.job = j /\ (Clusters(t) <=> q = "facialRecognition")
  BY DEF Clusters
<1>3. IsFiniteSet(runs')
  BY <1>1, FS_AddElement DEF ServedStrong
<1>4. ASSUME q = "facialRecognition", NEW r \in runs, Clusters(r) PROVE FALSE
  <2> DEFINE busy == {s \in runs : s.host = h /\ getQueueName(s.job) = q}
  <2>1. r.host \in Hosts /\ "facialRecognition" \in WorkersOf(env, r.host) /\ env \in Deployments
    BY <1>4 DEF ServedStrong, QueueTypes, RunRow
  <2>2. r.host = h
    BY <1>1, <1>4, <2>1 DEF Arranged
  <2>3. r \in busy
    BY <1>4, <2>2 DEF Clusters
  <2>4. IsFiniteSet(busy)
    BY FS_Subset DEF ServedStrong
  <2>5. Cardinality(busy) \in Nat /\ Cardinality(busy) # 0
    BY <2>3, <2>4, FS_CardinalityType, FS_EmptySet
  <2>6. Cardinality(busy) < 1
    BY <1>1, <1>4 DEF HasSlot, QUEUE_CONCURRENCY, QueueName
  <2> QED BY <2>5, <2>6
<1> HIDE DEF t, q
<1>5. \A r \in runs' : Clusters(r) => "facialRecognition" \in WorkersOf(env, r.host)
  BY <1>1, <1>2 DEF ServedStrong
<1>6. \A r, s \in runs' : Clusters(r) /\ Clusters(s) => r = s
  BY <1>1, <1>2, <1>4 DEF ServedStrong
<1> QED BY <1>1, <1>3, <1>5, <1>6 DEF ServedStrong, WorkersOf, Clusters, getQueueName

\* Once every process is up, each queue has its consumer, and clustering one.
LEMMA ServedMeans ==
    ASSUME ServedStrong, \A e \in Deployments : Arranged(e)
    PROVE  QueuesServedOnce
<1>e. env \in Deployments /\ Arranged(env)
  BY DEF ServedStrong
<1>1. EveryQueueServed
  <2> SUFFICES ASSUME up = Hosts
               PROVE  /\ \A q \in QueueName : Consumers(q) # {}
                      /\ schedules = crons
                      /\ \A c \in schedules : c.name \in handlers[c.queue]
    BY DEF EveryQueueServed
  <2>1. schedules = crons
    BY <1>e DEF ServedStrong, Arranged
  <2>2. \A q \in QueueName : Consumers(q) # {}
    BY <1>e, WorkersAreSettings DEF Arranged, Consumers
  <2> QED BY <2>1, <2>2, CronsHandled
<1>2. OneClusterer
  <2> DEFINE C == {r \in runs : Clusters(r)}
  <2>1. CASE C = {}
    BY <2>1, FS_EmptySet DEF OneClusterer, Clusters
  <2>2. CASE C # {}
    <3>1. PICK r \in C : TRUE
      BY <2>2
    <3>2. C = {r}
      BY <3>1 DEF ServedStrong
    <3>3. Cardinality(C) = 1
      BY <3>2, FS_Singleton
    <3> QED BY <3>3 DEF OneClusterer, Clusters
  <2> QED BY <2>1, <2>2
<1> QED BY <1>1, <1>2 DEF QueuesServedOnce

\* The consumers fit the queues before a process is up, and one case per action keeps it.
LEMMA ServedInductive ==
    ASSUME \A e \in Deployments : Arranged(e)
    PROVE  /\ JobQueueInit /\ QueueTypes => ServedStrong
           /\ ServedStrong /\ QueueTypes' /\ [JobQueueNext]_jobVars => ServedStrong'
<1>1. JobQueueInit /\ QueueTypes => ServedStrong
  BY FS_EmptySet DEF JobQueueInit, ServedStrong
<1>2. ASSUME ServedStrong, QueueTypes', [JobQueueNext]_jobVars PROVE ServedStrong'
  <2>1. ASSUME NEW h \in Hosts, bootstrap(h) PROVE ServedStrong'
    BY <1>2, <2>1, ServedStart
  <2>2. ASSUME NEW h \in Hosts, NEW j \in Jobs, Take(h, j) PROVE ServedStrong'
    BY <1>2, <2>2, ServedTake
  <2>3. ASSUME NEW h \in Hosts, Stop(h) PROVE ServedStrong'
    BY <1>2, <2>3, ServedKept DEF Stop
  <2>4. ASSUME NEW j \in Jobs, queueAll(j) \/ DelayPasses(j) \/ Stalled(j) \/ KillOne(j) PROVE ServedStrong'
    BY <1>2, <2>4, ServedKept DEF queueAll, DelayPasses, Stalled, KillOne
  <2>5. ASSUME NEW r \in runs, LockLost(r) \/ \E ok \in BOOLEAN : run(r, ok) PROVE ServedStrong'
    BY <1>2, <2>5, ServedKept DEF LockLost, run
  <2>6. ASSUME NEW q, runQueueAction(q) PROVE ServedStrong'
    BY <1>2, <2>6, ServedKept
       DEF runQueueAction, pause, resume, empty, clear, retryFailed, killActive
  <2>7. CASE UNCHANGED jobVars
    BY <1>2, <2>7, ServedKept DEF jobVars
  <2> QED BY <1>2, <2>1, <2>2, <2>3, <2>4, <2>5, <2>6, <2>7 DEF JobQueueNext
<1> QED BY <1>1, <1>2

(* The consumers fit the queues, whichever process took a queue over or gave one  *)
(* away: once the processes of an arranged deployment are up every queue has a    *)
(* consumer and every sweep its schedule, and through restarts, lost locks,       *)
(* reclaimed and terminated jobs one clustering handler runs in the whole fleet   *)
(* (types.ts, job.repository.ts).                                                 *)
THEOREM QueuesAreServedOnce ==
    ASSUME \A e \in Deployments : Arranged(e)
    PROVE  JobQueueSpec => []QueuesServedOnce
<1>1. ServedStrong => QueuesServedOnce
  BY ServedMeans
<1>2. JobQueueInit /\ QueueTypes => ServedStrong
  BY ServedInductive
<1>3. ServedStrong /\ QueueTypes' /\ [JobQueueNext]_jobVars => ServedStrong'
  BY ServedInductive
<1> QED BY <1>1, <1>2, <1>3, TypesKept, PTL DEF JobQueueSpec

-----------------------------------------------------------------------------
(* The machines' heartbeats *)

HeartbeatTypes ==
    /\ process \in [Instances -> {"down", "up", "stopping"}]
    /\ armed \in [Instances -> BOOLEAN] /\ sampling \in [Instances -> BOOLEAN]
    /\ published \in [Instances -> BOOLEAN] /\ clean \in [Instances -> BOOLEAN]
    /\ key \in [Instances -> 0..TTL]
    /\ misses \in [Instances -> Nat] /\ downFor \in [Instances -> Nat]

\* What is left of a key's time: a process that is up has lost an interval for each
\* failed publish, and one for the publish that is due; one that is gone, an
\* interval for each it is gone; and one torn down with nothing under way has none.
KeyAge(i) ==
    /\ process[i] = "up" /\ published[i] =>
           \/ key[i] >= TTL - misses[i]
           \/ (armed[i] \/ sampling[i]) /\ key[i] >= TTL - misses[i] - 1
    /\ process[i] # "down" => downFor[i] = 0
    /\ key[i] > 0 => key[i] + downFor[i] <= TTL
    /\ clean[i] => key[i] = 0 /\ process[i] # "up" /\ ~ sampling[i]

HeartbeatInv == HeartbeatTypes /\ \A i \in Instances : KeyAge(i)

\* A step of one process keeps its key's age, and leaves the others alone.
LEMMA HeartbeatStep ==
    ASSUME HeartbeatInv, NEW i \in Instances,
           \/ startHeartbeat(i) \/ sample(i) \/ publish(i) \/ publishFails(i)
           \/ teardown(i) \/ ProcessEnds(i)
    PROVE  HeartbeatInv'
<1> USE TelemetryConstants DEF HeartbeatInv, HeartbeatTypes, Set
<1>1. CASE startHeartbeat(i)
  BY <1>1 DEF KeyAge, startHeartbeat
<1>2. CASE sample(i)
  BY <1>2 DEF KeyAge, sample
<1>3. CASE publish(i)
  BY <1>3 DEF KeyAge, publish, setKey
<1>4. CASE publishFails(i)
  BY <1>4 DEF KeyAge, publishFails
<1>5. CASE teardown(i)
  BY <1>5 DEF KeyAge, teardown
<1>6. CASE ProcessEnds(i)
  BY <1>6 DEF KeyAge, ProcessEnds
<1> QED BY <1>1, <1>2, <1>3, <1>4, <1>5, <1>6

\* So does an interval, in which every publish under way has ended.
LEMMA IntervalStep == HeartbeatInv /\ IntervalPasses => HeartbeatInv'
<1> SUFFICES ASSUME HeartbeatInv, IntervalPasses PROVE HeartbeatInv'
  OBVIOUS
<1> USE TelemetryConstants DEF HeartbeatInv, HeartbeatTypes, IntervalPasses
<1>1. HeartbeatTypes'
  OBVIOUS
<1>2. ASSUME NEW i \in Instances PROVE KeyAge(i)'
  BY <1>2 DEF KeyAge
<1> QED BY <1>1, <1>2

\* The panel shows what the keys are worth.
LEMMA HeartbeatMeans == HeartbeatInv => ListedIsUp
BY TelemetryConstants DEF HeartbeatInv, HeartbeatTypes, KeyAge, ListedIsUp, UpIsListed, GhostsExpire,
    CleanExitUnlisted, getInstances, isWorkerOnline

(* The panel lists the processes that are up, and no others for longer than the   *)
(* key lives, for any number of processes and however long a key lives            *)
(* (telemetry.repository.ts:125-160).                                             *)
THEOREM HeartbeatsTell == TelemetrySpec => []ListedIsUp
<1>1. TelemetryInit => HeartbeatInv
  BY TelemetryConstants DEF TelemetryInit, HeartbeatInv, HeartbeatTypes, KeyAge
<1>2. HeartbeatInv /\ [TelemetryNext]_telemetryVars => HeartbeatInv'
  <2> SUFFICES ASSUME HeartbeatInv, [TelemetryNext]_telemetryVars PROVE HeartbeatInv'
    OBVIOUS
  <2>1. CASE UNCHANGED telemetryVars
    BY <2>1 DEF HeartbeatInv, HeartbeatTypes, KeyAge, telemetryVars
  <2> QED BY <2>1, HeartbeatStep, IntervalStep DEF TelemetryNext
<1> QED BY <1>1, <1>2, HeartbeatMeans, PTL DEF TelemetrySpec

Orders(R, S) ==
    /\ \A x \in S : <<x, x>> \notin R
    /\ \A x, y \in S : x = y \/ <<x, y>> \in R \/ <<y, x>> \in R
    /\ \A x, y, z \in S : <<x, y>> \in R /\ <<y, z>> \in R => <<x, z>> \in R

\* A finite set in a total order can be listed in that order: an element's place is
\* the number of elements not after it, and no place is taken twice or left free.
LEMMA Ordered ==
    ASSUME NEW S, IsFiniteSet(S), NEW R, Orders(R, S)
    PROVE  \E s \in [1..Cardinality(S) -> S] :
               \A i, j \in 1..Cardinality(S) : i < j => <<s[i], s[j]>> \in R
<1> DEFINE n == Cardinality(S)
           UpTo(x) == {y \in S : y = x \/ <<y, x>> \in R}
           place == [x \in S |-> Cardinality(UpTo(x))]
<1> USE DEF Orders
<1>1. n \in Nat
  BY FS_CardinalityType
<1>2. ASSUME NEW x \in S PROVE IsFiniteSet(UpTo(x)) /\ place[x] \in 1..n
  <2>1. UpTo(x) \in SUBSET S /\ UpTo(x) # {}
    OBVIOUS
  <2>2. IsFiniteSet(UpTo(x)) /\ Cardinality(UpTo(x)) <= n
    BY <2>1, FS_Subset
  <2>3. Cardinality(UpTo(x)) \in Nat /\ Cardinality(UpTo(x)) # 0
    BY <2>1, <2>2, FS_CardinalityType, FS_EmptySet
  <2>4. place[x] = Cardinality(UpTo(x))
    OBVIOUS
  <2> HIDE DEF place, UpTo, n
  <2> QED BY <1>1, <2>2, <2>3, <2>4
<1>3. ASSUME NEW x \in S, NEW y \in S, <<x, y>> \in R PROVE place[x] < place[y]
  <2>1. UpTo(x) \in SUBSET UpTo(y)
    BY <1>3
  <2>2. y \in UpTo(y) /\ y \notin UpTo(x)
    BY <1>3
  <2>3. IsFiniteSet(UpTo(y)) /\ place[x] \in 1..n /\ place[y] \in 1..n
    BY <1>2
  <2>4. place[x] = Cardinality(UpTo(x)) /\ place[y] = Cardinality(UpTo(y))
    OBVIOUS
  <2> HIDE DEF place, UpTo, n
  <2>5. Cardinality(UpTo(x)) <= Cardinality(UpTo(y))
    BY <2>1, <2>3, FS_Subset
  <2>6. Cardinality(UpTo(y)) # Cardinality(UpTo(x))
    BY <2>1, <2>2, <2>3, FS_Subset
  <2> QED BY <1>1, <2>3, <2>4, <2>5, <2>6
<1>4. place \in Injection(S, 1..n)
  <2>1. place \in [S -> 1..n]
    BY <1>2
  <2>2. \A x, y \in S : place[x] = place[y] => x = y
    <3> HIDE DEF place, n
    <3> SUFFICES ASSUME NEW x \in S, NEW y \in S, place[x] = place[y], x # y PROVE FALSE
      OBVIOUS
    <3>1. place[x] \in 1..n /\ place[y] \in 1..n
      BY <1>2
    <3>2. place[x] < place[y] \/ place[y] < place[x]
      BY <1>3
    <3> QED BY <1>1, <3>1, <3>2
  <2> HIDE DEF place
  <2> QED BY <2>1, <2>2 DEF Injection, IsInjective
<1>5. IsFiniteSet(1..n) /\ Cardinality(1..n) = n
  BY <1>1, FS_Interval
<1>6. place \in Surjection(S, 1..n)
  <2> HIDE DEF place
  <2> QED BY <1>4, <1>5, FS_Injection
<1>7. \A i \in 1..n : \E x \in S : place[x] = i
  <2> HIDE DEF place
  <2> QED BY <1>6 DEF Surjection
<1> DEFINE s == [i \in 1..n |-> CHOOSE x \in S : place[x] = i]
<1>8. s \in [1..n -> S] /\ \A i \in 1..n : place[s[i]] = i
  <2> HIDE DEF place
  <2> QED BY <1>7
<1>9. ASSUME NEW i \in 1..n, NEW j \in 1..n, i < j PROVE <<s[i], s[j]>> \in R
  <2> HIDE DEF place, s
  <2>1. s[i] \in S /\ s[j] \in S /\ place[s[i]] = i /\ place[s[j]] = j
    BY <1>8
  <2>2. s[i] # s[j] /\ <<s[j], s[i]>> \notin R
    BY <1>1, <1>3, <1>9, <2>1
  <2> QED BY <2>1, <2>2
<1> HIDE DEF s, place
<1> QED BY <1>8, <1>9

\* A list as long as a finite set, with no element twice, leaves none of them out.
LEMMA NoneLeftOut ==
    ASSUME NEW S, IsFiniteSet(S), NEW s \in [1..Cardinality(S) -> S],
           \A i, j \in 1..Cardinality(S) : s[i] = s[j] => i = j
    PROVE  \A x \in S : \E i \in 1..Cardinality(S) : s[i] = x
<1> DEFINE n == Cardinality(S)
<1>1. n \in Nat
  BY FS_CardinalityType
<1>2. IsFiniteSet(1..n) /\ Cardinality(1..n) = n
  BY <1>1, FS_Interval
<1>3. s \in Injection(1..n, S)
  BY DEF Injection, IsInjective
<1>4. s \in Surjection(1..n, S)
  BY <1>2, <1>3, FS_Injection
<1> QED BY <1>4 DEF Surjection

-----------------------------------------------------------------------------
(* The audit log and the page that tails it *)

Kinds == {"fresh", "tail", "older"}
LogRow == [at : Nat, category : Categories \cup {RecordedAs}, day : Nat]
Request == [n : Nat, kind : Kinds, filter : Filters \cup {""}, cursor : Nat, served : BOOLEAN, answer : Seq(LogRow)]

\* Rows newest first; a page of them, with the rows a poll of C brought again; and one
\* that leaves out no row of R within its reach, but for those a cursor of C passed over.
Falling(e) == \A i, j \in 1..Len(e) : i < j => e[i].at > e[j].at
After(x, y, C) == x.at > y.at \/ (Ms(x.at) = Ms(y.at) /\ <<"tail", Ms(y.at)>> \in C)
Falls(e, C) == \A i, j \in 1..Len(e) : i < j => After(e[i], e[j], C)
Holds(e, r) == \E i \in 1..Len(e) : e[i] = r
Spans(e, r) == e[Len(e)].at <= r.at /\ r.at <= e[1].at
Gapless(e, R, C) == e # <<>> => \A r \in R : Spans(e, r) => Holds(e, r) \/ <<"older", Ms(r.at)>> \in C

\* Where a later line of the page is of a newer row, every row of R between the two has
\* come before: the poll that brought the older one again brought them all.
Prior(e, R) ==
    \A m, k \in 1..Len(e) : m < k /\ e[m].at <= e[k].at =>
        \A r \in R : e[m].at <= r.at /\ r.at <= e[k].at => \E l \in 1..m : e[l] = r

\* The table is finite, and its rows are told apart by when they were written.
LogInv ==
    /\ clock \in Nat /\ day \in Nat /\ flushes \in Nat /\ pageAsks \in Nat
    /\ log \in SUBSET LogRow /\ IsFiniteSet(log)
    /\ \A r \in log : r.at \in 1..clock
    /\ \A r, s \in log : r.at = s.at => r = s

\* What an answer leaves out lies outside the stretch its request asked for.
Within(a, r) ==
    CASE a.kind = "older" -> a.answer[Len(a.answer)].at <= r.at /\ r.at < a.cursor
      [] a.kind = "tail" -> /\ a.cursor < r.at
                            /\ r.at <= a.answer[1].at \/ \E k \in 1..Len(entries) : r.at <= entries[k].at
                            /\ entries = <<>> => Spans(a.answer, r)
      [] a.kind = "fresh" -> Spans(a.answer, r)

Answered(a) ==
    /\ Falling(a.answer)
    /\ \A i \in 1..Len(a.answer) :
           /\ a.answer[i].at \in 1..clock
           /\ a.kind = "tail" => a.answer[i].at > a.cursor
           /\ a.kind = "older" => a.answer[i].at < a.cursor
    /\ a.answer # <<>> => \A r \in Matching(filter) : Within(a, r) => Holds(a.answer, r)

\* The one request in flight was asked of the page as it stands.
Fits(a) ==
    /\ a \in Request /\ a.filter = filter /\ <<a.kind, a.cursor>> \in cursors
    /\ a.kind = "tail" => a.cursor = IF entries = <<>> THEN 0 ELSE Ms(entries[1].at)
    /\ a.kind = "older" => entries # <<>> /\ a.cursor = Ms(entries[Len(entries)].at)
    /\ a.served => Answered(a)

PageInv ==
    /\ entries \in Seq(LogRow) /\ filter \in Filters \cup {""}
    /\ \A i \in 1..Len(entries) : entries[i].at \in 1..clock
    /\ Falls(entries, cursors)
    /\ \A a, b \in asks : a = b
    /\ \A a \in asks : Fits(a)
    /\ (\A a \in asks : a.kind # "fresh") =>
           Gapless(entries, Matching(filter), cursors) /\ Prior(entries, Matching(filter))

TailInv ==
    /\ disturbed \in BOOLEAN /\ burst \in BOOLEAN
    /\ ~ disturbed /\ ~ burst => PageInv

\* What a millisecond is of an instant: not later, and as late as any whole one before it.
LEMMA MsFacts ==
    ASSUME NEW t \in Nat
    PROVE  /\ Ms(t) \in Nat /\ Ms(t) <= t
           /\ \A s \in Nat : Ms(s) <= t => Ms(s) <= Ms(t)
<1>0. Micros \in Nat \ {0}
  BY AuditTrailConstants
<1>1. ASSUME NEW x \in Nat
      PROVE  x \div Micros \in Nat /\ Ms(x) \in Nat /\ Ms(x) <= x /\ x < Ms(x) + Micros
  BY <1>0, SMTT(30) DEF Ms
<1>2. ASSUME NEW a \in Nat, NEW b \in Nat, a >= b + 1
      PROVE  Micros * a >= Micros * b + Micros
  BY <1>0, <1>2, SMTT(30)
<1>3. ASSUME NEW s \in Nat, Ms(s) <= t
      PROVE  Ms(s) <= Ms(t)
  <2> DEFINE a == s \div Micros
             b == t \div Micros
  <2>1. a \in Nat /\ b \in Nat /\ Ms(s) = Micros * a /\ Ms(t) = Micros * b
    BY <1>1 DEF Ms
  <2>2. Ms(s) \in Nat /\ Ms(t) \in Nat /\ t < Ms(t) + Micros
    BY <1>1
  <2> HIDE DEF a, b
  <2>3. CASE a >= b + 1
    <3>1. Ms(s) >= Ms(t) + Micros
      BY <1>2, <2>1, <2>3
    <3> QED BY <1>0, <1>3, <2>2, <3>1
  <2>4. CASE a = b
    BY <2>1, <2>2, <2>4
  <2>5. CASE b >= a + 1
    <3>1. Ms(t) >= Ms(s) + Micros
      BY <1>2, <2>1, <2>5
    <3> QED BY <1>0, <2>2, <3>1
  <2> QED BY <2>1, <2>3, <2>4, <2>5
<1> QED BY <1>1, <1>3

\* Rows with different instants, newest first: each once, and none left out.
LEMMA NewestFirstOrders ==
    ASSUME NEW S \in SUBSET LogRow, IsFiniteSet(S), \A r, s \in S : r.at = s.at => r = s
    PROVE  /\ NewestFirst(S) \in Seq(S) /\ Len(NewestFirst(S)) = Cardinality(S)
           /\ Cardinality(S) \in Nat
           /\ Falling(NewestFirst(S))
           /\ \A r \in S : Holds(NewestFirst(S), r)
<1> DEFINE n == Cardinality(S)
           R == {p \in S \X S : p[1].at > p[2].at}
           Newest(s) == \A i, j \in 1..n : i < j => s[i].at > s[j].at
<1>1. n \in Nat
  BY FS_CardinalityType
<1>2. \A r \in S : r.at \in Nat
  BY DEF LogRow
<1>3. Orders(R, S)
  BY <1>2 DEF Orders
<1>4. \E s \in [1..n -> S] : \A i, j \in 1..n : i < j => <<s[i], s[j]>> \in R
  <2> HIDE DEF R
  <2> QED BY <1>3, Ordered
<1>5. \E s \in [1..n -> S] : Newest(s)
  <2> HIDE DEF n
  <2> QED BY <1>4
<1>6. NewestFirst(S) = CHOOSE s \in [1..n -> S] : \A i, j \in DOMAIN s : i < j => s[i].at > s[j].at
  BY DEF NewestFirst
<1>7. NewestFirst(S) \in [1..n -> S] /\ Newest(NewestFirst(S))
  <2> HIDE DEF n
  <2>1. \E s \in [1..n -> S] : \A i, j \in DOMAIN s : i < j => s[i].at > s[j].at
    BY <1>5
  <2>2. /\ NewestFirst(S) \in [1..n -> S]
        /\ \A i, j \in DOMAIN NewestFirst(S) : i < j => NewestFirst(S)[i].at > NewestFirst(S)[j].at
    BY <1>6, <2>1
  <2> QED BY <2>2
<1>8. \A r \in S : \E i \in 1..n : NewestFirst(S)[i] = r
  <2> HIDE DEF n
  <2>1. \A i, j \in 1..n : NewestFirst(S)[i] = NewestFirst(S)[j] => i = j
    BY <1>1, <1>2, <1>7
  <2> QED BY <2>1, <1>7, NoneLeftOut DEF n
<1> HIDE DEF n
<1>9. NewestFirst(S) \in Seq(S) /\ Len(NewestFirst(S)) = n
  BY <1>1, <1>7
<1> QED BY <1>1, <1>7, <1>8, <1>9 DEF n, Falling, Holds

\* What list() answers: matching rows beyond the cursor, newest first; and the ones
\* it leaves out are older than all of them, and left out only by a full page.
LEMMA ListAnswers ==
    ASSUME LogInv, NEW a \in Request
    PROVE  LET asked == {r \in Matching(a.filter) : /\ a.kind = "tail" => r.at > a.cursor
                                                    /\ a.kind = "older" => r.at < a.cursor}
           IN  /\ list(a) \in Seq(asked) /\ Falling(list(a))
               /\ \A r \in asked : \/ Holds(list(a), r)
                                   \/ /\ Cardinality(asked) > PAGE_SIZE /\ list(a) # <<>>
                                      /\ r.at < list(a)[Len(list(a))].at
<1> DEFINE asked == {r \in Matching(a.filter) : /\ a.kind = "tail" => r.at > a.cursor
                                                /\ a.kind = "older" => r.at < a.cursor}
           all == NewestFirst(asked)
           c == Cardinality(asked)
           n == IF c < PAGE_SIZE THEN c ELSE PAGE_SIZE
<1>1. asked \in SUBSET log
  BY DEF Matching
<1>2. asked \in SUBSET LogRow /\ IsFiniteSet(asked) /\ \A r, s \in asked : r.at = s.at => r = s
  <2> HIDE DEF asked
  <2> QED BY <1>1, FS_Subset DEF LogInv
<1>3. /\ all \in Seq(asked) /\ Len(all) = c /\ c \in Nat
      /\ Falling(all)
      /\ \A r \in asked : Holds(all, r)
  <2> HIDE DEF asked
  <2> QED BY <1>2, NewestFirstOrders
<1>4. list(a) = SubSeq(all, 1, n)
  BY DEF list
<1>5. n \in Nat /\ n <= c /\ n <= PAGE_SIZE /\ (n < c => n = PAGE_SIZE) /\ PAGE_SIZE \in Nat \ {0}
  BY <1>3, AuditTrailConstants
<1>6. \A r \in asked : r.at \in Nat
  BY <1>2 DEF LogRow
<1> HIDE DEF asked, all, c, n
<1>7. /\ list(a) \in Seq(asked) /\ Len(list(a)) = n
      /\ \A i \in 1..n : list(a)[i] = all[i]
  BY <1>3, <1>4, <1>5
<1>8. Falling(list(a))
  BY <1>3, <1>5, <1>7 DEF Falling
<1>9. ASSUME NEW r \in asked
      PROVE  \/ Holds(list(a), r)
             \/ c > PAGE_SIZE /\ list(a) # <<>> /\ r.at < list(a)[Len(list(a))].at
  <2>1. PICK i \in 1..Len(all) : all[i] = r
    BY <1>3 DEF Holds
  <2>2. CASE i <= n
    BY <2>1, <2>2, <1>3, <1>5, <1>7 DEF Holds
  <2>3. CASE ~ (i <= n)
    <3>1. n < c /\ n = PAGE_SIZE /\ n \in 1..Len(all) /\ n < i /\ c > PAGE_SIZE
      BY <2>1, <2>3, <1>3, <1>5
    <3>2. all[n].at > all[i].at
      BY <2>1, <3>1, <1>3 DEF Falling
    <3>3. list(a)[Len(list(a))] = all[n] /\ list(a) # <<>>
      BY <3>1, <1>5, <1>7
    <3>4. all[n] \in asked
      BY <3>1, <1>3
    <3> QED BY <2>1, <3>1, <3>2, <3>3, <3>4, <1>6
  <2> QED BY <2>1, <2>2, <2>3, <1>3, <1>5
<1> QED BY <1>7, <1>8, <1>9 DEF asked, c

\* The table grows at its newest end only, whatever is swept or flushed.
LEMMA LogStep ==
    ASSUME LogInv, [AuditTrailNext]_auditVars
    PROVE  LogInv' /\ clock <= clock' /\ \A r \in log' : r \in log \/ r.at > clock
<1>1. ASSUME NEW r \in LogRow, r.at = clock', clock' \in Nat, clock < clock', log' = log \cup {r},
             day' = day, flushes' \in Nat, pageAsks' = pageAsks
      PROVE  LogInv' /\ clock <= clock' /\ \A q \in log' : q \in log \/ q.at > clock
  <2>1. IsFiniteSet(log')
    BY <1>1, FS_AddElement DEF LogInv
  <2>2. \A q \in log' : q.at \in 1..clock'
    BY <1>1 DEF LogInv
  <2>3. \A p, q \in log' : p.at = q.at => p = q
    BY <1>1 DEF LogInv
  <2>4. log' \in SUBSET LogRow /\ clock' \in Nat /\ day' \in Nat /\ flushes' \in Nat /\ pageAsks' \in Nat
    BY <1>1 DEF LogInv
  <2> QED BY <1>1, <2>1, <2>2, <2>3, <2>4 DEF LogInv
<1>2. ASSUME log' \in SUBSET log, clock' = clock, day' \in Nat, flushes' \in Nat, pageAsks' \in Nat
      PROVE  LogInv' /\ clock <= clock' /\ \A q \in log' : q \in log \/ q.at > clock
  <2>1. IsFiniteSet(log')
    BY <1>2, FS_Subset DEF LogInv
  <2> QED BY <1>2, <2>1 DEF LogInv
<1>3. ASSUME NEW c \in Categories, record(c)
      PROVE  LogInv' /\ clock <= clock' /\ \A q \in log' : q \in log \/ q.at > clock
  <2>0. clock' \in Nat /\ clock < clock'
    BY <1>3, AuditTrailConstants DEF record, LogInv
  <2>1. Row(c, clock') \in LogRow /\ Row(c, clock').at = clock'
    BY <2>0 DEF Row, LogRow, LogInv
  <2>2. /\ log' = log \cup {Row(c, clock')}
        /\ day' = day /\ flushes' = flushes /\ pageAsks' = pageAsks /\ flushes \in Nat
    BY <1>3 DEF record, pageVars, LogInv
  <2> QED BY <1>1, <2>0, <2>1, <2>2
<1>4. CASE recordFlush
  <2>0. clock' \in Nat /\ clock < clock'
    BY <1>4, AuditTrailConstants DEF recordFlush, LogInv
  <2>1. Row(RecordedAs, clock') \in LogRow /\ Row(RecordedAs, clock').at = clock'
    BY <2>0 DEF Row, LogRow, LogInv
  <2>2. /\ day' = day /\ flushes' \in Nat /\ pageAsks' = pageAsks
        /\ \/ log' = log \cup {Row(RecordedAs, clock')}
           \/ log' = log
    BY <1>4 DEF recordFlush, pageVars, LogInv
  <2>3. CASE log' = log
    BY <2>0, <2>2, <2>3 DEF LogInv
  <2> QED BY <1>1, <2>0, <2>1, <2>2, <2>3
<1>5. CASE NextDay \/ handleAuditRetentionSweep
  BY <1>2, <1>5 DEF NextDay, handleAuditRetentionSweep, pageVars, LogInv
<1>6. ASSUME NEW x, flush(x)
      PROVE  LogInv' /\ clock <= clock' /\ \A q \in log' : q \in log \/ q.at > clock
  <2>1. log' \in SUBSET log /\ clock' = clock /\ day' = day /\ flushes' = flushes + 1 /\ pageAsks' = pageAsks
    BY <1>6 DEF flush, pageVars
  <2> QED BY <1>2, <2>1 DEF LogInv
<1>7. ASSUME NEW f, loadFresh(f)
      PROVE  LogInv' /\ clock <= clock' /\ \A q \in log' : q \in log \/ q.at > clock
  BY <1>2, <1>7 DEF loadFresh, Ask, LogInv
<1>8. CASE Poll \/ loadOlder \/ onVisibility
  BY <1>2, <1>8 DEF Poll, loadOlder, onVisibility, tail, Ask, LogInv
<1>9. ASSUME NEW a, Answer(a) \/ Arrive(a)
      PROVE  LogInv' /\ clock <= clock' /\ \A q \in log' : q \in log \/ q.at > clock
  BY <1>2, <1>9 DEF Answer, Arrive, LogInv
<1>10. CASE UNCHANGED auditVars
  BY <1>2, <1>10 DEF auditVars, LogInv
<1> QED BY <1>3, <1>4, <1>5, <1>6, <1>7, <1>8, <1>9, <1>10 DEF AuditTrailNext

\* The page stays a faithful stretch of a table that only grows at its newest end.
LEMMA PageKept ==
    ASSUME LogInv, LogInv', TailInv, UNCHANGED pageVars, clock <= clock',
           \A r \in log' : r \in log \/ r.at > clock
    PROVE  TailInv'
<1> SUFFICES ASSUME ~ disturbed, ~ burst PROVE PageInv'
  BY DEF TailInv, pageVars
<1>1. PageInv
  BY DEF TailInv
<1>2. /\ entries' = entries /\ filter' = filter /\ asks' = asks /\ cursors' = cursors
      /\ clock \in Nat /\ clock' \in Nat
  BY DEF pageVars, LogInv
<1>3. \A r \in Matching(filter)' : r.at \in Nat /\ (r \in Matching(filter) \/ r.at > clock)
  <2>1. \A r \in log' : r.at \in Nat
    BY DEF LogInv
  <2> QED BY <1>2, <2>1 DEF Matching
<1>e. /\ entries \in Seq(LogRow)
      /\ entries # <<>> => /\ 1 \in 1..Len(entries) /\ Len(entries) \in 1..Len(entries)
                           /\ entries[1].at \in 1..clock /\ entries[Len(entries)].at \in 1..clock
  <2>1. entries \in Seq(LogRow) /\ \A i \in 1..Len(entries) : entries[i].at \in 1..clock
    BY <1>1 DEF PageInv
  <2>2. entries # <<>> => 1 \in 1..Len(entries) /\ Len(entries) \in 1..Len(entries)
    BY <2>1
  <2> QED BY <2>1, <2>2
<1>4. ASSUME NEW a \in asks PROVE Fits(a)'
  <2>1. Fits(a)
    BY <1>1 DEF PageInv
  <2>2. ASSUME a.served PROVE Answered(a)'
    <3>1. Answered(a)
      BY <2>1, <2>2 DEF Fits
    <3>2. \A i \in 1..Len(a.answer) :
              /\ a.answer[i].at \in 1..clock'
              /\ a.kind = "tail" => a.answer[i].at > a.cursor
              /\ a.kind = "older" => a.answer[i].at < a.cursor
      BY <1>2, <3>1 DEF Answered
    <3>3. ASSUME a.answer # <<>>, NEW r \in Matching(filter)', Within(a, r) PROVE Holds(a.answer, r)
      <4>1. a.answer \in Seq(LogRow) /\ a.kind \in Kinds
        BY <2>1 DEF Fits, Request
      <4>2. 1 \in 1..Len(a.answer) /\ a.answer[1].at <= clock
        BY <1>2, <3>1, <3>3, <4>1 DEF Answered
      <4>3. CASE r \in Matching(filter)
        BY <3>1, <3>3, <4>3 DEF Answered
      <4>4. CASE r.at > clock
        <5>1. CASE a.kind = "older"
          <6>1. a.cursor \in Nat /\ a.cursor <= clock
            BY <1>2, <1>e, <2>1, <5>1, MsFacts DEF Fits
          <6>2. r.at < a.cursor
            BY <3>3, <5>1 DEF Within
          <6> QED BY <1>2, <1>3, <4>4, <6>1, <6>2
        <5>2. CASE a.kind # "older"
          <6>1. r.at <= a.answer[1].at \/ \E k \in 1..Len(entries) : r.at <= entries[k].at
            BY <3>3, <4>1, <5>2 DEF Within, Spans, Kinds
          <6>2. a.answer[1].at \in 1..clock
            BY <3>1, <4>2 DEF Answered
          <6>3. \A k \in 1..Len(entries) : entries[k].at \in 1..clock
            BY <1>1 DEF PageInv
          <6> QED BY <1>2, <1>3, <4>4, <6>1, <6>2, <6>3
        <5> QED BY <5>1, <5>2
      <4> QED BY <1>3, <3>3, <4>3, <4>4
    <3>4. \A r : Within(a, r)' <=> Within(a, r)
      BY <1>2 DEF Within
    <3> QED BY <1>2, <3>1, <3>2, <3>3, <3>4 DEF Answered
  <2> QED BY <1>2, <2>1, <2>2 DEF Fits
<1>5. ASSUME Gapless(entries, Matching(filter), cursors) PROVE Gapless(entries, Matching(filter)', cursors)
  <2> SUFFICES ASSUME entries # <<>>, NEW r \in Matching(filter)', Spans(entries, r)
               PROVE  Holds(entries, r) \/ <<"older", Ms(r.at)>> \in cursors
    BY DEF Gapless
  <2>1. ~ (r.at > clock)
    BY <1>2, <1>3, <1>e DEF Spans
  <2> QED BY <1>3, <1>5, <2>1 DEF Gapless
<1>6. \A i \in 1..Len(entries) : entries[i].at \in 1..clock'
  <2>1. \A i \in 1..Len(entries) : entries[i].at \in 1..clock
    BY <1>1 DEF PageInv
  <2>2. \A x \in 1..clock : x \in 1..clock'
    BY <1>2
  <2> QED BY <2>1, <2>2
<1>7. ASSUME Prior(entries, Matching(filter)) PROVE Prior(entries, Matching(filter)')
  <2> SUFFICES ASSUME NEW m \in 1..Len(entries), NEW k \in 1..Len(entries), m < k, entries[m].at <= entries[k].at,
                      NEW r \in Matching(filter)', entries[m].at <= r.at, r.at <= entries[k].at
               PROVE  \E l \in 1..m : entries[l] = r
    BY DEF Prior
  <2>1. ~ (r.at > clock)
    <3>1. entries[k].at \in 1..clock
      BY <1>1 DEF PageInv
    <3> QED BY <1>2, <1>3, <3>1
  <2> QED BY <1>3, <1>7, <2>1 DEF Prior
<1> QED BY <1>1, <1>2, <1>4, <1>5, <1>6, <1>7 DEF PageInv

\* The ends of a list that has any.
LEMMA Ends ==
    ASSUME NEW T, NEW e \in Seq(T), e # <<>>
    PROVE  1 \in 1..Len(e) /\ Len(e) \in 1..Len(e) /\ Len(e) \in Nat \ {0}
OBVIOUS

\* No list is empty but the empty one.
LEMMA Nothing == ASSUME NEW T PROVE <<>> \in Seq(T) /\ Len(<<>>) = 0 /\ 1..0 = {}
OBVIOUS

\* A request made while another is in flight disturbs the page; one made alone is
\* asked of the page as it stands.
LEMMA AskStep ==
    ASSUME LogInv, TailInv, NEW kind \in Kinds, NEW f \in Filters \cup {""}, NEW cursor \in Nat,
           Ask(kind, f, cursor), filter' = f,
           UNCHANGED <<log, clock, entries, burst>>,
           kind # "fresh" => f = filter,
           kind = "tail" => cursor = IF entries = <<>> THEN 0 ELSE Ms(entries[1].at),
           kind = "older" => entries # <<>> /\ cursor = Ms(entries[Len(entries)].at)
    PROVE  TailInv'
<1>n. PICK new : new = [n |-> pageAsks, kind |-> kind, filter |-> f, cursor |-> cursor,
                        served |-> FALSE, answer |-> <<>>]
  OBVIOUS
<1>1. /\ asks' = asks \cup {new} /\ disturbed' = (disturbed \/ asks # {})
      /\ cursors' = cursors \cup {<<kind, cursor>>}
  BY <1>n DEF Ask
<1>2. disturbed' \in BOOLEAN /\ burst' \in BOOLEAN
  BY <1>1 DEF TailInv
<1>3. new \in Request
  <2>1. pageAsks \in Nat /\ <<>> \in Seq(LogRow)
    BY Nothing DEF LogInv
  <2> QED BY <1>n, <2>1 DEF Request
<1> SUFFICES ASSUME ~ disturbed', ~ burst' PROVE PageInv'
  BY <1>2 DEF TailInv
<1>4. PageInv /\ asks = {} /\ asks' = {new}
  BY <1>1 DEF TailInv
<1>5. Fits(new)'
  <2>1. new.filter = f /\ new.kind = kind /\ new.cursor = cursor /\ ~ new.served
    BY <1>n
  <2>2. /\ new \in Request /\ new.filter = filter' /\ <<new.kind, new.cursor>> \in cursors'
        /\ new.kind = "tail" => new.cursor = IF entries' = <<>> THEN 0 ELSE Ms(entries'[1].at)
        /\ new.kind = "older" => entries' # <<>> /\ new.cursor = Ms(entries'[Len(entries')].at)
        /\ ~ new.served
    BY <1>1, <1>3, <2>1
  <2> QED BY <2>2 DEF Fits
<1>6. (\A a \in asks' : a.kind # "fresh") =>
          Gapless(entries', Matching(filter)', cursors') /\ Prior(entries', Matching(filter)')
  <2> SUFFICES ASSUME kind # "fresh"
               PROVE  Gapless(entries', Matching(filter)', cursors') /\ Prior(entries', Matching(filter)')
    BY <1>n, <1>4
  <2>1. Matching(filter)' = Matching(filter)
    BY DEF Matching
  <2>2. Gapless(entries, Matching(filter), cursors) /\ Prior(entries, Matching(filter))
    BY <1>4 DEF PageInv
  <2>3. Gapless(entries, Matching(filter), cursors')
    BY <1>1, <2>2 DEF Gapless
  <2> QED BY <2>1, <2>2, <2>3
<1>7. /\ entries' \in Seq(LogRow) /\ filter' \in Filters \cup {""}
      /\ \A i \in 1..Len(entries') : entries'[i].at \in 1..clock'
      /\ Falls(entries', cursors')
  BY <1>1, <1>4 DEF PageInv, Falls, After
<1>8. \A a \in asks' : a = new
  BY <1>4
<1>9. \A a \in asks' : Fits(a)'
  <2> SUFFICES ASSUME NEW a \in asks' PROVE Fits(a)'
    OBVIOUS
  <2>1. a = new
    BY <1>8
  <2> QED BY <1>5, <2>1
<1>10. \A a, b \in asks' : a = b
  BY <1>8
<1> QED BY <1>6, <1>7, <1>9, <1>10 DEF PageInv

\* What the Logs page asks by itself, or when it is told to.
LEMMA RequestStep ==
    ASSUME LogInv, TailInv,
           Poll \/ loadOlder \/ onVisibility \/ \E f \in Filters : loadFresh(f)
    PROVE  TailInv'
<1>1. ASSUME disturbed \/ burst, disturbed' \in BOOLEAN /\ burst' \in BOOLEAN,
             disturbed => disturbed', burst => burst' PROVE TailInv'
  BY <1>1 DEF TailInv
<1>2. disturbed \in BOOLEAN /\ burst \in BOOLEAN
  BY DEF TailInv
<1>3. CASE disturbed \/ burst
  BY <1>1, <1>2, <1>3 DEF Poll, loadOlder, onVisibility, loadFresh, tail, Ask
<1>4. CASE ~ disturbed /\ ~ burst
  <2>1. PageInv /\ filter \in Filters \cup {""} /\ entries \in Seq(LogRow)
    BY <1>4 DEF TailInv, PageInv
  <2>2. entries # <<>> => 1 \in 1..Len(entries) /\ Len(entries) \in 1..Len(entries)
    BY <2>1, Ends
  <2>3. entries # <<>> => entries[1].at \in Nat /\ entries[Len(entries)].at \in Nat
    <3>1. \A i \in 1..Len(entries) : entries[i].at \in 1..clock
      BY <2>1 DEF PageInv
    <3>2. \A i \in 1..Len(entries) : entries[i].at \in Nat
      BY <3>1 DEF LogInv
    <3> QED BY <2>2, <3>2
  <2>4. /\ Head(entries) = entries[1]
        /\ entries # <<>> => Ms(entries[1].at) \in Nat /\ Ms(entries[Len(entries)].at) \in Nat
    BY <2>3, MsFacts DEF Head
  <2>5. CASE tail /\ UNCHANGED <<log, clock, entries, filter, burst>>
    BY <2>1, <2>4, <2>5, AskStep DEF tail, Kinds
  <2>6. CASE loadOlder
    BY <2>1, <2>4, <2>6, AskStep DEF loadOlder, Kinds, Last
  <2>7. ASSUME NEW f \in Filters, loadFresh(f) PROVE TailInv'
    BY <2>7, AskStep DEF loadFresh, Kinds
  <2>8. CASE onVisibility /\ live
    <3>1. UNCHANGED <<log, clock, entries, filter, asks, cursors, disturbed, burst>>
      BY <2>8 DEF onVisibility
    <3>2. Matching(filter)' = Matching(filter)
      BY <3>1 DEF Matching
    <3>3. /\ Falls(entries, cursors)' = Falls(entries, cursors)
          /\ Gapless(entries, Matching(filter), cursors)' = Gapless(entries, Matching(filter), cursors)
          /\ Prior(entries, Matching(filter))' = Prior(entries, Matching(filter))
      BY <3>1, <3>2
    <3>4. ASSUME NEW a \in asks PROVE Fits(a)' = Fits(a)
      BY <3>1 DEF Fits, Answered, Within, Matching
    <3>5. PageInv'
      BY <2>1, <3>1, <3>3, <3>4 DEF PageInv
    <3> QED BY <1>2, <3>1, <3>5 DEF TailInv
  <2> QED BY <2>5, <2>6, <2>7, <2>8 DEF Poll, onVisibility
<1> QED BY <1>2, <1>3, <1>4

\* What an answer holds when it is made.
LEMMA AnswerStep ==
    ASSUME LogInv, TailInv, NEW ask \in asks, Answer(ask)
    PROVE  TailInv'
<1>1. disturbed' = disturbed /\ disturbed \in BOOLEAN /\ burst \in BOOLEAN
  BY DEF Answer, TailInv
<1>2. burst' = (burst \/ (ask.kind = "tail" /\ entries # <<>>
                          /\ Cardinality({r \in Matching(ask.filter) : r.at > ask.cursor}) > PAGE_SIZE))
  BY DEF Answer
<1>3. burst' \in BOOLEAN
  BY <1>1, <1>2
<1> SUFFICES ASSUME ~ disturbed', ~ burst' PROVE PageInv'
  BY <1>1, <1>3 DEF TailInv
<1>4. PageInv /\ Fits(ask) /\ ~ ask.served
  <2>1. ~ disturbed /\ ~ burst
    BY <1>1, <1>2, Zenon
  <2> QED BY <2>1 DEF TailInv, PageInv, Answer
<1>5. ask \in Request /\ ask.filter = filter
  BY <1>4 DEF Fits
<1>6. PICK A : A = list(ask)
  OBVIOUS
<1>7. PICK b : b = [ask EXCEPT !.served = TRUE, !.answer = A]
  OBVIOUS
<1>8. asks' = {b} /\ UNCHANGED <<log, clock, entries, filter, cursors>>
  BY <1>4, <1>6, <1>7 DEF Answer, PageInv
<1> DEFINE asked == {r \in Matching(filter) : /\ ask.kind = "tail" => r.at > ask.cursor
                                              /\ ask.kind = "older" => r.at < ask.cursor}
<1>9. /\ A \in Seq(asked) /\ Falling(A)
      /\ \A r \in asked : \/ Holds(A, r)
                          \/ Cardinality(asked) > PAGE_SIZE /\ A # <<>> /\ r.at < A[Len(A)].at
  BY <1>5, <1>6, ListAnswers
<1>10. asked \in SUBSET Matching(filter) /\ Matching(filter) \in SUBSET log
  BY DEF Matching
<1>11. \A r \in log : r \in LogRow /\ r.at \in Nat /\ r.at \in 1..clock
  BY DEF LogInv
<1>12. /\ b \in Request /\ b.kind = ask.kind /\ b.filter = filter /\ b.cursor = ask.cursor /\ b.answer = A
  <2>1. A \in Seq(LogRow)
    <3> HIDE DEF asked
    <3> QED BY <1>9, <1>10, <1>11
  <2> QED BY <1>5, <1>7, <2>1 DEF Request
<1>13. \A i \in 1..Len(A) : A[i] \in asked
  <2> HIDE DEF asked
  <2> QED BY <1>9
<1>14. ASSUME A # <<>>, NEW r \in Matching(filter), Within(b, r) PROVE Holds(A, r)
  <2>1. r.at \in Nat /\ A[Len(A)].at \in Nat /\ ask.cursor \in Nat /\ ask.kind \in Kinds
    <3>1. Len(A) \in 1..Len(A)
      <4> HIDE DEF asked
      <4> QED BY <1>9, <1>14, Ends
    <3>2. A[Len(A)] \in log
      BY <1>10, <1>13, <3>1
    <3> QED BY <1>5, <1>10, <1>11, <1>14, <3>2 DEF Request
  <2>2. r \in asked
    BY <1>12, <1>14, <2>1 DEF Within, Kinds
  <2>3. CASE ask.kind # "tail" \/ entries = <<>>
    <3>1. A[Len(A)].at <= r.at
      BY <1>12, <1>14, <2>1, <2>3 DEF Within, Spans, Kinds
    <3> HIDE DEF asked
    <3>2. ~ (r.at < A[Len(A)].at)
      BY <2>1, <3>1
    <3> QED BY <1>9, <2>2, <3>2
  <2>4. CASE ask.kind = "tail" /\ entries # <<>>
    <3>2. asked = {q \in Matching(ask.filter) : q.at > ask.cursor}
      BY <1>5, <2>4
    <3>3. ~ (Cardinality(asked) > PAGE_SIZE)
      BY <1>2, <2>4, <3>2
    <3> QED BY <1>9, <2>2, <3>3
  <2> QED BY <2>3, <2>4
<1>15. Answered(b)'
  <2>1. \A i \in 1..Len(A) : /\ A[i].at \in 1..clock
                             /\ ask.kind = "tail" => A[i].at > ask.cursor
                             /\ ask.kind = "older" => A[i].at < ask.cursor
    BY <1>10, <1>11, <1>13
  <2>2. Matching(filter)' = Matching(filter)
    BY <1>8 DEF Matching
  <2>3. \A r : Within(b, r)' <=> Within(b, r)
    BY <1>8 DEF Within
  <2> HIDE DEF asked
  <2> QED BY <1>8, <1>9, <1>12, <1>14, <2>1, <2>2, <2>3 DEF Answered
<1>16. Fits(b)'
  BY <1>4, <1>8, <1>12, <1>15 DEF Fits
<1>17. (\A a \in asks' : a.kind # "fresh") =>
           Gapless(entries', Matching(filter)', cursors') /\ Prior(entries', Matching(filter)')
  BY <1>4, <1>8, <1>12 DEF PageInv, Matching
<1>18. /\ entries' \in Seq(LogRow) /\ filter' \in Filters \cup {""}
       /\ \A i \in 1..Len(entries') : entries'[i].at \in 1..clock'
       /\ Falls(entries', cursors')
  BY <1>4, <1>8 DEF PageInv
<1>19. (\A a, c \in asks' : a = c) /\ \A a \in asks' : Fits(a)'
  <2>1. \A a \in asks' : a = b
    BY <1>8
  <2>2. ASSUME NEW a \in asks' PROVE Fits(a)'
    <3>1. a = b
      BY <2>1
    <3> QED BY <1>16, <3>1
  <2> QED BY <2>1, <2>2
<1> HIDE DEF asked
<1> QED BY <1>17, <1>18, <1>19 DEF PageInv

\* A newer page before an older one makes one page.
LEMMA Joined ==
    ASSUME NEW C, NEW R, NEW e \in Seq(LogRow), NEW g \in Seq(LogRow),
           Falls(e, C), Falls(g, C), Prior(e, R), Prior(g, R),
           \A i \in 1..Len(e), j \in 1..Len(g) : After(e[i], g[j], C),
           \A i \in 1..Len(e), j \in 1..Len(g) : e[i].at <= g[j].at =>
               \A r \in R : e[i].at <= r.at /\ r.at <= g[j].at => \E l \in 1..i : e[l] = r
    PROVE  /\ e \o g \in Seq(LogRow) /\ Falls(e \o g, C) /\ Prior(e \o g, R)
           /\ \A i \in 1..Len(e \o g) : (\E j \in 1..Len(e) : (e \o g)[i] = e[j])
                                        \/ \E j \in 1..Len(g) : (e \o g)[i] = g[j]
           /\ \A r : Holds(e, r) \/ Holds(g, r) => Holds(e \o g, r)
           /\ e # <<>> => e \o g # <<>> /\ (e \o g)[1] = e[1]
           /\ g # <<>> => e \o g # <<>> /\ (e \o g)[Len(e \o g)] = g[Len(g)]
<1>1. /\ e \o g \in Seq(LogRow) /\ Len(e \o g) = Len(e) + Len(g)
      /\ Len(e) \in Nat /\ Len(g) \in Nat
  OBVIOUS
<1>2. \A i \in 1..Len(e) : (e \o g)[i] = e[i]
  OBVIOUS
<1>3. \A i \in 1..Len(g) : (e \o g)[Len(e) + i] = g[i]
  OBVIOUS
<1> DEFINE h == e \o g
<1>4. \A i \in 1..Len(h) : i \in 1..Len(e) \/ (i - Len(e) \in 1..Len(g) /\ i = Len(e) + (i - Len(e)))
  BY <1>1
<1>5. \A i \in 1..Len(h) : \/ i \in 1..Len(e) /\ h[i] = e[i]
                           \/ i > Len(e) /\ i - Len(e) \in 1..Len(g) /\ h[i] = g[i - Len(e)]
  <2> TAKE i \in 1..Len(h)
  <2>1. CASE i \in 1..Len(e)
    BY <2>1, <1>2
  <2>2. CASE i - Len(e) \in 1..Len(g) /\ i = Len(e) + (i - Len(e))
    <3>1. h[Len(e) + (i - Len(e))] = g[i - Len(e)]
      BY <2>2, <1>3
    <3> QED BY <2>2, <3>1, <1>1
  <2> QED BY <1>4, <2>1, <2>2
<1>6. Falls(h, C)
  <2> SUFFICES ASSUME NEW i \in 1..Len(h), NEW j \in 1..Len(h), i < j PROVE After(h[i], h[j], C)
    BY DEF Falls
  <2> HIDE DEF h
  <2>1. CASE j \in 1..Len(e)
    <3>1. i \in 1..Len(e) /\ h[i] = e[i] /\ h[j] = e[j]
      BY <1>1, <1>5, <2>1
    <3> QED BY <2>1, <3>1 DEF Falls
  <2>2. CASE i \in 1..Len(e) /\ j > Len(e)
    <3>1. h[i] = e[i] /\ j - Len(e) \in 1..Len(g) /\ h[j] = g[j - Len(e)]
      BY <1>1, <1>5, <2>2
    <3> QED BY <2>2, <3>1
  <2>3. CASE i > Len(e) /\ j > Len(e)
    <3>1. i - Len(e) \in 1..Len(g) /\ j - Len(e) \in 1..Len(g) /\ i - Len(e) < j - Len(e)
      BY <1>1, <1>5, <2>3
    <3>2. h[i] = g[i - Len(e)] /\ h[j] = g[j - Len(e)]
      BY <1>1, <1>5, <2>3
    <3> QED BY <3>1, <3>2 DEF Falls
  <2> QED BY <1>1, <1>5, <2>1, <2>2, <2>3
<1>11. Prior(h, R)
  <2> SUFFICES ASSUME NEW i \in 1..Len(h), NEW j \in 1..Len(h), i < j, h[i].at <= h[j].at,
                      NEW r \in R, h[i].at <= r.at, r.at <= h[j].at
               PROVE  \E l \in 1..i : h[l] = r
    BY DEF Prior
  <2> HIDE DEF h
  <2>1. CASE j \in 1..Len(e)
    <3>1. i \in 1..Len(e) /\ h[i] = e[i] /\ h[j] = e[j]
      BY <1>1, <1>5, <2>1
    <3>2. PICK l \in 1..i : e[l] = r
      BY <2>1, <3>1 DEF Prior
    <3>3. l \in 1..Len(e)
      BY <1>1, <3>1
    <3> QED BY <1>2, <3>2, <3>3 DEF h
  <2>2. CASE i \in 1..Len(e) /\ j > Len(e)
    <3>1. h[i] = e[i] /\ j - Len(e) \in 1..Len(g) /\ h[j] = g[j - Len(e)]
      BY <1>1, <1>5, <2>2
    <3>2. PICK l \in 1..i : e[l] = r
      BY <2>2, <3>1
    <3>3. l \in 1..Len(e)
      BY <1>1, <2>2
    <3> QED BY <1>2, <3>2, <3>3 DEF h
  <2>3. CASE i > Len(e) /\ j > Len(e)
    <3>1. i - Len(e) \in 1..Len(g) /\ j - Len(e) \in 1..Len(g) /\ i - Len(e) < j - Len(e)
      BY <1>1, <1>5, <2>3
    <3>2. h[i] = g[i - Len(e)] /\ h[j] = g[j - Len(e)]
      <4>1. ~ (i \in 1..Len(e)) /\ ~ (j \in 1..Len(e))
        BY <1>1, <2>3
      <4> QED BY <1>5, <4>1
    <3>3. PICK l \in 1..(i - Len(e)) : g[l] = r
      BY <3>1, <3>2 DEF Prior
    <3>4. l \in 1..Len(g) /\ Len(e) + l \in 1..i
      BY <1>1, <3>1
    <3>5. h[Len(e) + l] = g[l]
      BY <1>3, <3>4 DEF h
    <3> QED BY <3>3, <3>4, <3>5
  <2> QED BY <1>1, <1>5, <2>1, <2>2, <2>3
<1>7. ASSUME NEW r, Holds(e, r) \/ Holds(g, r) PROVE Holds(h, r)
  <2>1. CASE Holds(e, r)
    <3>1. PICK i \in 1..Len(e) : e[i] = r
      BY <2>1 DEF Holds
    <3>2. i \in 1..Len(h)
      BY <1>1, <3>1
    <3> HIDE DEF h
    <3> QED BY <1>2, <3>1, <3>2 DEF Holds, h
  <2>2. CASE Holds(g, r)
    <3>1. PICK i \in 1..Len(g) : g[i] = r
      BY <2>2 DEF Holds
    <3>2. Len(e) + i \in 1..Len(h)
      BY <1>1, <3>1
    <3>3. h[Len(e) + i] = r
      BY <1>3, <3>1
    <3> HIDE DEF h
    <3> QED BY <3>2, <3>3 DEF Holds
  <2> QED BY <1>7, <2>1, <2>2
<1>8. \A i \in 1..Len(h) : (\E j \in 1..Len(e) : h[i] = e[j]) \/ \E j \in 1..Len(g) : h[i] = g[j]
  <2> HIDE DEF h
  <2> QED BY <1>5
<1>9. e # <<>> => h # <<>> /\ h[1] = e[1]
  <2> SUFFICES ASSUME e # <<>> PROVE h # <<>> /\ h[1] = e[1]
    OBVIOUS
  <2>1. 1 \in 1..Len(e) /\ Len(e) \in Nat \ {0}
    BY Ends
  <2>2. Len(h) # 0
    BY <1>1, <2>1
  <2>3. Len(<<>>) = 0
    BY Nothing
  <2> HIDE DEF h
  <2> QED BY <1>2, <2>1, <2>2, <2>3 DEF h
<1>10. g # <<>> => h # <<>> /\ h[Len(h)] = g[Len(g)]
  <2> SUFFICES ASSUME g # <<>> PROVE h # <<>> /\ h[Len(h)] = g[Len(g)]
    OBVIOUS
  <2>1. Len(g) \in 1..Len(g) /\ Len(g) \in Nat \ {0}
    BY Ends
  <2>2. Len(h) # 0
    BY <1>1, <2>1
  <2>3. Len(<<>>) = 0
    BY Nothing
  <2>4. h[Len(e) + Len(g)] = g[Len(g)]
    BY <1>3, <2>1
  <2> HIDE DEF h
  <2> QED BY <1>1, <2>2, <2>3, <2>4 DEF h
<1> QED BY <1>1, <1>6, <1>7, <1>8, <1>9, <1>10, <1>11

\* The newest rows of a page are a page.
LEMMA Newest ==
    ASSUME NEW C, NEW R \in SUBSET LogRow, NEW e \in Seq(LogRow), Falls(e, C), Gapless(e, R, C), Prior(e, R),
           NEW m \in Nat, m <= Len(e), e # <<>> => m > 0
    PROVE  /\ SubSeq(e, 1, m) \in Seq(LogRow) /\ Falls(SubSeq(e, 1, m), C) /\ Prior(SubSeq(e, 1, m), R)
           /\ \A i \in 1..Len(SubSeq(e, 1, m)) : \E j \in 1..Len(e) : SubSeq(e, 1, m)[i] = e[j]
           /\ Gapless(SubSeq(e, 1, m), R, C)
<1>1. PICK h : h = SubSeq(e, 1, m)
  OBVIOUS
<1>2. h \in Seq(LogRow) /\ Len(h) = m /\ (\A i \in 1..m : h[i] = e[i]) /\ Len(e) \in Nat
  BY <1>1
<1>3. Falls(h, C)
  BY <1>2 DEF Falls
<1>4. \A i \in 1..Len(h) : \E j \in 1..Len(e) : h[i] = e[j]
  BY <1>2
<1>5. Prior(h, R)
  <2> SUFFICES ASSUME NEW i \in 1..Len(h), NEW j \in 1..Len(h), i < j, h[i].at <= h[j].at,
                      NEW r \in R, h[i].at <= r.at, r.at <= h[j].at
               PROVE  \E l \in 1..i : h[l] = r
    BY DEF Prior
  <2>1. i \in 1..Len(e) /\ j \in 1..Len(e) /\ h[i] = e[i] /\ h[j] = e[j]
    BY <1>2
  <2>2. PICK l \in 1..i : e[l] = r
    BY <2>1 DEF Prior
  <2>3. l \in 1..m
    BY <1>2
  <2> QED BY <1>2, <2>2, <2>3
<1>6. ASSUME h # <<>>, NEW r \in R, Spans(h, r) PROVE Holds(h, r) \/ <<"older", Ms(r.at)>> \in C
  <2>1. m \in 1..m /\ 1 \in 1..m /\ h[m] = e[m] /\ h[1] = e[1]
    BY <1>2, <1>6, Ends
  <2>2. Len(e) \in 1..Len(e) /\ 1 \in 1..Len(e) /\ m \in 1..Len(e) /\ e # <<>>
    BY <1>2, <2>1, Nothing
  <2>3. \A i \in 1..Len(e) : e[i].at \in Nat
    <3>1. \A i \in 1..Len(e) : e[i] \in LogRow
      OBVIOUS
    <3> QED BY <3>1 DEF LogRow
  <2>4. r.at \in Nat
    BY DEF LogRow
  <2>5. e[m].at <= r.at /\ r.at <= e[1].at
    BY <1>2, <1>6, <2>1 DEF Spans
  <2>6. ASSUME NEW k \in 1..Len(e), k > m, r.at <= e[k].at PROVE Holds(h, r)
    <3>1. e[m].at <= e[k].at
      BY <2>2, <2>3, <2>4, <2>5, <2>6
    <3>2. PICK l \in 1..m : e[l] = r
      BY <2>2, <2>5, <2>6, <3>1 DEF Prior
    <3> QED BY <1>2, <3>2 DEF Holds
  <2>7. CASE r.at < e[Len(e)].at
    <3>1. Len(e) # m
      BY <2>2, <2>3, <2>4, <2>5, <2>7
    <3> QED BY <1>2, <2>2, <2>3, <2>4, <2>6, <2>7, <3>1
  <2>8. CASE e[Len(e)].at <= r.at
    <3>1. Holds(e, r) \/ <<"older", Ms(r.at)>> \in C
      BY <2>2, <2>5, <2>8 DEF Gapless, Spans
    <3>2. ASSUME Holds(e, r) PROVE Holds(h, r)
      <4>1. PICK k \in 1..Len(e) : e[k] = r
        BY <3>2 DEF Holds
      <4>2. CASE k > m
        BY <2>3, <2>4, <2>6, <4>1, <4>2
      <4>3. CASE k <= m
        BY <1>2, <4>1, <4>3 DEF Holds
      <4> QED BY <4>2, <4>3
    <3> QED BY <3>1, <3>2
  <2> QED BY <2>2, <2>3, <2>4, <2>7, <2>8
<1> QED BY <1>1, <1>2, <1>3, <1>4, <1>5, <1>6 DEF Gapless

\* An answer joins the page at the end it was asked for, and fits there.
LEMMA ArriveStep ==
    ASSUME LogInv, TailInv, NEW ask \in asks, Arrive(ask)
    PROVE  TailInv'
<1>1. UNCHANGED <<log, clock, filter, burst, cursors>> /\ asks' = asks \ {ask}
  BY DEF Arrive
<1>2. \/ ask.served /\ entries' = Applied(ask.kind, ask.answer) /\ disturbed' = disturbed
      \/ entries' = entries /\ disturbed' = (disturbed \/ ask.kind = "fresh")
  BY DEF Arrive
<1>3. disturbed' \in BOOLEAN /\ burst' \in BOOLEAN
  BY <1>1, <1>2 DEF TailInv
<1> SUFFICES ASSUME ~ disturbed', ~ burst' PROVE PageInv'
  BY <1>3 DEF TailInv
<1>4. ~ disturbed /\ ~ burst
  BY <1>1, <1>2 DEF TailInv
<1>5. PageInv /\ Fits(ask) /\ asks' = {}
  BY <1>1, <1>4 DEF TailInv, PageInv
<1> DEFINE R == Matching(filter)
           Page(e) == /\ e \in Seq(LogRow) /\ Falls(e, cursors) /\ Prior(e, R)
                      /\ \A i \in 1..Len(e) : e[i].at \in 1..clock
                      /\ Gapless(e, R, cursors)
<1>6. SUFFICES Page(entries')
  <2>1. Matching(filter)' = R
    BY <1>1 DEF Matching
  <2>2. filter' \in Filters \cup {""}
    BY <1>1, <1>5 DEF PageInv
  <2>3. Falls(entries, cursors)' /\ Gapless(entries, R, cursors)' /\ Prior(entries, R)'
    BY <1>1, <1>6, <2>1 DEF Falls, Gapless, Prior, After, Holds, Spans
  <2> HIDE DEF R
  <2> QED BY <1>1, <1>5, <1>6, <2>1, <2>2, <2>3 DEF PageInv, R
<1>7. R \in SUBSET LogRow /\ \A r \in R : r.at \in Nat /\ r.at \in 1..clock
  <2> HIDE DEF Page
  <2>1. R \in SUBSET log
    BY DEF Matching
  <2>2. log \in SUBSET LogRow /\ \A r \in log : r.at \in 1..clock
    BY DEF LogInv
  <2>3. \A x \in 1..clock : x \in Nat
    BY DEF LogInv
  <2> HIDE DEF R
  <2> QED BY <2>1, <2>2, <2>3
<1>8. /\ entries \in Seq(LogRow) /\ Falls(entries, cursors) /\ clock \in Nat
      /\ \A i \in 1..Len(entries) : entries[i].at \in 1..clock
      /\ ask.kind # "fresh" => Gapless(entries, R, cursors) /\ Prior(entries, R)
      /\ ask.kind \in Kinds
  <2>1. entries \in Seq(LogRow) /\ Falls(entries, cursors) /\ clock \in Nat
        /\ \A i \in 1..Len(entries) : entries[i].at \in 1..clock
    BY <1>5 DEF PageInv, LogInv
  <2>2. ask.kind # "fresh" => Gapless(entries, R, cursors) /\ Prior(entries, R)
    BY <1>5 DEF PageInv
  <2>3. ask.kind \in Kinds
    BY <1>5 DEF Fits, Request
  <2> QED BY <2>1, <2>2, <2>3
<1>9. CASE entries' = entries /\ ask.kind # "fresh"
  BY <1>8, <1>9
<1>11. \A x \in 1..clock : x \in Nat /\ Ms(x) \in Nat /\ Ms(x) <= x
                            /\ \A y \in 1..clock : Ms(y) <= x => Ms(y) <= Ms(x)
  <2>1. \A x \in 1..clock : x \in Nat
    BY <1>8
  <2> QED BY <2>1, MsFacts
<1>10. CASE ask.served /\ entries' = Applied(ask.kind, ask.answer)
  <2>1. PICK A : A = ask.answer
    OBVIOUS
  <2>2. Answered(ask)
    BY <1>5, <1>10 DEF Fits
  <2>3. A \in Seq(LogRow) /\ ask.cursor \in Nat
    BY <1>5, <2>1 DEF Fits, Request
  <2>4. /\ Falling(A)
        /\ \A i \in 1..Len(A) : /\ A[i].at \in 1..clock
                                /\ ask.kind = "tail" => A[i].at > ask.cursor
                                /\ ask.kind = "older" => A[i].at < ask.cursor
        /\ A # <<>> => \A r \in R : Within(ask, r) => Holds(A, r)
    BY <2>1, <2>2 DEF Answered
  <2>9. Falls(A, cursors) /\ Prior(A, R)
    <3>1. \A i \in 1..Len(A) : A[i].at \in Nat
      BY <1>11, <2>4
    <3> HIDE DEF R
    <3> QED BY <2>4, <3>1 DEF Falling, Falls, After, Prior
  <2>5. CASE ask.kind = "fresh"
    <3>1. Gapless(A, R, cursors)
      BY <2>1, <2>4, <2>5 DEF Gapless, Within
    <3>2. entries' = A
      BY <1>10, <2>1, <2>5 DEF Applied
    <3> QED BY <2>3, <2>4, <2>9, <3>1, <3>2
  <2>6. CASE A = <<>> /\ ask.kind # "fresh"
    <3>1. A \o entries = entries /\ entries \o A = entries /\ Len(A) = 0
      BY <1>8, <2>6
    <3>2. CASE ask.kind = "older"
      BY <1>8, <1>10, <2>1, <3>1, <3>2 DEF Applied
    <3>3. CASE ask.kind = "tail"
      <4> DEFINE m == IF Len(A) + Len(entries) < MAX_ROWS THEN Len(A) + Len(entries) ELSE MAX_ROWS
      <4>1. entries' = SubSeq(entries, 1, m)
        BY <1>10, <2>1, <3>1, <3>3 DEF Applied
      <4>2. m \in Nat /\ m <= Len(entries) /\ (entries # <<>> => m > 0)
        BY <1>8, <3>1, Ends, AuditTrailConstants
      <4> HIDE DEF m, R
      <4>3. /\ entries' \in Seq(LogRow) /\ Falls(entries', cursors) /\ Prior(entries', R)
            /\ \A i \in 1..Len(entries') : \E j \in 1..Len(entries) : entries'[i] = entries[j]
            /\ Gapless(entries', R, cursors)
        BY <1>7, <1>8, <3>3, <4>1, <4>2, Newest
      <4> QED BY <1>8, <4>3
    <3> QED BY <1>8, <2>6, <3>2, <3>3 DEF Kinds
  <2>7. CASE A # <<>> /\ ask.kind = "tail"
    <3> DEFINE h == A \o entries
               m == IF Len(A) + Len(entries) < MAX_ROWS THEN Len(A) + Len(entries) ELSE MAX_ROWS
    <3>1. /\ entries # <<>> => 1 \in 1..Len(entries) /\ entries[1].at \in 1..clock /\ ask.cursor = Ms(entries[1].at)
          /\ <<"tail", ask.cursor>> \in cursors
      BY <1>5, <1>8, <2>7, Ends DEF Fits
    <3>2. entries = <<>> => ask.cursor = 0 /\ Len(entries) = 0 /\ h = A
      BY <1>5, <1>8, <2>3, <2>7, Nothing DEF Fits
    <3>3. \A i \in 1..Len(A), j \in 1..Len(entries) : After(A[i], entries[j], cursors)
      <4> TAKE i \in 1..Len(A), j \in 1..Len(entries)
      <4>1. entries # <<>> /\ 1 \in 1..Len(entries)
        BY <3>1, <3>2
      <4>2. PICK x, y, z : x = A[i].at /\ y = entries[1].at /\ z = entries[j].at
        OBVIOUS
      <4>3. x \in 1..clock /\ y \in 1..clock /\ z \in 1..clock /\ x > Ms(y) /\ <<"tail", Ms(y)>> \in cursors
        BY <1>8, <2>4, <2>7, <3>1, <4>1, <4>2
      <4>4. Ms(z) <= Ms(y)
        <5>1. z = y \/ y > z \/ Ms(y) = Ms(z)
          <6>1. j = 1 \/ 1 < j
            BY <1>8
          <6>2. ASSUME 1 < j PROVE After(entries[1], entries[j], cursors)
            BY <1>8, <4>1, <6>2 DEF Falls
          <6> QED BY <4>2, <6>1, <6>2 DEF After
        <5>2. /\ y \in Nat /\ z \in Nat /\ Ms(z) \in Nat /\ Ms(y) \in Nat /\ Ms(z) <= z
              /\ Ms(z) <= y => Ms(z) <= Ms(y)
          BY <1>11, <4>3
        <5> QED BY <5>1, <5>2
      <4>5. ASSUME ~ (x > z) PROVE Ms(x) = Ms(z) /\ Ms(z) = Ms(y)
        <5>1. /\ x \in Nat /\ y \in Nat /\ z \in Nat /\ Ms(x) \in Nat /\ Ms(y) \in Nat /\ Ms(z) \in Nat
              /\ Ms(x) <= x
              /\ Ms(x) <= z => Ms(x) <= Ms(z)
              /\ Ms(y) <= x => Ms(y) <= Ms(x)
          BY <1>11, <4>3
        <5> QED BY <4>3, <4>4, <4>5, <5>1
      <4> QED BY <4>2, <4>3, <4>5 DEF After
    <3>11. ASSUME NEW i \in 1..Len(A), NEW j \in 1..Len(entries), NEW r \in R,
                  A[i].at <= r.at, r.at <= entries[j].at
           PROVE  \E l \in 1..i : A[l] = r
      <4>1. A[i].at \in Nat /\ A[i].at > ask.cursor /\ r.at \in Nat /\ entries # <<>>
        BY <1>7, <1>11, <2>4, <2>7, <3>2
      <4>2. ask.cursor < r.at
        BY <2>3, <3>11, <4>1
      <4>3. Within(ask, r)
        BY <2>7, <3>11, <4>1, <4>2 DEF Within
      <4>4. PICK l \in 1..Len(A) : A[l] = r
        BY <2>4, <2>7, <4>3 DEF Holds
      <4>5. l <= i
        <5> SUFFICES ASSUME i < l PROVE FALSE
          BY <2>3
        <5>1. A[i].at > A[l].at
          BY <2>4 DEF Falling
        <5> QED BY <3>11, <4>1, <4>4, <5>1
      <4> QED BY <2>3, <4>4, <4>5
    <3>4. /\ h \in Seq(LogRow) /\ Falls(h, cursors) /\ Prior(h, R)
          /\ \A i \in 1..Len(h) : (\E j \in 1..Len(A) : h[i] = A[j]) \/ \E j \in 1..Len(entries) : h[i] = entries[j]
          /\ \A r : Holds(A, r) \/ Holds(entries, r) => Holds(h, r)
          /\ h # <<>> /\ h[1] = A[1]
          /\ entries # <<>> => h[Len(h)] = entries[Len(entries)]
      <4> HIDE DEF R
      <4> QED BY <1>8, <2>3, <2>7, <2>9, <3>3, <3>11, Joined
    <3>5. \A i \in 1..Len(h) : h[i].at \in 1..clock
      <4> HIDE DEF h
      <4> QED BY <1>8, <2>4, <3>4
    <3>6. ASSUME NEW r \in R, Spans(h, r) PROVE Holds(h, r) \/ <<"older", Ms(r.at)>> \in cursors
      <4>1. r.at \in Nat /\ r.at \in 1..clock /\ r.at <= A[1].at /\ 1 \in 1..Len(A) /\ A[1].at \in Nat
        <5> HIDE DEF h
        <5> QED BY <1>7, <2>3, <2>4, <2>7, <3>4, <3>6, Ends DEF Spans
      <4>2. CASE entries = <<>>
        <5>1. Within(ask, r)
          BY <2>1, <2>7, <3>2, <3>6, <4>1, <4>2 DEF Within, Spans
        <5> QED BY <2>4, <2>7, <3>4, <5>1
      <4>3. CASE entries # <<>> /\ r.at > ask.cursor
        <5>1. ask.cursor < r.at
          BY <2>3, <4>1, <4>3
        <5>2. Within(ask, r)
          BY <2>1, <2>7, <4>1, <4>3, <5>1 DEF Within
        <5> QED BY <2>4, <2>7, <3>4, <5>2
      <4>4. CASE entries # <<>> /\ ~ (r.at > ask.cursor)
        <5>1. r.at <= entries[1].at
          <6>1. entries[1].at \in Nat /\ Ms(entries[1].at) <= entries[1].at /\ ask.cursor = Ms(entries[1].at)
            BY <1>11, <3>1, <4>4
          <6> QED BY <2>3, <4>1, <4>4, <6>1
        <5>2. entries[Len(entries)].at <= r.at
          <6> HIDE DEF h
          <6> QED BY <3>4, <3>6, <4>4 DEF Spans
        <5>3. Holds(entries, r) \/ <<"older", Ms(r.at)>> \in cursors
          BY <1>8, <2>7, <4>4, <5>1, <5>2 DEF Gapless, Spans
        <5> QED BY <3>4, <5>3
      <4> QED BY <4>2, <4>3, <4>4
    <3>7. Gapless(h, R, cursors)
      BY <3>6 DEF Gapless
    <3>8. entries' = SubSeq(h, 1, m)
      BY <1>10, <2>1, <2>7 DEF Applied
    <3>9. m \in Nat /\ m <= Len(h) /\ m > 0
      <4>1. Len(A) \in Nat \ {0} /\ Len(entries) \in Nat /\ Len(h) = Len(A) + Len(entries)
        BY <1>8, <2>3, <2>7, Ends
      <4> HIDE DEF h
      <4> QED BY <4>1, AuditTrailConstants
    <3> HIDE DEF h, m, R
    <3>10. /\ entries' \in Seq(LogRow) /\ Falls(entries', cursors) /\ Prior(entries', R)
           /\ \A i \in 1..Len(entries') : \E j \in 1..Len(h) : entries'[i] = h[j]
           /\ Gapless(entries', R, cursors)
      BY <1>7, <3>4, <3>7, <3>8, <3>9, Newest
    <3> QED BY <3>5, <3>10
  <2>8. CASE A # <<>> /\ ask.kind = "older"
    <3> DEFINE h == entries \o A
    <3>1. /\ entries # <<>> /\ Len(entries) \in 1..Len(entries) /\ 1 \in 1..Len(entries)
          /\ entries[Len(entries)].at \in 1..clock /\ ask.cursor = Ms(entries[Len(entries)].at)
          /\ <<"older", ask.cursor>> \in cursors
      BY <1>5, <1>8, <2>8, Ends DEF Fits
    <3>2. \A i \in 1..Len(entries), j \in 1..Len(A) : entries[i].at > A[j].at
      <4> TAKE i \in 1..Len(entries), j \in 1..Len(A)
      <4>1. PICK x, y, z : x = entries[i].at /\ y = entries[Len(entries)].at /\ z = A[j].at
        OBVIOUS
      <4>2. x \in 1..clock /\ y \in 1..clock /\ z \in 1..clock /\ z < Ms(y)
        BY <1>8, <2>4, <2>8, <3>1, <4>1
      <4>3. x = y \/ x > y \/ Ms(x) = Ms(y)
        <5>1. i = Len(entries) \/ i < Len(entries)
          BY <1>8
        <5> QED BY <1>8, <3>1, <4>1, <5>1 DEF Falls, After
      <4>4. x \in Nat /\ y \in Nat /\ z \in Nat /\ Ms(x) \in Nat /\ Ms(y) \in Nat /\ Ms(x) <= x /\ Ms(y) <= y
        BY <1>11, <4>2
      <4> QED BY <4>1, <4>2, <4>3, <4>4
    <3>9. /\ \A i \in 1..Len(entries), j \in 1..Len(A) : After(entries[i], A[j], cursors)
          /\ \A i \in 1..Len(entries), j \in 1..Len(A) : ~ (entries[i].at <= A[j].at)
      <4>1. \A i \in 1..Len(entries) : entries[i].at \in Nat
        BY <1>8, <1>11
      <4>2. \A i \in 1..Len(A) : A[i].at \in Nat
        BY <1>11, <2>4
      <4> QED BY <3>2, <4>1, <4>2 DEF After
    <3>3. /\ h \in Seq(LogRow) /\ Falls(h, cursors) /\ Prior(h, R)
          /\ \A i \in 1..Len(h) : (\E j \in 1..Len(entries) : h[i] = entries[j]) \/ \E j \in 1..Len(A) : h[i] = A[j]
          /\ \A r : Holds(entries, r) \/ Holds(A, r) => Holds(h, r)
          /\ h[1] = entries[1]
          /\ h # <<>> /\ h[Len(h)] = A[Len(A)]
      <4> HIDE DEF R
      <4> QED BY <1>8, <2>3, <2>8, <2>9, <3>1, <3>9, Joined
    <3> HIDE DEF h
    <3>4. \A i \in 1..Len(h) : h[i].at \in 1..clock
      BY <1>8, <2>4, <3>3
    <3>5. ASSUME NEW r \in R, Spans(h, r) PROVE Holds(h, r) \/ <<"older", Ms(r.at)>> \in cursors
      <4>1. r.at \in Nat /\ A[Len(A)].at <= r.at /\ r.at <= entries[1].at
        BY <1>7, <3>3, <3>5 DEF Spans
      <4>2. CASE r.at < ask.cursor
        <5>1. Within(ask, r)
          BY <2>1, <2>8, <4>1, <4>2 DEF Within
        <5> QED BY <2>4, <2>8, <3>3, <5>1
      <4>3. CASE ~ (r.at < ask.cursor)
        <5>1. CASE entries[Len(entries)].at <= r.at
          <6>1. Holds(entries, r) \/ <<"older", Ms(r.at)>> \in cursors
            BY <1>8, <2>8, <3>1, <4>1, <5>1 DEF Gapless, Spans
          <6> QED BY <3>3, <6>1
        <5>2. CASE ~ (entries[Len(entries)].at <= r.at)
          <6>1. PICK x, y : x = r.at /\ y = entries[Len(entries)].at
            OBVIOUS
          <6>2. x \in 1..clock /\ y \in 1..clock
            BY <1>7, <3>1, <6>1
          <6>3. /\ x \in Nat /\ y \in Nat /\ Ms(x) \in Nat /\ Ms(y) \in Nat /\ Ms(x) <= x
                /\ Ms(x) <= y => Ms(x) <= Ms(y)
                /\ Ms(y) <= x => Ms(y) <= Ms(x)
            BY <1>11, <6>2
          <6>4. ~ (x < Ms(y)) /\ ~ (y <= x)
            BY <3>1, <4>3, <5>2, <6>1
          <6>5. Ms(x) = Ms(y)
            BY <6>3, <6>4
          <6> QED BY <3>1, <6>1, <6>5
        <5> QED BY <5>1, <5>2
      <4> QED BY <4>2, <4>3
    <3>6. Gapless(h, R, cursors)
      BY <3>5 DEF Gapless
    <3>7. entries' = h
      BY <1>10, <2>1, <2>8 DEF Applied, h
    <3> QED BY <3>3, <3>4, <3>6, <3>7
  <2> QED BY <1>8, <2>5, <2>6, <2>7, <2>8 DEF Kinds
<1> HIDE DEF Page
<1> QED BY <1>2, <1>9, <1>10

\* One case per action.
LEMMA TailStep ==
    ASSUME LogInv, TailInv, [AuditTrailNext]_auditVars
    PROVE  TailInv'
<1>1. LogInv' /\ clock <= clock' /\ \A r \in log' : r \in log \/ r.at > clock
  BY LogStep
<1>2. ASSUME UNCHANGED pageVars PROVE TailInv'
  BY <1>1, <1>2, PageKept
<1>3. CASE \/ \E c \in Categories : record(c)
           \/ NextDay \/ handleAuditRetentionSweep
           \/ \E retention \in {"same_day", "thirty_days", "never", "all"} : flush(retention)
           \/ recordFlush \/ UNCHANGED auditVars
  BY <1>2, <1>3 DEF record, NextDay, handleAuditRetentionSweep, flush, recordFlush, auditVars, pageVars
<1>4. CASE Poll \/ loadOlder \/ onVisibility \/ \E f \in Filters : loadFresh(f)
  BY <1>4, RequestStep
<1>5. CASE \E ask \in asks : Answer(ask) \/ Arrive(ask)
  BY <1>5, AnswerStep, ArriveStep
<1> QED BY <1>3, <1>4, <1>5 DEF AuditTrailNext

\* The page begins with no row and no request.
LEMMA TailStart == AuditTrailInit => LogInv /\ TailInv
<1> SUFFICES ASSUME AuditTrailInit PROVE LogInv /\ TailInv
  OBVIOUS
<1>1. LogInv
  BY FS_EmptySet DEF AuditTrailInit, LogInv
<1>2. <<>> \in Seq(LogRow) /\ 1..Len(<<>>) = {}
  BY Nothing
<1>3. /\ Falls(entries, cursors) /\ Gapless(entries, Matching(filter), cursors) /\ Prior(entries, Matching(filter))
      /\ asks = {} /\ filter = "" /\ entries = <<>>
  BY <1>2 DEF AuditTrailInit, Falls, Gapless, Prior
<1>4. PageInv
  BY <1>2, <1>3 DEF PageInv
<1> QED BY <1>1, <1>4 DEF TailInv, AuditTrailInit

(* A page that never had two requests in flight, whose reloads came through and  *)
(* that never met more than a page of news in one poll shows a stretch of the    *)
(* log, newest first and none left out in between but for what a cursor cut to   *)
(* its millisecond repeats or passes over, however many writes, sweeps, flushes  *)
(* and polls there were (admin/logs/+page.svelte:64).                            *)
THEOREM TailIsFaithful == AuditTrailSpec => []TailFaithful
<1>1. LogInv /\ TailInv => TailFaithful
  <2> SUFFICES ASSUME LogInv, TailInv, ~ disturbed, ~ burst PROVE TailFaithful
    BY DEF TailFaithful
  <2>1. PageInv
    BY DEF TailInv
  <2>2. entries \in Seq(LogRow) /\ DOMAIN entries = 1..Len(entries)
    <3>1. entries \in Seq(LogRow)
      BY <2>1 DEF PageInv
    <3> QED BY <3>1
  <2>3. \A i, j \in DOMAIN entries : i < j =>
            \/ entries[i].at > entries[j].at
            \/ /\ Ms(entries[i].at) = Ms(entries[j].at)
               /\ <<"tail", Ms(entries[j].at)>> \in cursors
    BY <2>1, <2>2 DEF PageInv, Falls, After
  <2>4. ASSUME asks = {}, entries # <<>>, NEW r \in Matching(filter),
               Last(entries).at <= r.at, r.at <= Head(entries).at
        PROVE  r \in ToSet(entries) \/ <<"older", Ms(r.at)>> \in cursors
    <3>1. Gapless(entries, Matching(filter), cursors)
      BY <2>1, <2>4 DEF PageInv
    <3>2. Spans(entries, r)
      BY <2>4 DEF Spans, Last, Head
    <3>3. Holds(entries, r) \/ <<"older", Ms(r.at)>> \in cursors
      BY <2>4, <3>1, <3>2 DEF Gapless
    <3> QED BY <2>2, <3>3 DEF Holds, ToSet
  <2> QED BY <2>3, <2>4 DEF TailFaithful
<1>2. LogInv /\ TailInv /\ [AuditTrailNext]_auditVars => (LogInv /\ TailInv)'
  BY LogStep, TailStep
<1> QED BY <1>1, <1>2, TailStart, PTL DEF AuditTrailSpec

\* Only a flush that is still under way has left no mark, or one whose row was lost.
FlushInv == flushes \in Nat /\ flushed \in Nat /\ traceable \in BOOLEAN /\ FlushLeavesTrace

(* Whatever is flushed, and whatever is swept or flushed afterwards, the log      *)
(* tells of it: the row a flush writes of itself is of a class no sweep removes   *)
(* (audit-log.service.ts:112).                                                    *)
THEOREM FlushesLeaveTraces == AuditTrailSpec => []FlushLeavesTrace
<1>1. AuditTrailInit => FlushInv
  <2> SUFFICES ASSUME AuditTrailInit PROVE FlushInv
    OBVIOUS
  <2>1. flushes = 0 /\ flushed = 0 /\ traceable = TRUE
    BY DEF AuditTrailInit
  <2>2. ~ (flushed > 0) /\ flushes \in Nat /\ flushed \in Nat
    BY <2>1
  <2> QED BY <2>1, <2>2 DEF FlushInv, FlushLeavesTrace
<1>2. FlushInv /\ [AuditTrailNext]_auditVars => FlushInv'
  <2> SUFFICES ASSUME FlushInv, [AuditTrailNext]_auditVars PROVE FlushInv'
    OBVIOUS
  <2>1. ASSUME UNCHANGED <<flushes, flushed, traceable>>,
               \A r \in log : r.category = RecordedAs => r \in log'
        PROVE  FlushInv'
    BY <2>1 DEF FlushInv, FlushLeavesTrace
  <2>2. ASSUME NEW c \in Categories, record(c) PROVE FlushInv'
    BY <2>1, <2>2 DEF record
  <2>3. CASE handleAuditRetentionSweep
    <3>1. \A r \in log : r.category = RecordedAs => Class(r) = "never"
      BY DEF Class, AUDIT_DEFAULT_RETENTION, RecordedAs
    <3>2. \A r \in log : r.category = RecordedAs => r \in log'
      BY <2>3, <3>1 DEF handleAuditRetentionSweep, Swept
    <3> QED BY <2>1, <2>3, <3>2 DEF handleAuditRetentionSweep
  <2>4. ASSUME NEW x, flush(x) PROVE FlushInv'
    BY <2>4 DEF flush, FlushInv, FlushLeavesTrace
  <2>5. CASE recordFlush
    <3>1. flushes' \in Nat /\ flushed' \in Nat /\ traceable' \in BOOLEAN
      <4>1. flushes' \in Nat /\ flushed' \in Nat
        BY <2>5 DEF recordFlush, FlushInv
      <4>2. traceable' \in BOOLEAN
        BY <2>5 DEF recordFlush, FlushInv
      <4> QED BY <4>1, <4>2
    <3>2. CASE log' = log \cup {Row(RecordedAs, clock')}
      <4>1. Row(RecordedAs, clock').category = RecordedAs
        BY DEF Row
      <4> QED BY <3>1, <3>2, <4>1 DEF FlushInv, FlushLeavesTrace
    <3>3. CASE ~ traceable'
      BY <3>1, <3>3 DEF FlushInv, FlushLeavesTrace
    <3> QED BY <2>5, <3>2, <3>3 DEF recordFlush
  <2>6. CASE NextDay \/ Poll \/ loadOlder \/ onVisibility \/ UNCHANGED auditVars
    BY <2>1, <2>6 DEF NextDay, Poll, loadOlder, onVisibility, auditVars
  <2>7. ASSUME NEW f, loadFresh(f) PROVE FlushInv'
    BY <2>1, <2>7 DEF loadFresh
  <2>8. ASSUME NEW a, Answer(a) \/ Arrive(a) PROVE FlushInv'
    BY <2>1, <2>8 DEF Answer, Arrive
  <2> QED BY <2>2, <2>3, <2>4, <2>5, <2>6, <2>7, <2>8 DEF AuditTrailNext
<1>3. FlushInv => FlushLeavesTrace
  BY DEF FlushInv
<1> QED BY <1>1, <1>2, <1>3, PTL DEF AuditTrailSpec

(* What the administrator's panels show is so: the processes listed are the ones  *)
(* that are up, and the log page is a faithful stretch of a log that tells of its *)
(* own flushes (telemetry.repository.ts:125-160, audit-log.service.ts:112).       *)
THEOREM PanelsAreTrue == TelemetrySpec /\ AuditTrailSpec => []PanelsTellTruth
<1>1. ListedIsUp /\ FlushLeavesTrace /\ TailFaithful => PanelsTellTruth
  BY DEF PanelsTellTruth
<1> QED BY <1>1, HeartbeatsTell, TailIsFaithful, FlushesLeaveTraces, PTL
=============================================================================
