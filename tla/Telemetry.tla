----------------------------- MODULE Telemetry ------------------------------
(***************************************************************************)
(* The heartbeat every process publishes to Redis, which the admin panel    *)
(* lists and the GPU sweep takes for a sign of life.  One unit of time is   *)
(* one heartbeat interval: sampling and publishing end within it.           *)
(***************************************************************************)
EXTENDS Integers

CONSTANTS Instances,    \* processes of the media role, by instance id
          TTL,          \* HEARTBEAT_TTL_SECONDS in intervals: 60 s of 15 s
          MaxMoment,    \* bound on the clock
          MaxMisses     \* bound on failed publishes

ASSUME TelemetryConstants == TTL \in Nat /\ TTL > 1 /\ MaxMoment \in Nat /\ MaxMisses \in Nat

VARIABLES
    process,    \* "down", "up", or "stopping": torn down and not yet gone
    armed,      \* the interval: its next firing is due
    sampling,   \* a publish is under way
    key,        \* what is left of the key's time, 0 when there is none
    published,  \* history: published since the start
    misses,     \* history: failed publishes since the last good one
    downFor,    \* history: how long the process is gone
    clean,      \* history: torn down with no publish under way
    moment, losses

telemetryVars == <<process, armed, sampling, key, published, misses, downFor, clean, moment, losses>>

Set(f, i, v) == [f EXCEPT ![i] = v]

\* startHeartbeat publishes at once and sets the interval.
startHeartbeat(i) ==
    /\ process[i] = "down"
    /\ process' = Set(process, i, "up") /\ sampling' = Set(sampling, i, TRUE)
    /\ published' = Set(published, i, FALSE) /\ misses' = Set(misses, i, 0)
    /\ downFor' = Set(downFor, i, 0) /\ clean' = Set(clean, i, FALSE)
    /\ UNCHANGED <<armed, key, moment, losses>>

\* The interval fires: the host is sampled; a host without a GPU tool is no error.
sample(i) ==
    /\ process[i] = "up" /\ armed[i] /\ ~ sampling[i]
    /\ sampling' = Set(sampling, i, TRUE) /\ armed' = Set(armed, i, FALSE)
    /\ UNCHANGED <<process, key, published, misses, downFor, clean, moment, losses>>

setKey(i) == key' = Set(key, i, TTL)

\* The write follows the sample, also in a process that is torn down meanwhile:
\* getClient opens a new connection.
publish(i) ==
    /\ sampling[i] /\ process[i] # "down"
    /\ setKey(i)
    /\ sampling' = Set(sampling, i, FALSE)
    /\ published' = Set(published, i, TRUE) /\ misses' = Set(misses, i, 0)
    /\ UNCHANGED <<process, armed, downFor, clean, moment, losses>>

\* Best effort: an error is logged, and the next interval tries again.
publishFails(i) ==
    /\ sampling[i] /\ losses < MaxMisses
    /\ sampling' = Set(sampling, i, FALSE)
    /\ misses' = Set(misses, i, misses[i] + 1) /\ losses' = losses + 1
    /\ UNCHANGED <<process, armed, key, published, downFor, clean, moment>>

\* Mutant: the key is left to its TTL.
LeavesKey(i) ==
    /\ process[i] = "up" /\ process' = Set(process, i, "stopping")
    /\ armed' = Set(armed, i, FALSE) /\ clean' = Set(clean, i, ~ sampling[i])
    /\ UNCHANGED <<sampling, key, published, misses, downFor, moment, losses>>

\* SIGTERM: the interval is cleared and the key deleted.
teardown(i) ==
    /\ process[i] = "up" /\ process' = Set(process, i, "stopping")
    /\ armed' = Set(armed, i, FALSE) /\ key' = Set(key, i, 0)
    /\ clean' = Set(clean, i, ~ sampling[i])
    /\ UNCHANGED <<sampling, published, misses, downFor, moment, losses>>

\* The process ends, after its teardown or killed.
ProcessEnds(i) ==
    /\ process[i] # "down" /\ process' = Set(process, i, "down")
    /\ armed' = Set(armed, i, FALSE) /\ sampling' = Set(sampling, i, FALSE)
    /\ UNCHANGED <<key, published, misses, downFor, clean, moment, losses>>

\* An interval passes, in which every publish under way ends; keys grow older in Redis.
IntervalPasses ==
    /\ moment < MaxMoment /\ moment' = moment + 1
    /\ \A i \in Instances : ~ sampling[i] /\ ~ armed[i]
    /\ armed' = [i \in Instances |-> process[i] = "up"]
    /\ key' = [i \in Instances |-> IF key[i] = 0 THEN 0 ELSE key[i] - 1]
    /\ downFor' = [i \in Instances |-> IF process[i] = "down" THEN downFor[i] + 1 ELSE 0]
    /\ UNCHANGED <<process, sampling, published, misses, clean, losses>>

\* The panel lists the keys it finds; the sweep takes one for a worker that is online,
\* and an unreachable Redis for one too.
getInstances == {i \in Instances : key[i] > 0}
isWorkerOnline(reachable) == reachable => getInstances # {}

TelemetryInit ==
    /\ process = [i \in Instances |-> "down"] /\ armed = [i \in Instances |-> FALSE]
    /\ sampling = [i \in Instances |-> FALSE] /\ key = [i \in Instances |-> 0]
    /\ published = [i \in Instances |-> FALSE] /\ misses = [i \in Instances |-> 0]
    /\ downFor = [i \in Instances |-> 0] /\ clean = [i \in Instances |-> FALSE]
    /\ moment = 0 /\ losses = 0

TelemetryNext ==
    \/ \E i \in Instances :
        \/ startHeartbeat(i) \/ sample(i) \/ publish(i) \/ publishFails(i)
        \/ teardown(i) \/ ProcessEnds(i)
    \/ IntervalPasses

TelemetrySpec == TelemetryInit /\ [][TelemetryNext]_telemetryVars

-----------------------------------------------------------------------------
(* A slow or failed tick does not blank the panel: a process that is up and has    *)
(* published stays listed, and its worker online to the sweep, until TTL - 1        *)
(* publishes in a row have failed.                                                 *)
UpIsListed ==
    \A i \in Instances : process[i] = "up" /\ published[i] /\ misses[i] < TTL - 1 =>
        i \in getInstances /\ \A reachable \in BOOLEAN : isWorkerOnline(reachable)

(* A ghost is short-lived: a process that has been gone for the TTL is off the      *)
(* panel, also when it was killed, or published once more after its teardown.       *)
GhostsExpire == \A i \in Instances : process[i] = "down" /\ downFor[i] >= TTL => i \notin getInstances

(* A clean shutdown leaves no ghost: once torn down with no publish under way, the  *)
(* process is off the panel at once and stays off until it starts again.            *)
CleanExitUnlisted == \A i \in Instances : clean[i] => i \notin getInstances

(* The panel lists the processes that are up, and no others for longer than the     *)
(* key lives (telemetry.repository.ts:125-160).                                     *)
ListedIsUp == UpIsListed /\ GhostsExpire /\ CleanExitUnlisted
=============================================================================
