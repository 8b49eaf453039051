---------------------------- MODULE MCOperations ----------------------------
(***************************************************************************)
(* What an administrator operates: the GPU box, the queues and the          *)
(* processes that consume them, the machines' telemetry and the audit log.  *)
(* The four share no variable; a behaviour follows one of them, its focus.  *)
(***************************************************************************)
EXTENDS GpuLifecycle, JobQueue, AuditTrail

VARIABLE focus

operationVars == <<focus, vars, jobVars, telemetryVars, auditVars>>

Process(workers, included, excluded) ==
    [workers |-> workers, included |-> included, excluded |-> excluded]

\* An api and ingest host, the GPU box, and a second ingest host without clustering;
\* then with the selfie queue taken from the box by the api host.
MCDeployments ==
    LET second == Process({"ingest"}, {}, {"facialRecognition"})
    IN {("h1" :> Process({"api", "ingest"}, {}, {})) @@ ("h2" :> Process({"media"}, {}, {}))
            @@ ("h3" :> second),
        ("h1" :> Process({"api", "ingest"}, {"selfie"}, {})) @@ ("h2" :> Process({"media"}, {}, {"selfie"}))
            @@ ("h3" :> second)}

\* Both are what the queues' theorem asks of a deployment.
ASSUME MCArranged == \A e \in MCDeployments : Arranged(e)

MCNameOf == [j \in Jobs |-> "FaceRecognize"]

\* Jobs and Instances are the same two model values.
MCSymmetry == Permutations(Jobs)

OperationsInit ==
    /\ focus \in {"gpu", "queues", "telemetry", "audit"}
    /\ Init /\ JobQueueInit /\ TelemetryInit /\ AuditTrailInit
    /\ focus # "gpu" => st.mid = "live"
    /\ focus # "queues" => env["h1"].included = {}

OperationsNext ==
    /\ UNCHANGED focus
    /\ \/ focus = "gpu" /\ Next /\ UNCHANGED <<jobVars, telemetryVars, auditVars>>
       \/ focus = "queues" /\ JobQueueNext /\ UNCHANGED <<vars, telemetryVars, auditVars>>
       \/ focus = "telemetry" /\ TelemetryNext /\ UNCHANGED <<vars, jobVars, auditVars>>
       \/ focus = "audit" /\ AuditTrailNext /\ UNCHANGED <<vars, jobVars, telemetryVars>>

OperationsSpec == OperationsInit /\ [][OperationsNext]_operationVars
=============================================================================
