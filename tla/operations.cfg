SPECIFICATION OperationsSpec
CONSTANTS
    Sweepers = {s1}
    Admins = {a1}
    Enabled = TRUE
    Provider = "webhook"
    Watchdog = FALSE
    IdleShutdown = 2
    StartTimeout = 1
    PendingThreshold = 2
    MaxPendingAge = 2
    StuckAfter = 2
    CheckInterval = 2
    HoldFor = 2
    FailureGrace = 2
    Cap = 3
    Faults = {"crash", "refuse", "lost", "blip", "unreadable", "reassign", "worker", "poll", "garbled", "jobFail"}
    MaxJobs = 1
    MaxEvents = 3
    Hosts = {"h1", "h2", "h3"}
    Deployments <- MCDeployments
    Jobs = {x1, x2}
    NameOf <- MCNameOf
    MaxFaults = 2
    MaxActions = 1
    Instances = {x1, x2}
    TTL = 4
    MaxMoment = 7
    MaxMisses = 4
    Categories = {"gpu", "system"}
    Filters = {"", "gpu"}
    PAGE_SIZE = 1
    MAX_ROWS = 2
    KeepDays = 1
    Micros = 2
    MaxWrites = 2
    MaxAsks = 2
    MaxDay = 3
    MaxFlushes = 1
SYMMETRY MCSymmetry
INVARIANTS PredictionMatchesSweep CountdownInv QueuesServedOnce JobsAccounted PanelsTellTruth
PROPERTY StopsOnlyWhenEarned
CHECK_DEADLOCK FALSE
