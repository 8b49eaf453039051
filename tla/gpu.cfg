SPECIFICATION FairSpec
CONSTANTS
  Sweepers = {s1}
  Admins = {}
  Enabled = TRUE
  Provider = "jarvislabs"
  Watchdog = TRUE
  IdleShutdown = 2
  StartTimeout = 1
  PendingThreshold = 2
  MaxPendingAge = 2
  StuckAfter = 2
  CheckInterval = 2
  HoldFor = 2
  FailureGrace = 1
  Cap = 3
  Faults = {"crash", "refuse", "lost", "blip", "unreadable", "reassign", "worker", "poll", "garbled", "jobFail"}
  MaxJobs = 2
  MaxEvents = 3
INVARIANT TypeOK
PROPERTY Quiesces
