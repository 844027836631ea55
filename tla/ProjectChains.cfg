CONSTANTS
  NPages = 1
  MaxJobs = 3
  MaxTasks = 2
  Approval = FALSE
  Requests = {"stop", "resume", "retry", "reset", "requeue", "stale"}
  MaxRequests = 2
  Careful = FALSE
  Faults = {"crash", "lost", "error", "broker"}
  MaxFaults = 1
SPECIFICATION Spec
INVARIANT ChainAccounted
CHECK_DEADLOCK FALSE
