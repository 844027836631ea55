CONSTANTS
  NPages = 2
  MaxJobs = 2
  MaxTasks = 2
  Approval = FALSE
  Requests = {"stale"}
  MaxRequests = 1
  Careful = TRUE
  Faults = {}
  MaxFaults = 1
SPECIFICATION Spec
INVARIANT ChainAlive
CHECK_DEADLOCK FALSE
