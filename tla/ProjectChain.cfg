CONSTANTS
  NPages = 3
  MaxJobs = 2
  MaxTasks = 3
  Approval = TRUE
  Requests = {"start", "stop", "resume", "retry", "approve", "reset"}
  MaxRequests = 4
  Careful = TRUE
  Faults = {"infra", "error"}
  MaxFaults = 2
SPECIFICATION FairSpec
INVARIANT TypeOK
INVARIANT OneTaskPerPage
INVARIANT StopsAfterCurrentPage
INVARIANT CompletedHasSite
PROPERTY ProjectRests
PROPERTY RunsPlan
CHECK_DEADLOCK FALSE
