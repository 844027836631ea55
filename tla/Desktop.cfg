CONSTANTS
  alone = alone
  other = other
  Projects = {alone, other}
  NPages <- Blueprints
  MaxRuns = 2
  MaxTasks = 3
  Concurrency = {1, 2}
  QueueSize = 1
  Requests = {"start", "stop", "resume", "retry", "reset", "subscribe", "stale"}
  MaxRequests = 1
  Faults = {"restart", "error", "timeout", "infra"}
  MaxFaults = 1
SPECIFICATION MCSpec
INVARIANT TypeOK
INVARIANT OneThread
INVARIANT GeneratingServed
INVARIANT PagesTried
INVARIANT StreamTold
PROPERTY PlacesGoRound
CHECK_DEADLOCK FALSE
