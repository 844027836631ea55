CONSTANTS
  Jobs = {j1, j2}
  None = None
  Plan <- LlmPlan
  TestMode = FALSE
  SequentialMode = FALSE
  FirstAuto = {FALSE}
  Requests = {"beat", "next", "start_all", "retry", "force_fail"}
  Careful = TRUE
  Faults = {"hard_limit", "crash", "broker"}
  MaxFaults = 1
  StaleAfter = 1
  StepTimeout = 2
SPECIFICATION FairSpec
INVARIANT TypeOK
INVARIANT AtMostOneArticle
PROPERTY WorkKept
PROPERTY DeliveryEnds
PROPERTY PendingStarts
PROPERTY OrphanCleaned
CHECK_DEADLOCK FALSE
