CONSTANTS
  Jobs = {j1, j2, j3}
  None = None
  Plan <- AboutPlan
  TestMode = TRUE
  SequentialMode = FALSE
  FirstAuto = {FALSE}
  Requests = {"next", "start_all", "retry", "approve", "force_complete", "rerun"}
  Careful = FALSE
  Faults = {"crash", "database", "broker"}
  MaxFaults = 1
  StaleAfter = 1
  StepTimeout = 2
SPECIFICATION Spec
SYMMETRY Symmetry
INVARIANT PendingHasJob
PROPERTY ArticleBehindStatus
CHECK_DEADLOCK FALSE
