CONSTANTS
  Jobs = {j1, j2}
  None = None
  Plan <- ImagePlan
  TestMode = FALSE
  SequentialMode = FALSE
  FirstAuto = {FALSE}
  Requests = {"rerun"}
  Careful = TRUE
  Faults = {}
  MaxFaults = 0
  StaleAfter = 1
  StepTimeout = 2
SPECIFICATION Spec
INVARIANT QuietMeansReview
CHECK_DEADLOCK FALSE
