CONSTANTS
  Jobs = {j1}
  None = None
  Plan <- SerpPlan
  TestMode = FALSE
  SequentialMode = FALSE
  FirstAuto = {FALSE}
  Requests = {}
  Careful = TRUE
  Faults = {"crash"}
  MaxFaults = 1
  StaleAfter = 1
  StepTimeout = 2
SPECIFICATION Spec
INVARIANT ReviewRespected
CHECK_DEADLOCK FALSE
