CONSTANTS
  Jobs = {j1, j2}
  None = None
  Plan <- SerpPlan
  TestMode = FALSE
  SequentialMode = FALSE
  FirstAuto = {FALSE}
  Requests = {"approve_serp"}
  Careful = FALSE
  Faults = {}
  MaxFaults = 0
  StaleAfter = 1
  StepTimeout = 2
SPECIFICATION Spec
PROPERTY ApprovalKept
CHECK_DEADLOCK FALSE
