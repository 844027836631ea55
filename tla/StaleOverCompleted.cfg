CONSTANTS
  Jobs = {j1}
  None = None
  Plan <- AboutPlan
  TestMode = FALSE
  SequentialMode = FALSE
  FirstAuto = {FALSE}
  Requests = {"beat"}
  Careful = TRUE
  Faults = {}
  MaxFaults = 0
  StaleAfter = 1
  StepTimeout = 2
SPECIFICATION Spec
PROPERTY CompletedStays
CHECK_DEADLOCK FALSE
