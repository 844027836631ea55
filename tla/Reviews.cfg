CONSTANTS
  Jobs = {j1, j2, j3, j4}
  None = None
  Plan <- SerpImagePlan
  TestMode = TRUE
  SequentialMode = FALSE
  FirstAuto = {TRUE, FALSE}
  Requests = {"approve", "approve_serp", "approve_images", "next", "start_all", "force_fail", "force_complete"}
  Careful = TRUE
  Faults = {"broker"}
  MaxFaults = 1
  StaleAfter = 1
  StepTimeout = 2
SPECIFICATION Spec
SYMMETRY Symmetry
INVARIANT ReviewRespected
INVARIANT QuietMeansReview
INVARIANT PageEnds
PROPERTY ApprovalKept
CHECK_DEADLOCK FALSE
