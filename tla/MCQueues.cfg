SPECIFICATION MCSpec
CONSTANTS
  Processors = {p1, p2}
  Triggers = {"owner_request", "ci_failure"}
  MaxJobs = 3
  Credit = 1
  Cap = 0
  AutoApprove = TRUE
  None = None
SYMMETRY Symmetry
INVARIANTS
  TypesOK
  ParentsFirst
  RiskyWaitsForOwner
  
  OverspendBounded
CHECK_DEADLOCK FALSE
