SPECIFICATION Spec
CONSTANTS
  Requests = {r1, r2}
  Kinds = {"provision", "teardown"}
  Sweeps = {s1}
  Meters = {}
  Switches = {}
  BackendFails = TRUE
  Faults = FALSE
  MaxServices = 2
  None = None
PROPERTIES TornDownStaysDown
CHECK_DEADLOCK FALSE
