SPECIFICATION Spec
CONSTANTS
  Events = {e1}
  Deliveries = {d1, d2}
  Owners = {o1}
  Plans = {"growth"}
  Codes = {c1}
  None = None
INVARIANT AcknowledgedIsApplied
CHECK_DEADLOCK FALSE
