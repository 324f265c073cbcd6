SPECIFICATION MCSpec
CONSTANTS
  Events = {e1, e2}
  Deliveries = {d1, d2}
  Owners = {o1, o2}
  Plans = {"growth"}
  Codes = {c1}
  None = None
SYMMETRY Symmetry
INVARIANTS TypeOK CreditedOnce ActiveIsPaid LostOnlyByFailure
CHECK_DEADLOCK FALSE
