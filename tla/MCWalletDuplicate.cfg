SPECIFICATION Spec
CONSTANTS
  Kinds = {"whatsapp"}
  Calls = {c1, c2}
  Works = {w1}
  Stamps = {1, 2}
  Costs = {1}
  Estimate = 2
  TopUps = {2}
  MaxCredit = 2
  None = None
INVARIANT DuplicateWasSent
CHECK_DEADLOCK FALSE
