SPECIFICATION Spec
CONSTANTS
  Kinds = {"llm", "domain", "whatsapp", "sms"}
  Calls = {c1, c2, c3}
  Works = {w1}
  Stamps = {1}
  Costs = {1, 2}
  Estimate = 2
  TopUps = {1, 2}
  MaxCredit = 2
  None = None
SYMMETRY CallSymmetry
INVARIANTS
  TypeOK
  WorkAndChargeAgree
  
PROPERTIES
  ImplementsLedger
CHECK_DEADLOCK FALSE
