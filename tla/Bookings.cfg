SPECIFICATION Spec
CONSTANTS
  Visitors = {v1, v2}
  Slots = {s1}
  NoSlot = NoSlot
INVARIANTS NoDoubleBooking
CHECK_DEADLOCK FALSE
