CONSTANTS
  Tenants = {t1, t2}
  Payloads = {p1, p2}
  Keys = {k1, k2}
  Nonces = {n1, n2}
  Requests = {r1, r2}
  AsyncVerbs = {register}
  SyncVerbs = {dns}
  UngatedVerbs = {send}
  UnknownVerbs = {typo}
  PlanVerbs = {register}
  CostVerbs = {register, send}
  NoToken = NoToken
  Forged = Forged
  None = None
  RacedTenant = t1
  RacedPayload = p1
  RacedKey = k1
SYMMETRY CallSymmetry
SPECIFICATION MCSpec
INVARIANTS
  TypeOK
  ApprovalIsALicence
  ReplyIsTrue
PROPERTIES
  TerminalIsImmutable
  ImplementsContract
CHECK_DEADLOCK FALSE
