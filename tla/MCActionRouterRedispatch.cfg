CONSTANTS
  Tenants = {t1}
  Payloads = {p1}
  Keys = {k1}
  Nonces = {n1, n2}
  Requests = {r1, r2}
  AsyncVerbs = {register}
  SyncVerbs = {}
  UngatedVerbs = {}
  UnknownVerbs = {}
  PlanVerbs = {}
  CostVerbs = {}
  NoToken = NoToken
  Forged = Forged
  None = None
SPECIFICATION Spec
INVARIANTS
  ReattachedNotRedispatched
CHECK_DEADLOCK FALSE
