SPECIFICATION MCSpec
CONSTANTS
  Requests = {r1, r2}
  Kinds = {"provision", "scale", "teardown"}
  Sweeps = {s1}
  Meters = {}
  Switches = {}
  BackendFails = TRUE
  Faults = FALSE
  MaxServices = 2
  None = None
  Campaigns = {m1, m2}
  CampaignTicks = {t1}
  CampaignSenders = {s1}
  CampaignEditors = {e1}
  RouterVerb = register
  RouterTenant = tenant
  RouterKeys = {k1, k2}
  RouterNonce = n1
  RouterRequest = q1
  NoToken = NoToken
  Forged = Forged
  WalletCalls = {w1, w2, w3}

  
  
PROPERTIES
  JobsEnd
  ScheduledIsSent
  OperationsSettle
  
CHECK_DEADLOCK FALSE
