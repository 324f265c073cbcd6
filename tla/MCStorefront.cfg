SPECIFICATION MCSpec
CONSTANTS
  Actors = {a1, a2}
  Links = {"l1", "l2"}
  Tabs = {a1, a2}
  MaxCharges = 3
  Runs = {a1, a2}
  SequenceDays = {0, 1}
  QuietDays = 1
  GreetAfter = 0
  FollowAfter = 1
  LostAfter = 4
  LeadDays = {1}
  LastDay = 6
  MaxRuns = 2
  None = None
  Records = {"v1", "v2"}
  MaxReviewRuns = 3
  MaxDraftEdits = 2
  MaxPublishes = 1
  LeftDraft = TRUE
  Faults = TRUE
  StoreTenants = {"t1", "t2"}
  MaxStoreCalls = 4
  ListRows = {"x", "y"}
  ListTexts = {"text", "other"}
  MaxAsked = 4
  Names = {"n1", "n2"}
  Tenants = {1, 2}
  ServerCalls = {a1, a2}
  MaxTyped = 2
  MaxComposed = 2
  MaxMounts = 2
  MaxEdits = 1
  MaxOps = 2
  MaxSites = 2
  MaxPresses = 3
  MaxPrompts = 2
  MaxWrites = 2
  Limit = 1
  MaxRows = 2
  MaxFetches = 3
  Pages = {"p1", "p2"}
  MaxSaves = 2
SYMMETRY Symmetry
INVARIANTS
  AllTypesOK
  ChargedAgainBySlip
  RepeatedBySlip
  OwnerHasTheLastWord
  PageIsSaved
  
  ShownIsSaved
  RecordAndChargeAgree
CHECK_DEADLOCK FALSE
