SPECIFICATION MCSpec
CONSTANTS
  Actors = {a1, a2}
  Publishes = {a1, a2}
  Rollbacks = {"rollback"}
  Deliveries = {"d1", "d2"}
  Polls = {"poll"}
  NoCall = None
  Campaigns = {"campaign"}
  CampaignTicks = {a1, a2}
  Senders = {"sender"}
  Editors = {"editor"}
  Faults = TRUE
  Batch = 1
  MaxMailed = 3
  NoCampaign = None
  Rows = {"r1", "r2"}
  Nodes = {a1, a2}
  Stops = {"s1", "s2"}
  ContactWriters = {"w1", "w2"}
  Sends = {"sms"}
  NoRow = None
  NoNode = None
  Calls = {a1, a2}
  Prompts = {"prompt", "other"}
  OwnModels = 1
  NextModels = 1
  MaxEntries = 1
  Runs = {a1, a2}
  Tenants = {"t1", "t2"}
  Limit = 3
  MaxRuns = 3
  Fillers = {"filler"}
  PostTicks = {a1, a2}
  Hours = {7, 16}
  Extras = {"thanks", "whatsapp"}
  OwnerPosts = TRUE
  FirstDay = 2
  LastDay = 4
  MaxPosts = 1
  MaxPublished = 2
  Visitors = {a1, a2}
  BookingSlots = {"monday", "tuesday"}
  NoSlot = None
SYMMETRY Symmetry
INVARIANTS
  AllTypesOK
  RowFollowsOperation
  ResentOnlyBySlip
  
  AnswerPassesItsGate
  BudgetPerReset
  RepublishedBySlip
PROPERTIES
  ImplementsHistory
CHECK_DEADLOCK FALSE
