------------------------------- MODULE MCLive -------------------------------
(* Managed hosting, the email campaigns and the router's operations under   *)
(* the fairness of the crons that drain them, and the wallet's transactions *)
(* under the database's.  Each behaviour is one of the four, chosen when it *)
(* begins; the others stand still.                                          *)
EXTENDS HostingProvisioning

CONSTANTS
  Campaigns, CampaignTicks, CampaignSenders, CampaignEditors,
  RouterVerb, RouterKeys, RouterTenant, RouterNonce, RouterRequest, NoToken, Forged,
  WalletCalls

VARIABLES
  part,
  campaign, due, mailed, excused, recipients, runner, editor,
  approvals, expired, consumedBy, operations, elapsed, reported, entitled, funded,
  pc, args, seen, call, audit,
  usage, balance, credited, keyLock, walletLock, walletPc, job, did

dispatchVars == <<campaign, due, mailed, excused, recipients, runner, editor>>
routerVars == <<approvals, expired, consumedBy, operations, elapsed, reported, entitled,
                funded, pc, args, seen, call, audit>>
walletVars == <<usage, balance, credited, keyLock, walletLock, walletPc, job, did>>
all == <<part, vars, dispatchVars, routerVars, walletVars>>

(* No call throws and no process is killed: nothing would take up what they *)
(* leave behind.                                                            *)
D == INSTANCE CampaignDispatch WITH
  Ticks <- CampaignTicks, Senders <- CampaignSenders, Editors <- CampaignEditors,
  Faults <- FALSE, Batch <- 1, MaxMailed <- 3, NoCampaign <- None

(* A process may be killed at any point.                                    *)
R == INSTANCE ActionRouter WITH
  Tenants <- {RouterTenant}, Payloads <- {None}, Keys <- RouterKeys,
  Nonces <- {RouterNonce}, Requests <- {RouterRequest}, AsyncVerbs <- {RouterVerb},
  SyncVerbs <- {}, UngatedVerbs <- {}, UnknownVerbs <- {}, PlanVerbs <- {},
  CostVerbs <- {}

(* Messages that are charged and sent, and model calls that are answered    *)
(* and charged, under one key of each kind.                                 *)
W == INSTANCE Wallet WITH
  Kinds <- {"llm", "whatsapp"}, Calls <- WalletCalls, Works <- {None}, Stamps <- {1},
  Costs <- {1}, Estimate <- 1, TopUps <- {1}, MaxCredit <- 1, pc <- walletPc

HostingNext(A) ==
  part = "hosting" /\ A /\ UNCHANGED <<part, dispatchVars, routerVars, walletVars>>
CampaignNext(A) ==
  part = "campaigns" /\ A /\ UNCHANGED <<part, vars, routerVars, walletVars>>
RouterNext(A) ==
  part = "router" /\ A /\ UNCHANGED <<part, vars, dispatchVars, walletVars>>
WalletNext(A) ==
  part = "wallet" /\ A /\ UNCHANGED <<part, vars, dispatchVars, routerVars>>

MCInit ==
  /\ part \in {"hosting", "campaigns", "router", "wallet"}
  /\ Init /\ D!Init /\ R!Init /\ W!Init
  /\ part # "campaigns" => recipients
  /\ part # "router" => entitled = {} /\ funded = {}

MCNext ==
  HostingNext(Next) \/ CampaignNext(D!Next) \/ RouterNext(R!Next) \/ WalletNext(W!Next)

(* What the FairSpec of each module assumes.                                *)
MCSpec ==
  /\ MCInit /\ [][MCNext]_all
  /\ \A s \in Sweeps : WF_all(HostingNext(SweepStep(s)))
  /\ \A i \in JobIds : WF_all(HostingNext(Due(i)))
  /\ \A r \in CampaignTicks \cup CampaignSenders : WF_all(CampaignNext(D!RunnerStep(r)))
  /\ \A c \in Campaigns : WF_all(CampaignNext(D!ComesDue(c)))
  /\ \A o \in R!OpKeys : WF_all(RouterNext(R!SettleTimeElapses(o)))
  /\ WF_all(RouterNext(R!CronReconcile))
  /\ \A c \in WalletCalls : WF_all(WalletNext(W!Statement(c)))

-----------------------------------------------------------------------------
(* CampaignDispatch: as long as nothing fails, a scheduled campaign is      *)
(* sent, unless the owner takes it back.                                    *)
ScheduledIsSent == D!ScheduledIsSent

(* ActionRouter: whatever happens to the process that started it, every     *)
(* operation leaves pending, so a client that polls gets an answer.         *)
OperationsSettle == R!OperationsSettle

(* Wallet: no transaction waits for ever: locks are taken key first, wallet *)
(* second, and every end of a transaction drops them.                       *)
TransactionsEnd == W!TransactionsEnd
=============================================================================
