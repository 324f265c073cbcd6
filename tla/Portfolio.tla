----------------------------- MODULE Portfolio -----------------------------
(***************************************************************************)
(* The components that share no state with one another, side by side: each *)
(* behaviour is one component's, chosen when it begins, and the others     *)
(* stand still in one of their initial states.  Publishing, the largest of *)
(* them, is extended and keeps its names; the others are instances.        *)
(***************************************************************************)
EXTENDS PublishDeploy

CONSTANTS
  Campaigns, CampaignTicks, Senders, Editors, Faults, Batch, MaxMailed, NoCampaign,
  Rows, Nodes, Stops, ContactWriters, Sends, NoRow, NoNode,
  Calls, Prompts, OwnModels, NextModels, MaxEntries,
  Runs, Tenants, Limit, MaxRuns,
  Fillers, PostTicks, Hours, Extras, OwnerPosts, FirstDay, LastDay, MaxPosts, MaxPublished,
  Visitors, BookingSlots, NoSlot

VARIABLES
  part,
  campaign, due, mailed, excused, recipients, runner, editor,
  resolved, contact, newestContact, memory, stop, upsert, send, tagged, retagged,
  cache, call,
  count, begun, run,
  today, posts, published, slipped, filler, tick, owner,
  booking, slot, visitor, told

C == INSTANCE CampaignDispatch WITH Ticks <- CampaignTicks
O == INSTANCE OptOuts WITH Writers <- ContactWriters, newest <- newestContact
L == INSTANCE LlmRouter
K == INSTANCE Conductor
S == INSTANCE SocialPosts WITH Ticks <- PostTicks
B == INSTANCE Bookings WITH Slots <- BookingSlots

(* What the proofs assume of the constants.                                 *)
ASSUME PortfolioAssumption ==
  /\ PublishAssumption /\ C!CampaignAssumption /\ O!OptOutAssumption
  /\ L!LlmAssumption /\ K!ConductorAssumption /\ S!SocialAssumption

campaignVars == <<campaign, due, mailed, excused, recipients, runner, editor>>
optOutVars == <<resolved, contact, newestContact, memory, stop, upsert, send, tagged, retagged>>
llmVars == <<cache, call>>
conductorVars == <<count, begun, run>>
socialVars == <<today, posts, published, slipped, filler, tick, owner>>
bookingVars == <<booking, slot, visitor, told>>
all == <<part, publishVars, campaignVars, optOutVars, llmVars, conductorVars,
         socialVars, bookingVars>>

Parts == {"publishing", "campaigns", "optouts", "llm", "conductor", "posts", "bookings"}

PortfolioInit ==
  /\ part \in Parts
  /\ Init /\ C!Init /\ O!Init /\ L!Init /\ K!Init /\ S!Init /\ B!Init

Others(mine) ==
  /\ UNCHANGED part
  /\ mine # "publishing" => UNCHANGED publishVars
  /\ mine # "campaigns" => UNCHANGED campaignVars
  /\ mine # "optouts" => UNCHANGED optOutVars
  /\ mine # "llm" => UNCHANGED llmVars
  /\ mine # "conductor" => UNCHANGED conductorVars
  /\ mine # "posts" => UNCHANGED socialVars
  /\ mine # "bookings" => UNCHANGED bookingVars

PortfolioNext ==
  \/ part = "publishing" /\ Next /\ Others("publishing")
  \/ part = "campaigns" /\ C!Next /\ Others("campaigns")
  \/ part = "optouts" /\ O!Next /\ Others("optouts")
  \/ part = "llm" /\ L!Next /\ Others("llm")
  \/ part = "conductor" /\ K!Next /\ Others("conductor")
  \/ part = "posts" /\ S!Next /\ Others("posts")
  \/ part = "bookings" /\ B!Next /\ Others("bookings")

PortfolioSpec == PortfolioInit /\ [][PortfolioNext]_all

-----------------------------------------------------------------------------
(* Every component stays within the types of its state.                     *)
AllTypesOK ==
  TypeOK /\ C!TypeOK /\ O!TypeOK /\ L!TypeOK /\ K!TypeOK /\ S!TypeOK /\ B!TypeOK

(* CampaignDispatch: a campaign goes out twice only where a writer acted on *)
(* a status that had changed under it, or what was mailed was not recorded. *)
ResentOnlyBySlip == C!ResentOnlyBySlip

(* OptOuts: a STOP that reached the only contact with the number is kept    *)
(* through leads, bookings, further STOPs and restarts.                     *)
OptOutKept == O!OptOutKept

(* LlmRouter: whoever filled the cache, a text that reaches a caller passes *)
(* that caller's own gate.                                                  *)
AnswerPassesItsGate == L!AnswerPassesItsGate

(* Conductor: a run dispatches at most the limit, and as much again for     *)
(* each run of its process that began while it was under way.               *)
BudgetPerReset == K!BudgetPerReset

(* SocialPosts: a post of the agent goes out twice only where two runs of   *)
(* the cron held it at once, or one died before it recorded it.             *)
RepublishedBySlip == S!RepublishedBySlip
=============================================================================
