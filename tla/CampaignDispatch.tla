------------------------- MODULE CampaignDispatch -------------------------
(***************************************************************************)
(* Email campaigns: the owner's editor (api/email/campaigns), her "send    *)
(* now" (api/email/send) and the cron that sends what is due               *)
(* (api/cron/email-dispatch), each a process that reads a campaign's       *)
(* status and writes it later without a condition.  The provider is the    *)
(* live adapter (integrations/emailMarketing): it mails every recipient    *)
(* and marks the campaign sent before its caller does so again.            *)
(***************************************************************************)
EXTENDS Naturals, FiniteSets

CONSTANTS
  Campaigns,
  Ticks,      \* cron invocations that can be alive at once
  Senders,    \* "send now" requests
  Editors,    \* requests to the campaigns API
  Faults,     \* can a call throw, or a process be killed?
  Batch,      \* how many campaigns a tick takes (20 in the code)
  MaxMailed,  \* bound on how often a campaign is mailed
  NoCampaign

(* What the proofs assume of them.                                          *)
CampaignAssumption == MaxMailed \in Nat

Runners == Ticks \cup Senders

VARIABLES
  campaign,   \* email_campaigns.status
  due,        \* the campaigns whose scheduledAt has passed
  mailed,     \* how often a campaign went to its recipients
  excused,    \* the campaigns a write has slipped on: see ResentOnlyBySlip
  recipients, \* does the tenant have contacts with an email address?
  runner,     \* dispatchers: [at, queue, item, saw]
  editor      \* editor requests: [at, item, saw, to]

campaignVars == <<campaign, due, mailed, excused, recipients, runner, editor>>

(* "none" is a campaign not created yet.                                    *)
CampaignStatuses == {"none", "draft", "scheduled", "sending", "sent"}
NoRun == [at |-> "idle", queue |-> {}, item |-> NoCampaign, saw |-> "none"]
NoEdit == [at |-> "idle", item |-> NoCampaign, saw |-> "none", to |-> "none"]

TypeOK ==
  /\ campaign \in [Campaigns -> CampaignStatuses]
  /\ due \subseteq Campaigns
  /\ mailed \in [Campaigns -> 0..MaxMailed]
  /\ excused \subseteq Campaigns
  /\ recipients \in BOOLEAN
  /\ runner \in [Runners -> [at : {"idle", "next", "mark", "resolve", "mail", "marked",
                                   "record", "undo", "done"},
                             queue : SUBSET Campaigns,
                             item : Campaigns \cup {NoCampaign},
                             saw : CampaignStatuses]]
  /\ editor \in [Editors -> [at : {"idle", "write", "done"}, item : Campaigns \cup {NoCampaign},
                             saw : CampaignStatuses, to : CampaignStatuses]]

Init ==
  /\ campaign = [c \in Campaigns |-> "none"]
  /\ due = {}
  /\ mailed = [c \in Campaigns |-> 0]
  /\ excused = {}
  /\ recipients \in BOOLEAN
  /\ runner = [r \in Runners |-> NoRun]
  /\ editor = [e \in Editors |-> NoEdit]

-----------------------------------------------------------------------------
(* The editor.                                                              *)

(* POST: with a date the campaign is scheduled, without it a draft.         *)
Create(c) ==
  /\ campaign[c] = "none"
  /\ \E status \in {"draft", "scheduled"} : campaign' = [campaign EXCEPT ![c] = status]
  /\ UNCHANGED <<due, mailed, excused, recipients, runner, editor>>

Editable(status) == status \in {"draft", "scheduled"}

(* PATCH loads the campaign and refuses one that is sent or being sent.     *)
EditReads(e, c) ==
  /\ editor[e].at = "idle"
  /\ Editable(campaign[c])
  /\ \E to \in {"draft", "scheduled"} :
       editor' = [editor EXCEPT ![e] =
         [at |-> "write", item |-> c, saw |-> campaign[c], to |-> to]]
  /\ UNCHANGED <<campaign, due, mailed, excused, recipients, runner>>

(* A write on a campaign whose status is no longer the one that was read.   *)
Slips(c, saw) == IF campaign[c] = saw THEN excused ELSE excused \cup {c}

(* It writes the schedule, and the status that goes with it.                *)
EditWrites(e) ==
  LET c == editor[e].item IN
  /\ editor[e].at = "write"
  /\ campaign' = [campaign EXCEPT ![c] = editor[e].to]
  /\ due' = due \ {c}
  /\ excused' = Slips(c, editor[e].saw)
  /\ editor' = [editor EXCEPT ![e].at = "done"]
  /\ UNCHANGED <<mailed, recipients, runner>>

ComesDue(c) ==
  /\ campaign[c] = "scheduled"
  /\ c \notin due
  /\ due' = due \cup {c}
  /\ UNCHANGED <<campaign, mailed, excused, recipients, runner, editor>>

-----------------------------------------------------------------------------
(* Dispatch: the cron takes the due campaigns one after another, "send now" *)
(* the one it is asked for; the rest they share.                            *)

Due == {c \in due : campaign[c] = "scheduled"}

(* findMany, at most a batch, in no order.                                  *)
List(t) ==
  /\ runner[t].at = "idle"
  /\ Due # {}
  /\ \E queue \in SUBSET Due :
       /\ Cardinality(queue) = IF Cardinality(Due) < Batch THEN Cardinality(Due) ELSE Batch
       /\ runner' = [runner EXCEPT ![t].at = "next", ![t].queue = queue]
  /\ UNCHANGED <<campaign, due, mailed, excused, recipients, editor>>

TakeNext(t) ==
  /\ t \in Ticks
  /\ runner[t].at = "next"
  /\ \/ /\ runner[t].queue = {}
        /\ runner' = [runner EXCEPT ![t] = NoRun]
     \/ \E c \in runner[t].queue :
          runner' = [runner EXCEPT ![t].at = "mark", ![t].queue = @ \ {c},
                                   ![t].item = c, ![t].saw = "scheduled"]
  /\ UNCHANGED <<campaign, due, mailed, excused, recipients, editor>>

(* Mutant: "send now" does not refuse what was sent.                        *)
Sendable_Anything(status) == status # "none"

(* "Send now" answers 409 for what is sent or being sent.                   *)
Sendable(status) == status \in {"draft", "scheduled"}

SendNow(s, c) ==
  /\ s \in Senders
  /\ runner[s].at = "idle"
  /\ Sendable(campaign[c])
  /\ runner' = [runner EXCEPT ![s].at = "mark", ![s].item = c, ![s].saw = campaign[c]]
  /\ UNCHANGED <<campaign, due, mailed, excused, recipients, editor>>

Item(r) == runner[r].item
Goto(r, label) == runner' = [runner EXCEPT ![r].at = label]

(* What a dispatcher does after a campaign.                                 *)
Over(r) == Goto(r, IF r \in Ticks THEN "next" ELSE "done")

(* "Mark as sending to prevent duplicate dispatch."                         *)
MarkSending(r) ==
  /\ runner[r].at = "mark"
  /\ campaign' = [campaign EXCEPT ![Item(r)] = "sending"]
  /\ excused' = Slips(Item(r), runner[r].saw)
  /\ Goto(r, "resolve")
  /\ UNCHANGED <<due, mailed, recipients, editor>>

(* Mutant: the cron goes on to the next campaign without a word.            *)
WithNobody_NotRecorded(r) == "sending"

(* With no recipients the cron calls the campaign sent, "send now" makes it *)
(* a draft again.                                                           *)
WithNobody(r) == IF r \in Ticks THEN "sent" ELSE "draft"

Resolve(r) ==
  /\ runner[r].at = "resolve"
  /\ IF recipients
     THEN Goto(r, "mail") /\ UNCHANGED campaign
     ELSE /\ campaign' = [campaign EXCEPT ![Item(r)] = WithNobody(r)]
          /\ Over(r)
  /\ UNCHANGED <<due, mailed, excused, recipients, editor>>

(* sendCampaign: every recipient is mailed; that some are refused does not  *)
(* fail the call.                                                           *)
Mail(r) ==
  /\ runner[r].at = "mail"
  /\ mailed[Item(r)] < MaxMailed
  /\ mailed' = [mailed EXCEPT ![Item(r)] = @ + 1]
  /\ Goto(r, "marked")
  /\ UNCHANGED <<campaign, due, excused, recipients, editor>>

(* The adapter records it, then its caller does.                            *)
AdapterRecords(r) ==
  /\ runner[r].at = "marked"
  /\ campaign' = [campaign EXCEPT ![Item(r)] = "sent"]
  /\ Goto(r, "record")
  /\ UNCHANGED <<due, mailed, excused, recipients, editor>>

Record(r) ==
  /\ runner[r].at = "record"
  /\ campaign' = [campaign EXCEPT ![Item(r)] = "sent"]
  /\ Over(r)
  /\ UNCHANGED <<due, mailed, excused, recipients, editor>>

(* A call of the try block throws.  Once the mail is out, what happens next *)
(* is a slip.                                                               *)
CallThrows(r) ==
  /\ Faults
  /\ runner[r].at \in {"resolve", "mail", "marked", "record"}
  /\ Goto(r, "undo")
  /\ excused' = IF runner[r].at \in {"marked", "record"}
                THEN excused \cup {Item(r)} ELSE excused
  /\ UNCHANGED <<campaign, due, mailed, recipients, editor>>

(* The cron rolls back to scheduled "so it retries next cron tick", "send   *)
(* now" to draft; that this write fails as well is ignored.                 *)
Undo(r) ==
  /\ runner[r].at = "undo"
  /\ \/ campaign' = [campaign EXCEPT ![Item(r)] =
                       IF r \in Ticks THEN "scheduled" ELSE "draft"]
     \/ Faults /\ UNCHANGED campaign
  /\ Over(r)
  /\ UNCHANGED <<due, mailed, excused, recipients, editor>>

(* The first write throws outside the try block, or the process is killed.  *)
Dies(r) ==
  /\ Faults
  /\ runner[r].at \notin {"idle", "done"}
  /\ runner' = [runner EXCEPT ![r] = NoRun]
  /\ UNCHANGED <<campaign, due, mailed, excused, recipients, editor>>

-----------------------------------------------------------------------------
RunnerStep(r) ==
  \/ r \in Ticks /\ List(r)
  \/ TakeNext(r) \/ MarkSending(r) \/ Resolve(r) \/ Mail(r)
  \/ AdapterRecords(r) \/ Record(r) \/ Undo(r)

Next ==
  \/ \E c \in Campaigns : Create(c) \/ ComesDue(c)
  \/ \E e \in Editors : (\E c \in Campaigns : EditReads(e, c)) \/ EditWrites(e)
  \/ \E r \in Runners :
       RunnerStep(r) \/ (\E c \in Campaigns : SendNow(r, c)) \/ CallThrows(r) \/ Dies(r)

Spec == Init /\ [][Next]_campaignVars

(* The cron runs every five minutes, and time passes.                       *)
FairSpec ==
  /\ Spec
  /\ \A r \in Runners : WF_campaignVars(RunnerStep(r))
  /\ \A c \in Campaigns : WF_campaignVars(ComesDue(c))

-----------------------------------------------------------------------------
(* The marks and the status checks do keep a campaign from going out twice  *)
(* except where a writer acted on a status that had changed under it        *)
(* (overlapping dispatchers, an edit during a dispatch) or a campaign that  *)
(* was mailed could not be recorded as sent.                                *)
ResentOnlyBySlip == \A c \in Campaigns : mailed[c] > 1 => c \in excused

(* As long as nothing fails, a scheduled campaign is sent, unless the owner *)
(* takes it back.                                                           *)
ScheduledIsSent ==
  \A c \in Campaigns : campaign[c] = "scheduled" ~> campaign[c] \in {"sent", "draft"}
=============================================================================
