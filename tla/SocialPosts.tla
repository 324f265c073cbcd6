---------------------------- MODULE SocialPosts ----------------------------
(***************************************************************************)
(* A tenant's social posts: the agent that fills the week's calendar       *)
(* (marketing/agents/SocialAgent.ts, by the daily cron or by hand), the    *)
(* owner's API (api/social/posts) over the live adapter                    *)
(* (integrations/social), and the cron that publishes what is due          *)
(* (api/cron/social-dispatch).  Time is counted in days; day 1 is a Monday.*)
(***************************************************************************)
EXTENDS Naturals, Sequences, FiniteSets, FiniteSetsExt

CONSTANTS
  Fillers,       \* runs of the agent that can be alive at once
  Ticks,         \* invocations of the dispatch cron
  Hours,         \* the hours at which the agent runs: 7 by its cron
  Extras,        \* the posts beside the calendar: "thanks", "whatsapp"
  OwnerPosts,    \* does the owner use the API?
  FirstDay, LastDay, MaxPosts, MaxPublished  \* bounds

(* What the proofs assume of them.                                          *)
SocialAssumption ==
  /\ FirstDay \in Nat /\ LastDay \in Nat /\ FirstDay <= LastDay
  /\ MaxPosts \in Nat /\ MaxPublished \in Nat

Days == FirstDay..(LastDay + 7)
Weekday(d) == d % 7
WeekOf(d) == (d - 1) \div 7

(* WEEKLY_SLOTS, and where the two extra posts go: weekday |-> hour (UTC).  *)
SlotHour == [day \in {1, 3, 5, 6} |-> CASE day = 1 -> 7 [] day = 3 -> 10
                                        [] day = 5 -> 15 [] OTHER -> 8]
Slots == DOMAIN SlotHour
ExtraSlot(extra) == IF extra = "thanks" THEN [day |-> 3, hour |-> 10]
                                        ELSE [day |-> 2, hour |-> 9]

VARIABLES
  today,
  posts,      \* social_posts, in the order they were made
  published,  \* how often each went out
  slipped,    \* history: the posts a cron run slipped on, see RepublishedBySlip
  filler,     \* agent runs: [at, hour, missing, extras]
  tick,       \* dispatch runs: [at, queue, item]
  owner       \* the owner's cancel: the post, or 0

socialVars == <<today, posts, published, slipped, filler, tick, owner>>

PostIds == 1..MaxPosts
PostStatuses == {"scheduled", "posted", "failed", "canceled"}
PostKinds == {"slot", "owner", "thanks", "whatsapp"}

TypeOK ==
  /\ today \in FirstDay..LastDay
  /\ Len(posts) <= MaxPosts
  /\ \A p \in DOMAIN posts :
       posts[p] \in [status : PostStatuses, kind : PostKinds, day : Days,
                     atVendor : BOOLEAN]
  /\ published \in [PostIds -> 0..MaxPublished]
  /\ slipped \subseteq PostIds
  /\ filler \in [Fillers -> [at : {"idle", "fill"}, hour : Hours, missing : SUBSET Slots,
                             extras : SUBSET Extras]]
  /\ tick \in [Ticks -> [at : {"idle", "next", "publish", "record"},
                         queue : SUBSET PostIds, item : {0} \cup PostIds]]
  /\ owner \in {0} \cup PostIds

Init ==
  /\ today = FirstDay
  /\ posts = <<>>
  /\ published = [p \in PostIds |-> 0]
  /\ slipped = {}
  /\ filler \in [Fillers -> [at : {"idle"}, hour : Hours, missing : {{}}, extras : {{}}]]
  /\ tick = [t \in Ticks |-> [at |-> "idle", queue |-> {}, item |-> 0]]
  /\ owner = 0

DayPasses ==
  /\ today < LastDay
  /\ today' = today + 1
  /\ UNCHANGED <<posts, published, slipped, filler, tick, owner>>

SetStatus(p, status) == posts' = [posts EXCEPT ![p].status = status]

-----------------------------------------------------------------------------
(* The agent.                                                               *)

(* The weekdays of this week that already have a post, of any status.       *)
ScheduledDays == {Weekday(posts[p].day) : p \in {q \in DOMAIN posts :
                    WeekOf(posts[q].day) = WeekOf(today)}}

FillReads(f) ==
  /\ filler[f].at = "idle"
  /\ \E hour \in Hours :
       filler' = [filler EXCEPT ![f] = [at |-> "fill", hour |-> hour,
                                        missing |-> Slots \ ScheduledDays,
                                        extras |-> Extras]]
  /\ UNCHANGED <<today, posts, published, slipped, tick, owner>>

(* The next such weekday: next week's, once this week's is past.            *)
NextOccurrence(day, slotHour, hour) ==
  LET diff == (day + 7 - Weekday(today)) % 7
  IN  today + IF diff = 0 /\ slotHour <= hour THEN 7 ELSE diff

Add(kind, day, atVendor) ==
  /\ Len(posts) < MaxPosts
  /\ posts' = Append(posts, [status |-> "scheduled", kind |-> kind, day |-> day,
                             atVendor |-> atVendor])

(* One slot after another; a slot the model wrote nothing for stays empty.  *)
FillSlot(f) ==
  LET slot == Min(filler[f].missing) IN
  /\ filler[f].at = "fill"
  /\ filler[f].missing # {}
  /\ \/ Add("slot", NextOccurrence(slot, SlotHour[slot], filler[f].hour), FALSE)
     \/ UNCHANGED posts
  /\ filler' = [filler EXCEPT ![f].missing = @ \ {slot}]
  /\ UNCHANGED <<today, published, slipped, tick, owner>>

(* The thank-you and the order reminder: left out if a recent post has      *)
(* their word in it, whatever that post is about, or nothing was written.   *)
FillExtra(f) ==
  LET extra == IF "thanks" \in filler[f].extras THEN "thanks" ELSE "whatsapp"
  IN
  /\ filler[f].at = "fill"
  /\ filler[f].missing = {}
  /\ filler[f].extras # {}
  /\ \/ Add(extra, NextOccurrence(ExtraSlot(extra).day, ExtraSlot(extra).hour,
                                  filler[f].hour), FALSE)
     \/ UNCHANGED posts
  /\ filler' = [filler EXCEPT ![f].extras = @ \ {extra}]
  /\ UNCHANGED <<today, published, slipped, tick, owner>>

(* The run is over, or a call throws, or the process dies.                  *)
FillEnds(f) ==
  /\ filler[f].at = "fill"
  /\ filler' = [filler EXCEPT ![f].at = "idle", ![f].missing = {}, ![f].extras = {}]
  /\ UNCHANGED <<today, posts, published, slipped, tick, owner>>

-----------------------------------------------------------------------------
(* The owner.                                                               *)

(* A post with a date is handed to the vendor with that date, and the row   *)
(* is scheduled as well; the vendor's refusal is not looked at.             *)
OwnerSchedules ==
  /\ OwnerPosts
  /\ \E day \in today..LastDay, atVendor \in BOOLEAN : Add("owner", day, atVendor)
  /\ UNCHANGED <<today, published, slipped, filler, tick, owner>>

(* Cancel, also by "post now": the vendor is told, then the row is written, *)
(* whatever it says.                                                        *)
CancelAtVendor(p) ==
  /\ OwnerPosts
  /\ owner = 0
  /\ owner' = p
  /\ posts' \in {posts, [posts EXCEPT ![p].atVendor = FALSE]}
  /\ UNCHANGED <<today, published, slipped, filler, tick>>

CancelRow ==
  /\ owner # 0
  /\ SetStatus(owner, "canceled")
  /\ owner' = 0
  /\ UNCHANGED <<today, published, slipped, filler, tick>>

Goes(p) ==
  /\ published[p] < MaxPublished
  /\ published' = [published EXCEPT ![p] = @ + 1]

VendorPublishes(p) ==
  /\ posts[p].atVendor
  /\ posts[p].day <= today
  /\ Goes(p)
  /\ posts' = [posts EXCEPT ![p].atVendor = FALSE]
  /\ UNCHANGED <<today, slipped, filler, tick, owner>>

-----------------------------------------------------------------------------
(* The dispatch cron.                                                       *)

DuePosts == {p \in DOMAIN posts : posts[p].status = "scheduled" /\ posts[p].day <= today}

(* What a run has still to publish or to record.                            *)
Held(t) == tick[t].queue \cup {tick[t].item}

TickLists(t) ==
  /\ tick[t].at = "idle"
  /\ DuePosts # {}
  /\ slipped' = slipped \cup {p \in DuePosts : \E u \in Ticks : p \in Held(u)}
  /\ tick' = [tick EXCEPT ![t].at = "next", ![t].queue = DuePosts]
  /\ UNCHANGED <<today, posts, published, filler, owner>>

(* By date; among those of one date, in any order.                          *)
TickTakes(t) ==
  /\ tick[t].at = "next"
  /\ IF tick[t].queue = {}
     THEN tick' = [tick EXCEPT ![t].at = "idle"]
     ELSE \E p \in tick[t].queue :
            /\ \A q \in tick[t].queue : posts[p].day <= posts[q].day
            /\ tick' = [tick EXCEPT ![t].at = "publish", ![t].queue = @ \ {p},
                                    ![t].item = p]
  /\ UNCHANGED <<today, posts, published, slipped, filler, owner>>

(* schedulePost without a date.  It also adds a row of its own, posted and  *)
(* without a date, which nothing reads: left out here.                      *)
TickPublishes(t) ==
  LET p == tick[t].item IN
  /\ tick[t].at = "publish"
  /\ Goes(p)
  /\ tick' = [tick EXCEPT ![t].at = "record"]
  /\ UNCHANGED <<today, posts, slipped, filler, owner>>

(* Mutant: the row is left as it was.                                       *)
Recorded_NotAtAll(p) == UNCHANGED posts

(* "posted"; "failed" when the row the adapter adds, or this one, cannot be *)
(* written although the post is out.                                        *)
Recorded(p) == \E status \in {"posted", "failed"} : SetStatus(p, status)

TickRecords(t) ==
  /\ tick[t].at = "record"
  /\ Recorded(tick[t].item)
  /\ tick' = [tick EXCEPT ![t].at = "next", ![t].item = 0]
  /\ UNCHANGED <<today, published, slipped, filler, owner>>

(* The vendor cannot be reached: "failed so it's not retried endlessly".    *)
TickFails(t) ==
  /\ tick[t].at = "publish"
  /\ SetStatus(tick[t].item, "failed")
  /\ tick' = [tick EXCEPT ![t].at = "next", ![t].item = 0]
  /\ UNCHANGED <<today, published, slipped, filler, owner>>

(* The second write throws too, or the process dies.                        *)
TickDies(t) ==
  /\ tick[t].at # "idle"
  /\ slipped' = IF tick[t].at = "record" THEN slipped \cup {tick[t].item} ELSE slipped
  /\ tick' = [tick EXCEPT ![t] = [at |-> "idle", queue |-> {}, item |-> 0]]
  /\ UNCHANGED <<today, posts, published, filler, owner>>

-----------------------------------------------------------------------------
Next ==
  \/ DayPasses
  \/ \E f \in Fillers : FillReads(f) \/ FillSlot(f) \/ FillExtra(f) \/ FillEnds(f)
  \/ OwnerSchedules
  \/ \E p \in DOMAIN posts : CancelAtVendor(p) \/ VendorPublishes(p)
  \/ CancelRow
  \/ \E t \in Ticks :
       TickLists(t) \/ TickTakes(t) \/ TickPublishes(t) \/ TickRecords(t) \/ TickFails(t)
         \/ TickDies(t)

Spec == Init /\ [][Next]_socialVars

-----------------------------------------------------------------------------
(* A post of the agent goes out once, though no row is claimed before it is *)
(* published: a second time only where two runs of the cron held it at      *)
(* once, or one died before it wrote down that it was out.                  *)
RepublishedBySlip ==
  \A p \in DOMAIN posts :
    posts[p].kind # "owner" /\ published[p] > 1 => p \in slipped

=============================================================================
