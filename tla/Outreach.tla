----------------------------- MODULE Outreach -----------------------------
(* The two marketing agents that write to a contact on their own            *)
(* (marketing/agents/EmailAgent.ts, NurtureAgent.ts), run by the conductor  *)
(* every hour and by the dashboard on demand.  One contact of the CRM and   *)
(* one of her bookings; a run lists what is due, sends, and only then marks *)
(* the row, so that runs overlap between these steps and die between them.  *)
(* Time is in days.                                                         *)
EXTENDS Integers

CONSTANTS
  Runs,          \* runs of an agent for this tenant
  SequenceDays,  \* ages at which the welcome sequence has a mail: 0, 2, 7, 14
  Quiet,         \* canEmail: more days than this since the last contact (7)
  GreetAfter,    \* a new lead is nurtured when older than this (1)
  FollowAfter,   \* days without an answer before a follow-up (5)
  LostAfter,     \* days after which a lead is old, and then lost (14)
  Lead,          \* the days ahead of a booking on which it is reminded of (24..26)
  LastDay,       \* bound: days modelled
  MaxRuns,       \* bound: runs begun
  Never

VARIABLES
  today,
  contact,  \* the CRM row: stage, lastContactAt, the day it was created
  booking,  \* the bookings row: its day, status and reminderSent
  run,      \* each run: its agent, the message it is at, and how far
  begun,    \* bound's counter
  sent,     \* history: messages sent, less those sent blindly or never marked
  said      \* history: the owner gave the contact a stage, no run holding her

vars == <<today, contact, booking, run, begun, sent, said>>

(* What an agent sends, in its order; "lost" sends nothing.  The monthly    *)
(* newsletter keeps no account of its contacts and is left out.             *)
Mails == {"welcome", "reminder", "visit"}
Texts == {"initial", "follow", "lost"}
Stages == {"new", "contacted", "lost", "won"}

(* A first message is one kind, whichever agent sends it.                   *)
Kind(m) == IF m \in {"welcome", "initial"} THEN "greeting" ELSE m
Kinds == {"greeting", "reminder", "visit"}

First(agent) == IF agent = "email" THEN "welcome" ELSE "initial"
After == [welcome |-> "reminder", reminder |-> "visit", visit |-> "over",
          initial |-> "follow", follow |-> "lost", lost |-> "over"]

TypeOK ==
  /\ today \in 0..LastDay
  /\ contact \in [stage : Stages, last : 0..LastDay \cup {Never}, created : 0..LastDay]
  /\ booking \in [day : Nat \cup {Never}, status : {"pending", "confirmed", "cancelled"},
                  reminded : BOOLEAN]
  /\ run \in [Runs -> [at : {"idle"} \cup Mails \cup Texts,
                       step : {"list", "look", "send", "mark"}]]
  /\ begun \in 0..MaxRuns
  /\ sent \in [Kinds -> Int]
  /\ said \in BOOLEAN

Idle == [at |-> "idle", step |-> "list"]

Init ==
  /\ today = 0
  /\ contact = [stage |-> "new", last |-> Never, created |-> 0]
  /\ booking = [day |-> Never, status |-> "pending", reminded |-> FALSE]
  /\ run = [r \in Runs |-> Idle]
  /\ begun = 0
  /\ sent = [k \in Kinds |-> 0]
  /\ said = FALSE

history == <<sent, said>>

-----------------------------------------------------------------------------
(* What the agents ask of the rows.                                         *)

(* lastContactAt < now - n days; a null date compares with nothing.         *)
SilentFor(n) == contact.last # Never /\ contact.last + n < today

(* Mutant: the welcome sequence forgets whom it has written to.             *)
Untouched_ByStage == contact.stage = "new"

(* stage "new" and lastContactAt null: nobody has written to her yet.       *)
Untouched == contact.stage = "new" /\ contact.last = Never

CanEmail == contact.last = Never \/ SilentFor(Quiet)

Unresponsive == contact.stage = "contacted" /\ SilentFor(LostAfter)

(* The rows a run lists for each message; bookings are asked of before the  *)
(* contact is.                                                              *)
Listed(m) ==
  CASE m = "welcome"  -> Untouched /\ today - contact.created \in SequenceDays
    [] m = "reminder" -> /\ booking.day # Never /\ booking.status # "cancelled"
                         /\ ~booking.reminded
                         /\ \E n \in Lead : booking.day = today + n
    [] m = "visit"    -> booking.day # Never /\ booking.status = "confirmed"
                         /\ booking.day + 1 = today
    [] m = "initial"  -> Untouched /\ contact.created + GreetAfter < today
    [] m = "follow"   -> /\ contact.stage = "contacted" /\ SilentFor(FollowAfter)
                         /\ contact.created + LostAfter > today
    [] m = "lost"     -> Unresponsive

Due(m) == Listed(m) /\ (m \in {"reminder", "visit"} => CanEmail)

-----------------------------------------------------------------------------
(* A run.                                                                   *)

Goes(r, at, step) == run' = [run EXCEPT ![r] = [at |-> at, step |-> step]]
MovesOn(r) == IF After[run[r].at] = "over" THEN run' = [run EXCEPT ![r] = Idle]
              ELSE Goes(r, After[run[r].at], "list")

Begin(r, agent) ==
  /\ run[r] = Idle /\ begun < MaxRuns
  /\ begun' = begun + 1
  /\ Goes(r, First(agent), "list")
  /\ UNCHANGED <<today, contact, booking, history>>

(* findMany: to each row in turn, or on to the next message.                *)
List(r) ==
  /\ run[r].at # "idle" /\ run[r].step = "list"
  /\ IF Listed(run[r].at)
     THEN Goes(r, run[r].at, CASE run[r].at \in {"reminder", "visit"} -> "look"
                               [] run[r].at = "lost" -> "mark"
                               [] OTHER -> "send")
     ELSE MovesOn(r)
  /\ UNCHANGED <<today, contact, booking, begun, history>>

(* A booking's contact is looked up when its turn comes.                    *)
Look(r) ==
  /\ run[r].step = "look"
  /\ IF CanEmail THEN Goes(r, run[r].at, "send") ELSE MovesOn(r)
  /\ UNCHANGED <<today, contact, booking, begun, history>>

(* Another run has sent this kind of message and has yet to mark the row.   *)
Unmarked(r) == \E s \in Runs \ {r} : run[s].step = "mark" /\ run[s].at # "lost"
                                     /\ Kind(run[s].at) = Kind(run[r].at)

Count(m, n) == [k \in Kinds |-> IF k = Kind(m) THEN sent[k] + n ELSE sent[k]]

(* The provider is called on what the lists said.  EmailAgent marks the row *)
(* whatever came of it, NurtureAgent only when a recipient succeeded.       *)
Send(r) ==
  LET m == run[r].at IN
  /\ run[r].step = "send"
  /\ \/ /\ Goes(r, m, "mark")
        /\ sent' = IF Unmarked(r) \/ ~Due(m) THEN sent ELSE Count(m, 1)
     \/ /\ IF m \in Mails THEN Goes(r, m, "mark") ELSE MovesOn(r)
        /\ UNCHANGED sent
  /\ UNCHANGED <<today, contact, booking, begun, said>>

(* The contact as the message leaves it.                                    *)
Marked(m) ==
  CASE m = "reminder" -> contact
    [] m = "initial"  -> [contact EXCEPT !.last = today, !.stage = "contacted"]
    [] m = "lost"     -> [contact EXCEPT !.stage = "lost"]
    [] OTHER          -> [contact EXCEPT !.last = today]

Mark(r) ==
  LET m == run[r].at IN
  /\ run[r].step = "mark"
  /\ contact' = Marked(m)
  /\ booking' = IF m = "reminder" THEN [booking EXCEPT !.reminded = TRUE] ELSE booking
  /\ MovesOn(r)
  /\ UNCHANGED <<today, begun, history>>

(* A call throws and the run returns its error, or its process dies.        *)
Abort(r) ==
  LET m == run[r].at IN
  /\ run[r] # Idle
  /\ run' = [run EXCEPT ![r] = Idle]
  /\ sent' = IF run[r].step = "mark" THEN Count(m, -1) ELSE sent
  /\ UNCHANGED <<today, contact, booking, begun, said>>

-----------------------------------------------------------------------------
(* The others that write these rows.                                        *)

(* A run acts on the contact's stage as it was when it listed her.          *)
Held == \E r \in Runs : run[r].at \in Texts /\ run[r].step \in {"send", "mark"}

(* PATCH /api/dashboard/crm: the owner moves her to a stage of her own.     *)
OwnerWins ==
  /\ contact.stage # "won"
  /\ contact' = [contact EXCEPT !.stage = "won"]
  /\ said' = ~Held
  /\ UNCHANGED <<today, booking, run, begun, sent>>

(* She fills in the site's form again: the lead's upsert writes "new".      *)
ReturnsAsLead ==
  /\ contact.stage # "new"
  /\ contact' = [contact EXCEPT !.stage = "new"]
  /\ said' = FALSE
  /\ UNCHANGED <<today, booking, run, begun, sent>>

(* She books: the row, then the contact she has by her number.              *)
Books ==
  /\ booking.day = Never
  /\ \E n \in Lead : booking' = [booking EXCEPT !.day = today + n]
  /\ contact' = [contact EXCEPT !.last = today]
  /\ UNCHANGED <<today, run, begun, history>>

OwnerDecides ==
  /\ booking.day # Never /\ booking.status = "pending"
  /\ \E status \in {"confirmed", "cancelled"} :
       booking' = [booking EXCEPT !.status = status]
  /\ UNCHANGED <<today, contact, run, begun, history>>

NextDay ==
  /\ today < LastDay
  /\ today' = today + 1
  /\ UNCHANGED <<contact, booking, run, begun, history>>

Next ==
  \/ \E r \in Runs, agent \in {"email", "nurture"} : Begin(r, agent)
  \/ \E r \in Runs : List(r) \/ Look(r) \/ Send(r) \/ Mark(r) \/ Abort(r)
  \/ OwnerWins \/ ReturnsAsLead \/ Books \/ OwnerDecides \/ NextDay

Spec == Init /\ [][Next]_vars

-----------------------------------------------------------------------------
(* The contact gets a first message, a booking its reminder and its thanks, *)
(* once, from whichever agent and channel, and again only as often as two   *)
(* runs held the row at once or one died before it marked it.               *)
RepeatedBySlip == \A k \in Kinds : sent[k] <= 1

(* The agents leave the stage the owner gave her, except a run that had     *)
(* listed her before the owner spoke.                                       *)
OwnersStageKept == said => contact.stage = "won"
=============================================================================
