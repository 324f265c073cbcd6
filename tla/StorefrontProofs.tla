-------------------------- MODULE StorefrontProofs --------------------------
(***************************************************************************)
(* The promises of the components between the owner, her customers and the *)
(* stores, proved of each component's steps and then of them side by side. *)
(***************************************************************************)
EXTENDS Storefront, Integers, SequenceTheorems, FiniteSetTheorems,
        WellFoundedInduction, TLAPS

LEMMA SameCardinality == \A T : O!Cardinality(T) = Cardinality(T)
BY DEF O!Cardinality, Cardinality

-----------------------------------------------------------------------------

OrdersAssumption == MaxCharges \in Nat

(* A page on which the order can still be paid loaded it unpaid; a charge   *)
(* no slip accounts for is on its way to the order, or has settled it.      *)
OrdersInv ==
  /\ O!TypeOK
  /\ order.linked => order.status \in {"sent", "paid"}
  /\ \A t \in Tabs : tab[t].screen \in {"ready", "popup"} => tab[t].seen \notin O!Settled
  /\ O!ChargedAgainBySlip
  /\ charges > slips => O!InFlight \/ order.status \in O!Settled

LEMMA OrdersStart == OrdersAssumption /\ O!Init => OrdersInv
BY DEF OrdersAssumption, O!Init, OrdersInv, O!TypeOK, O!Closed, O!Screens, O!ChargedAgainBySlip, O!Settled

OrdersStep(A) == OrdersAssumption /\ OrdersInv /\ A => OrdersInv'

LEMMA OrdersLink ==
  OrdersStep(O!CreateOrder \/ \E l \in Links : O!StartLink(l) \/ O!BindLink(l))
<1> SUFFICES ASSUME OrdersAssumption, OrdersInv,
                    O!CreateOrder \/ \E l \in Links : O!StartLink(l) \/ O!BindLink(l)
             PROVE  OrdersInv'
  BY DEF OrdersStep
<1> USE DEF OrdersInv, OrdersAssumption, O!ChargedAgainBySlip
<1>1. CASE O!CreateOrder
  BY <1>1 DEF O!CreateOrder, O!TypeOK, O!InFlight, O!Settled
<1>2. CASE \E l \in Links : O!StartLink(l)
  BY <1>2 DEF O!StartLink, O!TypeOK, O!InFlight, O!Settled
<1>3. CASE \E l \in Links : O!BindLink(l)
  <2>1. PICK l \in Links : O!BindLink(l)
    BY <1>3
  <2>2. /\ order' = [status |-> "sent", linked |-> TRUE] /\ tab' = tab /\ charges' = charges
        /\ link' = [link EXCEPT ![l] = "done"]
        /\ slips' = slips + O!Cardinality({order.status} \cap O!Settled)
    BY <2>1 DEF O!BindLink, O!Linked
  <2>3. O!Cardinality({order.status} \cap O!Settled) = IF order.status \in O!Settled THEN 1 ELSE 0
    <3>1. CASE order.status \in O!Settled
      <4>1. {order.status} \cap O!Settled = {order.status}
        BY <3>1
      <4> QED
        BY <3>1, <4>1, FS_Singleton, SameCardinality
    <3>2. CASE order.status \notin O!Settled
      <4>1. {order.status} \cap O!Settled = {}
        BY <3>2
      <4> QED
        BY <3>2, <4>1, FS_EmptySet, SameCardinality
    <3> QED
      BY <3>1, <3>2
  <2> HIDE DEF OrdersInv
  <2>4. slips' = IF order.status \in O!Settled THEN slips + 1 ELSE slips
    BY <2>2, <2>3 DEF OrdersInv, O!TypeOK
  <2> QED
    BY <2>2, <2>4 DEF OrdersInv, O!TypeOK, O!InFlight
<1> QED
  BY <1>1, <1>2, <1>3

LEMMA OrdersPage == OrdersStep(\E t \in Tabs : O!Page(t))
<1> SUFFICES ASSUME OrdersAssumption, OrdersInv, NEW t \in Tabs, O!Page(t) PROVE OrdersInv'
  BY DEF OrdersStep
<1> USE DEF OrdersAssumption, OrdersInv, O!ChargedAgainBySlip, O!TypeOK, O!InFlight, O!Screens, O!Settled
<1>1. CASE O!OpenPage(t)
  BY <1>1 DEF O!OpenPage, O!Closed, O!Loaded
<1>2. CASE O!Pay(t) \/ O!ClosePopup(t) \/ O!Leave(t)
  BY <1>2 DEF O!Pay, O!ClosePopup, O!Leave
<1>3. CASE O!PaystackCharges(t)
  <2>1. /\ charges' = charges + 1 /\ tab' = [tab EXCEPT ![t].screen = "charged"]
        /\ charges < MaxCharges /\ UNCHANGED <<order, link>>
        /\ tab[t].screen = "popup"
    BY <1>3 DEF O!PaystackCharges, O!Charge
  <2>2. slips' = (IF O!InFlight \/ O!Outdated(t) THEN slips + 1 ELSE slips)
    BY <1>3 DEF O!PaystackCharges
  <2>3. O!InFlight'
    BY <2>1
  <2>4. slips' = slips => charges <= slips
    BY <2>1, <2>2 DEF O!Outdated
  <2>5. slips' = slips \/ slips' = slips + 1
    BY <2>2
  <2>6. O!TypeOK'
    BY <2>1, <2>5
  <2>7. \A u \in Tabs : tab'[u].screen \in {"ready", "popup"} => tab'[u].seen \notin O!Settled
    BY <2>1
  <2> QED
    BY <2>1, <2>3, <2>4, <2>5, <2>6, <2>7
<1>4. CASE O!PostFinds(t) \/ O!PostSettles(t)
  BY <1>4 DEF O!PostFinds, O!PostSettles, O!Posted
<1>5. CASE O!PostLost(t)
  BY <1>5 DEF O!PostLost
<1>6. CASE O!StripeSession(t)
  BY <1>6 DEF O!StripeSession
<1>7. CASE O!StripeCharges(t)
  BY <1>7 DEF O!StripeCharges, O!Charge
<1> QED
  BY <1>1, <1>2, <1>3, <1>4, <1>5, <1>6, <1>7 DEF O!Page

LEMMA OrdersKept == OrdersAssumption /\ OrdersInv /\ [O!Next]_O!vars => OrdersInv'
<1>1. OrdersAssumption /\ OrdersInv /\ UNCHANGED O!vars => OrdersInv'
  BY DEF O!vars, OrdersInv, O!TypeOK, O!ChargedAgainBySlip, O!InFlight
<1> QED
  BY <1>1, OrdersLink, OrdersPage DEF OrdersStep, O!Next

-----------------------------------------------------------------------------

OutreachAssumption == None \notin Int /\ QuietDays \in Nat /\ LeadDays \subseteq Int

Talks == [at : U!Mails \cup U!Texts, step : {"list", "send", "mark"}]
         \cup [at : {"reminder", "visit"}, step : {"look"}] \cup {U!Idle}

(* The row tells that a message of kind k was sent.                         *)
Noted(k) ==
  \/ k = "greeting" /\ contact.last # None
  \/ k = "reminder" /\ booking.reminded = TRUE
  \/ k = "visit" /\ booking.day # None /\ contact.last # None
                 /\ booking.day + 1 <= contact.last

(* A run has sent one and is about to note it.                              *)
Noting(k) == \E r \in Runs : outreachRun[r].step = "mark" /\ U!Kind(outreachRun[r].at) = k

VisitIsOver == booking.day # None /\ booking.day + 1 <= today

OutreachRows ==
  /\ today \in Int
  /\ contact \in [stage : U!Stages, last : Int \cup {None}, created : Int]
  /\ contact.last # None => contact.last <= today
  /\ booking \in [day : Int \cup {None}, status : {"pending", "confirmed", "cancelled"},
                  reminded : BOOLEAN]

OutreachRuns ==
  /\ outreachRun \in [Runs -> Talks]
  /\ \A r \in Runs : outreachRun[r].at = "visit" /\ outreachRun[r].step # "list" => VisitIsOver

OutreachSent ==
  /\ sent \in [U!Kinds -> Int]
  /\ U!RepeatedBySlip
  /\ \A k \in U!Kinds : Noted(k) \/ Noting(k) \/ sent[k] <= 0

StageIsHers == said => contact.stage = "won" /\ ~U!Held

OutreachInv == OutreachRows /\ OutreachRuns /\ OutreachSent /\ StageIsHers

LEMMA OutreachStart == U!Init => OutreachInv
<1> SUFFICES ASSUME U!Init PROVE OutreachInv
  OBVIOUS
<1>1. OutreachRows
  BY DEF U!Init, OutreachRows, U!Stages
<1>2. OutreachRuns
  BY DEF U!Init, OutreachRuns, Talks, U!Idle
<1>3. OutreachSent
  BY DEF U!Init, OutreachSent, U!RepeatedBySlip
<1>4. StageIsHers
  BY DEF U!Init, StageIsHers
<1> QED
  BY <1>1, <1>2, <1>3, <1>4 DEF OutreachInv

(* Run r goes on as q.                                                      *)
Talk(r, q) ==
  /\ q \in Talks /\ outreachRun' = [outreachRun EXCEPT ![r] = q]
  /\ q.at = "visit" /\ q.step # "list" => VisitIsOver
  /\ said /\ q.at \in U!Texts => q.step \notin {"send", "mark"}

OutreachStands == UNCHANGED <<today, contact, booking, sent, said>>

LEMMA TalkKeeps ==
  ASSUME OutreachInv, NEW r \in Runs, NEW q, Talk(r, q), UNCHANGED <<today, booking>>
  PROVE  OutreachRuns' /\ (said => ~U!Held')
<1>1. outreachRun' \in [Runs -> Talks]
  BY DEF OutreachInv, OutreachRuns, Talk
<1>2. \A s \in Runs : outreachRun'[s].at = "visit" /\ outreachRun'[s].step # "list" => VisitIsOver
  BY DEF OutreachInv, OutreachRuns, Talk
<1>3. ASSUME said PROVE ~U!Held'
  <2>1. \A s \in Runs : ~(outreachRun[s].at \in U!Texts /\ outreachRun[s].step \in {"send", "mark"})
    BY <1>3 DEF OutreachInv, StageIsHers, U!Held
  <2>2. \A s \in Runs : ~(outreachRun'[s].at \in U!Texts /\ outreachRun'[s].step \in {"send", "mark"})
    BY <1>3, <2>1 DEF OutreachInv, OutreachRuns, Talk
  <2> QED
    BY <2>2 DEF U!Held
<1> QED
  BY <1>1, <1>2, <1>3 DEF OutreachRuns, VisitIsOver

LEMMA TalkGoesOn ==
  ASSUME OutreachInv, NEW r \in Runs, NEW q, Talk(r, q), OutreachStands,
         outreachRun[r].step # "mark"
  PROVE  OutreachInv'
<1>1. OutreachRuns' /\ (said => ~U!Held')
  BY TalkKeeps DEF OutreachStands
<1>2. \A k \in U!Kinds : Noting(k) => Noting(k)'
  BY DEF Noting, Talk, OutreachInv, OutreachRuns
<1>3. \A k \in U!Kinds : Noted(k)' <=> Noted(k)
  BY DEF Noted, OutreachStands
<1>4. OutreachSent'
  BY <1>2, <1>3 DEF OutreachInv, OutreachSent, OutreachStands, U!RepeatedBySlip
<1> QED
  BY <1>1, <1>4 DEF OutreachInv, OutreachRows, StageIsHers, OutreachStands

LEMMA TalkTypes ==
  ASSUME OutreachInv, NEW r \in Runs
  PROVE  /\ outreachRun[r] \in Talks
         /\ outreachRun[r].step # "list" => outreachRun[r].at \in U!Mails \cup U!Texts
         /\ outreachRun[r].at # "idle" => outreachRun[r].at \in U!Mails \cup U!Texts
BY DEF OutreachInv, OutreachRuns, Talks, U!Idle, U!Mails

(* The message after the last: none, or the next one's list.                *)
LEMMA NextTalk ==
  ASSUME OutreachInv, NEW r \in Runs, outreachRun[r].at \in U!Mails \cup U!Texts, U!MovesOn(r)
  PROVE  \E q : Talk(r, q) /\ q.step = "list"
<1>1. CASE U!After[outreachRun[r].at] = "over"
  <2>1. Talk(r, U!Idle)
    BY <1>1 DEF U!MovesOn, Talk, Talks, U!Idle
  <2> QED
    BY <2>1 DEF U!Idle
<1>2. CASE U!After[outreachRun[r].at] # "over"
  <2>1. U!After[outreachRun[r].at] \in U!Mails \cup U!Texts
    BY <1>2 DEF U!After, U!Mails, U!Texts
  <2>2. PICK q : q = [at |-> U!After[outreachRun[r].at], step |-> "list"]
    OBVIOUS
  <2>3. Talk(r, q) /\ q.step = "list"
    BY <1>2, <2>1, <2>2 DEF U!MovesOn, U!Goes, Talk, Talks
  <2> QED
    BY <2>3
<1> QED
  BY <1>1, <1>2

LEMMA OutreachLists ==
  ASSUME OutreachInv, NEW r \in Runs, U!List(r) PROVE OutreachInv'
<1>0. outreachRun[r].at \in U!Mails \cup U!Texts /\ outreachRun[r].step = "list" /\ OutreachStands
  BY TalkTypes DEF U!List, OutreachStands, U!history
<1>1. CASE ~U!Listed(outreachRun[r].at)
  <2>1. U!MovesOn(r)
    BY <1>1 DEF U!List
  <2>2. PICK q : Talk(r, q)
    BY <2>1, <1>0, NextTalk
  <2> QED
    BY <2>2, <1>0, TalkGoesOn
<1>2. CASE U!Listed(outreachRun[r].at)
  <2>1. PICK q : /\ q = [at |-> outreachRun[r].at,
                         step |-> CASE outreachRun[r].at \in {"reminder", "visit"} -> "look"
                                    [] outreachRun[r].at = "lost" -> "mark"
                                    [] OTHER -> "send"]
                 /\ outreachRun' = [outreachRun EXCEPT ![r] = q]
    BY <1>2 DEF U!List, U!Goes
  <2>2. q.at = outreachRun[r].at /\ q \in Talks
    <3>1. q.step \in {"look", "mark", "send"}
      BY <2>1, <1>0 DEF U!Mails, U!Texts
    <3> QED
      BY <2>1, <3>1, <1>0 DEF Talks
  <2>3. q.at = "visit" => VisitIsOver
    BY <1>2, <2>2 DEF U!Listed, VisitIsOver, OutreachInv, OutreachRows
  <2>4. said => q.at \notin U!Texts
    <3>1. q.at \in U!Texts => contact.stage # "won"
      BY <1>2, <2>2 DEF U!Listed, U!Untouched, U!Unresponsive, U!Texts
    <3> QED
      BY <3>1 DEF OutreachInv, StageIsHers
  <2>5. Talk(r, q)
    BY <2>1, <2>2, <2>3, <2>4 DEF Talk
  <2> QED
    BY <2>5, <1>0, TalkGoesOn
<1> QED
  BY <1>1, <1>2

LEMMA OutreachLooks ==
  ASSUME OutreachInv, NEW r \in Runs, U!Look(r) PROVE OutreachInv'
<1>0. outreachRun[r].at \in {"reminder", "visit"} /\ outreachRun[r].step = "look" /\ OutreachStands
  BY DEF U!Look, OutreachStands, U!history, OutreachInv, OutreachRuns, Talks, U!Idle
<1>1. CASE ~U!CanEmail
  <2>1. U!MovesOn(r)
    BY <1>1 DEF U!Look
  <2>2. PICK q : Talk(r, q)
    BY <2>1, <1>0, NextTalk DEF U!Mails
  <2> QED
    BY <2>2, <1>0, TalkGoesOn
<1>2. CASE U!CanEmail
  <2>1. PICK q : q = [at |-> outreachRun[r].at, step |-> "send"]
    OBVIOUS
  <2>2. q \in Talks /\ q.at \notin U!Texts
    BY <1>0, <2>1 DEF Talks, U!Mails, U!Texts
  <2>3. outreachRun' = [outreachRun EXCEPT ![r] = q]
    BY <1>2, <2>1 DEF U!Look, U!Goes
  <2>4. q.at = "visit" => VisitIsOver
    BY <1>0, <2>1 DEF OutreachInv, OutreachRuns
  <2> QED
    BY <2>2, <2>3, <2>4, <1>0, TalkGoesOn DEF Talk
<1> QED
  BY <1>1, <1>2

(* What is still due has not been noted.                                    *)
LEMMA DueIsNew ==
  ASSUME OutreachAssumption, OutreachInv, NEW m \in U!Mails \cup U!Texts, U!Due(m)
  PROVE  ~Noted(U!Kind(m))
<1>1. CASE m \in {"welcome", "initial"}
  BY <1>1 DEF U!Due, U!Listed, U!Untouched, U!Kind, Noted
<1>2. CASE m = "reminder"
  BY <1>2 DEF U!Due, U!Listed, U!Kind, Noted
<1>3. CASE m = "visit"
  <2>1. booking.day + 1 = today /\ U!CanEmail
    BY <1>3 DEF U!Due, U!Listed
  <2>2. contact.last = None \/ (contact.last \in Int /\ contact.last + QuietDays < today)
    BY <2>1 DEF U!CanEmail, U!SilentFor, OutreachInv, OutreachRows
  <2>3. ~(contact.last # None /\ booking.day + 1 <= contact.last)
    BY <2>1, <2>2 DEF OutreachAssumption, OutreachInv, OutreachRows
  <2> QED
    BY <2>3, <1>3 DEF U!Kind, Noted
<1>4. CASE m \in {"follow", "lost"}
  BY <1>4 DEF U!Kind, Noted
<1> QED
  BY <1>1, <1>2, <1>3, <1>4 DEF U!Mails, U!Texts

LEMMA OutreachSends ==
  ASSUME OutreachAssumption, OutreachInv, NEW r \in Runs, U!Send(r) PROVE OutreachInv'
<1>0. outreachRun[r].at \in U!Mails \cup U!Texts /\ outreachRun[r].step = "send"
      /\ UNCHANGED <<today, contact, booking, said>>
  BY TalkTypes DEF U!Send
<1>1. said => outreachRun[r].at \notin U!Texts
  BY <1>0 DEF OutreachInv, StageIsHers, U!Held
<1>2. PICK q : q = [at |-> outreachRun[r].at, step |-> "mark"]
  OBVIOUS
<1>3. q \in Talks /\ (q.at = "visit" => VisitIsOver) /\ (said => q.at \notin U!Texts)
  BY <1>0, <1>1, <1>2 DEF Talks, OutreachInv, OutreachRuns
<1>4. U!Goes(r, outreachRun[r].at, "mark") => Talk(r, q)
  BY <1>2, <1>3 DEF U!Goes, Talk
<1>5. CASE UNCHANGED sent
  <2>1. U!Goes(r, outreachRun[r].at, "mark") \/ U!MovesOn(r)
    BY DEF U!Send
  <2>2. PICK p : Talk(r, p)
    BY <2>1, <1>0, <1>4, NextTalk
  <2> QED
    BY <2>2, <1>0, <1>5, TalkGoesOn DEF OutreachStands
<1>6. CASE sent' # sent
  <2>1. /\ U!Goes(r, outreachRun[r].at, "mark") /\ ~U!Unmarked(r) /\ U!Due(outreachRun[r].at)
        /\ sent' = U!Count(outreachRun[r].at, 1)
    BY <1>6 DEF U!Send
  <2>2. Talk(r, q)
    BY <2>1, <1>4
  <2>3. OutreachRuns' /\ (said => ~U!Held')
    BY <2>2, <1>0, TalkKeeps
  <2>4. \A k \in U!Kinds : Noted(k)' <=> Noted(k)
    BY <1>0 DEF Noted
  <2>5. \A k \in U!Kinds : Noting(k) => Noting(k)'
    BY <2>2, <1>0 DEF Noting, Talk, OutreachInv, OutreachRuns
  <2>6. outreachRun'[r] = q
    BY <2>2 DEF Talk, OutreachInv, OutreachRuns
  <2>7. \A k : k = U!Kind(outreachRun[r].at) => Noting(k)'
    BY <2>6, <1>2 DEF Noting
  <2>8. ASSUME U!Kind(outreachRun[r].at) \in U!Kinds PROVE ~Noting(U!Kind(outreachRun[r].at))
    <3>1. outreachRun[r].step # "mark" /\ U!Kind("lost") \notin U!Kinds
      BY <1>0 DEF U!Kind, U!Kinds
    <3> QED
      BY <2>1, <2>8, <3>1 DEF U!Unmarked, Noting
  <2>9. \A k \in U!Kinds : sent'[k] = IF k = U!Kind(outreachRun[r].at) THEN sent[k] + 1 ELSE sent[k]
    BY <2>1 DEF U!Count
  <2>10. sent' \in [U!Kinds -> Int]
    BY <2>1 DEF U!Count, OutreachInv, OutreachSent
  <2>11. ~Noted(U!Kind(outreachRun[r].at))
    BY <2>1, <1>0, DueIsNew
  <2>12. U!Kind(outreachRun[r].at) \in U!Kinds => sent[U!Kind(outreachRun[r].at)] <= 0
    BY <2>8, <2>11 DEF OutreachInv, OutreachSent
  <2>13. \A k \in U!Kinds : sent'[k] <= 1
    BY <2>9, <2>12 DEF OutreachInv, OutreachSent, U!RepeatedBySlip
  <2>14. \A k \in U!Kinds : Noted(k)' \/ Noting(k)' \/ sent'[k] <= 0
    <3> SUFFICES ASSUME NEW k \in U!Kinds PROVE Noted(k)' \/ Noting(k)' \/ sent'[k] <= 0
      OBVIOUS
    <3>1. CASE k = U!Kind(outreachRun[r].at)
      BY <3>1, <2>7
    <3>2. CASE k # U!Kind(outreachRun[r].at)
      BY <3>2, <2>4, <2>5, <2>9 DEF OutreachInv, OutreachSent
    <3> QED
      BY <3>1, <3>2
  <2>15. OutreachSent'
    BY <2>10, <2>13, <2>14 DEF OutreachSent, U!RepeatedBySlip
  <2> QED
    BY <2>3, <2>15, <1>0 DEF OutreachInv, OutreachRows, StageIsHers
<1> QED
  BY <1>5, <1>6

(* The marked row: a message of the run's kind is noted.                    *)
LEMMA OutreachMarks ==
  ASSUME OutreachAssumption, OutreachInv, NEW r \in Runs, U!Mark(r) PROVE OutreachInv'
<1>0. /\ outreachRun[r].at \in U!Mails \cup U!Texts /\ outreachRun[r].step = "mark"
      /\ UNCHANGED <<today, sent, said>>
  BY TalkTypes DEF U!Mark, U!history
<1>1. PICK m \in U!Mails \cup U!Texts : m = outreachRun[r].at
  BY <1>0
<1>2. contact' = U!Marked(m)
      /\ booking' = IF m = "reminder" THEN [booking EXCEPT !.reminded = TRUE] ELSE booking
  BY <1>1 DEF U!Mark
<1>3. contact.last # None => contact.last \in Int /\ contact.last <= today
  BY DEF OutreachInv, OutreachRows
<1>4. /\ contact' \in [stage : U!Stages, last : Int \cup {None}, created : Int]
      /\ contact'.last = IF m \in {"reminder", "lost"} THEN contact.last ELSE today
      /\ m \notin {"initial", "lost"} => contact'.stage = contact.stage
  BY <1>2 DEF U!Marked, U!Mails, U!Texts, U!Stages, OutreachInv, OutreachRows
<1>5. /\ booking' \in [day : Int \cup {None}, status : {"pending", "confirmed", "cancelled"},
                        reminded : BOOLEAN]
      /\ booking'.day = booking.day
      /\ booking'.reminded = TRUE \/ (m # "reminder" /\ booking'.reminded = booking.reminded)
  BY <1>2 DEF OutreachInv, OutreachRows
<1>6. today \in Int /\ today # None
  BY DEF OutreachAssumption, OutreachInv, OutreachRows
<1>7. OutreachRows'
  BY <1>0, <1>3, <1>4, <1>5, <1>6 DEF OutreachRows
<1>8. OutreachRuns' /\ (said => ~U!Held') /\ \A k : Noting(k)' \/ k = U!Kind(m) \/ ~Noting(k)
  <2>1. PICK q : Talk(r, q) /\ q.step = "list"
    BY <1>0, NextTalk DEF U!Mark
  <2>2. outreachRun' \in [Runs -> Talks]
    BY <2>1 DEF Talk, OutreachInv, OutreachRuns
  <2>3. \A s \in Runs : outreachRun'[s].at = "visit" /\ outreachRun'[s].step # "list" => VisitIsOver
    BY <2>1 DEF Talk, OutreachInv, OutreachRuns
  <2>4. VisitIsOver => VisitIsOver'
    BY <1>0, <1>5 DEF VisitIsOver
  <2>5. ASSUME said PROVE ~U!Held'
    <3>1. \A s \in Runs : ~(outreachRun[s].at \in U!Texts /\ outreachRun[s].step \in {"send", "mark"})
      BY <2>5 DEF OutreachInv, StageIsHers, U!Held
    <3>2. \A s \in Runs : ~(outreachRun'[s].at \in U!Texts /\ outreachRun'[s].step \in {"send", "mark"})
      BY <2>1, <3>1 DEF OutreachInv, OutreachRuns, Talk
    <3> QED
      BY <3>2 DEF U!Held
  <2>6. \A k : Noting(k)' \/ k = U!Kind(m) \/ ~Noting(k)
    BY <2>1, <1>1 DEF Noting, Talk, OutreachInv, OutreachRuns
  <2> QED
    BY <2>2, <2>3, <2>4, <2>5, <2>6 DEF OutreachRuns
<1>9. \A k \in U!Kinds : Noted(k) => Noted(k)'
  <2>1. contact.last # None => contact'.last # None /\ contact.last <= contact'.last
    BY <1>3, <1>4, <1>6
  <2>2. booking.day # None => booking.day \in Int
    BY DEF OutreachInv, OutreachRows
  <2>3. contact'.last # None => contact'.last \in Int
    BY <1>4
  <2> QED
    BY <2>1, <2>2, <2>3, <1>3, <1>5 DEF Noted
<1>10. U!Kind(m) \in U!Kinds => Noted(U!Kind(m))'
  <2>1. CASE m \in {"welcome", "initial"}
    BY <2>1, <1>4, <1>6 DEF U!Kind, Noted
  <2>2. CASE m = "reminder"
    BY <2>2, <1>5 DEF U!Kind, Noted
  <2>3. CASE m = "visit"
    <3>1. VisitIsOver
      BY <2>3, <1>0, <1>1 DEF OutreachInv, OutreachRuns
    <3> QED
      BY <2>3, <3>1, <1>4, <1>5, <1>6 DEF VisitIsOver, U!Kind, Noted
  <2>4. CASE m \in {"follow", "lost"}
    BY <2>4 DEF U!Kind, U!Kinds
  <2> QED
    BY <2>1, <2>2, <2>3, <2>4 DEF U!Mails, U!Texts
<1>11. OutreachSent'
  <2>1. \A k \in U!Kinds : Noted(k)' \/ Noting(k)' \/ sent'[k] <= 0
    BY <1>0, <1>8, <1>9, <1>10 DEF OutreachInv, OutreachSent
  <2> QED
    BY <2>1, <1>0 DEF OutreachInv, OutreachSent, U!RepeatedBySlip
<1>12. said => contact'.stage = "won"
  <2>1. said => contact.stage = "won" /\ m \notin U!Texts
    BY <1>0, <1>1 DEF OutreachInv, StageIsHers, U!Held
  <2> QED
    BY <2>1, <1>4 DEF U!Texts
<1> QED
  BY <1>0, <1>7, <1>8, <1>11, <1>12 DEF OutreachInv, StageIsHers

LEMMA OutreachAborts ==
  ASSUME OutreachInv, NEW r \in Runs, U!Abort(r) PROVE OutreachInv'
<1>0. UNCHANGED <<today, contact, booking, said>> /\ Talk(r, U!Idle)
  BY DEF U!Abort, Talk, Talks, U!Idle, U!Texts
<1>1. CASE outreachRun[r].step # "mark"
  BY <1>0, <1>1, TalkGoesOn DEF U!Abort, OutreachStands
<1>2. CASE outreachRun[r].step = "mark"
  <2>1. sent' = U!Count(outreachRun[r].at, -1)
    BY <1>2 DEF U!Abort
  <2>2. OutreachRuns' /\ (said => ~U!Held')
    BY <1>0, TalkKeeps
  <2>3. \A k \in U!Kinds : Noted(k)' <=> Noted(k)
    BY <1>0 DEF Noted
  <2>4. \A k : Noting(k)' \/ k = U!Kind(outreachRun[r].at) \/ ~Noting(k)
    BY <1>0 DEF Noting, Talk, OutreachInv, OutreachRuns
  <2>5. \A k \in U!Kinds : sent'[k] = IF k = U!Kind(outreachRun[r].at) THEN sent[k] + (-1) ELSE sent[k]
    BY <2>1 DEF U!Count
  <2>6. sent' \in [U!Kinds -> Int]
    BY <2>1 DEF U!Count, OutreachInv, OutreachSent
  <2>7. \A k \in U!Kinds : sent[k] \in Int /\ sent[k] <= 1
    BY DEF OutreachInv, OutreachSent, U!RepeatedBySlip
  <2>8. \A k \in U!Kinds : sent'[k] <= 1
    BY <2>5, <2>7
  <2>9. \A k \in U!Kinds : Noted(k)' \/ Noting(k)' \/ sent'[k] <= 0
    <3> SUFFICES ASSUME NEW k \in U!Kinds PROVE Noted(k)' \/ Noting(k)' \/ sent'[k] <= 0
      OBVIOUS
    <3>1. CASE k = U!Kind(outreachRun[r].at)
      <4>1. sent'[k] <= 0
        BY <3>1, <2>5, <2>7
      <4> QED
        BY <4>1
    <3>2. CASE k # U!Kind(outreachRun[r].at)
      BY <3>2, <2>3, <2>4, <2>5 DEF OutreachInv, OutreachSent
    <3> QED
      BY <3>1, <3>2
  <2>10. OutreachSent'
    BY <2>6, <2>8, <2>9 DEF OutreachSent, U!RepeatedBySlip
  <2> QED
    BY <2>2, <2>10, <1>0 DEF OutreachInv, OutreachRows, StageIsHers
<1> QED
  BY <1>1, <1>2

(* The steps of the others leave the runs and the history of what was sent. *)
LEMMA OutreachOthers ==
  ASSUME OutreachAssumption, OutreachInv, UNCHANGED <<outreachRun, sent>>,
         OutreachRows', VisitIsOver => VisitIsOver', StageIsHers',
         \A k \in U!Kinds : Noted(k) => Noted(k)'
  PROVE  OutreachInv'
BY DEF OutreachInv, OutreachRuns, OutreachSent, U!RepeatedBySlip, Noting

LEMMA OutreachOwner ==
  ASSUME OutreachAssumption, OutreachInv,
         U!OwnerWins \/ U!ReturnsAsLead \/ U!OwnerDecides
  PROVE  OutreachInv'
<1>1. UNCHANGED <<outreachRun, sent, today>> /\ OutreachRows'
      /\ contact'.last = contact.last /\ booking'.day = booking.day
      /\ booking'.reminded = booking.reminded
  BY DEF U!OwnerWins, U!ReturnsAsLead, U!OwnerDecides, U!history, OutreachInv, OutreachRows, U!Stages
<1>2. (VisitIsOver => VisitIsOver') /\ \A k \in U!Kinds : Noted(k) => Noted(k)'
  BY <1>1 DEF VisitIsOver, Noted
<1>3. U!Held' <=> U!Held
  BY <1>1 DEF U!Held
<1>4. StageIsHers'
  BY <1>3 DEF U!OwnerWins, U!ReturnsAsLead, U!OwnerDecides, U!history, StageIsHers, OutreachInv,
       OutreachRows
<1> QED
  BY <1>1, <1>2, <1>4, OutreachOthers

LEMMA OutreachDays ==
  ASSUME OutreachAssumption, OutreachInv, U!Books \/ U!NextDay
  PROVE  OutreachInv'
<1>1. UNCHANGED <<outreachRun, sent, said>> /\ (U!Held' <=> U!Held)
  BY DEF U!Books, U!NextDay, U!history, U!Held
<1>2. contact'.stage = contact.stage
  BY DEF U!Books, U!NextDay, OutreachInv, OutreachRows
<1>3. StageIsHers'
  BY <1>1, <1>2 DEF StageIsHers, OutreachInv
<1>4. CASE U!Books
  <2>1. PICK n \in LeadDays : booking' = [booking EXCEPT !.day = today + n]
    BY <1>4 DEF U!Books
  <2>2. booking.day = None /\ contact' = [contact EXCEPT !.last = today] /\ UNCHANGED today
    BY <1>4 DEF U!Books
  <2>3. today \in Int /\ today # None /\ today + n \in Int
    BY DEF OutreachAssumption, OutreachInv, OutreachRows
  <2>4. OutreachRows'
    BY <2>1, <2>2, <2>3 DEF OutreachInv, OutreachRows
  <2>5. ~VisitIsOver
    BY <2>2 DEF VisitIsOver
  <2>6. \A k \in U!Kinds : Noted(k) => Noted(k)'
    <3>1. contact'.last = today /\ booking'.reminded = booking.reminded
      BY <2>1, <2>2 DEF OutreachInv, OutreachRows
    <3> QED
      BY <3>1, <2>2, <2>3 DEF Noted
  <2> QED
    BY <2>4, <2>5, <2>6, <1>1, <1>3, OutreachOthers
<1>5. CASE U!NextDay
  <2>1. today' = today + 1 /\ UNCHANGED <<contact, booking>> /\ today \in Int
    BY <1>5 DEF U!NextDay, OutreachInv, OutreachRows
  <2>2. OutreachRows'
    BY <2>1 DEF OutreachInv, OutreachRows
  <2>3. VisitIsOver => VisitIsOver'
    BY <2>1 DEF VisitIsOver, OutreachInv, OutreachRows
  <2>4. \A k \in U!Kinds : Noted(k) => Noted(k)'
    BY <2>1 DEF Noted
  <2> QED
    BY <2>2, <2>3, <2>4, <1>1, <1>3, OutreachOthers
<1> QED
  BY <1>4, <1>5

LEMMA OutreachKept ==
  ASSUME OutreachAssumption, OutreachInv, [U!Next]_U!vars PROVE OutreachInv'
<1>1. ASSUME NEW r \in Runs, NEW agent \in {"email", "nurture"}, U!Begin(r, agent)
      PROVE  OutreachInv'
  <2>1. PICK q : q = [at |-> U!First(agent), step |-> "list"]
    OBVIOUS
  <2>2. U!First(agent) \in U!Mails \cup U!Texts
    BY DEF U!First, U!Mails, U!Texts
  <2>3. Talk(r, q) /\ OutreachStands /\ outreachRun[r].step # "mark"
    BY <1>1, <2>1, <2>2 DEF U!Begin, U!Goes, Talk, Talks, OutreachStands, U!history, U!Idle
  <2> QED
    BY <2>3, TalkGoesOn
<1>2. ASSUME NEW r \in Runs, U!List(r) \/ U!Look(r) \/ U!Send(r) \/ U!Mark(r) \/ U!Abort(r)
      PROVE  OutreachInv'
  BY <1>2, OutreachLists, OutreachLooks, OutreachSends, OutreachMarks, OutreachAborts
<1>3. CASE UNCHANGED U!vars
  <2>1. UNCHANGED <<today, contact, booking, outreachRun, sent, said>>
    BY <1>3 DEF U!vars
  <2> QED
    BY <2>1 DEF OutreachInv, OutreachRows, OutreachRuns, OutreachSent, U!RepeatedBySlip,
         StageIsHers, Noted, Noting, U!Held, VisitIsOver
<1> QED
  BY <1>1, <1>2, <1>3, OutreachOwner, OutreachDays DEF U!Next

-----------------------------------------------------------------------------

ReviewsAssumption == None \notin Records /\ MaxReviewRuns \in Nat

(* A review that was flagged, or that the owner answered first, is on no    *)
(* run's list any more, and no run will list it again.                      *)
ReviewsInv ==
  /\ V!TypeOK
  /\ \A r \in Runs : reviewRun[r].step = "flag" => reviewRun[r].at # None
  /\ \A r \in Runs : reviewRun[r].at \notin reviewRun[r].todo
  /\ \A v \in Records : flags[v] = 0 \/ (flags[v] = 1 /\ review[v].response # "none" /\ ~V!Listed(v))
  /\ \A v \in own : review[v].response = "owner" /\ ~V!Listed(v)

LEMMA ReviewsPromise == ReviewsInv => V!OwnersReplyKept /\ V!FlaggedOnce
BY DEF ReviewsInv, V!OwnersReplyKept, V!FlaggedOnce

LEMMA ReviewsStart == ReviewsAssumption /\ V!Init => ReviewsInv
<1> SUFFICES ASSUME ReviewsAssumption, V!Init PROVE ReviewsInv
  OBVIOUS
<1>1. V!TypeOK
  <2>1. review \in [Records -> [exists : BOOLEAN, bad : BOOLEAN,
                                response : {"none", "draft", "owner"}, answered : BOOLEAN]]
    <3>1. {[exists |-> FALSE, bad |-> b, response |-> "none", answered |-> FALSE] : b \in BOOLEAN}
            \subseteq [exists : BOOLEAN, bad : BOOLEAN,
                       response : {"none", "draft", "owner"}, answered : BOOLEAN]
      <4>1. \A b \in BOOLEAN : [exists |-> FALSE, bad |-> b, response |-> "none", answered |-> FALSE]
              \in [exists : BOOLEAN, bad : BOOLEAN,
                  response : {"none", "draft", "owner"}, answered : BOOLEAN]
        OBVIOUS
      <4> QED
        BY <4>1, Zenon
    <3>2. review \in [Records -> {[exists |-> FALSE, bad |-> b, response |-> "none",
                                   answered |-> FALSE] : b \in BOOLEAN}]
      BY DEF V!Init
    <3> QED
      BY <3>1, <3>2
  <2>2. reviewRun \in [Runs -> [todo : SUBSET Records, at : Records \cup {None}, step : {"model", "flag"}]]
    BY DEF V!Init, V!Idle
  <2> QED
    BY <2>1, <2>2 DEF V!Init, V!TypeOK, ReviewsAssumption
<1> QED
  BY <1>1 DEF V!Init, ReviewsInv, V!Idle

Plans == [todo : SUBSET Records, at : Records \cup {None}, step : {"model", "flag"}]

(* A run goes on with reviews it had, or with open ones.                    *)
Replans(r, plan) ==
  /\ plan \in Plans /\ reviewRun' = [reviewRun EXCEPT ![r] = plan] /\ UNCHANGED own
  /\ reviewBegun' \in 0..MaxReviewRuns
  /\ (plan.step = "flag" => plan.at # None) /\ plan.at \notin plan.todo
  /\ \A v \in Records : v \in plan.todo \/ plan.at = v =>
       v \in reviewRun[r].todo \/ reviewRun[r].at = v \/ V!Open(v)

(* A review's response stays, or becomes a draft that is not over hers.     *)
Drafts ==
  /\ review' \in [Records -> [exists : BOOLEAN, bad : BOOLEAN,
                              response : {"none", "draft", "owner"}, answered : BOOLEAN]]
  /\ \A v \in Records : review[v].response # "none" => review'[v].response # "none"
  /\ \A v \in own : review'[v].response = "owner"

(* A review that is flagged was not, and is on no run's list.               *)
Flags ==
  /\ flags' \in [Records -> Nat]
  /\ \A v \in Records : \/ flags'[v] = flags[v]
                        \/ flags[v] = 0 /\ flags'[v] = 1 /\ review'[v].response # "none" /\ ~V!Listed(v)'

LEMMA ReviewsRun ==
  ASSUME ReviewsInv, ReviewsAssumption, NEW r \in Runs, NEW plan, Replans(r, plan), Drafts, Flags
  PROVE  ReviewsInv'
<1>0. reviewRun \in [Runs -> Plans] /\ plan \in Plans /\ reviewRun' = [reviewRun EXCEPT ![r] = plan]
  BY DEF ReviewsInv, V!TypeOK, Plans, Replans
<1>1. V!TypeOK'
  BY <1>0 DEF ReviewsInv, V!TypeOK, Plans, Replans, Drafts, Flags
<1>2. \A s \in Runs : (reviewRun'[s].step = "flag" => reviewRun'[s].at # None) /\ reviewRun'[s].at \notin reviewRun'[s].todo
  BY <1>0 DEF ReviewsInv, Replans
<1>3. \A v \in Records : review[v].response # "none" /\ ~V!Listed(v) => ~V!Listed(v)'
  BY <1>0 DEF V!Listed, V!Open, Replans
<1>4. \A v \in Records : flags'[v] = 0 \/ (flags'[v] = 1 /\ review'[v].response # "none" /\ ~V!Listed(v)')
  BY <1>3 DEF ReviewsInv, Drafts, Flags
<1>5. own' = own /\ \A v \in own : v \in Records
  BY DEF ReviewsInv, V!TypeOK, Replans
<1>6. \A v \in own : review'[v].response = "owner" /\ ~V!Listed(v)'
  BY <1>3, <1>5 DEF ReviewsInv, Drafts
<1> QED
  BY <1>1, <1>2, <1>4, <1>5, <1>6 DEF ReviewsInv

LEMMA ReviewsReplans ==
  ASSUME ReviewsInv, ReviewsAssumption, NEW r \in Runs, NEW plan, Replans(r, plan),
         UNCHANGED <<review, flags>>
  PROVE  ReviewsInv'
<1>1. Drafts /\ Flags
  BY DEF Drafts, Flags, ReviewsInv, V!TypeOK
<1> QED
  BY <1>1, ReviewsRun

ReviewsStep(A) == ReviewsAssumption /\ ReviewsInv /\ A => ReviewsInv'

LEMMA ReviewsOwner == ReviewsStep(\E v \in Records : V!Save(v) \/ V!Respond(v))
<1> SUFFICES ASSUME ReviewsAssumption, ReviewsInv, NEW v \in Records, V!Save(v) \/ V!Respond(v)
             PROVE  ReviewsInv'
  BY DEF ReviewsStep
<1>0. UNCHANGED <<reviewRun, reviewBegun, flags>> /\ \A w \in Records : V!Listed(w)' <=> V!Listed(w)
  BY DEF V!Save, V!Respond, V!Listed
<1>1. CASE V!Save(v)
  <2>1. review' = [review EXCEPT ![v].exists = TRUE] /\ own' = own
    BY <1>1 DEF V!Save
  <2>2. V!TypeOK'
    BY <1>0, <2>1 DEF ReviewsInv, V!TypeOK
  <2>3. \A w \in Records : review'[w].response = review[w].response
    BY <2>1 DEF ReviewsInv, V!TypeOK
  <2> QED
    BY <1>0, <2>1, <2>2, <2>3 DEF ReviewsInv, V!TypeOK
<1>2. CASE V!Respond(v)
  <2>1. review' = [review EXCEPT ![v].response = "owner", ![v].answered = TRUE]
    BY <1>2 DEF V!Respond, V!Answered
  <2>2. V!TypeOK'
    BY <1>0, <1>2, <2>1 DEF V!Respond, ReviewsInv, V!TypeOK
  <2>3. /\ review'[v].response = "owner"
        /\ \A w \in Records : review'[w].response = review[w].response \/ w = v
    BY <2>1 DEF ReviewsInv, V!TypeOK
  <2> QED
    BY <1>0, <1>2, <2>2, <2>3 DEF V!Respond, ReviewsInv, V!TypeOK
<1> QED
  BY <1>1, <1>2

LEMMA ReviewsAgent ==
  ReviewsStep(\E r \in Runs : V!Begin(r) \/ V!Take(r) \/ V!Draft(r) \/ V!NoDraft(r) \/ V!Flag(r) \/ V!Abort(r))
<1> SUFFICES ASSUME ReviewsAssumption, ReviewsInv, NEW r \in Runs,
               V!Begin(r) \/ V!Take(r) \/ V!Draft(r) \/ V!NoDraft(r) \/ V!Flag(r) \/ V!Abort(r)
             PROVE  ReviewsInv'
  BY DEF ReviewsStep
<1>0. /\ reviewRun \in [Runs -> Plans] /\ reviewRun[r] \in Plans
      /\ review \in [Records -> [exists : BOOLEAN, bad : BOOLEAN,
                                 response : {"none", "draft", "owner"}, answered : BOOLEAN]]
      /\ flags \in [Records -> Nat] /\ reviewBegun \in 0..MaxReviewRuns /\ own \in SUBSET Records
      /\ None \notin Records /\ MaxReviewRuns \in Nat /\ reviewRun[r].at \notin reviewRun[r].todo
      /\ None \notin reviewRun[r].todo
  BY DEF ReviewsInv, V!TypeOK, Plans, ReviewsAssumption
<1>i. \A v \in own : review[v].response = "owner"
  BY DEF ReviewsInv
<1>1. CASE V!Begin(r)
  <2>1. PICK plan \in Plans : plan = [reviewRun[r] EXCEPT !.todo = {v \in Records : V!Open(v)}]
                              /\ plan.at = None /\ plan.step = "model"
                              /\ plan.todo = {v \in Records : V!Open(v)}
    BY <1>0, <1>1 DEF V!Begin, Plans, V!Idle
  <2>2. reviewRun' = [reviewRun EXCEPT ![r] = plan]
    BY <1>1, <2>1 DEF V!Begin
  <2>3. reviewBegun' \in 0..MaxReviewRuns /\ UNCHANGED <<review, flags, own>>
    BY <1>0, <1>1 DEF V!Begin
  <2>4. Replans(r, plan)
    BY <1>0, <2>1, <2>2, <2>3 DEF Replans
  <2> QED
    BY <2>3, <2>4, ReviewsReplans
<1>2. CASE V!Take(r)
  <2>1. PICK v \in V!Worst(reviewRun[r].todo) :
          reviewRun' = [reviewRun EXCEPT ![r] = [todo |-> @.todo \ {v}, at |-> v, step |-> "model"]]
    BY <1>2 DEF V!Take
  <2>2. v \in reviewRun[r].todo /\ v \in Records
    BY <1>0, <2>1 DEF V!Worst, Plans
  <2>3. PICK plan \in Plans : plan = [todo |-> reviewRun[r].todo \ {v}, at |-> v, step |-> "model"]
    BY <1>0, <2>2 DEF Plans
  <2>4. reviewRun' = [reviewRun EXCEPT ![r] = plan] /\ UNCHANGED <<review, reviewBegun, flags, own>>
    BY <1>2, <2>1, <2>3 DEF V!Take
  <2>5. plan.todo = reviewRun[r].todo \ {v} /\ plan.at = v /\ plan.step = "model"
    BY <2>3
  <2>6. Replans(r, plan)
    BY <1>0, <2>2, <2>4, <2>5 DEF Replans
  <2> QED
    BY <2>4, <2>6, ReviewsReplans
<1>p. ASSUME reviewRun' = V!Past(r), reviewRun[r].at # None
      PROVE  \E plan \in Plans : /\ reviewRun' = [reviewRun EXCEPT ![r] = plan] /\ plan.todo = reviewRun[r].todo
                                 /\ \/ plan.at = reviewRun[r].at
                                    \/ plan.at = None /\ plan.step = "model"
  <2>1. CASE reviewRun' = [reviewRun EXCEPT ![r].step = "flag"]
    <3>1. PICK plan : plan = [reviewRun[r] EXCEPT !.step = "flag"]
      OBVIOUS
    <3>2. plan \in Plans /\ plan.todo = reviewRun[r].todo /\ plan.at = reviewRun[r].at
      BY <1>0, <3>1 DEF Plans
    <3> QED
      BY <2>1, <3>1, <3>2
  <2>2. CASE reviewRun' = [reviewRun EXCEPT ![r].at = None, ![r].step = "model"]
    <3>1. PICK plan : plan = [reviewRun[r] EXCEPT !.at = None, !.step = "model"]
      OBVIOUS
    <3>2. plan \in Plans /\ plan.todo = reviewRun[r].todo /\ plan.at = None /\ plan.step = "model"
      BY <1>0, <3>1 DEF Plans
    <3>3. reviewRun' = [reviewRun EXCEPT ![r] = plan]
      BY <2>2, <3>1
    <3> QED
      BY <3>2, <3>3
  <2> QED
    BY <1>p, <2>1, <2>2 DEF V!Past
<1>3. CASE V!Draft(r)
  <2>1. /\ reviewRun[r].at # None /\ reviewRun' = V!Past(r) /\ UNCHANGED <<reviewBegun, flags, own>>
        /\ review' = [review EXCEPT ![reviewRun[r].at].response = "draft"]
    BY <1>3 DEF V!Draft
  <2>2. PICK plan \in Plans : /\ reviewRun' = [reviewRun EXCEPT ![r] = plan] /\ plan.todo = reviewRun[r].todo
                              /\ \/ plan.at = reviewRun[r].at
                                 \/ plan.at = None /\ plan.step = "model"
    BY <1>p, <2>1
  <2>3. reviewRun[r].at \in Records
    BY <1>0, <2>1 DEF Plans
  <2>4. /\ review' \in [Records -> [exists : BOOLEAN, bad : BOOLEAN,
                                    response : {"none", "draft", "owner"}, answered : BOOLEAN]]
        /\ \A v \in Records : IF v = reviewRun[r].at THEN review'[v].response = "draft"
                              ELSE review'[v] = review[v]
    BY <1>0, <2>1, <2>3
  <2>5. V!Listed(reviewRun[r].at)
    BY DEF V!Listed
  <2>6. \A v \in own : review'[v].response = "owner"
    BY <1>0, <1>i, <2>4, <2>5 DEF ReviewsInv
  <2>7. Replans(r, plan)
    BY <1>0, <2>1, <2>2 DEF Replans
  <2>8. Drafts
    BY <1>0, <2>4, <2>6 DEF Drafts
  <2>9. Flags
    BY <1>0, <2>1 DEF Flags
  <2> QED
    BY <2>7, <2>8, <2>9, ReviewsRun
<1>4. CASE V!NoDraft(r)
  <2>1. reviewRun[r].at # None /\ reviewRun' = V!Past(r) /\ UNCHANGED <<review, reviewBegun, flags, own>>
    BY <1>4 DEF V!NoDraft
  <2>2. PICK plan \in Plans : /\ reviewRun' = [reviewRun EXCEPT ![r] = plan] /\ plan.todo = reviewRun[r].todo
                              /\ \/ plan.at = reviewRun[r].at
                                 \/ plan.at = None /\ plan.step = "model"
    BY <1>p, <2>1
  <2>3. Replans(r, plan)
    BY <1>0, <2>1, <2>2 DEF Replans
  <2> QED
    BY <2>1, <2>3, ReviewsReplans
<1>5. CASE V!Flag(r)
  <2>1. PICK plan : plan = [reviewRun[r] EXCEPT !.at = None, !.step = "model"]
    OBVIOUS
  <2>2. /\ plan \in Plans /\ plan.todo = reviewRun[r].todo /\ plan.at = None /\ plan.step = "model"
        /\ reviewRun' = [reviewRun EXCEPT ![r] = plan] /\ UNCHANGED <<review, reviewBegun, own>>
    <3>1. plan \in Plans /\ plan.todo = reviewRun[r].todo /\ plan.at = None /\ plan.step = "model"
      BY <1>0, <2>1 DEF Plans
    <3>2. reviewRun' = [reviewRun EXCEPT ![r] = plan]
      BY <1>5, <2>1 DEF V!Flag
    <3> QED
      BY <1>5, <3>1, <3>2 DEF V!Flag
  <2>3. PICK w \in Records : w = reviewRun[r].at
    BY <1>0, <1>5 DEF V!Flag, ReviewsInv, Plans
  <2>a. Replans(r, plan)
    BY <1>0, <2>2 DEF Replans
  <2>4. CASE flags' = flags
    BY <2>2, <2>a, <2>4, ReviewsReplans
  <2>5. CASE flags' = [flags EXCEPT ![w] = @ + 1] /\ review[w].response # "none" /\ ~V!Shared(r, w)
    <3>1. flags[w] = 0
      BY <2>3 DEF ReviewsInv, V!Listed
    <3>2. flags' \in [Records -> Nat] /\ flags'[w] = 1 /\ \A v \in Records \ {w} : flags'[v] = flags[v]
      BY <1>0, <2>5, <3>1
    <3>3. ~V!Listed(w)'
      BY <1>0, <2>2, <2>3, <2>5 DEF V!Listed, V!Shared, ReviewsInv
    <3>4. Flags
      BY <2>2, <2>5, <3>1, <3>2, <3>3 DEF Flags
    <3>5. Drafts
      BY <1>0, <1>i, <2>2 DEF Drafts
    <3> QED
      BY <2>a, <3>4, <3>5, ReviewsRun
  <2> QED
    BY <1>5, <2>3, <2>4, <2>5 DEF V!Flag
<1>6. CASE V!Abort(r)
  <2>1. PICK plan : plan = [todo |-> {}, at |-> None, step |-> "model"]
    OBVIOUS
  <2>2. plan \in Plans
    BY <2>1 DEF Plans
  <2>3. reviewRun' = [reviewRun EXCEPT ![r] = plan] /\ UNCHANGED <<review, reviewBegun, flags, own>>
    BY <1>6, <2>1 DEF V!Abort, V!Idle
  <2>4. Replans(r, plan)
    BY <1>0, <2>1, <2>2, <2>3 DEF Replans
  <2> QED
    BY <2>3, <2>4, ReviewsReplans
<1> QED
  BY <1>1, <1>2, <1>3, <1>4, <1>5, <1>6

LEMMA ReviewsKept == ReviewsAssumption /\ ReviewsInv /\ [V!Next]_V!vars => ReviewsInv'
<1>1. ReviewsInv /\ UNCHANGED V!vars => ReviewsInv'
  BY DEF ReviewsInv, V!TypeOK, V!Listed, V!vars
<1> QED
  BY <1>1, ReviewsOwner, ReviewsAgent DEF ReviewsStep, V!Next

-----------------------------------------------------------------------------

StudioAssumption == MaxDraftEdits \in Nat /\ MaxPublishes \in Nat

(* The last call of the page's queue will leave the database as the page    *)
(* shows it, or the page as the database is.                                *)
Ends(change) == change.kind = "refresh" \/ change.value = page.shows
LastCallEnds == queue # <<>> => Ends(queue[Len(queue)])

Rereads == \E i \in 1..Len(queue) : queue[i].kind = "refresh"

RowsAreThere ==
  /\ (Rereads \/ migrate \in {"answered", "something"} \/ found = "something") => rows # <<>>
  /\ found # "no" => D!Upserts

(* A row that came up since the save being served looked for one is the     *)
(* migration's, and the page will read it, unless that failed.              *)
LateRowIsRead ==
  found = "nothing" /\ rows # <<>> => migrate = "answered" \/ adrift \/ Rereads

BeforeHydration == ~page.hydrated => queue = <<>> /\ found = "no" /\ migrate = "idle"

StudioInv ==
  /\ D!TypeOK /\ LastCallEnds /\ RowsAreThere /\ LateRowIsRead /\ BeforeHydration
  /\ D!PageIsSaved

LEMMA OnAppend ==
  ASSUME NEW T, NEW q \in Seq(T), NEW x \in T
  PROVE  /\ Append(q, x) \in Seq(T) /\ Append(q, x) # <<>>
         /\ Len(Append(q, x)) = Len(q) + 1 /\ Append(q, x)[Len(Append(q, x))] = x
         /\ \A i \in 1..Len(q) : Append(q, x)[i] = q[i]
         /\ Head(Append(q, x)) = IF q = <<>> THEN x ELSE Head(q)
         /\ Append(<<>>, x) = <<x>>
OBVIOUS

LEMMA OnTail ==
  ASSUME NEW T, NEW q \in Seq(T), q # <<>>
  PROVE  /\ Tail(q) \in Seq(T) /\ Len(Tail(q)) = Len(q) - 1
         /\ Head(q) = q[1] /\ Head(q) \in T /\ Len(q) \in Nat \ {0}
         /\ \A i \in 1..Len(q) - 1 : Tail(q)[i] = q[i + 1]
         /\ Tail(q) # <<>> => Tail(q)[Len(Tail(q))] = q[Len(q)]
         /\ Tail(q) = <<>> => Len(q) = 1
<1>1. Len(q) \in Nat \ {0}
  BY EmptySeq
<1>2. Tail(q) \in Seq(T) /\ Len(Tail(q)) = Len(q) - 1 /\ Head(q) = q[1] /\ Head(q) \in T
  BY HeadTailProperties, <1>1
<1>3. \A i \in 1..Len(q) - 1 : Tail(q)[i] = q[i + 1]
  BY HeadTailProperties, <1>1, <1>2
<1>4. Tail(q) # <<>> => Len(Tail(q)) \in 1..Len(q) - 1
  BY <1>2, <1>1, EmptySeq
<1> QED
  BY <1>1, <1>2, <1>3, <1>4, EmptySeq

LEMMA OnExcept ==
  ASSUME NEW T, NEW q \in Seq(T), q # <<>>, NEW x \in T
  PROVE  /\ [q EXCEPT ![1] = x] \in Seq(T) /\ [q EXCEPT ![1] = x] # <<>>
         /\ Head([q EXCEPT ![1] = x]) = x
<1>1. Len(q) \in Nat \ {0}
  BY EmptySeq
<1>2. [q EXCEPT ![1] = x] \in Seq(T) /\ Len([q EXCEPT ![1] = x]) = Len(q)
  BY <1>1, ExceptSeq
<1>3. [q EXCEPT ![1] = x][1] = x
  BY <1>1, ElementOfSeq
<1> QED
  BY <1>1, <1>2, <1>3, EmptySeq

StudioState == StudioInv /\ StudioAssumption

LEMMA ProfileValues ==
  /\ D!Placeholder \in D!Profiles /\ D!Draft \in D!Profiles /\ D!LocalDraft \in D!Profiles
  /\ <<"stored", 0>> \in D!Profiles
  /\ \A e \in 1..MaxDraftEdits : D!Typed(e) \in D!Profiles
  /\ D!Refresh \in D!Calls
  /\ \A v \in D!Profiles : D!Save(v) \in D!Calls /\ [kind |-> "publish", value |-> v] \in D!Calls
BY DEF D!Placeholder, D!Draft, D!LocalDraft, D!Profiles, D!Typed, D!Refresh, D!Save, D!Calls

LEMMA StudioStarts == D!Init /\ StudioAssumption => StudioInv
<1> SUFFICES ASSUME D!Init, StudioAssumption PROVE StudioInv
  OBVIOUS
<1> DEFINE known == << <<"stored", 0>> >>
<1>1. known \in Seq(D!Profiles) /\ known # <<>> /\ Head(known) \in D!Profiles
  BY ProfileValues
<1> HIDE DEF known
<1>2. rows \in Seq(D!Profiles) /\ (rows # <<>> => Head(rows) \in D!Profiles)
  <2>1. rows = <<>> \/ rows = known
    BY DEF D!Init, known
  <2> QED
    BY <2>1, <1>1, EmptySeq
<1>3. page.shows \in D!Profiles /\ page.given \in D!Profiles \cup {D!Nobody} /\ page.hydrated = FALSE
  BY <1>2, ProfileValues DEF D!Init, D!Primary
<1>4. page \in [shows : D!Profiles, given : D!Profiles \cup {D!Nobody}, hydrated : BOOLEAN]
  BY <1>2, ProfileValues DEF D!Init, D!Primary
<1>5. queue \in Seq(D!Calls) /\ Len(queue) = 0
  BY DEF D!Init
<1>6. D!TypeOK
  <2>1. /\ found \in D!Looks /\ adrift \in BOOLEAN /\ migrate = "idle"
        /\ edits \in 0..MaxDraftEdits /\ publishes \in 0..MaxPublishes
    <3>1. found = "no" /\ adrift = FALSE /\ migrate = "idle" /\ edits = 0 /\ publishes = 0
      BY DEF D!Init
    <3>2. MaxDraftEdits \in Nat /\ MaxPublishes \in Nat
      BY DEF StudioAssumption
    <3>3. edits \in 0..MaxDraftEdits /\ publishes \in 0..MaxPublishes
      BY <3>1, <3>2
    <3> QED
      BY <3>1, <3>3 DEF D!Looks
  <2> QED
    BY <2>1, <1>2, <1>4, <1>5 DEF D!TypeOK
<1>7. LastCallEnds /\ RowsAreThere /\ LateRowIsRead /\ BeforeHydration /\ D!PageIsSaved
  BY <1>3, <1>5 DEF LastCallEnds, RowsAreThere, Rereads, LateRowIsRead, BeforeHydration,
     D!PageIsSaved, D!Quiet, D!Init
<1> QED
  BY <1>6, <1>7 DEF StudioInv

LEMMA StudioTyped ==
  ASSUME StudioInv, StudioAssumption
  PROVE  /\ rows \in Seq(D!Profiles) /\ queue \in Seq(D!Calls)
         /\ page \in [shows : D!Profiles, given : D!Profiles \cup {D!Nobody}, hydrated : BOOLEAN]
         /\ found \in D!Looks /\ adrift \in BOOLEAN
         /\ edits \in 0..MaxDraftEdits /\ publishes \in 0..MaxPublishes
         /\ MaxDraftEdits \in Nat /\ MaxPublishes \in Nat
BY DEF StudioInv, D!TypeOK, StudioAssumption

Step(A) == StudioState /\ A => StudioInv'

(* The page puts another call at the end of its queue.                      *)
LEMMA StudioAsks ==
  ASSUME StudioState, NEW q \in D!Calls, queue' = Append(queue, q),
         rows' = rows, adrift' = adrift, found' = found,
         page'.hydrated, Ends(q)', q.kind = "refresh" => rows # <<>>,
         migrate' = migrate \/ migrate' = "sent" \/ (migrate' = "over" /\ q.kind = "refresh"),
         migrate' # migrate => migrate = "idle" \/ q.kind = "refresh",
         D!TypeOK'
  PROVE  StudioInv'
<1> USE DEF StudioState
<1>0. rows \in Seq(D!Profiles) /\ queue \in Seq(D!Calls)
  BY StudioTyped
<1>1. /\ queue' # <<>> /\ Len(queue') = Len(queue) + 1 /\ queue'[Len(queue')] = q
      /\ \A i \in 1..Len(queue) : queue'[i] = queue[i]
      /\ Head(queue') = IF queue = <<>> THEN q ELSE Head(queue)
      /\ Len(queue) \in Nat
  BY <1>0, OnAppend
<1>2. LastCallEnds'
  BY <1>1 DEF LastCallEnds, Ends
<1>3. Rereads' <=> (Rereads \/ q.kind = "refresh")
  BY <1>1 DEF Rereads
<1>4. RowsAreThere'
  BY <1>1, <1>3 DEF RowsAreThere, StudioInv, D!Upserts
<1>5. LateRowIsRead'
  BY <1>3 DEF LateRowIsRead, StudioInv
<1>6. BeforeHydration' /\ D!PageIsSaved'
  BY <1>1 DEF BeforeHydration, D!PageIsSaved, D!Quiet
<1> QED
  BY <1>2, <1>4, <1>5, <1>6 DEF StudioInv

LEMMA StudioHydrates == Step(D!Hydrate)
<1> SUFFICES ASSUME StudioState, D!Hydrate PROVE StudioInv'
  BY DEF Step
<1> USE DEF D!Hydrate, StudioState
<1>0. /\ rows \in Seq(D!Profiles) /\ queue \in Seq(D!Calls) /\ page.shows \in D!Profiles
      /\ page \in [shows : D!Profiles, given : D!Profiles \cup {D!Nobody}, hydrated : BOOLEAN]
  BY StudioTyped
<1>1. D!Save(page.shows) \in D!Calls /\ Ends(D!Save(page.shows))' /\ D!Save(page.shows).kind = "save"
  BY <1>0, ProfileValues DEF Ends, D!Save
<1>2. queue' \in Seq(D!Calls)
  BY <1>0, <1>1, OnAppend
<1>3. page' \in [shows : D!Profiles, given : D!Profiles \cup {D!Nobody}, hydrated : BOOLEAN] /\ page'.hydrated
  BY <1>0
<1>4. migrate = "idle"
  BY DEF StudioInv, BeforeHydration
<1>5. D!TypeOK'
  BY <1>2, <1>3, <1>4 DEF D!TypeOK, StudioInv
<1> QED
  BY <1>1, <1>3, <1>4, <1>5, StudioAsks

LEMMA StudioEdits == Step(D!Edit)
<1> SUFFICES ASSUME StudioState, D!Edit PROVE StudioInv'
  BY DEF Step
<1> USE DEF D!Edit, StudioState
<1>0. /\ rows \in Seq(D!Profiles) /\ queue \in Seq(D!Calls) /\ page.shows \in D!Profiles
      /\ page \in [shows : D!Profiles, given : D!Profiles \cup {D!Nobody}, hydrated : BOOLEAN]
      /\ edits' \in 1..MaxDraftEdits
  BY StudioTyped
<1> DEFINE q == D!Save(D!Typed(edits'))
<1>1. D!Typed(edits') \in D!Profiles /\ q \in D!Calls /\ q.kind = "save" /\ q.value = D!Typed(edits')
  BY <1>0, ProfileValues DEF D!Save
<1>2. queue' \in Seq(D!Calls)
  BY <1>0, <1>1, OnAppend
<1>3. /\ page' \in [shows : D!Profiles, given : D!Profiles \cup {D!Nobody}, hydrated : BOOLEAN]
      /\ page'.hydrated /\ page'.shows = D!Typed(edits')
  BY <1>0, <1>1
<1>4. D!TypeOK'
  BY <1>0, <1>2, <1>3 DEF D!TypeOK, StudioInv
<1>5. queue' = Append(queue, q) /\ migrate' = migrate
  OBVIOUS
<1>6. PICK r \in D!Calls : r = q
  BY <1>1
<1>7. Ends(r)'
  BY <1>1, <1>3, <1>6 DEF Ends
<1> QED
  BY <1>1, <1>3, <1>4, <1>5, <1>6, <1>7, StudioAsks

LEMMA StudioPublishes == Step(D!Publish)
<1> SUFFICES ASSUME StudioState, D!Publish PROVE StudioInv'
  BY DEF Step
<1> USE DEF D!Publish, StudioState
<1>0. /\ rows \in Seq(D!Profiles) /\ queue \in Seq(D!Calls) /\ page.shows \in D!Profiles
      /\ publishes' \in 0..MaxPublishes
  BY StudioTyped
<1>1. PICK q \in D!Calls : q = [kind |-> "publish", value |-> page.shows]
  BY <1>0, ProfileValues
<1>2. queue' \in Seq(D!Calls) /\ queue' = Append(queue, q) /\ q.kind = "publish"
  BY <1>0, <1>1, OnAppend
<1>3. D!TypeOK'
  BY <1>0, <1>2 DEF D!TypeOK, StudioInv
<1>4. Ends(q)'
  BY <1>1 DEF Ends
<1> QED
  BY <1>2, <1>3, <1>4, StudioAsks

LEMMA StudioMigrated == Step(D!Migrated)
<1> SUFFICES ASSUME StudioState, D!Migrated PROVE StudioInv'
  BY DEF Step
<1> USE DEF D!Migrated, StudioState
<1>0. /\ rows \in Seq(D!Profiles) /\ queue \in Seq(D!Calls) /\ D!Refresh.kind = "refresh"
  BY StudioTyped DEF D!Refresh
<1>1. PICK q \in D!Calls : q = D!Refresh
  BY ProfileValues
<1>2. queue' \in Seq(D!Calls) /\ queue' = Append(queue, q)
  BY <1>0, <1>1, OnAppend DEF D!AfterMigrate
<1>3. D!TypeOK'
  BY <1>2 DEF D!TypeOK, StudioInv
<1>4. Ends(q)'
  BY <1>0, <1>1 DEF Ends
<1>5. page.hydrated /\ rows # <<>>
  BY DEF StudioInv, BeforeHydration, RowsAreThere
<1> QED
  BY <1>0, <1>1, <1>2, <1>3, <1>4, <1>5, StudioAsks

LEMMA StudioLooks == Step(D!UpsertLooks)
<1> SUFFICES ASSUME StudioState, D!UpsertLooks PROVE StudioInv'
  BY DEF Step
<1> USE DEF D!UpsertLooks, StudioState
<1>1. D!TypeOK'
  BY DEF D!TypeOK, StudioInv, D!Look, D!Looks
<1>2. LastCallEnds'
  BY DEF LastCallEnds, StudioInv, Ends
<1>3. RowsAreThere' /\ LateRowIsRead'
  BY DEF RowsAreThere, LateRowIsRead, StudioInv, Rereads, D!Upserts, D!Look
<1>4. BeforeHydration' /\ D!PageIsSaved'
  BY DEF BeforeHydration, D!PageIsSaved, D!Quiet, StudioInv, D!Upserts, D!Primary
<1> QED
  BY <1>1, <1>2, <1>3, <1>4 DEF StudioInv

(* What is left of the queue when its first call is over.                   *)
LEMMA StudioShifts ==
  ASSUME StudioState, queue # <<>>
  PROVE  /\ Tail(queue) \in Seq(D!Calls) /\ Head(queue) \in D!Calls /\ queue \in Seq(D!Calls)
         /\ Tail(queue) # <<>> => Ends(Tail(queue)[Len(Tail(queue))])
         /\ Tail(queue) = <<>> => Ends(Head(queue))
         /\ (\E i \in 1..Len(Tail(queue)) : Tail(queue)[i].kind = "refresh") => Rereads
         /\ Rereads => Head(queue).kind = "refresh"
                       \/ \E i \in 1..Len(Tail(queue)) : Tail(queue)[i].kind = "refresh"
<1> USE DEF StudioState
<1>0. queue \in Seq(D!Calls)
  BY StudioTyped
<1>1. /\ Tail(queue) \in Seq(D!Calls) /\ Len(Tail(queue)) = Len(queue) - 1
      /\ Head(queue) = queue[1] /\ Head(queue) \in D!Calls /\ Len(queue) \in Nat \ {0}
      /\ \A i \in 1..Len(queue) - 1 : Tail(queue)[i] = queue[i + 1]
      /\ Tail(queue) # <<>> => Tail(queue)[Len(Tail(queue))] = queue[Len(queue)]
      /\ Tail(queue) = <<>> => Len(queue) = 1
  BY <1>0, OnTail
<1>2. Ends(queue[Len(queue)])
  BY DEF StudioInv, LastCallEnds
<1>3. (\E i \in 1..Len(Tail(queue)) : Tail(queue)[i].kind = "refresh") => Rereads
  BY <1>1 DEF Rereads
<1>4. ASSUME Rereads, Head(queue).kind # "refresh"
      PROVE  \E i \in 1..Len(Tail(queue)) : Tail(queue)[i].kind = "refresh"
  <2>1. PICK i \in 1..Len(queue) : queue[i].kind = "refresh"
    BY <1>4 DEF Rereads
  <2>2. i - 1 \in 1..Len(queue) - 1 /\ (i - 1) + 1 = i
    BY <2>1, <1>1, <1>4
  <2> QED
    BY <2>1, <2>2, <1>1
<1> QED
  BY <1>0, <1>1, <1>2, <1>3, <1>4

LEMMA StudioCallFails == Step(D!CallFails)
<1> SUFFICES ASSUME StudioState, D!CallFails PROVE StudioInv'
  BY DEF Step
<1> USE DEF D!CallFails, StudioState
<1>0. queue # <<>> /\ queue' = Tail(queue)
  BY DEF D!Upserts
<1>1. D!TypeOK'
  BY <1>0, StudioShifts DEF D!TypeOK, StudioInv, D!Looks
<1>2. LastCallEnds'
  BY <1>0, StudioShifts DEF LastCallEnds, Ends
<1>3. Rereads' => Rereads
  BY <1>0, StudioShifts DEF Rereads
<1>4. RowsAreThere' /\ LateRowIsRead'
  BY <1>3 DEF RowsAreThere, LateRowIsRead, StudioInv
<1>5. BeforeHydration' /\ D!PageIsSaved'
  BY <1>0 DEF BeforeHydration, D!PageIsSaved, StudioInv
<1> QED
  BY <1>1, <1>2, <1>4, <1>5 DEF StudioInv

LEMMA StudioMigrateFails == Step(D!MigrateFails)
<1> SUFFICES ASSUME StudioState, D!MigrateFails PROVE StudioInv'
  BY DEF Step
<1> USE DEF D!MigrateFails, StudioState
<1>1. D!TypeOK'
  BY DEF D!TypeOK, StudioInv
<1>2. LastCallEnds'
  BY DEF LastCallEnds, Ends, StudioInv
<1>3. RowsAreThere' /\ LateRowIsRead'
  BY DEF RowsAreThere, LateRowIsRead, StudioInv, Rereads, D!Upserts
<1>4. BeforeHydration' /\ D!PageIsSaved'
  BY DEF BeforeHydration, D!PageIsSaved, StudioInv
<1> QED
  BY <1>1, <1>2, <1>3, <1>4 DEF StudioInv

LEMMA StudioMigrateLooks == Step(D!MigrateLooks)
<1> SUFFICES ASSUME StudioState, D!MigrateLooks PROVE StudioInv'
  BY DEF Step
<1> USE DEF D!MigrateLooks, StudioState
<1>0. /\ migrate' \in {"adopting", "answered", "nothing", "something"}
      /\ migrate' \in {"answered", "something"} => rows # <<>>
      /\ migrate \in {"sent", "adopting"}
  BY DEF D!Look
<1>1. D!TypeOK'
  BY <1>0 DEF D!TypeOK, StudioInv
<1>2. LastCallEnds'
  BY DEF LastCallEnds, Ends, StudioInv
<1>3. RowsAreThere'
  BY <1>0 DEF RowsAreThere, StudioInv, Rereads, D!Upserts
<1>4. LateRowIsRead'
  BY <1>0 DEF LateRowIsRead, StudioInv, Rereads
<1>5. BeforeHydration' /\ D!PageIsSaved'
  BY <1>0 DEF BeforeHydration, D!PageIsSaved, StudioInv, D!Quiet
<1> QED
  BY <1>1, <1>2, <1>3, <1>4, <1>5 DEF StudioInv

(* What an upsert leaves.                                                   *)
LEMMA OnUpserted ==
  ASSUME StudioState, NEW value \in D!Profiles, NEW look \in D!Looks, look = "something" => rows # <<>>
  PROVE  /\ D!Upserted(look, value) \in Seq(D!Profiles) /\ D!Upserted(look, value) # <<>>
         /\ look = "something" \/ rows = <<>> => Head(D!Upserted(look, value)) = value
<1>1. rows \in Seq(D!Profiles)
  BY StudioTyped DEF StudioState
<1>2. CASE look = "something"
  BY <1>1, <1>2, OnExcept DEF D!Upserted
<1>3. CASE look # "something"
  BY <1>1, <1>3, OnAppend DEF D!Upserted
<1> QED
  BY <1>2, <1>3

LEMMA StudioMigrateWrites == Step(D!MigrateWrites)
<1> SUFFICES ASSUME StudioState, D!MigrateWrites PROVE StudioInv'
  BY DEF Step
<1> USE DEF D!MigrateWrites, StudioState
<1>0. rows' \in Seq(D!Profiles) /\ rows' # <<>>
  BY ProfileValues, OnUpserted DEF StudioInv, RowsAreThere, D!Looks
<1>1. D!TypeOK'
  BY <1>0 DEF D!TypeOK, StudioInv
<1>2. LastCallEnds'
  BY DEF LastCallEnds, Ends, StudioInv
<1>3. RowsAreThere' /\ LateRowIsRead'
  BY <1>0 DEF RowsAreThere, LateRowIsRead, StudioInv, Rereads, D!Upserts
<1>4. BeforeHydration' /\ D!PageIsSaved'
  BY DEF BeforeHydration, D!PageIsSaved, StudioInv, D!Quiet
<1> QED
  BY <1>1, <1>2, <1>3, <1>4 DEF StudioInv

LEMMA StudioRefreshes == Step(D!Refreshes)
<1> SUFFICES ASSUME StudioState, D!Refreshes PROVE StudioInv'
  BY DEF Step
<1> USE DEF D!Refreshes, StudioState
<1>0. /\ queue # <<>> /\ Head(queue).kind = "refresh" /\ rows # <<>> /\ found = "no"
      /\ rows \in Seq(D!Profiles) /\ queue \in Seq(D!Calls)
      /\ page \in [shows : D!Profiles, given : D!Profiles \cup {D!Nobody}, hydrated : BOOLEAN]
      /\ page.hydrated
  <2>1. queue \in Seq(D!Calls) /\ rows \in Seq(D!Profiles)
    BY StudioTyped
  <2>2. Len(queue) \in Nat \ {0} /\ Head(queue) = queue[1]
    BY <2>1, OnTail
  <2>3. Rereads
    BY <2>2 DEF Rereads
  <2> QED
    BY <2>1, <2>3, StudioTyped DEF StudioInv, RowsAreThere, BeforeHydration, D!Upserts
<1>1. Head(rows) \in D!Profiles
  BY <1>0, OnTail
<1>2. PICK q \in D!Calls : q = D!Save(Head(rows))
  BY <1>1, ProfileValues
<1>3. q.kind = "save" /\ q.value = Head(rows)
  BY <1>2 DEF D!Save
<1>4. queue' = Append(Tail(queue), q) /\ page' = [page EXCEPT !.given = Head(rows), !.shows = Head(rows)]
  BY <1>0, <1>2
<1>5. /\ queue' \in Seq(D!Calls) /\ queue' # <<>>
      /\ queue'[Len(queue')] = q /\ Len(queue') = Len(Tail(queue)) + 1 /\ Len(Tail(queue)) \in Nat
      /\ \A i \in 1..Len(Tail(queue)) : queue'[i] = Tail(queue)[i]
  BY <1>0, <1>4, StudioShifts, OnAppend
<1>6. /\ page' \in [shows : D!Profiles, given : D!Profiles \cup {D!Nobody}, hydrated : BOOLEAN]
      /\ page'.hydrated /\ page'.shows = Head(rows)
  BY <1>0, <1>1, <1>4
<1>7. D!TypeOK'
  BY <1>5, <1>6 DEF D!TypeOK, StudioInv
<1>8. LastCallEnds'
  BY <1>3, <1>5, <1>6 DEF LastCallEnds, Ends
<1>9. RowsAreThere' /\ LateRowIsRead'
  BY <1>0 DEF RowsAreThere, LateRowIsRead, StudioInv
<1>10. BeforeHydration' /\ D!PageIsSaved'
  BY <1>5, <1>6 DEF BeforeHydration, D!PageIsSaved, D!Quiet
<1> QED
  BY <1>7, <1>8, <1>9, <1>10 DEF StudioInv

LEMMA StudioWrites == Step(D!UpsertWrites)
<1> SUFFICES ASSUME StudioState, D!UpsertWrites PROVE StudioInv'
  BY DEF Step
<1> USE DEF D!UpsertWrites, StudioState
<1>0. /\ queue # <<>> /\ Head(queue).kind \in {"save", "publish"} /\ queue \in Seq(D!Calls)
      /\ Head(queue) \in D!Calls /\ found \in {"nothing", "something"}
      /\ found = "something" => rows # <<>>
      /\ page.hydrated
  BY StudioShifts DEF D!Upserts, StudioInv, RowsAreThere, BeforeHydration, D!TypeOK, D!Looks
<1>1. Head(queue).value \in D!Profiles
  BY <1>0 DEF D!Calls
<1>2. /\ rows' \in Seq(D!Profiles) /\ rows' # <<>>
      /\ found = "something" \/ rows = <<>> => Head(rows') = Head(queue).value
  BY <1>0, <1>1, OnUpserted DEF D!Looks
<1>3. CASE Head(queue).kind = "publish"
  <2>1. PICK q \in D!Calls : q = D!Refresh
    BY ProfileValues
  <2>2. queue' = Append(Tail(queue), q) /\ q.kind = "refresh"
    BY <1>3, <2>1 DEF D!Refresh
  <2>3. queue' \in Seq(D!Calls) /\ queue' # <<>> /\ queue'[Len(queue')] = q /\ Len(queue') \in Nat \ {0}
    BY <2>2, <1>0, StudioShifts, OnAppend, EmptySeq
  <2>4. D!TypeOK'
    BY <2>3, <1>2 DEF D!TypeOK, StudioInv, D!Looks
  <2>5. LastCallEnds' /\ RowsAreThere'
    BY <1>2, <2>2, <2>3 DEF LastCallEnds, Ends, RowsAreThere
  <2>6. LateRowIsRead' /\ BeforeHydration' /\ D!PageIsSaved'
    BY <1>0, <2>3 DEF LateRowIsRead, BeforeHydration, D!PageIsSaved, D!Quiet
  <2> QED
    BY <2>4, <2>5, <2>6 DEF StudioInv
<1>4. CASE Head(queue).kind = "save"
  <2>1. queue' = Tail(queue)
    BY <1>4
  <2>2. D!TypeOK'
    BY <2>1, <1>0, <1>2, StudioShifts DEF D!TypeOK, StudioInv, D!Looks
  <2>3. LastCallEnds'
    BY <2>1, <1>0, StudioShifts DEF LastCallEnds, Ends
  <2>4. RowsAreThere' /\ LateRowIsRead' /\ BeforeHydration'
    BY <1>0, <1>2 DEF RowsAreThere, LateRowIsRead, BeforeHydration
  <2>5. D!PageIsSaved'
    <3> SUFFICES ASSUME queue' = <<>>, migrate \in {"idle", "over"}, ~adrift'
                 PROVE  page.shows = D!Primary(rows')
      BY DEF D!PageIsSaved, D!Quiet
    <3>1. page.shows = Head(queue).value
      BY <2>1, <1>0, <1>4, StudioShifts DEF Ends
    <3>2. found = "something" \/ rows = <<>>
      <4>1. ~Rereads
        <5>1. Len(Tail(queue)) = 0
          BY <2>1, EmptySeq
        <5>2. ~ \E i \in 1..Len(Tail(queue)) : Tail(queue)[i].kind = "refresh"
          BY <5>1
        <5> QED
          BY <5>2, <1>0, <1>4, StudioShifts
      <4> QED
        BY <4>1, <1>0 DEF StudioInv, LateRowIsRead
    <3> QED
      BY <3>1, <3>2, <1>2 DEF D!Primary
  <2> QED
    BY <2>2, <2>3, <2>4, <2>5 DEF StudioInv
<1> QED
  BY <1>0, <1>3, <1>4

LEMMA StudioKept ==
  ASSUME StudioAssumption, StudioInv, [D!Next]_D!vars PROVE StudioInv'
<1>0. StudioState
  BY DEF StudioState
<1>1. CASE UNCHANGED D!vars
  BY <1>1 DEF D!vars, StudioInv, D!TypeOK, LastCallEnds, Ends, RowsAreThere, Rereads, D!Upserts,
     LateRowIsRead, BeforeHydration, D!PageIsSaved, D!Quiet
<1>2. CASE D!Next
  BY <1>0, <1>2, StudioHydrates, StudioEdits, StudioPublishes, StudioMigrated, StudioLooks,
     StudioCallFails, StudioMigrateFails, StudioMigrateLooks, StudioMigrateWrites,
     StudioRefreshes, StudioWrites DEF Step, D!Next
<1> QED
  BY <1>1, <1>2

-----------------------------------------------------------------------------

DomainsAssumption == 0 \notin Tenants

(* What a call goes on with stays true of the name's row, whatever the      *)
(* others write: a row keeps its tenant.                                    *)
OnItsWay(c) ==
  /\ call[c].at = "write" /\ call[c].found => row[call[c].name].tenant = call[c].tenant
  /\ call[c].at \in {"look", "write", "meter"} =>
       (call[c].verb = "register" => available[call[c].name])
  /\ call[c].at = "meter" =>
       call[c].verb # "transfer" /\ row[call[c].name].tenant = call[c].tenant

DomainsInv == N!TypeOK /\ (\A c \in ServerCalls : OnItsWay(c)) /\ N!RecordAndChargeAgree

LEMMA DomainsStart == N!Init => DomainsInv
<1> SUFFICES ASSUME N!Init PROVE DomainsInv
  OBVIOUS
<1>1. N!NoRow \in [tenant : {0} \cup Tenants, status : N!RowStatuses, by : ServerCalls \cup {None}]
  BY DEF N!NoRow, N!RowStatuses
<1>2. row \in [Names -> [tenant : {0} \cup Tenants, status : N!RowStatuses,
                         by : ServerCalls \cup {None}]]
  BY <1>1 DEF N!Init
<1>3. /\ call \in [ServerCalls -> [at : N!Steps, verb : N!Verbs, tenant : Tenants, name : Names,
                             found : BOOLEAN]]
      /\ \A c \in ServerCalls : call[c].at = "idle"
  BY DEF N!Init, N!Steps
<1>4. N!TypeOK
  BY <1>2, <1>3 DEF N!Init, N!TypeOK
<1>5. \A c \in ServerCalls : OnItsWay(c)
  BY <1>3 DEF OnItsWay
<1>6. N!RecordAndChargeAgree
  BY <1>3 DEF N!RecordAndChargeAgree, N!ChargedIsOnRecord, N!AcceptedIsRecorded, N!Init
<1> QED
  BY <1>4, <1>5, <1>6 DEF DomainsInv

(* A call that goes from one step to another.                               *)
LEMMA DomainsGoto ==
  ASSUME N!TypeOK, NEW c \in ServerCalls, NEW stage \in N!Steps, N!Goto(c, stage)
  PROVE  /\ call' \in [ServerCalls -> [at : N!Steps, verb : N!Verbs, tenant : Tenants, name : Names,
                                 found : BOOLEAN]]
         /\ call'[c].at = stage /\ call'[c].found = call[c].found
         /\ \A d \in ServerCalls : call'[d].verb = call[d].verb /\ call'[d].tenant = call[d].tenant
                             /\ call'[d].name = call[d].name
         /\ \A d \in ServerCalls \ {c} : call'[d] = call[d]
BY DEF N!Goto, N!TypeOK

DomainsStep(A) == DomainsAssumption /\ DomainsInv /\ A => DomainsInv'

(* A call that moves on leaves the rows that have a tenant to that tenant.  *)
LEMMA DomainsMove ==
  ASSUME DomainsInv, N!TypeOK', UNCHANGED available, NEW c \in ServerCalls,
         \A n \in Names : row[n].tenant # 0 => row'[n].tenant = row[n].tenant,
         0 \notin Tenants,
         \A d \in ServerCalls : call'[d].verb = call[d].verb /\ call'[d].tenant = call[d].tenant
                          /\ call'[d].name = call[d].name,
         \A d \in ServerCalls \ {c} : call'[d] = call[d] /\ operation'[d] = operation[d]
                                /\ (d \in charged' <=> d \in charged)
                                /\ (d \in excused' <=> d \in excused),
         OnItsWay(c)',
         c \in charged' =>
           /\ row'[call[c].name].tenant = call[c].tenant
           /\ call[c].verb # "transfer"
           /\ call[c].verb = "register" => available[call[c].name],
         c \notin excused' /\ call'[c].at = "accepted" /\ operation'[c] \in {"pending", "succeeded"} =>
           /\ row'[call[c].name].tenant = call[c].tenant
           /\ call[c].verb # "transfer" => c \in charged'
  PROVE  DomainsInv'
<1>1. \A d \in ServerCalls : call[d].tenant # 0 /\ call[d].name \in Names
  BY DEF DomainsInv, N!TypeOK
<1>2. ASSUME NEW d \in ServerCalls \ {c} PROVE OnItsWay(d)'
  BY <1>1 DEF DomainsInv, OnItsWay
<1>3. ASSUME NEW d \in charged'
      PROVE  /\ row'[call[d].name].tenant = call[d].tenant
             /\ call[d].verb # "transfer"
             /\ call[d].verb = "register" => available[call[d].name]
  <2>1. d \in ServerCalls
    BY DEF N!TypeOK
  <2>2. CASE d = c
    BY <2>2
  <2>3. CASE d # c
    BY <2>1, <2>3, <1>1 DEF DomainsInv, N!RecordAndChargeAgree, N!ChargedIsOnRecord
  <2> QED
    BY <2>2, <2>3
<1>4. N!ChargedIsOnRecord'
  <2>1. \A d \in charged' : d \in ServerCalls
    BY DEF N!TypeOK
  <2> QED
    BY <2>1, <1>3 DEF N!ChargedIsOnRecord
<1>5. ASSUME NEW d \in ServerCalls \ {c} PROVE
         d \notin excused' /\ call'[d].at = "accepted" /\ operation'[d] \in {"pending", "succeeded"} =>
           /\ row'[call[d].name].tenant = call[d].tenant
           /\ call[d].verb # "transfer" => d \in charged'
  BY <1>1 DEF DomainsInv, N!RecordAndChargeAgree, N!AcceptedIsRecorded
<1>6. N!AcceptedIsRecorded'
  BY <1>5 DEF N!AcceptedIsRecorded
<1> QED
  BY <1>2, <1>4, <1>6 DEF DomainsInv, N!RecordAndChargeAgree

LEMMA DomainsMoves ==
  DomainsStep(\E c \in ServerCalls :
    N!Begin(c) \/ N!Dispatch(c) \/ N!Look(c) \/ N!Write(c) \/ N!Meter(c) \/ N!Crash(c) \/ N!Settle(c))
<1> SUFFICES ASSUME DomainsAssumption, DomainsInv, NEW c \in ServerCalls,
               N!Begin(c) \/ N!Dispatch(c) \/ N!Look(c) \/ N!Write(c) \/ N!Meter(c) \/ N!Crash(c) \/ N!Settle(c)
             PROVE  DomainsInv'
  BY DEF DomainsStep
<1> USE DEF DomainsAssumption
<1>0. /\ N!TypeOK /\ OnItsWay(c) /\ N!RecordAndChargeAgree
      /\ call[c].name \in Names /\ call[c].tenant \in Tenants
  BY DEF DomainsInv, N!TypeOK
<1>a. N!Steps = {"idle", "approved", "look", "write", "meter", "accepted", "denied", "dead"}
  BY DEF N!Steps
<1>b. c \in charged =>
        /\ row[call[c].name].tenant = call[c].tenant
        /\ call[c].verb # "transfer"
        /\ call[c].verb = "register" => available[call[c].name]
  BY <1>0 DEF N!RecordAndChargeAgree, N!ChargedIsOnRecord
<1>1. CASE N!Begin(c)
  <2>1. PICK stage \in {"approved", "denied"} : N!Goto(c, stage)
    BY <1>1 DEF N!Begin
  <2>2. UNCHANGED <<available, row, operation, charged, excused>>
    BY <1>1 DEF N!Begin
  <2>3. N!TypeOK' /\ OnItsWay(c)'
    BY <1>0, <1>a, <2>1, <2>2, DomainsGoto DEF N!TypeOK, OnItsWay
  <2> QED
    BY <1>0, <1>a, <1>b, <2>1, <2>2, <2>3, DomainsGoto, DomainsMove
<1>2. CASE N!Dispatch(c)
  <2>0. UNCHANGED <<available, row, charged, excused>>
    BY <1>2 DEF N!Dispatch
  <2>1. \/ N!Goto(c, "denied") /\ operation' = operation
        \/ N!Goto(c, "accepted") /\ operation' = [operation EXCEPT ![c] = "failed"]
        \/ /\ N!Goto(c, "look") /\ operation' = [operation EXCEPT ![c] = "pending"]
           /\ call[c].verb = "register" => available[call[c].name]
    BY <1>2 DEF N!Dispatch, N!RegistrarAccepts
  <2>2. /\ operation' \in [ServerCalls -> {"none", "pending", "succeeded", "failed"}]
        /\ \A d \in ServerCalls \ {c} : operation'[d] = operation[d]
    BY <1>0, <2>1 DEF N!TypeOK
  <2>3. PICK stage \in {"denied", "accepted", "look"} : N!Goto(c, stage)
                /\ (stage = "accepted" => operation'[c] = "failed")
                /\ (stage = "look" => (call[c].verb = "register" => available[call[c].name]))
    BY <1>0, <2>1 DEF N!TypeOK
  <2>4. N!TypeOK' /\ OnItsWay(c)'
    BY <1>0, <1>a, <2>0, <2>2, <2>3, DomainsGoto DEF N!TypeOK, OnItsWay
  <2> QED
    BY <1>0, <1>a, <1>b, <2>0, <2>2, <2>3, <2>4, DomainsGoto, DomainsMove
<1>3. CASE N!Look(c)
  <2>1. /\ UNCHANGED <<available, row, operation, charged, excused>>
        /\ call'[c].at = "write" /\ call'[c].found => row[call[c].name].tenant = call[c].tenant
        /\ call'[c].at = "write"
        /\ \A d \in ServerCalls : call'[d].verb = call[d].verb /\ call'[d].tenant = call[d].tenant
                            /\ call'[d].name = call[d].name
        /\ \A d \in ServerCalls \ {c} : call'[d] = call[d]
    BY <1>0, <1>3 DEF N!Look, N!TypeOK
  <2>2. call' \in [ServerCalls -> [at : N!Steps, verb : N!Verbs, tenant : Tenants, name : Names,
                             found : BOOLEAN]]
    <3>1. PICK seen \in BOOLEAN : seen = (row[call[c].name].tenant = call[c].tenant)
      OBVIOUS
    <3>2. call' = [call EXCEPT ![c].at = "write", ![c].found = seen]
      BY <1>3, <3>1 DEF N!Look
    <3>3. call[c] \in [at : N!Steps, verb : N!Verbs, tenant : Tenants, name : Names, found : BOOLEAN]
      BY <1>0 DEF N!TypeOK
    <3>4. PICK next \in [at : N!Steps, verb : N!Verbs, tenant : Tenants, name : Names,
                         found : BOOLEAN] :
            next = [call[c] EXCEPT !.at = "write", !.found = seen]
      BY <3>1, <3>3, <1>a
    <3>5. call' = [call EXCEPT ![c] = next]
      BY <3>2, <3>4
    <3> QED
      BY <1>0, <3>5 DEF N!TypeOK
  <2>3. N!TypeOK'
    BY <1>0, <2>1, <2>2 DEF N!TypeOK
  <2>4. OnItsWay(c)'
    BY <1>0, <1>3, <2>1 DEF OnItsWay, N!Look
  <2> QED
    BY <1>0, <1>b, <2>1, <2>3, <2>4, DomainsMove
<1>4. CASE N!Write(c)
  <2> DEFINE name == call[c].name
  <2>0. call[c].at = "write" /\ UNCHANGED <<available, operation, charged>>
    BY <1>4 DEF N!Write
  <2>1. CASE row' = [row EXCEPT ![name] = N!Written(c)] /\ N!Goto(c, N!AfterWrite(c, TRUE))
             /\ (call[c].found \/ row[name].tenant = 0) /\ UNCHANGED excused
    <3>1. N!Written(c) \in [tenant : {0} \cup Tenants, status : N!RowStatuses, by : ServerCalls \cup {None}]
          /\ N!Written(c).tenant = call[c].tenant
      BY <1>0 DEF N!Written, N!RowStatuses
    <3>2. /\ row' \in [Names -> [tenant : {0} \cup Tenants, status : N!RowStatuses,
                                 by : ServerCalls \cup {None}]]
          /\ row'[name].tenant = call[c].tenant
          /\ \A n \in Names \ {name} : row'[n] = row[n]
      BY <1>0, <2>1, <3>1 DEF N!TypeOK
    <3>3. \A n \in Names : row[n].tenant # 0 => row'[n].tenant = row[n].tenant
      BY <1>0, <2>0, <2>1, <3>2 DEF OnItsWay
    <3>4. PICK stage \in {"accepted", "meter"} : N!Goto(c, stage) /\ (stage = "accepted" <=> call[c].verb = "transfer")
      BY <2>1 DEF N!AfterWrite
    <3>5. N!TypeOK'
      BY <1>0, <1>a, <2>0, <2>1, <3>2, <3>4, DomainsGoto DEF N!TypeOK
    <3>6. OnItsWay(c)'
      BY <1>0, <1>a, <2>0, <2>1, <3>2, <3>4, DomainsGoto DEF OnItsWay
    <3> QED
      BY <1>0, <1>a, <1>b, <2>0, <2>1, <3>2, <3>3, <3>4, <3>5, <3>6, DomainsGoto, DomainsMove
  <2>2. CASE /\ N!Goto(c, N!AfterWrite(c, FALSE)) /\ excused' = excused \cup {c}
             /\ UNCHANGED row
    <3>1. N!Goto(c, "accepted")
      BY <2>2 DEF N!AfterWrite
    <3>2. N!TypeOK' /\ OnItsWay(c)'
      BY <1>0, <1>a, <2>0, <2>2, <3>1, DomainsGoto DEF N!TypeOK, OnItsWay
    <3> QED
      BY <1>0, <1>a, <1>b, <2>0, <2>2, <3>1, <3>2, DomainsGoto, DomainsMove
  <2> QED
    BY <1>4, <2>1, <2>2 DEF N!Write
<1>5. CASE N!Meter(c)
  <2>1. /\ row[call[c].name].tenant = call[c].tenant /\ call[c].verb # "transfer"
        /\ call[c].verb = "register" => available[call[c].name]
    BY <1>0, <1>5 DEF N!Meter, OnItsWay
  <2>2. /\ N!Goto(c, "accepted") /\ UNCHANGED <<available, row, operation>>
        /\ \/ charged' = charged \cup {c} /\ excused' = excused
           \/ excused' = excused \cup {c} /\ charged' = charged
    BY <1>5 DEF N!Meter
  <2>3. N!TypeOK' /\ OnItsWay(c)'
    BY <1>0, <1>a, <2>2, DomainsGoto DEF N!TypeOK, OnItsWay
  <2> QED
    BY <1>0, <1>a, <2>1, <2>2, <2>3, DomainsGoto, DomainsMove
<1>6. CASE N!Crash(c)
  <2>1. /\ N!Goto(c, "dead") /\ excused' = excused \cup {c} /\ UNCHANGED <<available, row, operation, charged>>
    BY <1>6 DEF N!Crash
  <2>2. N!TypeOK' /\ OnItsWay(c)'
    BY <1>0, <1>a, <2>1, DomainsGoto DEF N!TypeOK, OnItsWay
  <2> QED
    BY <1>0, <1>a, <1>b, <2>1, <2>2, DomainsGoto, DomainsMove
<1>7. CASE N!Settle(c)
  <2>1. N!TypeOK'
    BY <1>0, <1>7 DEF N!Settle, N!TypeOK
  <2>2. OnItsWay(c)'
    BY <1>0, <1>7 DEF N!Settle, OnItsWay
  <2>3. /\ UNCHANGED <<available, row, call, charged, excused>> /\ operation[c] = "pending"
        /\ \A d \in ServerCalls \ {c} : operation'[d] = operation[d]
    BY <1>0, <1>7 DEF N!Settle, N!TypeOK
  <2>4. c \notin excused /\ call[c].at = "accepted" =>
           /\ row[call[c].name].tenant = call[c].tenant
           /\ call[c].verb # "transfer" => c \in charged
    BY <1>0, <2>3 DEF N!RecordAndChargeAgree, N!AcceptedIsRecorded
  <2> QED
    BY <1>0, <1>b, <2>1, <2>2, <2>3, <2>4, DomainsMove
<1> QED
  BY <1>1, <1>2, <1>3, <1>4, <1>5, <1>6, <1>7

LEMMA DomainsKept == DomainsAssumption /\ DomainsInv /\ [N!Next]_N!vars => DomainsInv'
<1>1. DomainsInv /\ UNCHANGED N!vars => DomainsInv'
  BY DEF N!vars, DomainsInv, N!TypeOK, OnItsWay, N!RecordAndChargeAgree, N!ChargedIsOnRecord, N!AcceptedIsRecorded
<1> QED
  BY <1>1, DomainsMoves DEF DomainsStep, N!Next

-----------------------------------------------------------------------------

ListingRow == [nap : G!Naps \ {0}, status : G!Listed, op : G!Ops]
Ended == {"succeeded", "failed"}

(* What a call goes on with, given the verifications' statuses and how many *)
(* rows there are: a verification it settles by is over, and stays so; the  *)
(* row it found is there.                                                   *)
ActionStands(q, status, count) ==
  /\ q \in G!Call /\ q.row <= count
  /\ q.by = "list" /\ q.at \in {"found", "known"} =>
       q.nap # 0 /\ q.op \in G!Ops /\ status[q.op] # "none"
  /\ q.by # "list" /\ q.at \in {"found", "ended", "known"} =>
       q.op \in G!Ops /\ status[q.op] # "none"
  /\ q.by # "list" /\ q.at \in {"ended", "known"} => status[q.op] \in Ended
  /\ q.by # "list" /\ q.at = "known" => q.row # 0

(* A row's verification was begun, and the row follows it.                  *)
RowsStand ==
  /\ \A i \in DOMAIN listings : verification[listings[i].op] # "none"
  /\ G!ListingFollowsVerification

ListingTyped ==
  /\ listings \in Seq(ListingRow)
  /\ verification \in [G!Ops -> {"none", "pending", "succeeded", "failed"}]
  /\ profile \in [Tabs -> G!Naps]
  /\ actions \in [Tabs -> Seq(G!Call)]
  /\ overtaken \subseteq 1..Len(listings)

ListingInv ==
  /\ ListingTyped
  /\ \A t \in Tabs : \A i \in 1..Len(actions[t]) :
       ActionStands(actions[t][i], verification, Len(listings))
  /\ RowsStand

LEMMA AskStands ==
  ASSUME NEW by \in {"effect", "list", "refresh"}, NEW nap \in G!Naps, NEW status, NEW count \in Nat
  PROVE  ActionStands(G!Ask(by, nap), status, count) /\ G!Ask(by, nap) \in G!Call
<1>1. PICK q : q = G!Ask(by, nap)
  OBVIOUS
<1>2. q = [by |-> by, nap |-> nap, active |-> TRUE, at |-> "asked", row |-> 0,
           op |-> G!NoOperation, status |-> "none"]
  BY <1>1 DEF G!Ask
<1>3. G!NoOperation \in {G!NoOperation} \cup G!Ops /\ "none" \in G!Listed \cup {"none"}
  OBVIOUS
<1>4. q \in G!Call
  BY <1>2, <1>3 DEF G!Call
<1> QED
  BY <1>1, <1>2, <1>4 DEF ActionStands

LEMMA ListingStarts == G!Init => ListingInv
<1> SUFFICES ASSUME G!Init PROVE ListingInv
  OBVIOUS
<1>1. listings = <<>> /\ listings \in Seq(ListingRow) /\ Len(listings) = 0
  BY DEF G!Init
<1>2. PICK nap \in G!Naps : profile = [t \in Tabs |-> nap] /\ actions = [t \in Tabs |-> <<G!Ask("effect", nap)>>]
  BY DEF G!Init
<1>3. PICK q \in G!Call : q = G!Ask("effect", nap) /\ ActionStands(q, verification, 0)
  BY AskStands
<1>4. <<q>> \in Seq(G!Call) /\ Len(<<q>>) = 1 /\ <<q>>[1] = q
  OBVIOUS
<1>5. \A t \in Tabs : actions[t] = <<q>>
  BY <1>2, <1>3
<1>6. actions \in [Tabs -> Seq(G!Call)]
  BY <1>2, <1>3, <1>4
<1>7. ListingTyped
  BY <1>1, <1>2, <1>6 DEF ListingTyped, G!Init
<1>8. \A t \in Tabs : \A i \in 1..Len(actions[t]) : ActionStands(actions[t][i], verification, Len(listings))
  BY <1>1, <1>3, <1>4, <1>5
<1>9. RowsStand
  BY <1>1 DEF RowsStand, G!ListingFollowsVerification, G!Init
<1> QED
  BY <1>7, <1>8, <1>9 DEF ListingInv

(* What is over stays so, and the rows stay.                                *)
Onward ==
  /\ \A o \in G!Ops : verification[o] \in Ended => verification'[o] = verification[o]
  /\ \A o \in G!Ops : verification[o] # "none" => verification'[o] # "none"
  /\ Len(listings) \in Nat /\ Len(listings') \in Nat /\ Len(listings) <= Len(listings')
  /\ listings' \in Seq(ListingRow)
  /\ verification' \in [G!Ops -> {"none", "pending", "succeeded", "failed"}]
  /\ profile' \in [Tabs -> G!Naps] /\ overtaken' \subseteq 1..Len(listings')
  /\ RowsStand'

LEMMA CallsGoOn ==
  ASSUME NEW q, ActionStands(q, verification, Len(listings)), Onward
  PROVE  ActionStands(q, verification', Len(listings'))
BY DEF ActionStands, Onward, G!Call

(* A page's calls become others that stand; the rest stand still.           *)
LEMMA ListingMove ==
  ASSUME ListingInv, Onward, NEW t \in Tabs, NEW s \in Seq(G!Call),
         actions' = [actions EXCEPT ![t] = s],
         \A i \in 1..Len(s) : ActionStands(s[i], verification', Len(listings'))
  PROVE  ListingInv'
<1>1. ListingTyped'
  BY DEF ListingTyped, ListingInv, Onward
<1>2. ASSUME NEW u \in Tabs, NEW i \in 1..Len(actions'[u])
      PROVE  ActionStands(actions'[u][i], verification', Len(listings'))
  <2>1. CASE u = t
    <3>1. actions'[u] = s
      BY <2>1 DEF ListingInv, ListingTyped
    <3> QED
      BY <3>1, <1>2
  <2>2. CASE u # t
    <3>1. actions'[u] = actions[u]
      BY <2>2 DEF ListingInv, ListingTyped
    <3>2. ActionStands(actions[u][i], verification, Len(listings))
      BY <3>1, <1>2 DEF ListingInv
    <3>3. ActionStands(actions[u][i], verification', Len(listings'))
      BY <3>2, CallsGoOn
    <3> QED
      BY <3>1, <3>3
  <2> QED
    BY <2>1, <2>2
<1>3. RowsStand'
  BY DEF Onward
<1> QED
  BY <1>1, <1>2, <1>3 DEF ListingInv

(* The first of a page's calls.                                             *)
LEMMA FirstCall ==
  ASSUME ListingInv, NEW t \in Tabs, G!Running(t)
  PROVE  /\ actions[t] \in Seq(G!Call) /\ actions[t] # <<>> /\ Len(actions[t]) \in Nat \ {0}
         /\ Head(actions[t]) = actions[t][1] /\ Head(actions[t]) \in G!Call
         /\ ActionStands(Head(actions[t]), verification, Len(listings))
<1>1. actions[t] \in Seq(G!Call) /\ actions[t] # <<>>
  BY DEF ListingInv, ListingTyped, G!Running
<1>2. Len(actions[t]) \in Nat \ {0} /\ Head(actions[t]) = actions[t][1]
  BY <1>1, EmptySeq
<1>3. ActionStands(actions[t][1], verification, Len(listings))
  BY <1>2 DEF ListingInv
<1> QED
  BY <1>1, <1>2, <1>3 DEF ActionStands

(* The first becomes another call.                                          *)
LEMMA ListingGoto ==
  ASSUME ListingInv, Onward, NEW t \in Tabs, G!Running(t), NEW q, G!Goto(t, q),
         ActionStands(q, verification', Len(listings'))
  PROVE  ListingInv'
<1> DEFINE s == [actions[t] EXCEPT ![1] = q]
<1>1. q \in G!Call
  BY DEF ActionStands
<1>2. /\ s \in Seq(G!Call) /\ Len(s) = Len(actions[t])
      /\ \A i \in 1..Len(s) : s[i] = IF i = 1 THEN q ELSE actions[t][i]
  BY <1>1, FirstCall, ExceptSeq
<1>3. actions' = [actions EXCEPT ![t] = s]
  BY DEF G!Goto
<1> HIDE DEF s
<1>4. ASSUME NEW i \in 1..Len(s) PROVE ActionStands(s[i], verification', Len(listings'))
  <2>1. CASE i = 1
    BY <2>1, <1>2
  <2>2. CASE i # 1
    <3>1. s[i] = actions[t][i] /\ ActionStands(actions[t][i], verification, Len(listings))
      BY <2>2, <1>2 DEF ListingInv
    <3>2. ActionStands(actions[t][i], verification', Len(listings'))
      BY <3>1, CallsGoOn
    <3> QED
      BY <3>1, <3>2
  <2> QED
    BY <2>1, <2>2
<1>5. PICK r \in Seq(G!Call) : r = s
  BY <1>2
<1> QED
  BY <1>3, <1>4, <1>5, ListingMove

(* The rows, the verifications and the profiles stay.                       *)
LEMMA ListingStill ==
  ASSUME ListingInv, UNCHANGED <<listings, verification, profile, overtaken>>
  PROVE  Onward
<1>1. Len(listings) \in Nat
  BY DEF ListingInv, ListingTyped
<1>2. RowsStand'
  BY DEF ListingInv, RowsStand, G!ListingFollowsVerification
<1> QED
  BY <1>1, <1>2 DEF Onward, ListingInv, ListingTyped

LEMMA AnswerStands ==
  ASSUME ListingInv, NEW t \in Tabs, G!Running(t), NEW q \in G!Call, G!Answer(t, q),
         UNCHANGED <<listings, verification, profile, overtaken>>
  PROVE  ListingInv'
<1>1. Len(listings) \in Nat
  BY DEF ListingInv, ListingTyped
<1>2. PICK r : r = [q EXCEPT !.at = "ok", !.row = 0, !.op = G!NoOperation]
  OBVIOUS
<1>3. r \in G!Call /\ r.at = "ok" /\ r.row = 0
  BY <1>2 DEF G!Call
<1>4. ActionStands(r, verification', Len(listings'))
  BY <1>1, <1>3 DEF ActionStands
<1>5. G!Goto(t, r)
  BY <1>2 DEF G!Answer
<1> QED
  BY <1>4, <1>5, ListingStill, ListingGoto

ListingStep(A) == ListingInv /\ A => ListingInv'

(* A verification that is not over changes, and no row with it.             *)
LEMMA OperationMoves ==
  ASSUME ListingInv, NEW o \in G!Ops, verification[o] \notin Ended,
         NEW outcome \in {"pending", "succeeded", "failed"},
         verification' = [verification EXCEPT ![o] = outcome], UNCHANGED <<listings, profile, overtaken>>
  PROVE  Onward
<1>1. Len(listings) \in Nat /\ \A i \in 1..Len(listings) : listings[i] \in ListingRow
  BY DEF ListingInv, ListingTyped
<1>2. DOMAIN listings = 1..Len(listings)
  BY DEF ListingInv, ListingTyped
<1>3. \A i \in DOMAIN listings : listings[i].op \in G!Ops
  BY <1>1, <1>2 DEF ListingRow
<1>4. RowsStand'
  BY <1>3 DEF ListingInv, ListingTyped, RowsStand, G!ListingFollowsVerification, Ended
<1> QED
  BY <1>1, <1>4 DEF Onward, ListingInv, ListingTyped

LEMMA ListingVerifies == ListingStep(\E o \in G!Ops : G!Verify(o))
<1> SUFFICES ASSUME ListingInv, NEW o \in G!Ops, G!Verify(o) PROVE ListingInv'
  BY DEF ListingStep
<1>1. Onward
  <2>1. verification[o] \notin Ended
    BY DEF G!Verify, Ended
  <2>2. PICK outcome \in {"succeeded", "failed"} : verification' = [verification EXCEPT ![o] = outcome]
    BY DEF G!Verify
  <2> QED
    BY <2>1, <2>2, OperationMoves DEF G!Verify
<1>2. actions' = actions
  BY DEF G!Verify
<1>3. ListingTyped' /\ RowsStand'
  BY <1>1, <1>2 DEF ListingInv, ListingTyped, Onward
<1>4. \A t \in Tabs : \A i \in 1..Len(actions[t]) : ActionStands(actions[t][i], verification', Len(listings'))
  BY <1>1, CallsGoOn DEF ListingInv
<1> QED
  BY <1>2, <1>3, <1>4 DEF ListingInv

LEMMA AppendedStand ==
  ASSUME NEW s \in Seq(G!Call), NEW ask \in G!Call, NEW status, NEW count,
         \A i \in 1..Len(s) : ActionStands(s[i], status, count), ActionStands(ask, status, count)
  PROVE  /\ Append(s, ask) \in Seq(G!Call)
         /\ \A i \in 1..Len(Append(s, ask)) : ActionStands(Append(s, ask)[i], status, count)
<1>1. /\ Append(s, ask) \in Seq(G!Call) /\ Len(Append(s, ask)) = Len(s) + 1 /\ Len(s) \in Nat
      /\ Append(s, ask)[Len(s) + 1] = ask /\ \A i \in 1..Len(s) : Append(s, ask)[i] = s[i]
  OBVIOUS
<1>2. \A i \in 1..Len(s) + 1 : i = Len(s) + 1 \/ i \in 1..Len(s)
  BY <1>1
<1> QED
  BY <1>1, <1>2

LEMMA ListingPage == ListingStep(\E t \in Tabs : G!Edit(t) \/ G!List(t))
<1> SUFFICES ASSUME ListingInv, NEW t \in Tabs, G!Edit(t) \/ G!List(t) PROVE ListingInv'
  BY DEF ListingStep
<1>0. /\ actions[t] \in Seq(G!Call) /\ profile[t] \in G!Naps /\ profile \in [Tabs -> G!Naps]
      /\ Len(listings) \in Nat
      /\ \A i \in 1..Len(actions[t]) : ActionStands(actions[t][i], verification, Len(listings))
  BY DEF ListingInv, ListingTyped
<1>1. CASE G!Edit(t)
  <2>1. profile' = [profile EXCEPT ![t] = 1 - profile[t]] /\ 1 - profile[t] \in G!Naps
    BY <1>0, <1>1 DEF G!Edit, G!Naps
  <2>2. Onward
    <3>1. RowsStand'
      BY <1>1 DEF G!Edit, ListingInv, RowsStand, G!ListingFollowsVerification
    <3> QED
      BY <1>0, <1>1, <2>1, <3>1 DEF G!Edit, Onward, ListingInv, ListingTyped
  <2> DEFINE old == [i \in DOMAIN actions[t] |-> G!Unheard(actions[t][i])]
  <2>3. DOMAIN actions[t] = 1..Len(actions[t]) /\ Len(actions[t]) \in Nat
    BY <1>0
  <2>4. \A i \in 1..Len(actions[t]) : ActionStands(G!Unheard(actions[t][i]), verification', Len(listings'))
    <3> SUFFICES ASSUME NEW i \in 1..Len(actions[t])
                 PROVE  ActionStands(G!Unheard(actions[t][i]), verification', Len(listings'))
      OBVIOUS
    <3>1. ActionStands(actions[t][i], verification', Len(listings'))
      BY <1>0, <2>2, CallsGoOn
    <3>2. PICK q : q = actions[t][i]
      OBVIOUS
    <3>3. ActionStands(G!Unheard(q), verification', Len(listings'))
      BY <3>1, <3>2 DEF G!Unheard, ActionStands, G!Call
    <3> QED
      BY <3>2, <3>3
  <2>5. \A i \in 1..Len(actions[t]) : G!Unheard(actions[t][i]) \in G!Call
    BY <2>4 DEF ActionStands
  <2>6. old \in Seq(G!Call) /\ Len(old) = Len(actions[t]) /\ \A i \in 1..Len(old) : old[i] = G!Unheard(actions[t][i])
    BY <2>3, <2>5, IsASeq
  <2>7. PICK ask \in G!Call : ask = G!Ask("effect", 1 - profile[t])
                            /\ ActionStands(ask, verification', Len(listings'))
    BY <1>0, <2>1, <2>2, AskStands DEF Onward
  <2>8. PICK before \in Seq(G!Call) : before = old
    BY <2>6
  <2>9. \A i \in 1..Len(before) : ActionStands(before[i], verification', Len(listings'))
    BY <2>4, <2>6, <2>8
  <2>10. actions' = [actions EXCEPT ![t] = Append(before, ask)]
    BY <1>1, <2>7, <2>8 DEF G!Edit, G!Reread
  <2> QED
    BY <2>2, <2>7, <2>9, <2>10, AppendedStand, ListingMove
<1>2. CASE G!List(t)
  <2>1. Onward
    BY <1>2, ListingStill DEF G!List
  <2>2. PICK ask \in G!Call : ask = G!Ask("list", profile[t]) /\ ActionStands(ask, verification', Len(listings'))
    BY <1>0, <2>1, AskStands DEF Onward
  <2>3. \A i \in 1..Len(actions[t]) : ActionStands(actions[t][i], verification', Len(listings'))
    BY <1>0, <2>1, CallsGoOn
  <2>4. actions' = [actions EXCEPT ![t] = Append(actions[t], ask)]
    BY <1>2, <2>2 DEF G!List
  <2> QED
    BY <1>0, <2>1, <2>2, <2>3, <2>4, AppendedStand, ListingMove
<1> QED
  BY <1>1, <1>2

LEMMA ListingTakes == ListingStep(\E t \in Tabs : G!TakeEffect(t) \/ G!TakeList(t) \/ G!TakeRefresh(t))
<1> SUFFICES ASSUME ListingInv, NEW t \in Tabs, G!TakeEffect(t) \/ G!TakeList(t) \/ G!TakeRefresh(t)
             PROVE  ListingInv'
  BY DEF ListingStep
<1> DEFINE q == Head(actions[t])
           rest == Tail(actions[t])
<1>0. G!Running(t) /\ UNCHANGED <<listings, verification, profile, overtaken>>
  BY DEF G!TakeEffect, G!TakeList, G!TakeRefresh
<1>1. Onward
  BY <1>0, ListingStill
<1>2. /\ rest \in Seq(G!Call) /\ Len(rest) = Len(actions[t]) - 1 /\ Len(actions[t]) \in Nat \ {0}
      /\ \A i \in 1..Len(rest) : rest[i] = actions[t][i + 1]
      /\ q.nap \in G!Naps
  <2>1. q.nap \in G!Naps
    BY <1>0, FirstCall DEF G!Call
  <2> QED
    BY <1>0, <2>1, FirstCall, HeadTailProperties
<1>3. \A i \in 1..Len(rest) : ActionStands(rest[i], verification', Len(listings'))
  <2> SUFFICES ASSUME NEW i \in 1..Len(rest) PROVE ActionStands(rest[i], verification', Len(listings'))
    OBVIOUS
  <2>1. i + 1 \in 1..Len(actions[t]) /\ rest[i] = actions[t][i + 1]
    BY <1>2
  <2>2. ActionStands(actions[t][i + 1], verification, Len(listings))
    BY <2>1 DEF ListingInv
  <2> QED
    BY <1>1, <2>1, <2>2, CallsGoOn
<1>4. PICK left \in Seq(G!Call) : left = rest
  BY <1>2
<1>5. CASE actions' = [actions EXCEPT ![t] = Tail(@)]
  <2>1. actions' = [actions EXCEPT ![t] = left]
    BY <1>4, <1>5
  <2> QED
    BY <1>1, <1>3, <1>4, <2>1, ListingMove
<1>6. CASE actions' = [actions EXCEPT ![t] = Append(Tail(@), G!Ask("refresh", q.nap))]
  <2>2. PICK ask \in G!Call : ask = G!Ask("refresh", q.nap) /\ ActionStands(ask, verification', Len(listings'))
    BY <1>1, <1>2, AskStands DEF Onward
  <2>3. actions' = [actions EXCEPT ![t] = Append(left, ask)]
    BY <1>6, <1>4, <2>2
  <2> QED
    BY <1>1, <1>3, <1>4, <2>2, <2>3, AppendedStand, ListingMove
<1>7. CASE G!TakeEffect(t)
  BY <1>5, <1>7 DEF G!TakeEffect
<1>8. CASE G!TakeRefresh(t)
  BY <1>5, <1>8 DEF G!TakeRefresh
<1>9. CASE G!TakeList(t)
  <2>1. actions' = [actions EXCEPT ![t] =
          IF q.at = "ok" THEN Append(Tail(@), G!Ask("refresh", q.nap)) ELSE Tail(@)]
    BY <1>9 DEF G!TakeList
  <2>2. CASE q.at = "ok"
    BY <2>1, <2>2, <1>6
  <2>3. CASE q.at # "ok"
    BY <2>1, <2>3, <1>5
  <2> QED
    BY <2>2, <2>3
<1> QED
  BY <1>7, <1>8, <1>9

LEMMA ListingAccepts == ListingStep(\E t \in Tabs : G!Accept(t) \/ G!Look(t))
<1> SUFFICES ASSUME ListingInv, NEW t \in Tabs, G!Accept(t) \/ G!Look(t) PROVE ListingInv'
  BY DEF ListingStep
<1>0. G!Running(t) /\ Len(listings) \in Nat
  <2>1. G!Running(t)
    BY DEF G!Accept, G!Look
  <2> QED
    BY <2>1 DEF ListingInv, ListingTyped
<1>1. PICK q \in G!Call : q = Head(actions[t])
  BY <1>0, FirstCall
<1>2. ActionStands(q, verification, Len(listings))
  BY <1>0, <1>1, FirstCall
<1>3. CASE /\ q.by = "list" /\ q.at = "asked" /\ G!Goto(t, [q EXCEPT !.at = "failed"])
           /\ UNCHANGED <<listings, verification, profile, overtaken>>
  <2>1. PICK r : r = [q EXCEPT !.at = "failed"]
    OBVIOUS
  <2>2. r \in G!Call /\ r.at = "failed" /\ r.row = q.row
    BY <2>1 DEF G!Call
  <2>3. ActionStands(r, verification', Len(listings'))
    BY <1>2, <1>3, <2>2 DEF ActionStands
  <2> QED
    BY <1>0, <1>3, <2>1, <2>3, ListingStill, ListingGoto
<1>4. ASSUME NEW o \in G!Ops, NEW outcome \in {"pending", "failed"},
             q.by = "list", q.at = "asked", q.nap # 0, verification[o] = "none",
             verification' = [verification EXCEPT ![o] = outcome],
             IF outcome = "failed" THEN G!Answer(t, q)
                                   ELSE G!Goto(t, [q EXCEPT !.op = o, !.at = "found"]),
             UNCHANGED <<listings, profile, overtaken>>
      PROVE  ListingInv'
  <2>1. Onward
    BY <1>4, OperationMoves DEF Ended
  <2>2. CASE outcome = "failed"
    <3>1. PICK r : r = [q EXCEPT !.at = "ok", !.row = 0, !.op = G!NoOperation]
      OBVIOUS
    <3>2. r \in G!Call /\ r.at = "ok" /\ r.row = 0
      BY <3>1 DEF G!Call
    <3>3. ActionStands(r, verification', Len(listings'))
      BY <1>0, <1>4, <3>2 DEF ActionStands
    <3> QED
      BY <1>0, <1>4, <2>1, <2>2, <3>1, <3>3, ListingGoto DEF G!Answer
  <2>3. CASE outcome # "failed"
    <3>1. PICK r : r = [q EXCEPT !.op = o, !.at = "found"]
      OBVIOUS
    <3>2. r \in G!Call /\ r.at = "found" /\ r.row = q.row /\ r.nap = q.nap /\ r.op = o /\ r.by = q.by
      BY <3>1 DEF G!Call
    <3>3. ActionStands(r, verification', Len(listings'))
      <4>1. verification'[o] # "none"
        BY <1>4 DEF ListingInv, ListingTyped
      <4>2. r.row <= Len(listings')
        BY <1>2, <1>4, <3>2 DEF ActionStands
      <4> QED
        BY <1>4, <3>2, <4>1, <4>2 DEF ActionStands
    <3> QED
      BY <1>0, <1>4, <2>1, <2>3, <3>1, <3>3, ListingGoto
  <2> QED
    BY <2>2, <2>3
<1>5. CASE G!Accept(t)
  BY <1>1, <1>3, <1>4, <1>5 DEF G!Accept
<1>6. CASE G!Look(t)
  <2>1. PICK where \in {0, 1} : where = IF listings = <<>> THEN 0 ELSE 1
    OBVIOUS
  <2>2. where <= Len(listings)
    BY <1>0, <2>1, EmptySeq DEF ListingInv, ListingTyped
  <2>3. PICK r : r = [q EXCEPT !.at = "known", !.row = where]
    OBVIOUS
  <2>4. r \in G!Call /\ r.at = "known" /\ r.row = where /\ r.nap = q.nap /\ r.op = q.op /\ r.by = q.by
    <3>1. where \in Nat
      OBVIOUS
    <3> HIDE <2>1
    <3> QED
      BY <2>3, <3>1 DEF G!Call
  <2>5. q.by = "list" /\ q.at = "found" /\ UNCHANGED <<listings, verification, profile, overtaken>>
    BY <1>1, <1>6 DEF G!Look
  <2>6. ActionStands(r, verification', Len(listings'))
    BY <1>2, <2>2, <2>4, <2>5 DEF ActionStands
  <2>7. G!Goto(t, r)
    BY <1>1, <1>6, <2>1, <2>3 DEF G!Look
  <2> QED
    BY <1>0, <2>5, <2>6, <2>7, ListingStill, ListingGoto
<1> QED
  BY <1>5, <1>6

LEMMA ListingUpserts == ListingStep(\E t \in Tabs : G!Upsert(t))
<1> SUFFICES ASSUME ListingInv, NEW t \in Tabs, G!Upsert(t) PROVE ListingInv'
  BY DEF ListingStep
<1>0. G!Running(t) /\ Len(listings) \in Nat
  BY DEF G!Upsert, ListingInv, ListingTyped
<1>1. PICK q \in G!Call : q = Head(actions[t])
  BY <1>0, FirstCall
<1>2. ActionStands(q, verification, Len(listings))
  BY <1>0, <1>1, FirstCall
<1>3. /\ q.by = "list" /\ q.at = "known" /\ G!Answer(t, q) /\ UNCHANGED <<verification, profile>>
      /\ q.nap \in G!Naps \ {0} /\ q.op \in G!Ops /\ q.row \in 0..Len(listings)
      /\ verification[q.op] # "none"
  <2>1. q.nap # 0 /\ q.op \in G!Ops /\ verification[q.op] # "none"
    BY <1>1, <1>2 DEF ActionStands, G!Upsert
  <2> QED
    BY <1>0, <1>1, <1>2, <2>1 DEF G!Upsert, ActionStands, G!Call
<1>4. PICK new \in ListingRow : new = G!Pending(q) /\ new.status = "pending_verification"
                                /\ new.op = q.op
  <2>1. G!Pending(q) = [nap |-> q.nap, status |-> "pending_verification", op |-> q.op]
    BY DEF G!Pending
  <2>2. G!Pending(q) \in ListingRow
    BY <1>3, <2>1 DEF ListingRow, G!Listed
  <2> QED
    BY <2>1, <2>2
<1>5. PICK r : r = [q EXCEPT !.at = "ok", !.row = 0, !.op = G!NoOperation]
  OBVIOUS
<1>6. r \in G!Call /\ r.at = "ok" /\ r.row = 0 /\ G!Goto(t, r)
  BY <1>3, <1>5 DEF G!Call, G!Answer
<1>7. CASE UNCHANGED <<listings, overtaken>>
  BY <1>0, <1>1, <1>3, <1>7, AnswerStands
<1>8. ASSUME listings' \in Seq(ListingRow), Len(listings') \in Nat, Len(listings') >= Len(listings),
             overtaken' \subseteq 1..Len(listings'), NEW i \in 1..Len(listings'),
             listings'[i] = new,
             \A j \in (1..Len(listings')) \ {i} : j \in 1..Len(listings) /\ listings'[j] = listings[j]
                                                  /\ (j \in overtaken => j \in overtaken')
      PROVE  ListingInv'
  <2>0. DOMAIN listings = 1..Len(listings) /\ DOMAIN listings' = 1..Len(listings')
    BY <1>8 DEF ListingInv, ListingTyped
  <2>1. RowsStand'
    BY <1>3, <1>4, <1>8, <2>0 DEF RowsStand, G!ListingFollowsVerification, ListingInv
  <2>2. Onward
    BY <1>0, <1>3, <1>8, <2>1 DEF Onward, ListingInv, ListingTyped
  <2>3. ActionStands(r, verification', Len(listings'))
    BY <1>6, <1>8 DEF ActionStands
  <2> QED
    BY <1>0, <1>6, <2>2, <2>3, ListingGoto
<1>9. CASE q.row = 0 /\ listings' = Append(listings, new) /\ UNCHANGED overtaken
  <2>1. /\ listings' \in Seq(ListingRow) /\ Len(listings') = Len(listings) + 1
        /\ listings'[Len(listings) + 1] = new
        /\ \A j \in 1..Len(listings) : listings'[j] = listings[j]
    BY <1>9 DEF ListingInv, ListingTyped
  <2>2. overtaken' \subseteq 1..Len(listings')
    BY <1>0, <1>9, <2>1 DEF ListingInv, ListingTyped
  <2>3. \A j \in (1..Len(listings')) \ {Len(listings) + 1} : j \in 1..Len(listings)
    BY <1>0, <2>1
  <2>4. Len(listings) + 1 \in 1..Len(listings')
    BY <1>0, <2>1
  <2> QED
    BY <1>0, <1>8, <1>9, <2>1, <2>2, <2>3, <2>4
<1>10. CASE q.row # 0 /\ listings' = [listings EXCEPT ![q.row] = new] /\ overtaken' = overtaken \ {q.row}
  <2>1. q.row \in 1..Len(listings)
    BY <1>0, <1>3, <1>10
  <2>2. /\ listings' \in Seq(ListingRow) /\ Len(listings') = Len(listings)
        /\ \A j \in 1..Len(listings) : listings'[j] = IF j = q.row THEN new ELSE listings[j]
    BY <1>10, <2>1, ExceptSeq DEF ListingInv, ListingTyped
  <2>3. overtaken' \subseteq 1..Len(listings')
    BY <1>10, <2>2 DEF ListingInv, ListingTyped
  <2> QED
    BY <1>0, <1>8, <1>10, <2>1, <2>2, <2>3
<1> QED
  BY <1>1, <1>4, <1>7, <1>9, <1>10 DEF G!Upsert

(* Of some numbers one is the greatest.                                     *)
LEMMA NewestOfSome ==
  ASSUME NEW n \in Nat, NEW some \in SUBSET (1..n), some # {}
  PROVE  \E k \in some : \A j \in some : j <= k
<1> DEFINE R == OpToRel(<, Nat)
           gaps == {n - j : j \in some}
<1>1. IsWellFoundedOn(R, Nat)
  BY NatLessThanWellFounded
<1>2. gaps \subseteq Nat /\ gaps # {}
  <2>1. PICK one \in some : TRUE
    OBVIOUS
  <2>2. n - one \in gaps
    BY <2>1
  <2>3. \A j \in some : n - j \in Nat
    OBVIOUS
  <2> QED
    BY <2>2, <2>3
<1>3. \A x, y \in Nat : x < y => <<x, y>> \in R
  BY DEF OpToRel
<1> HIDE DEF R
<1>4. PICK g \in gaps : \A h \in gaps : <<h, g>> \notin R
  BY <1>1, <1>2, WFMin
<1>5. PICK k \in some : g = n - k
  BY <1>4
<1>6. ASSUME NEW j \in some PROVE j <= k
  <2>1. n - j \in gaps /\ n - j \in Nat /\ n - k \in Nat
    BY <1>2, <1>5
  <2>2. ~ (n - j < n - k)
    BY <1>3, <1>4, <1>5, <2>1
  <2> QED
    BY <2>2
<1> QED
  BY <1>6

LEMMA ListingReads ==
  ListingStep(\E t \in Tabs : G!Read(t) \/ G!ReadOperation(t) \/ G!FindBound(t) \/ G!Fail(t))
<1> SUFFICES ASSUME ListingInv, NEW t \in Tabs, G!Read(t) \/ G!ReadOperation(t) \/ G!FindBound(t) \/ G!Fail(t)
             PROVE  ListingInv'
  BY DEF ListingStep
<1>0. /\ G!Running(t) /\ UNCHANGED <<listings, verification, profile, overtaken>> /\ Len(listings) \in Nat
      /\ listings \in Seq(ListingRow)
  BY DEF G!Read, G!ReadOperation, G!FindBound, G!Fail, ListingInv, ListingTyped
<1>1. PICK q \in G!Call : q = Head(actions[t])
  BY <1>0, FirstCall
<1>2. ActionStands(q, verification, Len(listings))
  BY <1>0, <1>1, FirstCall
<1>s. ASSUME NEW status \in G!Listed \cup {"none"}, G!Answer(t, [q EXCEPT !.status = status])
      PROVE  ListingInv'
  <2>1. PICK p \in G!Call : p = [q EXCEPT !.status = status]
    BY DEF G!Call
  <2> QED
    BY <1>0, <1>s, <2>1, AnswerStands
<1>g. ASSUME NEW r, G!Goto(t, r), ActionStands(r, verification, Len(listings)) PROVE ListingInv'
  <2>1. ActionStands(r, verification', Len(listings'))
    BY <1>0, <1>g
  <2> QED
    BY <1>0, <1>g, <2>1, ListingStill, ListingGoto
<1>3. CASE G!Read(t)
  <2>0. q.by # "list" /\ q.at = "asked"
    BY <1>1, <1>3 DEF G!Read
  <2>1. CASE listings = <<>>
    BY <1>0, <1>1, <1>3, <2>1, AnswerStands DEF G!Read
  <2>2. CASE listings # <<>>
    <3>1. PICK mine \in ListingRow : mine = listings[1]
      BY <1>0, <2>2, EmptySeq
    <3>2. CASE mine.status = "pending_verification"
      <4>1. PICK r : r = [q EXCEPT !.at = "found", !.status = mine.status, !.op = mine.op]
        OBVIOUS
      <4>2. r \in G!Call /\ r.at = "found" /\ r.op \in G!Ops /\ r.row = q.row /\ r.by = q.by
            /\ r.op = mine.op
        BY <3>1, <4>1 DEF G!Call, ListingRow
      <4>5. verification[mine.op] # "none"
        <5>1. 1 \in DOMAIN listings
          BY <1>0, <2>2, EmptySeq
        <5> QED
          BY <3>1, <5>1 DEF ListingInv, RowsStand
      <4>3. ActionStands(r, verification, Len(listings))
        BY <1>2, <2>0, <4>2, <4>5 DEF ActionStands
      <4>4. G!Goto(t, r)
        BY <1>1, <1>3, <2>2, <3>1, <3>2, <4>1 DEF G!Read
      <4> QED
        BY <1>g, <4>3, <4>4
    <3>3. CASE mine.status # "pending_verification"
      <4>1. G!Answer(t, [q EXCEPT !.status = mine.status])
        BY <1>1, <1>3, <2>2, <3>1, <3>3 DEF G!Read
      <4>2. mine.status \in G!Listed \cup {"none"}
        BY <3>1 DEF ListingRow
      <4> QED
        BY <1>s, <4>1, <4>2
    <3> QED
      BY <3>2, <3>3
  <2> QED
    BY <2>1, <2>2
<1>4. CASE G!ReadOperation(t)
  <2>0. q.by # "list" /\ q.at = "found" /\ q.op \in G!Ops
    BY <1>1, <1>2, <1>4 DEF G!ReadOperation, ActionStands
  <2>1. CASE verification[q.op] = "pending"
    BY <1>0, <1>1, <1>4, <2>1, AnswerStands DEF G!ReadOperation
  <2>2. CASE verification[q.op] # "pending"
    <3>1. PICK r : r = [q EXCEPT !.at = "ended"]
      OBVIOUS
    <3>2. r \in G!Call /\ r.at = "ended" /\ r.op = q.op /\ r.row = q.row /\ r.by = q.by
      BY <3>1 DEF G!Call
    <3>3. verification[q.op] \in Ended
      BY <1>0, <1>2, <2>0, <2>2 DEF ActionStands, ListingInv, ListingTyped, Ended
    <3>4. ActionStands(r, verification, Len(listings))
      BY <1>2, <2>0, <3>2, <3>3 DEF ActionStands
    <3> QED
      BY <1>1, <1>4, <1>g, <2>2, <3>1, <3>4 DEF G!ReadOperation
  <2> QED
    BY <2>1, <2>2
<1>5. CASE G!FindBound(t)
  <2>0. q.by # "list" /\ q.at = "ended" /\ q.op \in G!Ops /\ verification[q.op] \in Ended
    BY <1>1, <1>2, <1>5 DEF G!FindBound, ActionStands
  <2> DEFINE bound == {i \in DOMAIN listings : listings[i].op = q.op}
             i == CHOOSE i \in bound : \A j \in bound : j <= i
  <2>1. CASE bound = {}
    BY <1>0, <1>1, <1>5, <2>1, AnswerStands DEF G!FindBound
  <2>2. CASE bound # {} /\ listings[i].status = G!Outcome(q.op)
    <3>1. G!Answer(t, [q EXCEPT !.status = G!Outcome(q.op)])
      BY <1>1, <1>5, <2>2 DEF G!FindBound
    <3>2. G!Outcome(q.op) \in G!Listed \cup {"none"}
      BY DEF G!Outcome, G!Listed
    <3> QED
      BY <1>s, <3>1, <3>2
  <2>3. CASE bound # {} /\ listings[i].status # G!Outcome(q.op)
    <3>1. G!Goto(t, [q EXCEPT !.at = "known", !.row = i])
      BY <1>1, <1>5, <2>3 DEF G!FindBound
    <3>2. i \in 1..Len(listings)
      <4>1. bound \subseteq 1..Len(listings)
        BY <1>0
      <4>2. \E k \in bound : \A j \in bound : j <= k
        BY <1>0, <2>3, <4>1, NewestOfSome
      <4>3. i \in bound
        BY <4>2
      <4> QED
        BY <4>1, <4>3
    <3>3. PICK where \in 1..Len(listings) : where = i
      BY <3>2
    <3>4. PICK r : r = [q EXCEPT !.at = "known", !.row = where]
      OBVIOUS
    <3>5. r \in G!Call /\ r.at = "known" /\ r.row = where /\ r.op = q.op /\ r.by = q.by
      <4>1. where \in Nat
        BY <1>0
      <4> QED
        BY <3>4, <4>1 DEF G!Call
    <3>6. ActionStands(r, verification, Len(listings))
      <4>1. r.row <= Len(listings) /\ r.row # 0
        <5>1. Len(listings) \in Nat
          BY <1>0
        <5> HIDE DEF i
        <5> QED
          BY <3>5, <5>1
      <4>2. verification[q.op] # "none"
        BY <2>0 DEF Ended
      <4> QED
        BY <2>0, <3>5, <4>1, <4>2 DEF ActionStands
    <3> QED
      BY <1>g, <3>1, <3>3, <3>4, <3>6
  <2> QED
    BY <2>1, <2>2, <2>3
<1>6. CASE G!Fail(t)
  <2>1. PICK r : r = [q EXCEPT !.at = "failed", !.row = 0, !.op = G!NoOperation, !.status = "none"]
    OBVIOUS
  <2>2. r \in G!Call /\ r.at = "failed" /\ r.row = 0
    BY <2>1 DEF G!Call
  <2>3. ActionStands(r, verification, Len(listings))
    BY <1>0, <2>2 DEF ActionStands
  <2> QED
    BY <1>1, <1>6, <1>g, <2>1, <2>3 DEF G!Fail
<1> QED
  BY <1>3, <1>4, <1>5, <1>6

(* The outcome is written on the row that was found.                        *)
LEMMA ListingSettles == ListingStep(\E t \in Tabs : G!Settle(t))
<1> SUFFICES ASSUME ListingInv, NEW t \in Tabs, G!Settle(t) PROVE ListingInv'
  BY DEF ListingStep
<1>0. /\ G!Running(t) /\ UNCHANGED <<verification, profile>> /\ Len(listings) \in Nat
      /\ listings \in Seq(ListingRow) /\ DOMAIN listings = 1..Len(listings)
  <2>1. G!Running(t) /\ UNCHANGED <<verification, profile>>
    BY DEF G!Settle
  <2> QED
    BY <2>1 DEF ListingInv, ListingTyped
<1>1. PICK q \in G!Call : q = Head(actions[t])
  BY <1>0, FirstCall
<1>2. ActionStands(q, verification, Len(listings))
  BY <1>0, <1>1, FirstCall
<1>3. /\ q.by # "list" /\ q.at = "known" /\ q.row \in 1..Len(listings)
      /\ q.op \in G!Ops /\ verification[q.op] \in Ended
  BY <1>0, <1>1, <1>2 DEF G!Settle, ActionStands, G!Call
<1>4. PICK outcome \in {"live", "failed"} : outcome = G!Outcome(q.op)
  BY DEF G!Outcome
<1>5. /\ outcome = "live" => verification[q.op] = "succeeded"
      /\ outcome = "failed" => verification[q.op] = "failed"
  BY <1>3, <1>4 DEF G!Outcome, Ended
<1>6. /\ listings' = [listings EXCEPT ![q.row].status = outcome]
      /\ overtaken' = IF listings[q.row].op = q.op THEN overtaken ELSE overtaken \cup {q.row}
      /\ G!Answer(t, [q EXCEPT !.status = outcome])
  BY <1>1, <1>4 DEF G!Settle
<1>7. PICK new \in ListingRow : new = [listings[q.row] EXCEPT !.status = outcome]
                                /\ new.status = outcome /\ new.op = listings[q.row].op
  <2>1. PICK old \in ListingRow : old = listings[q.row]
    BY <1>0, <1>3
  <2>2. PICK new : new = [old EXCEPT !.status = outcome]
    OBVIOUS
  <2>3. new \in ListingRow /\ new.status = outcome /\ new.op = old.op
    BY <2>2 DEF ListingRow, G!Listed
  <2> QED
    BY <2>1, <2>2, <2>3
<1>8. listings' = [listings EXCEPT ![q.row] = new]
  BY <1>6, <1>7
<1>9. /\ listings' \in Seq(ListingRow) /\ Len(listings') = Len(listings)
      /\ \A j \in 1..Len(listings) : listings'[j] = IF j = q.row THEN new ELSE listings[j]
  BY <1>0, <1>3, <1>8, ExceptSeq
<1>10. DOMAIN listings' = 1..Len(listings)
  BY <1>9
<1>11. RowsStand'
  <2>1. \A i \in DOMAIN listings' : verification[listings'[i].op] # "none"
    BY <1>0, <1>3, <1>7, <1>9, <1>10 DEF ListingInv, RowsStand
  <2>2. G!ListingFollowsVerification'
    BY <1>0, <1>5, <1>6, <1>7, <1>9, <1>10 DEF ListingInv, RowsStand, G!ListingFollowsVerification
  <2> QED
    BY <1>0, <2>1, <2>2 DEF RowsStand
<1>12. Onward
  <2>1. overtaken' \subseteq 1..Len(listings')
    BY <1>3, <1>6, <1>9 DEF ListingInv, ListingTyped
  <2> QED
    BY <1>0, <1>9, <1>11, <2>1 DEF Onward, ListingInv, ListingTyped
<1>13. PICK p \in G!Call : p = [q EXCEPT !.status = outcome]
  BY DEF G!Call, G!Listed
<1>14. PICK r : r = [p EXCEPT !.at = "ok", !.row = 0, !.op = G!NoOperation]
  OBVIOUS
<1>15. r \in G!Call /\ r.at = "ok" /\ r.row = 0
  BY <1>14 DEF G!Call
<1>16. ActionStands(r, verification', Len(listings'))
  BY <1>0, <1>9, <1>15 DEF ActionStands
<1> QED
  BY <1>0, <1>6, <1>12, <1>13, <1>14, <1>16, ListingGoto DEF G!Answer

LEMMA ListingKept == ListingInv /\ [G!Next]_G!vars => ListingInv'
<1>1. ListingInv /\ UNCHANGED G!vars => ListingInv'
  <2> SUFFICES ASSUME ListingInv, UNCHANGED G!vars PROVE ListingInv'
    OBVIOUS
  <2>1. ListingTyped'
    BY DEF ListingInv, ListingTyped, G!vars
  <2>2. \A t \in Tabs : \A i \in 1..Len(actions'[t]) :
          ActionStands(actions'[t][i], verification', Len(listings'))
    BY DEF ListingInv, G!vars
  <2>3. RowsStand'
    BY DEF ListingInv, RowsStand, G!ListingFollowsVerification, G!vars
  <2> QED
    BY <2>1, <2>2, <2>3 DEF ListingInv
<1> QED
  BY <1>1, ListingVerifies, ListingPage, ListingTakes, ListingAccepts, ListingUpserts,
     ListingReads, ListingSettles DEF ListingStep, G!Next

-----------------------------------------------------------------------------

Asking == [at : {"idle", "asked", "served", "refused"}, kind : P!Kinds, mount : Nat, prompt : Nat]

LaunchOut == \E c \in ServerCalls : asking[c].at # "idle" /\ asking[c].kind = "quick"

DraftCounts == visit \in Nat /\ prompts \in Nat /\ asking \in [ServerCalls -> Asking]

Screen ==
  /\ place \in {"restoring", "console"} => studio
  /\ place = "wizard" => ~studio

OwnWords ==
  /\ business = [f \in P!Fields |-> business[f]]
  /\ hers \subseteq P!Fields
  /\ P!OwnersProfileKept

DraftInv ==
  /\ DraftCounts /\ Screen /\ OwnWords
  /\ LaunchOut => studio /\ hers = {}

LEMMA DraftStart == P!Init => DraftInv
<1> SUFFICES ASSUME P!Init PROVE DraftInv
  OBVIOUS
<1>1. P!Idle \in Asking
  BY DEF P!Idle, Asking, P!Kinds
<1>2. DraftCounts
  BY <1>1 DEF P!Init, DraftCounts
<1>3. Screen /\ OwnWords
  BY DEF P!Init, Screen, OwnWords, P!OwnersProfileKept, P!Fields
<1>4. ~LaunchOut
  BY DEF P!Init, LaunchOut, P!Idle
<1> QED
  BY <1>2, <1>3, <1>4 DEF DraftInv

Profiled == UNCHANGED <<business, hers>>
Uncalled == UNCHANGED <<asking, studio>>

LEMMA DraftKept ==
  ASSUME DraftInv, [P!Next]_P!vars PROVE DraftInv'
<1>t. P!Idle \in Asking
  BY DEF P!Idle, Asking, P!Kinds
<1>a. ASSUME Profiled PROVE OwnWords'
  BY <1>a DEF DraftInv, OwnWords, P!OwnersProfileKept, Profiled
<1>b. ASSUME Profiled, UNCHANGED studio, LaunchOut' => LaunchOut \/ (hers = {} /\ studio)
      PROVE  LaunchOut' => studio' /\ hers' = {}
  BY <1>b DEF DraftInv, Profiled
<1>c. ASSUME UNCHANGED <<asking, visit, prompts>> PROVE DraftCounts' /\ (LaunchOut' <=> LaunchOut)
  BY <1>c DEF DraftInv, DraftCounts, LaunchOut
<1>d. ASSUME UNCHANGED asking, visit' \in Nat, prompts' \in Nat
      PROVE  DraftCounts' /\ (LaunchOut' <=> LaunchOut)
  BY <1>d DEF DraftInv, DraftCounts, LaunchOut
<1>e. ASSUME NEW c \in ServerCalls, asking' = [asking EXCEPT ![c] = P!Idle], visit' \in Nat, prompts' \in Nat
      PROVE  DraftCounts' /\ (LaunchOut' => LaunchOut)
  <2>1. asking' \in [ServerCalls -> Asking]
    BY <1>e, <1>t DEF DraftInv, DraftCounts
  <2>2. LaunchOut' => LaunchOut
    BY <1>e DEF DraftInv, DraftCounts, LaunchOut, P!Idle
  <2> QED
    BY <1>e, <2>1, <2>2 DEF DraftCounts
<1>f. ASSUME NEW c \in ServerCalls, NEW q \in Asking, asking' = [asking EXCEPT ![c] = q],
             visit' \in Nat, prompts' \in Nat
      PROVE  DraftCounts' /\ (q.kind # "quick" => (LaunchOut' => LaunchOut))
  <2>1. asking' \in [ServerCalls -> Asking]
    BY <1>f DEF DraftInv, DraftCounts
  <2>2. q.kind # "quick" => (LaunchOut' => LaunchOut)
    BY <1>f DEF DraftInv, DraftCounts, LaunchOut
  <2> QED
    BY <1>f, <2>1, <2>2 DEF DraftCounts
<1>n. visit \in Nat /\ prompts \in Nat /\ visit + 1 \in Nat /\ prompts + 1 \in Nat
  BY DEF DraftInv, DraftCounts
<1>1. CASE P!OpenConsole \/ P!Restore \/ P!LeaveConsole \/ P!Guided \/ P!Skip
  <2>1. Profiled /\ UNCHANGED <<studio, asking>> /\ visit' \in Nat /\ prompts' \in Nat /\ Screen'
    BY <1>1, <1>n DEF P!OpenConsole, P!Mounting, P!Restore, P!Shows, P!LeaveConsole, P!Leaving, P!Guided, P!Skip,
         P!Beside, Profiled, Screen, DraftInv
  <2> QED
    BY <2>1, <1>a, <1>b, <1>d DEF DraftInv
<1>2. CASE P!Reload
  <2>1. Profiled /\ UNCHANGED studio /\ visit' \in Nat /\ prompts' \in Nat /\ Screen'
    BY <1>2, <1>n DEF P!Reload, P!Mounting, Profiled, Screen, DraftInv
  <2>2. asking' \in [ServerCalls -> Asking] /\ ~LaunchOut'
    BY <1>2, <1>t DEF P!Reload, LaunchOut, P!Idle
  <2> QED
    BY <2>1, <2>2, <1>a DEF DraftInv, DraftCounts
<1>3. CASE P!OpenWizard \/ P!Review \/ P!CloseWizard
  <2>1. Profiled /\ UNCHANGED <<studio, asking>> /\ visit' \in Nat /\ prompts' \in Nat /\ Screen'
    BY <1>3, <1>n DEF P!OpenWizard, P!Review, P!CloseWizard, Profiled, Screen, DraftInv
  <2> QED
    BY <2>1, <1>a, <1>b, <1>d DEF DraftInv
<1>4. CASE P!ApplyDraft
  <2>1. UNCHANGED <<studio, asking, visit, prompts>> /\ Screen' /\ ~studio
    BY <1>4 DEF P!ApplyDraft, Screen, DraftInv
  <2>2. business' = [P!Drafted EXCEPT !["desc"] = wizard.draft]
        /\ hers' = IF wizard.draft = "hers" THEN {"desc"} ELSE {}
    BY <1>4 DEF P!ApplyDraft
  <2>3. OwnWords'
    BY <2>2 DEF OwnWords, P!OwnersProfileKept, P!Fields, P!Drafted
  <2> QED
    BY <2>1, <2>3, <1>c DEF DraftInv
<1>5. ASSUME NEW f \in P!Fields, P!Write(f) PROVE DraftInv'
  <2>1. UNCHANGED <<studio, asking, visit, prompts>> /\ Screen'
    BY <1>5 DEF P!Write, Screen, DraftInv
  <2>2. PICK words \in {"hers", "empty"} :
          /\ business' = [business EXCEPT ![f] = words]
          /\ hers' = IF words = "hers" /\ \A c \in P!Out : asking[c].kind # "quick"
                     THEN hers \cup {f} ELSE hers \ {f}
    BY <1>5 DEF P!Write
  <2>3. CASE words = "hers" /\ \A c \in P!Out : asking[c].kind # "quick"
    <3>1. hers' = hers \cup {f} /\ business' = [business EXCEPT ![f] = "hers"]
      BY <2>2, <2>3
    <3>2. OwnWords'
      BY <3>1 DEF OwnWords, P!OwnersProfileKept, DraftInv
    <3>3. ~LaunchOut
      BY <2>3 DEF LaunchOut, P!Out
    <3> QED
      BY <2>1, <3>2, <3>3, <1>c DEF DraftInv
  <2>4. CASE ~(words = "hers" /\ \A c \in P!Out : asking[c].kind # "quick")
    <3>1. hers' = hers \ {f} /\ business' = [business EXCEPT ![f] = words]
      BY <2>2, <2>4
    <3>2. OwnWords'
      BY <3>1 DEF OwnWords, P!OwnersProfileKept, DraftInv
    <3> QED
      BY <2>1, <3>1, <3>2, <1>c DEF DraftInv
  <2> QED
    BY <2>3, <2>4
<1>6. ASSUME NEW i \in DOMAIN thread, P!UseDraft(i) PROVE DraftInv'
  <2>1. UNCHANGED <<studio, asking, visit, prompts>> /\ Screen' /\ business' = P!Drafted /\ hers' = {}
    BY <1>6 DEF P!UseDraft, P!Shows, Screen, DraftInv
  <2>2. OwnWords'
    BY <2>1 DEF OwnWords, P!OwnersProfileKept, P!Drafted, P!Fields
  <2> QED
    BY <2>1, <2>2, <1>c DEF DraftInv
<1>7. ASSUME NEW c \in ServerCalls, P!Submit(c) \/ P!Generate(c) PROVE DraftInv'
  <2>1. Profiled /\ UNCHANGED <<studio, visit>> /\ prompts' \in Nat /\ Screen'
    BY <1>7, <1>n DEF P!Submit, P!Generate, P!Shows, Profiled, Screen, DraftInv
  <2>2. PICK q \in Asking : asking' = [asking EXCEPT ![c] = q] /\ q.kind # "quick"
    <3>1. CASE P!Submit(c)
      <4>1. asking' = [asking EXCEPT ![c] =
                      [at |-> "asked", kind |-> P!Route, mount |-> visit, prompt |-> prompts']]
        BY <3>1 DEF P!Submit
      <4>3. P!Route \in {"onboarding", "team"}
        BY <3>1 DEF P!Submit, P!Route
      <4>2. [at |-> "asked", kind |-> P!Route, mount |-> visit, prompt |-> prompts'] \in Asking
        BY <4>3, <2>1, <1>n DEF Asking, P!Kinds
      <4> QED
        BY <4>1, <4>2, <4>3
    <3>2. CASE P!Generate(c)
      <4>1. asking' = [asking EXCEPT ![c] =
                      [at |-> "asked", kind |-> "wizard", mount |-> visit, prompt |-> 0]]
        BY <3>2 DEF P!Generate
      <4>2. [at |-> "asked", kind |-> "wizard", mount |-> visit, prompt |-> 0] \in Asking
        BY <1>n DEF Asking, P!Kinds
      <4> QED
        BY <4>1, <4>2
    <3> QED
      BY <1>7, <3>1, <3>2
  <2> QED
    BY <2>1, <2>2, <1>n, <1>a, <1>b, <1>f DEF DraftInv
<1>8. ASSUME NEW c \in ServerCalls, P!Launch(c) PROVE DraftInv'
  <2>1. UNCHANGED <<studio, visit, prompts, business>> /\ Screen' /\ hers' = {} /\ studio
    BY <1>8 DEF P!Launch, P!Beside, Screen, DraftInv
  <2>2. asking' = [asking EXCEPT ![c] = [at |-> "asked", kind |-> "quick", mount |-> visit, prompt |-> 0]]
    BY <1>8 DEF P!Launch
  <2>3. [at |-> "asked", kind |-> "quick", mount |-> visit, prompt |-> 0] \in Asking
    BY <1>n DEF Asking, P!Kinds
  <2>4. DraftCounts'
    BY <2>1, <2>2, <2>3, <1>n, <1>f
  <2>5. OwnWords'
    BY <2>1 DEF OwnWords, P!OwnersProfileKept, DraftInv
  <2> QED
    BY <2>1, <2>4, <2>5 DEF DraftInv
<1>9. ASSUME NEW c \in ServerCalls, P!TakeReply(c) \/ P!TakeDraft(c) PROVE DraftInv'
  <2>1. Profiled /\ UNCHANGED <<studio, visit, prompts>> /\ Screen'
        /\ asking' = [asking EXCEPT ![c] = P!Idle]
    BY <1>9 DEF P!TakeReply, P!TakeDraft, Profiled, Screen, DraftInv
  <2> QED
    BY <2>1, <1>n, <1>a, <1>b, <1>e DEF DraftInv
<1>10. ASSUME NEW c \in ServerCalls, P!TakeLaunch(c) PROVE DraftInv'
  <2>1. UNCHANGED <<studio, visit, prompts, hers>> /\ Screen'
        /\ asking' = [asking EXCEPT ![c] = P!Idle]
    BY <1>10 DEF P!TakeLaunch, Screen, DraftInv
  <2>2. asking[c].kind = "quick" /\ asking[c].at # "idle"
    BY <1>10 DEF P!TakeLaunch
  <2>3. hers = {} /\ studio
    BY <2>2 DEF DraftInv, LaunchOut
  <2>4. business' = [f \in P!Fields |-> business'[f]]
    BY <1>10 DEF P!TakeLaunch, P!Drafted, P!Fields, DraftInv, OwnWords
  <2>5. OwnWords'
    BY <2>1, <2>3, <2>4 DEF OwnWords, P!OwnersProfileKept
  <2> QED
    BY <2>1, <2>3, <2>5, <1>n, <1>e DEF DraftInv
<1>11. ASSUME NEW c \in ServerCalls, P!ServeProfile(c) \/ P!ServeQuick(c) \/ P!ServeTeam(c) PROVE DraftInv'
  <2>1. Profiled /\ UNCHANGED <<studio, visit, prompts>> /\ Screen'
    BY <1>11 DEF P!ServeProfile, P!ServeQuick, P!ServeTeam, P!Served, Profiled, Screen, DraftInv
  <2>2. PICK answer \in {"served", "refused"} :
          asking[c].at = "asked" /\ asking' = [asking EXCEPT ![c].at = answer]
    BY <1>11 DEF P!ServeProfile, P!ServeQuick, P!ServeTeam, P!Served
  <2>3. PICK q : q = [asking[c] EXCEPT !.at = answer]
    OBVIOUS
  <2>4. q \in Asking /\ q.kind = asking[c].kind
    BY <2>2, <2>3 DEF Asking, DraftInv, DraftCounts
  <2>5. asking' = [asking EXCEPT ![c] = q]
    BY <2>2, <2>3
  <2>6. DraftCounts'
    BY <2>1, <2>4, <2>5, <1>n, <1>f
  <2>7. LaunchOut' => LaunchOut
    BY <2>2, <2>4, <2>5 DEF LaunchOut, DraftInv, DraftCounts
  <2> QED
    BY <2>1, <2>6, <2>7, <1>a DEF DraftInv, Profiled
<1>12. CASE UNCHANGED P!vars
  <2>1. Profiled /\ UNCHANGED <<studio, asking, visit, prompts, place>>
    BY <1>12 DEF P!vars, Profiled
  <2> QED
    BY <2>1, <1>a, <1>b, <1>c DEF DraftInv, Screen
<1> QED
  BY <1>1, <1>2, <1>3, <1>4, <1>5, <1>6, <1>7, <1>8, <1>9, <1>10, <1>11, <1>12 DEF P!Next

-----------------------------------------------------------------------------

SearchAssumption == None \notin Pages

Searches == [at : {"idle", "sitemap", "list", "page", "write", "keywords"},
             todo : SUBSET Pages, now : Pages \cup {None}]

(* A page the owner described is on no run's list, and stays off it: a run  *)
(* lists what has no description.                                           *)
SearchInv ==
  /\ E!TypeOK
  /\ \A r \in Runs : seoRun[r].at = "write" => seoRun[r].now \in Pages
  /\ \A p \in described : sitePage[p].desc = "hers" /\ ~E!Listing(p)

LEMMA SearchStart == SearchAssumption /\ E!Init => SearchInv
<1> SUFFICES ASSUME SearchAssumption, E!Init PROVE SearchInv
  OBVIOUS
<1>1. sitePage \in [Pages -> E!Rows]
  <2>1. [there : {TRUE}, published : BOOLEAN, desc : {"none", "hers"}] \subseteq E!Rows
    BY DEF E!Rows, E!Descs
  <2> QED
    BY <2>1 DEF E!Init
<1>2. seoRun \in [Runs -> Searches]
  BY DEF E!Init, E!Idle, Searches
<1>3. editor \in [on : Pages \cup {None}, desc : E!Descs, published : BOOLEAN]
  BY DEF E!Init, E!Shut, E!Descs
<1>4. E!TypeOK
  BY <1>1, <1>2, <1>3 DEF E!TypeOK, Searches, E!Init
<1> QED
  BY <1>4 DEF SearchInv, E!Init, E!Idle, E!Listing, SearchAssumption

(* A run goes on with pages it had, or with pages nobody described.         *)
Turns(r, plan) ==
  /\ plan \in Searches /\ seoRun' = [seoRun EXCEPT ![r] = plan]
  /\ plan.at = "write" => plan.now \in Pages
  /\ \A p \in Pages : p \in plan.todo \/ plan.now = p =>
       p \in seoRun[r].todo \/ seoRun[r].now = p \/ sitePage[p].desc # "hers"

(* The pages, the list and the editor stay what they are, and what she      *)
(* described hers.                                                          *)
SearchRest ==
  /\ sitePage' \in [Pages -> E!Rows] /\ pageList' \in [Pages -> E!Rows]
  /\ editor' \in [on : Pages \cup {None}, desc : E!Descs, published : BOOLEAN]
  /\ sitemap' \subseteq Pages /\ described' \subseteq Pages /\ given' \subseteq Pages
  /\ \A p \in described' : sitePage'[p].desc = "hers" /\ ~E!Listing(p)

LEMMA SearchRun ==
  ASSUME SearchInv, NEW r \in Runs, NEW plan, Turns(r, plan), SearchRest, described' \subseteq described
  PROVE  SearchInv'
<1>0. seoRun \in [Runs -> Searches]
  BY DEF SearchInv, E!TypeOK, Searches
<1>1. seoRun' \in [Runs -> Searches]
  BY <1>0 DEF Turns
<1>2. E!TypeOK'
  BY <1>1 DEF E!TypeOK, SearchRest, Searches
<1>3. \A s \in Runs : seoRun'[s].at = "write" => seoRun'[s].now \in Pages
  BY <1>0 DEF SearchInv, Turns
<1>4. \A p \in described : sitePage[p].desc = "hers" /\ p \in Pages
  BY DEF SearchInv, E!TypeOK
<1>5. \A p \in described' : ~E!Listing(p)'
  BY <1>0, <1>4 DEF SearchRest, E!Listing, Turns
<1> QED
  BY <1>2, <1>3, <1>5 DEF SearchInv, SearchRest

LEMMA SearchTurns ==
  ASSUME SearchInv, NEW r \in Runs, NEW plan, Turns(r, plan),
         UNCHANGED <<sitePage, pageList, editor, described, given>>, sitemap' \subseteq Pages
  PROVE  SearchInv'
<1>1. SearchRest
  BY DEF SearchRest, SearchInv, E!TypeOK
<1> QED
  BY <1>1, SearchRun

(* The owner's steps leave the runs.                                        *)
LEMMA SearchOwner ==
  ASSUME SearchInv, SearchRest, UNCHANGED seoRun PROVE SearchInv'
BY DEF SearchInv, SearchRest, E!TypeOK, E!Listing

SearchStep(A) == SearchAssumption /\ SearchInv /\ A => SearchInv'

LEMMA SearchGoes ==
  SearchStep(\E r \in Runs : E!Begin(r) \/ E!MapSite(r) \/ E!ListPages(r) \/ E!PagesDone(r))
<1> SUFFICES ASSUME SearchAssumption, SearchInv, NEW r \in Runs,
                    E!Begin(r) \/ E!MapSite(r) \/ E!ListPages(r) \/ E!PagesDone(r)
             PROVE  SearchInv'
  BY DEF SearchStep
<1>0. seoRun[r] \in Searches /\ sitemap \subseteq Pages
  BY DEF SearchInv, E!TypeOK, Searches
<1>1. ASSUME NEW label \in {"sitemap", "list", "keywords"}, E!Goto(r, label),
             UNCHANGED <<sitePage, pageList, editor, described, given>>, sitemap' \subseteq Pages
      PROVE  SearchInv'
  <2>1. PICK plan : plan = [seoRun[r] EXCEPT !.at = label]
    OBVIOUS
  <2>2. plan \in Searches /\ plan.todo = seoRun[r].todo /\ plan.now = seoRun[r].now /\ plan.at = label
    BY <1>0, <2>1 DEF Searches
  <2>3. seoRun' = [seoRun EXCEPT ![r] = plan]
    BY <1>1, <2>1 DEF E!Goto
  <2>4. Turns(r, plan)
    BY <2>2, <2>3 DEF Turns
  <2> QED
    BY <1>1, <2>4, SearchTurns
<1>2. CASE E!Begin(r)
  BY <1>0, <1>1, <1>2 DEF E!Begin, E!Rest
<1>3. CASE E!MapSite(r)
  BY <1>0, <1>1, <1>3 DEF E!MapSite, E!Public
<1>4. CASE E!PagesDone(r)
  BY <1>0, <1>1, <1>4 DEF E!PagesDone, E!Rest
<1>5. CASE E!ListPages(r)
  <2>1. PICK plan : plan = [seoRun[r] EXCEPT !.at = "page", !.todo = E!Wanting]
    OBVIOUS
  <2>2. E!Wanting \subseteq {p \in Pages : sitePage[p].desc # "hers"}
    BY DEF E!Wanting, E!Public
  <2>3. plan \in Searches /\ plan.todo = E!Wanting /\ plan.now = seoRun[r].now /\ plan.at = "page"
    BY <1>0, <2>1, <2>2 DEF Searches
  <2>4. seoRun' = [seoRun EXCEPT ![r] = plan] /\ UNCHANGED <<sitePage, pageList, editor, described, given, sitemap>>
    BY <1>5, <2>1 DEF E!ListPages, E!Rest
  <2>5. Turns(r, plan)
    BY <2>2, <2>3, <2>4 DEF Turns
  <2> QED
    BY <1>0, <2>4, <2>5, SearchTurns
<1> QED
  BY <1>2, <1>3, <1>4, <1>5

LEMMA SearchEnds == SearchStep(\E r \in Runs : E!WriteFails(r) \/ E!Keywords(r) \/ E!RunFails(r))
<1> SUFFICES ASSUME SearchAssumption, SearchInv, NEW r \in Runs,
                    E!WriteFails(r) \/ E!Keywords(r) \/ E!RunFails(r)
             PROVE  SearchInv'
  BY DEF SearchStep
<1>1. seoRun' = [seoRun EXCEPT ![r] = E!Idle] /\ UNCHANGED <<sitePage, pageList, editor, described, given, sitemap>>
  BY DEF E!WriteFails, E!Keywords, E!RunFails, E!Rest
<1>2. PICK plan : plan = E!Idle
  OBVIOUS
<1>3. plan \in Searches /\ plan.todo = {} /\ plan.now = None /\ plan.at = "idle"
  <2>1. plan = [at |-> "idle", todo |-> {}, now |-> None]
    BY <1>2 DEF E!Idle
  <2> QED
    BY <2>1 DEF Searches
<1>4. Turns(r, plan)
  BY <1>1, <1>2, <1>3 DEF Turns, SearchAssumption
<1> QED
  BY <1>1, <1>4, SearchTurns DEF SearchInv, E!TypeOK

LEMMA SearchDescribes == SearchStep(\E r \in Runs : \E p \in Pages : E!Describe(r, p))
<1> SUFFICES ASSUME SearchAssumption, SearchInv, NEW r \in Runs, NEW p \in Pages, E!Describe(r, p)
             PROVE  SearchInv'
  BY DEF SearchStep
<1>0. /\ seoRun[r] \in Searches /\ seoRun[r].at = "page" /\ p \in seoRun[r].todo
      /\ UNCHANGED <<sitePage, pageList, editor, described, given, sitemap>> /\ sitemap \subseteq Pages
  BY DEF SearchInv, E!TypeOK, Searches, E!Describe, E!Rest
<1>1. CASE seoRun' = [seoRun EXCEPT ![r] = [at |-> "write", todo |-> @.todo \ {p}, now |-> p]]
  <2>1. PICK plan : plan = [at |-> "write", todo |-> seoRun[r].todo \ {p}, now |-> p]
    OBVIOUS
  <2>2. plan \in Searches /\ plan.todo \subseteq seoRun[r].todo /\ plan.now = p
    BY <1>0, <2>1 DEF Searches
  <2>3. Turns(r, plan)
    BY <1>0, <1>1, <2>1, <2>2 DEF Turns
  <2> QED
    BY <1>0, <2>3, SearchTurns
<1>2. CASE seoRun' = [seoRun EXCEPT ![r].todo = @ \ {p}]
  <2>1. PICK plan : plan = [seoRun[r] EXCEPT !.todo = seoRun[r].todo \ {p}]
    OBVIOUS
  <2>2. plan \in Searches /\ plan.todo \subseteq seoRun[r].todo /\ plan.now = seoRun[r].now /\ plan.at = "page"
    BY <1>0, <2>1 DEF Searches
  <2>3. Turns(r, plan)
    BY <1>0, <1>2, <2>1, <2>2 DEF Turns
  <2> QED
    BY <1>0, <2>3, SearchTurns
<1> QED
  BY <1>1, <1>2 DEF E!Describe

LEMMA SearchWrites == SearchStep(\E r \in Runs : E!WriteDesc(r))
<1> SUFFICES ASSUME SearchAssumption, SearchInv, NEW r \in Runs, E!WriteDesc(r) PROVE SearchInv'
  BY DEF SearchStep
<1>0. seoRun[r] \in Searches /\ seoRun[r].at = "write" /\ sitePage \in [Pages -> E!Rows]
  BY DEF SearchInv, E!TypeOK, Searches, E!WriteDesc
<1>1. PICK p \in Pages : p = seoRun[r].now
  BY <1>0 DEF SearchInv
<1>2. /\ sitePage' = [sitePage EXCEPT ![p].desc = "agents"]
      /\ seoRun' = [seoRun EXCEPT ![r].at = "page", ![r].now = None]
      /\ UNCHANGED <<pageList, editor, described, given, sitemap>>
  BY <1>1 DEF E!WriteDesc
<1>3. sitePage' \in [Pages -> E!Rows] /\ \A v \in Pages \ {p} : sitePage'[v] = sitePage[v]
  BY <1>0, <1>2 DEF E!Rows, E!Descs
<1>4. p \notin described
  BY <1>1 DEF SearchInv, E!Listing
<1>5. SearchRest
  <2>1. \A v \in described : sitePage'[v].desc = "hers" /\ ~E!Listing(v)
    BY <1>3, <1>4 DEF SearchInv, E!TypeOK
  <2> QED
    BY <1>2, <1>3, <2>1 DEF SearchRest, SearchInv, E!TypeOK
<1>6. PICK plan : plan = [seoRun[r] EXCEPT !.at = "page", !.now = None]
  OBVIOUS
<1>7. plan \in Searches /\ plan.todo = seoRun[r].todo /\ plan.now = None /\ plan.at = "page"
  BY <1>0, <1>6 DEF Searches
<1>8. seoRun' = [seoRun EXCEPT ![r] = plan]
  BY <1>2, <1>6
<1>9. Turns(r, plan)
  BY <1>7, <1>8 DEF Turns, SearchAssumption
<1> QED
  BY <1>2, <1>5, <1>9, SearchRun

LEMMA SearchList ==
  SearchStep(E!LoadPages \/ E!WriteInEditor \/ E!CloseEditor \/ \E p \in Pages : E!OpenEditor(p))
<1> SUFFICES ASSUME SearchAssumption, SearchInv,
                    E!LoadPages \/ E!WriteInEditor \/ E!CloseEditor \/ \E p \in Pages : E!OpenEditor(p)
             PROVE  SearchInv'
  BY DEF SearchStep
<1>0. /\ sitePage \in [Pages -> E!Rows] /\ pageList \in [Pages -> E!Rows]
      /\ editor \in [on : Pages \cup {None}, desc : E!Descs, published : BOOLEAN]
      /\ sitemap \subseteq Pages /\ described \subseteq Pages /\ given \subseteq Pages
  BY DEF SearchInv, E!TypeOK
<1>1. UNCHANGED <<sitePage, seoRun, sitemap, described>>
  BY DEF E!LoadPages, E!WriteInEditor, E!CloseEditor, E!OpenEditor
<1>2. pageList' \in [Pages -> E!Rows] /\ given' \subseteq Pages
  BY <1>0 DEF E!LoadPages, E!WriteInEditor, E!CloseEditor, E!OpenEditor
<1>3. editor' \in [on : Pages \cup {None}, desc : E!Descs, published : BOOLEAN]
  <2>1. CASE E!LoadPages
    BY <1>0, <2>1 DEF E!LoadPages
  <2>2. CASE E!WriteInEditor
    BY <1>0, <2>2 DEF E!WriteInEditor, E!Descs
  <2>3. CASE E!CloseEditor
    BY <1>0, <2>3 DEF E!CloseEditor, E!Shut, E!Descs
  <2>4. ASSUME NEW p \in Pages, E!OpenEditor(p)
        PROVE  editor' \in [on : Pages \cup {None}, desc : E!Descs, published : BOOLEAN]
    <3>1. pageList[p] \in E!Rows
      BY <1>0
    <3>2. pageList[p].desc \in E!Descs /\ pageList[p].published \in BOOLEAN
      BY <3>1 DEF E!Rows
    <3> QED
      BY <2>4, <3>2 DEF E!OpenEditor
  <2> QED
    BY <2>1, <2>2, <2>3, <2>4
<1>4. SearchRest
  BY <1>0, <1>1, <1>2, <1>3 DEF SearchRest, SearchInv
<1> QED
  BY <1>1, <1>4, SearchOwner

LEMMA SearchSaves ==
  SearchStep(E!SaveEditor \/ \E p \in Pages : E!TogglePublish(p) \/ E!Delete(p))
<1> SUFFICES ASSUME SearchAssumption, SearchInv,
                    E!SaveEditor \/ \E p \in Pages : E!TogglePublish(p) \/ E!Delete(p)
             PROVE  SearchInv'
  BY DEF SearchStep
<1>0. /\ sitePage \in [Pages -> E!Rows] /\ pageList \in [Pages -> E!Rows]
      /\ editor \in [on : Pages \cup {None}, desc : E!Descs, published : BOOLEAN]
      /\ sitemap \subseteq Pages /\ described \subseteq Pages /\ given \subseteq Pages
      /\ \A p \in described : sitePage[p].desc = "hers" /\ ~E!Listing(p)
  BY DEF SearchInv, E!TypeOK
<1>1. CASE E!SaveEditor
  <2>1. PICK p \in Pages : p = editor.on
    BY <1>0, <1>1 DEF E!SaveEditor
  <2>2. UNCHANGED <<seoRun, sitemap, given>>
    BY <1>1 DEF E!SaveEditor
  <2>3. CASE UNCHANGED <<sitePage, pageList, editor, described>>
    BY <1>0, <2>2, <2>3, SearchOwner DEF SearchRest
  <2>4. ASSUME NEW published \in BOOLEAN,
               sitePage' = [sitePage EXCEPT ![p].desc = E!SavedDesc, ![p].published = published],
               pageList' = [pageList EXCEPT ![p] = sitePage'[p]], editor' = E!Shut,
               described' = IF editor.desc = "hers" /\ ~E!Listing(p) THEN described \cup {p} ELSE described \ {p}
        PROVE  SearchInv'
    <3>1. PICK new : new = [sitePage[p] EXCEPT !.desc = editor.desc, !.published = published]
      OBVIOUS
    <3>2. new \in E!Rows /\ new.desc = editor.desc
      BY <1>0, <3>1 DEF E!Rows
    <3>3. sitePage' = [sitePage EXCEPT ![p] = new]
      BY <2>4, <3>1 DEF E!SavedDesc
    <3>4. sitePage' \in [Pages -> E!Rows] /\ sitePage'[p] = new /\ \A v \in Pages \ {p} : sitePage'[v] = sitePage[v]
      BY <1>0, <3>2, <3>3
    <3>5. pageList' \in [Pages -> E!Rows]
      BY <1>0, <2>4, <3>2, <3>4
    <3>6. editor' \in [on : Pages \cup {None}, desc : E!Descs, published : BOOLEAN]
      BY <2>4 DEF E!Shut, E!Descs
    <3>7. described' \subseteq Pages /\ \A v \in described' : sitePage'[v].desc = "hers" /\ ~E!Listing(v)
      BY <1>0, <2>4, <3>2, <3>4
    <3> QED
      BY <1>0, <2>2, <3>4, <3>5, <3>6, <3>7, SearchOwner DEF SearchRest
  <2> QED
    BY <1>1, <2>1, <2>3, <2>4 DEF E!SaveEditor
<1>2. ASSUME NEW p \in Pages, NEW new \in E!Rows, sitePage' = [sitePage EXCEPT ![p] = new],
             pageList' = [pageList EXCEPT ![p] = new], UNCHANGED <<seoRun, editor, sitemap>>,
             described' \subseteq described, given' \subseteq Pages, p \in described' => new.desc = "hers"
      PROVE  SearchInv'
  <2>1. sitePage' \in [Pages -> E!Rows] /\ pageList' \in [Pages -> E!Rows]
    BY <1>0, <1>2
  <2>2. \A v \in described' : sitePage'[v].desc = "hers" /\ ~E!Listing(v)
    BY <1>0, <1>2
  <2> QED
    BY <1>0, <1>2, <2>1, <2>2, SearchOwner DEF SearchRest
<1>3. ASSUME NEW p \in Pages, E!TogglePublish(p) PROVE SearchInv'
  <2>1. PICK new : new = [sitePage[p] EXCEPT !.published = ~pageList[p].published]
    OBVIOUS
  <2>2. sitePage[p] \in E!Rows /\ pageList[p].published \in BOOLEAN
    BY <1>0 DEF E!Rows
  <2>3. new \in E!Rows /\ new.desc = sitePage[p].desc
    BY <2>1, <2>2 DEF E!Rows
  <2>4. /\ sitePage' = [sitePage EXCEPT ![p] = new] /\ pageList' = [pageList EXCEPT ![p] = new]
        /\ UNCHANGED <<seoRun, editor, sitemap, described, given>>
    BY <1>3, <2>1 DEF E!TogglePublish, E!Saved
  <2> QED
    BY <1>0, <1>2, <2>3, <2>4
<1>4. ASSUME NEW p \in Pages, E!Delete(p) PROVE SearchInv'
  <2>1. PICK new : new = [sitePage[p] EXCEPT !.there = FALSE]
    OBVIOUS
  <2>3. new \in E!Rows
    BY <1>0, <2>1 DEF E!Rows
  <2>4. /\ sitePage' = [sitePage EXCEPT ![p] = new] /\ pageList' = [pageList EXCEPT ![p] = new]
        /\ UNCHANGED <<seoRun, editor, sitemap>> /\ described' = described \ {p} /\ given' = given \ {p}
    BY <1>4, <2>1 DEF E!Delete, E!Saved
  <2> QED
    BY <1>0, <1>2, <2>3, <2>4
<1> QED
  BY <1>1, <1>3, <1>4

LEMMA SearchKept == SearchAssumption /\ SearchInv /\ [E!Next]_E!vars => SearchInv'
<1>1. SearchInv /\ UNCHANGED E!vars => SearchInv'
  BY DEF SearchInv, E!TypeOK, E!Listing, E!vars
<1> QED
  BY <1>1, SearchGoes, SearchEnds, SearchDescribes, SearchWrites, SearchList, SearchSaves
  DEF SearchStep, E!Next

-----------------------------------------------------------------------------

ComposersAssumption == MaxTyped \in Nat

Letters == [at : {"idle", "asked", "served", "refused"}, op : C!Ops, doc : {"new", "row"},
            head : Seq(Int), body : Seq(Int), mount : Nat]
Papers == [open : BOOLEAN, doc : {"new", "row"}, head : Seq(Int), body : Seq(Int), mount : Nat]

(* What stands in a body was typed by now, or made.                         *)
Written(s, n) == \A i \in DOMAIN s : s[i] <= n

(* The buttons each dashboard has.                                          *)
Offered(op) ==
  /\ op = "load" => kind = "brand"
  /\ op = "contacts" => kind = "bulk"
  /\ op = "suggest" => kind \in {"campaign", "brand"}
  /\ op = "generate" => kind \in {"page", "campaign", "post", "brand"}

LetterStands(q, n, m) ==
  /\ Written(q.body, n) /\ q.mount <= m
  /\ q.at # "idle" => Offered(q.op)
  /\ q.op = "generate" => \A i \in DOMAIN q.body : q.body[i] = C!Made
  /\ q.at = "refused" => q.body = C!Blank

FormStands ==
  /\ kind \in C!Kinds /\ pen \in Nat
  /\ form \in Papers /\ Written(form.body, pen)
  /\ text \in [head : Seq(Int), body : Seq(Int)] /\ Written(text.body, pen)

LettersStand ==
  /\ composing \in [ServerCalls -> Letters]
  /\ \A c \in ServerCalls : LetterStands(composing[c], pen, form.mount)

CountsStand ==
  /\ submitted \in [C!Typed -> Nat]
  /\ \A v \in C!Typed : v > pen \/ kind = "brand" => submitted[v] = 0

(* Besides the kit's and those to many, one save is out from the form that  *)
(* is on the screen, and its button is disabled.                            *)
Saving(c) == composing[c].at # "idle" /\ composing[c].op = "save" /\ C!Here(composing[c])

OneSave ==
  kind \notin {"brand", "bulk"} =>
    \A c \in ServerCalls : Saving(c) => "save" \in marked /\ \A d \in ServerCalls : Saving(d) => d = c

(* A call that will create, or has created, what has v in it.               *)
Carries(c, v) ==
  /\ composing[c].at # "idle" /\ composing[c].op \in {"save", "contacts"} /\ composing[c].doc = "new"
  /\ v \in C!Range(composing[c].body)

Unsent(c) == composing[c].at = "asked" \/ composing[c].op = "contacts"

(* A text that is on the screen was never sent, or its call is out.         *)
OnScreen(v) ==
  \/ submitted[v] = 0 /\ \A c \in ServerCalls : ~Carries(c, v)
  \/ \E c \in ServerCalls : Carries(c, v) /\ (kind = "bulk" \/ Saving(c))

OnceOf(v) ==
  /\ submitted[v] <= 1
  /\ \A c, d \in ServerCalls : Carries(c, v) /\ Carries(d, v) => c = d
  /\ \A c \in ServerCalls : Carries(c, v) /\ Unsent(c) => submitted[v] = 0
  /\ v \in C!Range(form.body) /\ form.doc = "new" => OnScreen(v)

Onces == kind # "brand" => \A v \in C!Typed \ again : OnceOf(v)

ComposersInv == FormStands /\ LettersStand /\ CountsStand /\ OneSave /\ Onces

LEMMA ComposersPromise == ComposersInv => C!SubmittedOnce
<1> SUFFICES ASSUME ComposersInv, NEW v \in C!Typed \ again PROVE submitted[v] <= 1
  BY DEF C!SubmittedOnce
<1>1. CASE kind = "brand"
  BY <1>1 DEF ComposersInv, CountsStand
<1>2. CASE kind # "brand"
  BY <1>2 DEF ComposersInv, Onces, OnceOf
<1> QED
  BY <1>1, <1>2

LEMMA Blankness ==
  /\ C!Blank \in Seq(Int) /\ DOMAIN C!Blank = {}
  /\ <<C!Made>> \in Seq(Int) /\ DOMAIN <<C!Made>> = {1} /\ <<C!Made>>[1] = -1
  /\ <<C!Empty, C!Empty>> \in Seq(Int)
  /\ DOMAIN <<C!Empty, C!Empty>> = {1, 2} /\ <<C!Empty, C!Empty>>[1] = 0 /\ <<C!Empty, C!Empty>>[2] = 0
<1>1. C!Blank \in Seq(Int) /\ DOMAIN C!Blank = {}
  BY DEF C!Blank
<1>2. <<C!Made>> \in Seq(Int) /\ DOMAIN <<C!Made>> = {1} /\ <<C!Made>>[1] = -1
  BY DEF C!Made
<1>3. <<C!Empty, C!Empty>> \in Seq(Int) /\ DOMAIN <<C!Empty, C!Empty>> = {1, 2}
      /\ <<C!Empty, C!Empty>>[1] = 0 /\ <<C!Empty, C!Empty>>[2] = 0
  BY DEF C!Empty
<1> QED
  BY <1>1, <1>2, <1>3

LEMMA ComposersStart == C!Init => ComposersInv
<1> SUFFICES ASSUME C!Init PROVE ComposersInv
  OBVIOUS
<1>1. FormStands
  <2>1. kind \in C!Kinds /\ pen \in Nat
    BY DEF C!Init
  <2>2. form \in Papers /\ Written(form.body, pen)
    BY Blankness DEF C!Init, Papers, Written, C!Modal, C!Kinds
  <2>3. text.body \in {C!Blank, <<C!Made>>} /\ text \in [head : Seq(Int), body : Seq(Int)]
    BY Blankness DEF C!Init
  <2>4. Written(text.body, pen)
    BY <2>3, Blankness DEF C!Init, Written
  <2> QED
    BY <2>1, <2>2, <2>4, <2>3 DEF FormStands
<1>2. C!Idle \in Letters /\ [C!Idle EXCEPT !.at = "asked"] \in Letters
  BY Blankness DEF C!Idle, Letters, C!Ops
<1>3. \A c \in ServerCalls : composing[c] = C!Idle \/ (kind = "brand" /\ composing[c] = [C!Idle EXCEPT !.at = "asked"])
  BY DEF C!Init
<1>4. LettersStand
  <2>1. composing \in [ServerCalls -> Letters]
    BY <1>2 DEF C!Init
  <2>2. form.mount = 0
    BY DEF C!Init
  <2>3. LetterStands(C!Idle, pen, form.mount)
    BY <2>2, Blankness DEF C!Idle, LetterStands, Written
  <2>4. kind = "brand" => LetterStands([C!Idle EXCEPT !.at = "asked"], pen, form.mount)
    BY <2>2, Blankness DEF C!Idle, LetterStands, Written, Offered
  <2> QED
    BY <2>1, <2>3, <2>4, <1>3 DEF LettersStand
<1>5. CountsStand
  BY DEF C!Init, CountsStand
<1>6. \A c \in ServerCalls : kind # "brand" => composing[c].at = "idle"
  BY <1>3 DEF C!Idle
<1>7. OneSave
  BY <1>6 DEF OneSave, Saving
<1>8. Onces
  BY <1>6 DEF Onces, OnceOf, OnScreen, Carries, C!Init
<1> QED
  BY <1>1, <1>4, <1>5, <1>7, <1>8 DEF ComposersInv

LEMMA InBody ==
  ASSUME NEW f, NEW v PROVE v \in C!Range(f) <=> \E i \in DOMAIN f : f[i] = v
BY DEF C!Range

(* The owner's hand: the form is the same, and what stands in its body stood *)
(* there, is made, or is the next text.                                     *)
Hand ==
  /\ UNCHANGED <<kind, marked, text, submitted, composing, again>>
  /\ form' \in Papers /\ pen' \in {pen, pen + 1}
  /\ form'.open = form.open /\ form'.doc = form.doc /\ form'.mount = form.mount
  /\ \A v \in C!Range(form'.body) :
       v \in C!Range(form.body) \/ v \in {C!Made, C!Empty} \/ (v = pen + 1 /\ v = pen')

LEMMA ComposersHand ==
  ASSUME ComposersInv, Hand PROVE ComposersInv'
<1>1. pen \in Nat /\ pen' \in Nat /\ pen <= pen'
  BY DEF Hand, ComposersInv, FormStands
<1>2. \A i \in DOMAIN form'.body : form'.body[i] <= pen'
  <2> SUFFICES ASSUME NEW i \in DOMAIN form'.body PROVE form'.body[i] <= pen'
    OBVIOUS
  <2>1. form'.body[i] \in C!Range(form'.body)
    BY InBody
  <2>2. CASE form'.body[i] \in C!Range(form.body)
    <3>1. PICK j \in DOMAIN form.body : form.body[j] = form'.body[i]
      BY <2>2, InBody
    <3>2. form.body[j] <= pen /\ form.body[j] \in Int
      BY DEF ComposersInv, FormStands, Written, Papers
    <3> QED
      BY <3>1, <3>2, <1>1
  <2> QED
    BY <2>1, <2>2, <1>1 DEF Hand, C!Made, C!Empty
<1>3. FormStands'
  <2>1. Written(text.body, pen')
    BY <1>1 DEF ComposersInv, FormStands, Written
  <2> QED
    BY <1>1, <1>2, <2>1 DEF Hand, ComposersInv, FormStands, Written
<1>4. LettersStand'
  <2>1. \A c \in ServerCalls : LetterStands(composing[c], pen', form.mount)
    BY <1>1 DEF ComposersInv, LettersStand, LetterStands, Letters, Written
  <2>2. Offered("load")' <=> Offered("load")
    BY DEF Hand, Offered
  <2> QED
    BY <2>1 DEF Hand, ComposersInv, LettersStand, LetterStands, Offered
<1>5. CountsStand'
  BY <1>1 DEF Hand, ComposersInv, CountsStand, C!Typed
<1>6. \A c \in ServerCalls : Saving(c)' <=> Saving(c)
  BY DEF Hand, Saving, C!Here
<1>7. OneSave'
  BY <1>6 DEF Hand, ComposersInv, OneSave
<1>8. ASSUME kind # "brand", NEW v \in C!Typed \ again PROVE OnceOf(v)'
  <2>1. OnceOf(v)
    BY <1>8 DEF ComposersInv, Onces
  <2>2. \A c \in ServerCalls : (Carries(c, v)' <=> Carries(c, v)) /\ (Unsent(c)' <=> Unsent(c))
    BY DEF Hand, Carries, Unsent
  <2>3. OnScreen(v)' <=> OnScreen(v)
    BY <2>2, <1>6 DEF Hand, OnScreen
  <2>4. ASSUME v = pen + 1 PROVE OnScreen(v)
    <3>1. submitted[v] = 0
      BY <2>4, <1>1 DEF ComposersInv, CountsStand
    <3>2. \A c \in ServerCalls : ~Carries(c, v)
      BY <2>4, <1>1, InBody DEF ComposersInv, LettersStand, LetterStands, Letters, Written, Carries
    <3> QED
      BY <3>1, <3>2 DEF OnScreen
  <2>5. v # C!Made /\ v # C!Empty
    BY DEF C!Typed, C!Made, C!Empty
  <2>6. v \in C!Range(form'.body) /\ form'.doc = "new" => OnScreen(v)
    BY <2>1, <2>4, <2>5 DEF Hand, OnceOf
  <2> QED
    BY <2>1, <2>2, <2>3, <2>6 DEF Hand, OnceOf
<1>9. Onces'
  BY <1>8 DEF Hand, Onces
<1> QED
  BY <1>3, <1>4, <1>5, <1>7, <1>9 DEF ComposersInv

(* Contents that may be put in a field.                                     *)
Puttable(f, s) ==
  /\ s \in Seq(Int) /\ pen' \in {pen, pen + 1}
  /\ f = "body" => \A v \in C!Range(s) :
       v \in C!Range(form.body) \/ v \in {C!Made, C!Empty} \/ (v = pen + 1 /\ v = pen')

LEMMA Puts ==
  ASSUME ComposersInv, NEW f \in C!Fields, NEW s, C!Rewritten(f, s), Puttable(f, s)
  PROVE  ComposersInv'
<1>1. UNCHANGED <<kind, marked, text, submitted, composing, again>> /\ form' = [form EXCEPT ![f] = s]
  BY DEF C!Rewritten
<1>2. form \in Papers
  BY DEF ComposersInv, FormStands
<1>3. CASE f = "head"
  <2>1. form' = [form EXCEPT !.head = s]
    BY <1>1, <1>3
  <2>2. form' \in Papers /\ form'.body = form.body
        /\ form'.open = form.open /\ form'.doc = form.doc /\ form'.mount = form.mount
    BY <2>1, <1>2 DEF Papers, Puttable
  <2> QED
    BY <2>2, <1>1, ComposersHand DEF Hand, Puttable
<1>4. CASE f = "body"
  <2>1. form' = [form EXCEPT !.body = s]
    BY <1>1, <1>4
  <2>2. form' \in Papers /\ form'.body = s
        /\ form'.open = form.open /\ form'.doc = form.doc /\ form'.mount = form.mount
    BY <2>1, <1>2 DEF Papers, Puttable
  <2> QED
    BY <2>2, <1>1, <1>4, ComposersHand DEF Hand, Puttable
<1> QED
  BY <1>3, <1>4 DEF C!Fields

LEMMA OneText ==
  ASSUME NEW v \in Int PROVE <<v>> \in Seq(Int) /\ C!Range(<<v>>) = {v}
<1>1. <<v>> \in Seq(Int) /\ DOMAIN <<v>> = {1} /\ <<v>>[1] = v
  OBVIOUS
<1> QED
  BY <1>1 DEF C!Range

LEMMA BodyIs ==
  ASSUME ComposersInv
  PROVE  /\ form.body \in Seq(Int) /\ form.head \in Seq(Int)
         /\ DOMAIN form.body = 1..Len(form.body) /\ Len(form.body) \in Nat
         /\ pen \in Nat /\ pen + 1 \in Int
<1>1. form.body \in Seq(Int) /\ form.head \in Seq(Int) /\ pen \in Nat
  BY DEF ComposersInv, FormStands, Papers
<1> QED
  BY <1>1

LEMMA TypePuts ==
  ASSUME ComposersInv, NEW f \in C!Fields, C!Type(f) PROVE ComposersInv'
<1>1. C!Rewritten(f, <<pen + 1>>) /\ pen' = pen + 1
  BY DEF C!Type
<1>2. Puttable(f, <<pen + 1>>)
  BY <1>1, BodyIs, OneText DEF Puttable
<1> QED
  BY <1>1, <1>2, Puts

LEMMA MadePuts ==
  ASSUME ComposersInv, NEW f \in C!Fields, C!Rewritten(f, <<C!Made>>), UNCHANGED pen
  PROVE  ComposersInv'
<1>1. Puttable(f, <<C!Made>>)
  BY BodyIs, OneText DEF Puttable, C!Made
<1> QED
  BY <1>1, Puts

LEMMA AppendedRange ==
  ASSUME NEW s \in Seq(Int), NEW e \in Int
  PROVE  Append(s, e) \in Seq(Int)
         /\ \A v \in C!Range(Append(s, e)) : v \in C!Range(s) \/ v = e
<1>1. PICK t : t = Append(s, e)
  OBVIOUS
<1>2. /\ t \in Seq(Int) /\ Len(t) = Len(s) + 1
      /\ (\A i \in 1..Len(s) : t[i] = s[i]) /\ t[Len(s) + 1] = e
  BY <1>1, AppendProperties
<1>3. DOMAIN t = 1..(Len(s) + 1) /\ DOMAIN s = 1..Len(s) /\ Len(s) \in Nat
  BY <1>2
<1>4. \A i \in DOMAIN t : t[i] \in C!Range(s) \/ t[i] = e
  <2> SUFFICES ASSUME NEW i \in DOMAIN t PROVE t[i] \in C!Range(s) \/ t[i] = e
    OBVIOUS
  <2>1. CASE i \in 1..Len(s)
    BY <2>1, <1>2, <1>3, InBody
  <2>2. CASE i = Len(s) + 1
    BY <2>2, <1>2
  <2> QED
    BY <2>1, <2>2, <1>3
<1>5. \A v \in C!Range(t) : v \in C!Range(s) \/ v = e
  BY <1>4, InBody
<1> QED
  BY <1>1, <1>2, <1>5

LEMMA RemovedRange ==
  ASSUME NEW s \in Seq(Int), NEW i \in DOMAIN s
  PROVE  C!RemoveAt(s, i) \in Seq(Int) /\ C!Range(C!RemoveAt(s, i)) \subseteq C!Range(s)
<1>1. PICK t, front, back :
        /\ t = C!RemoveAt(s, i)
        /\ front = SubSeq(s, 1, i - 1) /\ back = SubSeq(s, i + 1, Len(s))
  OBVIOUS
<1>2. t = front \o back
  BY <1>1 DEF C!RemoveAt
<1>3. i \in Int /\ 1 <= i /\ i <= Len(s) /\ Len(s) \in Int /\ DOMAIN s = 1..Len(s)
  OBVIOUS
<1>4. \A j \in 1..Len(s) : s[j] \in C!Range(s) /\ s[j] \in Int
  BY <1>3, InBody
<1>5. front \in Seq(C!Range(s)) /\ front \in Seq(Int)
  <2>1. \A j \in 1..(i - 1) : s[j] \in C!Range(s) /\ s[j] \in Int
    BY <1>3, <1>4
  <2>2. i - 1 \in Int
    BY <1>3
  <2> QED
    BY <1>1, <2>1, <2>2, SubSeqProperties
<1>6. back \in Seq(C!Range(s)) /\ back \in Seq(Int)
  <2>1. \A j \in (i + 1)..Len(s) : s[j] \in C!Range(s) /\ s[j] \in Int
    BY <1>3, <1>4
  <2>2. i + 1 \in Int
    BY <1>3
  <2> QED
    BY <1>1, <1>3, <2>1, <2>2, SubSeqProperties
<1>7. t \in Seq(C!Range(s)) /\ t \in Seq(Int)
  BY <1>2, <1>5, <1>6, ConcatProperties
<1>8. \A j \in DOMAIN t : t[j] \in C!Range(s)
  BY <1>7
<1> QED
  BY <1>1, <1>7, <1>8, InBody

LEMMA BlockPuts ==
  ASSUME ComposersInv,
         \/ C!AddBlock
         \/ \E i \in DOMAIN form.body :
              C!UpdateBlock(i) \/ C!RemoveBlock(i) \/ \E dir \in {-1, 1} : C!MoveBlock(i, dir)
  PROVE  ComposersInv'
<1>f. "body" \in C!Fields
  BY DEF C!Fields
<1>1. CASE C!AddBlock
  <2>1. C!Rewritten("body", Append(form.body, C!Empty)) /\ UNCHANGED pen
    BY <1>1 DEF C!AddBlock
  <2>2. Append(form.body, C!Empty) \in Seq(Int)
    BY BodyIs, AppendedRange DEF C!Empty
  <2>3. \A v \in C!Range(Append(form.body, C!Empty)) : v \in C!Range(form.body) \/ v = C!Empty
    BY BodyIs, AppendedRange DEF C!Empty
  <2> QED
    BY <2>1, <2>2, <2>3, <1>f, Puts DEF Puttable
<1>2. ASSUME NEW i \in DOMAIN form.body, C!UpdateBlock(i) PROVE ComposersInv'
  <2>1. C!Rewritten("body", C!ReplaceAt(form.body, i, pen + 1)) /\ pen' = pen + 1
    BY <1>2 DEF C!UpdateBlock
  <2>2. PICK s : s = C!ReplaceAt(form.body, i, pen + 1)
    OBVIOUS
  <2>3. s = [form.body EXCEPT ![i] = pen + 1]
    BY <2>2 DEF C!ReplaceAt
  <2>4. s \in Seq(Int)
    BY <2>3, BodyIs, ExceptSeq
  <2>5. DOMAIN s = DOMAIN form.body
        /\ \A j \in DOMAIN form.body : s[j] = IF j = i THEN pen + 1 ELSE form.body[j]
    BY <2>3
  <2>6. Puttable("body", s)
    BY <2>1, <2>4, <2>5, InBody DEF Puttable
  <2> QED
    BY <2>1, <2>2, <2>6, <1>f, Puts
<1>3. ASSUME NEW i \in DOMAIN form.body, C!RemoveBlock(i) PROVE ComposersInv'
  <2>1. C!Rewritten("body", C!RemoveAt(form.body, i)) /\ UNCHANGED pen
    BY <1>3 DEF C!RemoveBlock
  <2>2. PICK s : s = C!RemoveAt(form.body, i)
    OBVIOUS
  <2>3. s \in Seq(Int) /\ C!Range(s) \subseteq C!Range(form.body)
    BY <2>2, BodyIs, RemovedRange
  <2>4. Puttable("body", s)
    BY <2>1, <2>3 DEF Puttable
  <2> QED
    BY <2>1, <2>2, <2>4, <1>f, Puts
<1>4. ASSUME NEW i \in DOMAIN form.body, NEW dir \in {-1, 1}, C!MoveBlock(i, dir)
      PROVE  ComposersInv'
  <2>1. /\ i + dir \in DOMAIN form.body /\ UNCHANGED pen
        /\ C!Rewritten("body", [form.body EXCEPT ![i] = form.body[i + dir],
                                               ![i + dir] = form.body[i]])
    BY <1>4 DEF C!MoveBlock
  <2>2. PICK s, t : s = [t EXCEPT ![i + dir] = form.body[i]]
                    /\ t = [form.body EXCEPT ![i] = form.body[i + dir]]
    OBVIOUS
  <2>3. C!Rewritten("body", s)
    BY <2>1, <2>2
  <2>4. form.body[i] \in Int /\ form.body[i + dir] \in Int
    BY <2>1, BodyIs
  <2>5. t \in Seq(Int) /\ Len(t) = Len(form.body)
    BY <2>2, <2>4, BodyIs, ExceptSeq
  <2>6. s \in Seq(Int)
    <3>1. i + dir \in 1..Len(t)
      BY <2>1, <2>5, BodyIs
    <3>2. [t EXCEPT ![i + dir] = form.body[i]] \in Seq(Int)
      BY <3>1, <2>4, <2>5, ExceptSeq
    <3> QED
      BY <3>2, <2>2
  <2>7. DOMAIN s = DOMAIN form.body
        /\ \A j \in DOMAIN form.body : s[j] \in {form.body[j], form.body[i], form.body[i + dir]}
    BY <2>2
  <2>8. Puttable("body", s)
    BY <2>1, <2>6, <2>7, InBody DEF Puttable
  <2> QED
    BY <2>3, <2>8, <1>f, Puts
<1> QED
  BY <1>1, <1>2, <1>3, <1>4

LEMMA ComposersWrites ==
  ASSUME ComposersInv, C!Write PROVE ComposersInv'
<1>f. "body" \in C!Fields /\ "head" \in C!Fields
  BY DEF C!Fields
<1>1. CASE C!TypeTitle \/ C!TypeKit
  BY <1>1, <1>f, TypePuts DEF C!TypeTitle, C!TypeKit
<1>2. CASE \E f \in C!Fields : C!TypeCampaign(f) \/ C!TypePost(f) \/ C!TypeSms(f) \/ C!TypeBulk(f)
  BY <1>2, TypePuts DEF C!TypeCampaign, C!TypePost, C!TypeSms, C!TypeBulk
<1>3. CASE C!AutoColors \/ C!ApplyTemplate
  BY <1>3, <1>f, MadePuts DEF C!AutoColors, C!ApplyTemplate, C!Apply
<1>4. CASE \E f \in C!Fields : C!Pick(f)
  BY <1>4, MadePuts DEF C!Pick
<1> QED
  BY <1>1, <1>2, <1>3, <1>4, BlockPuts DEF C!Write

(* Another document on the screen, none of whose texts a press can send     *)
(* again.                                                                   *)
Another ==
  /\ UNCHANGED <<kind, text, submitted, composing, pen>> /\ again \subseteq again'
  /\ form' \in Papers /\ Written(form'.body, pen) /\ form.mount <= form'.mount
  /\ \A v \in C!Typed \ again' : v \in C!Range(form'.body) => form'.doc # "new"

LEMMA ComposersAnother ==
  ASSUME ComposersInv, Another, OneSave' PROVE ComposersInv'
<1>1. FormStands'
  BY DEF Another, ComposersInv, FormStands
<1>2. LettersStand'
  <2>1. form.mount \in Nat /\ form'.mount \in Nat /\ \A c \in ServerCalls : composing[c].mount \in Nat
    BY DEF Another, ComposersInv, FormStands, LettersStand, Letters, Papers
  <2>2. \A c \in ServerCalls : LetterStands(composing[c], pen, form'.mount)
    BY <2>1 DEF Another, ComposersInv, LettersStand, LetterStands
  <2> QED
    BY <2>2 DEF Another, ComposersInv, LettersStand, LetterStands, Offered
<1>3. CountsStand'
  BY DEF Another, ComposersInv, CountsStand
<1>4. ASSUME kind # "brand", NEW v \in C!Typed \ again' PROVE OnceOf(v)'
  <2>1. OnceOf(v)
    BY <1>4 DEF Another, ComposersInv, Onces
  <2>2. \A c \in ServerCalls : (Carries(c, v)' <=> Carries(c, v)) /\ (Unsent(c)' <=> Unsent(c))
    BY DEF Another, Carries, Unsent
  <2> QED
    BY <2>1, <2>2 DEF Another, OnceOf
<1>5. Onces'
  BY <1>4 DEF Another, Onces
<1> QED
  BY <1>1, <1>2, <1>3, <1>5 DEF ComposersInv

LEMMA OpenedStands ==
  ASSUME ComposersInv, NEW doc \in {"new", "row"}, NEW head \in Seq(Int),
         NEW body \in Seq(Int), Written(body, pen), C!Opened(doc, head, body),
         again \subseteq again',
         \A v \in C!Typed \ again' : v \in C!Range(body) => doc # "new"
  PROVE  ComposersInv'
<1>1. form' = [open |-> TRUE, doc |-> doc, head |-> head, body |-> body,
               mount |-> form.mount + 1]
      /\ marked' = (IF kind = "page" THEN {} ELSE marked)
      /\ UNCHANGED <<kind, text, submitted, composing, pen>>
  BY DEF C!Opened
<1>2. form.mount \in Nat
  BY DEF ComposersInv, FormStands, Papers
<1>3. form' \in Papers /\ form'.body = body /\ form'.doc = doc /\ form'.mount = form.mount + 1
  BY <1>1, <1>2 DEF Papers
<1>4. Another
  BY <1>1, <1>2, <1>3 DEF Another
<1>5. CASE kind = "page"
  <2>1. \A c \in ServerCalls : composing[c].mount \in Nat /\ composing[c].mount <= form.mount
    BY DEF ComposersInv, LettersStand, LetterStands, Letters
  <2>2. \A c \in ServerCalls : ~Saving(c)'
    BY <1>1, <1>2, <1>3, <1>5, <2>1 DEF Saving, C!Here
  <2> QED
    BY <2>2, <1>4, ComposersAnother DEF OneSave
<1>6. CASE kind # "page"
  <2>1. \A c \in ServerCalls : Saving(c)' <=> Saving(c)
    BY <1>1, <1>6 DEF Saving, C!Here
  <2>2. OneSave'
    BY <1>1, <1>6, <2>1 DEF ComposersInv, OneSave
  <2> QED
    BY <2>2, <1>4, ComposersAnother
<1> QED
  BY <1>5, <1>6

LEMMA NoneTyped ==
  \A v \in C!Typed : v \notin C!Range(C!Blank) /\ v \notin C!Range(<<C!Made>>) /\ v \notin C!Range(<<C!Empty, C!Empty>>)
BY Blankness, InBody DEF C!Typed

LEMMA NoneLate ==
  ASSUME ComposersInv
  PROVE  Written(C!Blank, pen) /\ Written(<<C!Made>>, pen) /\ Written(<<C!Empty, C!Empty>>, pen)
<1>1. pen \in Nat
  BY DEF ComposersInv, FormStands
<1> QED
  BY <1>1, Blankness DEF Written

LEMMA ComposersOpens ==
  ASSUME ComposersInv, C!OpenPage \/ C!OpenCampaign PROVE ComposersInv'
<1>1. text.head \in Seq(Int) /\ text.body \in Seq(Int) /\ Written(text.body, pen)
  BY DEF ComposersInv, FormStands
<1>2. CASE C!Opened("new", C!Blank, C!Blank) /\ UNCHANGED again
  BY <1>2, OpenedStands, Blankness, NoneTyped, NoneLate
<1>3. CASE C!Opened("new", C!Blank, <<C!Empty, C!Empty>>) /\ UNCHANGED again
  BY <1>3, OpenedStands, Blankness, NoneTyped, NoneLate
<1>4. CASE C!Opened("row", text.head, text.body) /\ UNCHANGED again
  BY <1>4, <1>1, OpenedStands
<1>5. CASE C!Opened("new", <<C!Made>>, <<C!Made>>) /\ UNCHANGED again
  BY <1>5, OpenedStands, Blankness, NoneTyped, NoneLate
<1>6. CASE C!Opened("new", text.head, text.body) /\ again' = again \cup (C!Typed \cap C!Range(text.body))
  BY <1>6, <1>1, OpenedStands
<1> QED
  BY <1>2, <1>3, <1>4, <1>5, <1>6 DEF C!OpenPage, C!OpenCampaign

LEMMA EmptiedIs ==
  ASSUME ComposersInv
  PROVE  C!Emptied \in Papers /\ C!Emptied.body = C!Blank /\ C!Emptied.mount = form.mount
         /\ C!Emptied.open = ~C!Modal
BY Blankness DEF ComposersInv, FormStands, Papers, C!Emptied, C!Modal

LEMMA ComposersCancels ==
  ASSUME ComposersInv, C!Cancel PROVE ComposersInv'
<1>1. form' = C!Emptied /\ UNCHANGED <<kind, marked, text, submitted, composing, pen, again>> /\ C!Modal
  BY DEF C!Cancel
<1>2. form.mount \in Nat
  BY DEF ComposersInv, FormStands, Papers
<1>3. form' \in Papers /\ form'.body = C!Blank /\ form'.mount = form.mount /\ ~form'.open
  BY <1>1, EmptiedIs
<1>4. Another
  BY <1>1, <1>2, <1>3, NoneTyped, NoneLate DEF Another
<1>5. \A c \in ServerCalls : Saving(c)' => Saving(c)
  BY <1>1, <1>3 DEF Saving, C!Here
<1>6. OneSave'
  BY <1>1, <1>5 DEF ComposersInv, OneSave
<1> QED
  BY <1>4, <1>6, ComposersAnother

(* A call becomes q; the form is still the one its letters know.            *)
Posted(c, q) ==
  /\ q \in Letters /\ composing' = [composing EXCEPT ![c] = q]
  /\ UNCHANGED <<kind, pen>> /\ form'.mount = form.mount
  /\ LetterStands(q, pen, form.mount)

LEMMA PostedStands ==
  ASSUME ComposersInv, NEW c \in ServerCalls, NEW q, Posted(c, q)
  PROVE  LettersStand' /\ composing'[c] = q /\ \A d \in ServerCalls : d # c => composing'[d] = composing[d]
<1>1. composing' \in [ServerCalls -> Letters]
      /\ composing'[c] = q /\ \A d \in ServerCalls : d # c => composing'[d] = composing[d]
  BY DEF ComposersInv, LettersStand, Posted
<1>2. \A d \in ServerCalls : LetterStands(composing'[d], pen, form.mount)
  BY <1>1 DEF ComposersInv, LettersStand, Posted
<1> QED
  BY <1>1, <1>2 DEF LettersStand, LetterStands, Offered, Posted

(* Texts are where they were, for v.                                        *)
SameFor(v) ==
  /\ \A d \in ServerCalls :
       /\ Carries(d, v)' <=> Carries(d, v)
       /\ Carries(d, v) /\ Unsent(d)' => Unsent(d)
       /\ Saving(d) => Saving(d)'
  /\ UNCHANGED <<kind, submitted>>
  /\ v \in C!Range(form'.body) /\ form'.doc = "new" => v \in C!Range(form.body) /\ form.doc = "new"

LEMMA OnceSame ==
  ASSUME NEW v, OnceOf(v), SameFor(v) PROVE OnceOf(v)'
<1>1. OnScreen(v) => OnScreen(v)'
  BY DEF SameFor, OnScreen
<1> QED
  BY <1>1 DEF SameFor, OnceOf

(* A call no longer carries v; if it did, and v is still on the screen, v   *)
(* was not sent.                                                            *)
DroppedFor(c, v) ==
  /\ ~Carries(c, v)'
  /\ \A d \in ServerCalls : d # c =>
       (Carries(d, v)' <=> Carries(d, v)) /\ (Unsent(d)' <=> Unsent(d))
  /\ UNCHANGED <<kind, submitted>>
  /\ v \in C!Range(form'.body) /\ form'.doc = "new" =>
       /\ v \in C!Range(form.body) /\ form.doc = "new"
       /\ Carries(c, v) => submitted[v] = 0
       /\ \A d \in ServerCalls : d # c /\ Saving(d) => Saving(d)'

LEMMA OnceDropped ==
  ASSUME NEW v, NEW c \in ServerCalls, OnceOf(v), DroppedFor(c, v) PROVE OnceOf(v)'
<1>1. \A d \in ServerCalls : Carries(d, v)' => Carries(d, v) /\ d # c
  BY DEF DroppedFor
<1>2. ASSUME v \in C!Range(form'.body), form'.doc = "new" PROVE OnScreen(v)'
  <2>1. OnScreen(v)
    BY <1>2 DEF DroppedFor, OnceOf
  <2>2. CASE submitted[v] = 0 /\ \A d \in ServerCalls : ~Carries(d, v)
    BY <2>2, <1>1 DEF DroppedFor, OnScreen
  <2>3. CASE \E d \in ServerCalls : Carries(d, v) /\ (kind = "bulk" \/ Saving(d))
    <3>1. PICK d \in ServerCalls : Carries(d, v) /\ (kind = "bulk" \/ Saving(d))
      BY <2>3
    <3>2. CASE d = c
      <4>1. submitted[v] = 0 /\ \A e \in ServerCalls : Carries(e, v) => e = c
        BY <1>2, <3>1, <3>2 DEF DroppedFor, OnceOf
      <4> QED
        BY <4>1, <1>1 DEF DroppedFor, OnScreen
    <3>3. CASE d # c
      BY <1>2, <3>1, <3>3 DEF DroppedFor, OnScreen
    <3> QED
      BY <3>2, <3>3
  <2> QED
    BY <2>1, <2>2, <2>3 DEF OnScreen
<1>3. \A d, e \in ServerCalls : Carries(d, v)' /\ Carries(e, v)' => d = e
  BY <1>1 DEF OnceOf
<1>4. \A d \in ServerCalls : Carries(d, v)' /\ Unsent(d)' => submitted'[v] = 0
  BY <1>1 DEF OnceOf, DroppedFor
<1> QED
  BY <1>2, <1>3, <1>4 DEF OnceOf, DroppedFor

(* The letter that is posted.                                               *)
Letter(op) ==
  [at |-> "asked", op |-> op, doc |-> form.doc,
   head |-> IF op = "save" \/ (op = "generate" /\ kind = "page") THEN form.head ELSE C!Blank,
   body |-> IF op \in {"save", "contacts"} THEN form.body ELSE C!Blank,
   mount |-> IF kind = "page" THEN form.mount ELSE 0]

LEMMA LetterIs ==
  ASSUME ComposersInv, NEW op \in C!Ops, Offered(op)
  PROVE  /\ Letter(op) \in Letters /\ LetterStands(Letter(op), pen, form.mount)
         /\ Letter(op).at = "asked" /\ Letter(op).op = op /\ Letter(op).doc = form.doc
         /\ op \in {"save", "contacts"} => Letter(op).body = form.body
         /\ kind = "page" => Letter(op).mount = form.mount
<1>1. form \in Papers /\ Written(form.body, pen)
  BY DEF ComposersInv, FormStands
<1>2. form.mount \in Nat /\ form.doc \in {"new", "row"}
      /\ form.head \in Seq(Int) /\ form.body \in Seq(Int)
  BY <1>1 DEF Papers
<1>3. PICK head, body, mount :
        /\ head = IF op = "save" \/ (op = "generate" /\ kind = "page") THEN form.head ELSE C!Blank
        /\ body = IF op \in {"save", "contacts"} THEN form.body ELSE C!Blank
        /\ mount = IF kind = "page" THEN form.mount ELSE 0
  OBVIOUS
<1>4. head \in Seq(Int) /\ body \in Seq(Int) /\ mount \in Nat /\ mount <= form.mount
  BY <1>2, <1>3, Blankness
<1>5. Written(body, pen) /\ (op = "generate" => body = C!Blank)
  BY <1>1, <1>3, NoneLate
<1>6. Letter(op) = [at |-> "asked", op |-> op, doc |-> form.doc, head |-> head,
                    body |-> body, mount |-> mount]
  BY <1>3 DEF Letter
<1>7. Letter(op) \in Letters
  BY <1>2, <1>4, <1>6 DEF Letters
<1>8. LetterStands(Letter(op), pen, form.mount)
  BY <1>4, <1>5, <1>6, Blankness DEF LetterStands
<1> QED
  BY <1>3, <1>6, <1>7, <1>8

LEMMA ComposersAsk ==
  ASSUME ComposersAssumption, ComposersInv, NEW c \in ServerCalls, NEW op \in C!Ops, Offered(op),
         C!Ask(c, op)
  PROVE  ComposersInv'
<1>1. /\ composing[c].at = "idle" /\ form.open /\ C!Pressable(op)
      /\ composing' = [composing EXCEPT ![c] = Letter(op)]
      /\ marked' = marked \cup C!Marked(op)
      /\ again' = again \cup
           (IF kind = "bulk" /\ C!Out # {} THEN C!Typed \cap C!Range(form.body) ELSE {})
      /\ UNCHANGED <<kind, form, text, submitted, pen>>
  BY DEF C!Ask, Letter
<1>2. PICK q : q = Letter(op)
  OBVIOUS
<1>3. /\ q \in Letters /\ LetterStands(q, pen, form.mount)
      /\ q.at = "asked" /\ q.op = op /\ q.doc = form.doc
      /\ op \in {"save", "contacts"} => q.body = form.body
      /\ kind = "page" => q.mount = form.mount
  BY <1>2, LetterIs
<1>4. Posted(c, q)
  BY <1>1, <1>2, <1>3 DEF Posted
<1>5. LettersStand' /\ composing'[c] = q /\ \A d \in ServerCalls : d # c => composing'[d] = composing[d]
  BY <1>4, PostedStands
<1>6. FormStands' /\ CountsStand'
  BY <1>1 DEF ComposersInv, FormStands, CountsStand
<1>7. \A d \in ServerCalls : d # c => (Saving(d)' <=> Saving(d))
  BY <1>1, <1>5 DEF Saving, C!Here
<1>8. OneSave'
  <2> SUFFICES ASSUME kind \notin {"brand", "bulk"}, NEW d \in ServerCalls, Saving(d)'
               PROVE  "save" \in marked' /\ \A e \in ServerCalls : Saving(e)' => e = d
    BY <1>1 DEF OneSave
  <2>0. op # "contacts"
    BY DEF Offered
  <2>1. CASE op = "save"
    <3>1. "save" \notin marked
      BY <1>1, <2>1 DEF C!Pressable
    <3>2. \A e \in ServerCalls : ~Saving(e)
      BY <3>1 DEF ComposersInv, OneSave
    <3> QED
      BY <3>2, <2>1, <1>1, <1>7 DEF C!Marked
  <2>2. CASE op # "save"
    <3>1. ~Saving(c)'
      BY <2>2, <1>3, <1>5 DEF Saving
    <3> QED
      BY <3>1, <1>1, <1>7 DEF ComposersInv, OneSave
  <2> QED
    BY <2>1, <2>2
<1>9. ASSUME kind # "brand", NEW v \in C!Typed \ again' PROVE OnceOf(v)'
  <2>1. OnceOf(v)
    BY <1>1, <1>9 DEF ComposersInv, Onces
  <2>2. ~Carries(c, v) /\ ~Saving(c)
    BY <1>1 DEF Carries, Saving
  <2>3. \A d \in ServerCalls : d # c => (Carries(d, v)' <=> Carries(d, v)) /\ (Unsent(d)' <=> Unsent(d))
    BY <1>5 DEF Carries, Unsent
  <2>4. CASE ~Carries(c, v)'
    <3>1. SameFor(v)
      BY <1>1, <1>7, <2>2, <2>3, <2>4 DEF SameFor
    <3> QED
      BY <2>1, <3>1, OnceSame
  <2>5. CASE Carries(c, v)'
    <3>1. op \in {"save", "contacts"} /\ form.doc = "new" /\ v \in C!Range(form.body)
      BY <1>3, <1>5, <2>5 DEF Carries
    <3>2. OnScreen(v)
      BY <2>1, <3>1 DEF OnceOf
    <3>3. \A d \in ServerCalls : ~Carries(d, v)
      <4>1. CASE kind = "bulk"
        <5>1. C!Out = {}
          BY <1>1, <1>9, <3>1, <4>1
        <5> QED
          BY <5>1 DEF C!Out, Carries
      <4>2. CASE kind # "bulk"
        <5>1. op = "save" /\ "save" \notin marked
          BY <1>1, <3>1, <4>2 DEF Offered, C!Pressable
        <5>2. \A d \in ServerCalls : ~Saving(d)
          BY <1>9, <4>2, <5>1 DEF ComposersInv, OneSave
        <5> QED
          BY <3>2, <4>2, <5>2 DEF OnScreen
      <4> QED
        BY <4>1, <4>2
    <3>4. submitted[v] = 0
      BY <3>2, <3>3 DEF OnScreen
    <3>5. kind = "bulk" \/ Saving(c)'
      BY <1>1, <1>3, <1>5, <3>1 DEF Saving, C!Here, Offered
    <3>6. \A d \in ServerCalls : Carries(d, v)' => d = c
      BY <2>3, <3>3
    <3> QED
      BY <1>1, <2>5, <3>4, <3>5, <3>6 DEF OnceOf, OnScreen
  <2> QED
    BY <2>4, <2>5
<1>10. Onces'
  BY <1>1, <1>9 DEF Onces
<1> QED
  BY <1>5, <1>6, <1>8, <1>10 DEF ComposersInv

LEMMA ComposersPresses ==
  ASSUME ComposersAssumption, ComposersInv, NEW c \in ServerCalls, C!Press(c) PROVE ComposersInv'
<1>1. PICK op \in C!Ops : Offered(op) /\ C!Ask(c, op)
  <2>1. CASE C!GeneratePage(c) \/ C!GenerateBody(c) \/ C!GeneratePost(c) \/ C!GenerateLogos(c)
    BY <2>1 DEF C!GeneratePage, C!GenerateBody, C!GeneratePost, C!GenerateLogos, Offered, C!Ops
  <2>2. CASE C!SavePage(c) \/ C!SaveCampaign(c) \/ C!SubmitPost(c) \/ C!SaveKit(c) \/ C!QuickSend(c)
    BY <2>2 DEF C!SavePage, C!SaveCampaign, C!SubmitPost, C!SaveKit, C!QuickSend, Offered, C!Ops
  <2>3. CASE C!ImproveSubject(c) \/ C!GenerateTaglines(c) \/ C!BulkSend(c)
    BY <2>3 DEF C!ImproveSubject, C!GenerateTaglines, C!BulkSend, Offered, C!Ops
  <2> QED
    BY <2>1, <2>2, <2>3 DEF C!Press
<1> QED
  BY <1>1, ComposersAsk

(* A call is answered: the form, the marks and what she may have had sent   *)
(* twice stay.                                                              *)
LEMMA ServeStands ==
  ASSUME ComposersInv, NEW c \in ServerCalls, NEW q, Posted(c, q), composing[c].at = "asked",
         q.at \in {"served", "refused"}, q.op = composing[c].op, q.mount = composing[c].mount,
         UNCHANGED <<form, marked, again>>, FormStands', CountsStand',
         \A v \in C!Typed \ again : kind # "brand" /\ OnceOf(v) => OnceOf(v)'
  PROVE  ComposersInv'
<1>1. LettersStand' /\ composing'[c] = q /\ \A d \in ServerCalls : d # c => composing'[d] = composing[d]
  BY PostedStands
<1>2. \A d \in ServerCalls : Saving(d)' <=> Saving(d)
  BY <1>1 DEF Saving, C!Here, Posted
<1>3. OneSave'
  BY <1>2 DEF ComposersInv, OneSave, Posted
<1>4. Onces'
  BY DEF ComposersInv, Onces, Posted
<1> QED
  BY <1>1, <1>3, <1>4 DEF ComposersInv

(* What the model or the store wrote is asked of a call that saves nothing, *)
(* or changes what is saved.                                                *)
LEMMA ServeAside ==
  ASSUME ComposersInv, NEW c \in ServerCalls, NEW q, Posted(c, q), composing[c].at = "asked",
         q.at = "served", q.op = composing[c].op, q.mount = composing[c].mount, q.doc = composing[c].doc,
         UNCHANGED <<form, marked, again, submitted>>, FormStands',
         \/ q.op \in {"load", "generate", "suggest"} \/ q.doc = "row" \/ kind = "brand"
         \/ q.op = "contacts" /\ q.body = composing[c].body
  PROVE  ComposersInv'
<1>1. LettersStand' /\ composing'[c] = q /\ \A d \in ServerCalls : d # c => composing'[d] = composing[d]
  BY PostedStands
<1>2. CountsStand'
  BY DEF ComposersInv, CountsStand, Posted
<1>3. ASSUME kind # "brand", NEW v, OnceOf(v) PROVE OnceOf(v)'
  <2>1. \A d \in ServerCalls : Saving(d)' <=> Saving(d)
    BY <1>1 DEF Saving, C!Here, Posted
  <2>2. Carries(c, v)' <=> Carries(c, v)
    BY <1>1, <1>3 DEF Carries
  <2>3. Carries(c, v) /\ Unsent(c)' => Unsent(c)
    BY <1>1 DEF Unsent
  <2>4. \A d \in ServerCalls : d # c =>
          (Carries(d, v)' <=> Carries(d, v)) /\ (Unsent(d)' <=> Unsent(d))
    BY <1>1 DEF Carries, Unsent
  <2>5. SameFor(v)
    BY <2>1, <2>2, <2>3, <2>4 DEF SameFor, Posted
  <2> QED
    BY <1>3, <2>5, OnceSame
<1> QED
  BY <1>2, <1>3, ServeStands

LEMMA CallStands ==
  ASSUME ComposersInv, NEW c \in ServerCalls
  PROVE  composing[c] \in Letters /\ LetterStands(composing[c], pen, form.mount)
BY DEF ComposersInv, LettersStand

LEMMA ComposersText ==
  ASSUME ComposersInv, NEW c \in ServerCalls, C!ServeText(c) PROVE ComposersInv'
<1>1. composing[c].at = "asked" /\ composing[c].op \in {"generate", "suggest"}
      /\ UNCHANGED <<kind, form, marked, submitted, pen, again>>
  BY DEF C!ServeText
<1>m. PICK model \in C!Models : \E w \in C!Answers(composing[c].op, model) :
        /\ C!Served(c, [composing[c] EXCEPT !.body = <<w>>])
        /\ text' = IF kind = "brand" /\ composing[c].op = "generate"
                  THEN [text EXCEPT !.body = <<w>>] ELSE text
  BY DEF C!ServeText
<1>2. PICK w \in C!Answers(composing[c].op, model) :
        /\ C!Served(c, [composing[c] EXCEPT !.body = <<w>>])
        /\ text' = IF kind = "brand" /\ composing[c].op = "generate"
                  THEN [text EXCEPT !.body = <<w>>] ELSE text
  BY <1>m
<1>3. composing[c] \in Letters /\ LetterStands(composing[c], pen, form.mount)
  BY CallStands
<1>4. w = C!Made
  <2>1. Offered(composing[c].op)
    BY <1>1, <1>3 DEF LetterStands
  <2>2. C!Answers(composing[c].op, model) \subseteq {C!Made}
    BY <1>1, <2>1 DEF C!Answers, Offered, C!PageText, C!PostText, C!BodyText, C!LogoText, C!SubjectText,
         C!TaglineText, C!Parsed, C!Caught
  <2> QED
    BY <1>2, <2>2
<1>5. PICK q : q = [[composing[c] EXCEPT !.body = <<w>>] EXCEPT !.at = "served"]
  OBVIOUS
<1>6. /\ q \in Letters /\ q.at = "served" /\ q.op = composing[c].op /\ q.mount = composing[c].mount
      /\ q.doc = composing[c].doc /\ q.body = <<C!Made>>
  BY <1>3, <1>4, <1>5, Blankness DEF Letters
<1>7. LetterStands(q, pen, form.mount)
  <2>1. \A i \in DOMAIN q.body : q.body[i] = C!Made
    BY <1>6, Blankness DEF C!Made
  <2> QED
    BY <1>1, <1>3, <1>6, <2>1, NoneLate DEF LetterStands
<1>8. Posted(c, q)
  BY <1>1, <1>2, <1>5, <1>6, <1>7 DEF Posted, C!Served
<1>9. FormStands'
  <2>1. text' = text \/ text' = [text EXCEPT !.body = <<C!Made>>]
    BY <1>2, <1>4
  <2>2. text' \in [head : Seq(Int), body : Seq(Int)] /\ text'.body \in {text.body, <<C!Made>>}
    BY <2>1, Blankness DEF ComposersInv, FormStands
  <2>3. Written(text'.body, pen)
    BY <2>2, NoneLate DEF ComposersInv, FormStands
  <2> QED
    BY <1>1, <2>2, <2>3 DEF ComposersInv, FormStands
<1> QED
  BY <1>1, <1>6, <1>8, <1>9, ServeAside

LEMMA ComposersRead ==
  ASSUME ComposersInv, NEW c \in ServerCalls, C!ServeRead(c) PROVE ComposersInv'
<1>1. composing[c].at = "asked" /\ composing[c].op \in {"load", "contacts"}
      /\ UNCHANGED <<kind, form, marked, text, submitted, pen, again>>
      /\ C!Served(c, IF composing[c].op = "load"
                   THEN [composing[c] EXCEPT !.head = text.head, !.body = text.body] ELSE composing[c])
  BY DEF C!ServeRead
<1>2. composing[c] \in Letters /\ LetterStands(composing[c], pen, form.mount)
  BY CallStands
<1>3. FormStands /\ FormStands'
  BY <1>1 DEF ComposersInv, FormStands
<1>4. PICK p, q : /\ p = IF composing[c].op = "load"
                         THEN [composing[c] EXCEPT !.head = text.head, !.body = text.body] ELSE composing[c]
                  /\ q = [p EXCEPT !.at = "served"]
  OBVIOUS
<1>5. /\ p \in Letters /\ p.op = composing[c].op /\ p.mount = composing[c].mount /\ p.doc = composing[c].doc
      /\ p.at = "asked"
      /\ p.body = IF composing[c].op = "load" THEN text.body ELSE composing[c].body
  BY <1>1, <1>2, <1>3, <1>4 DEF Letters, FormStands
<1>6. /\ q \in Letters /\ q.at = "served" /\ q.op = composing[c].op /\ q.mount = composing[c].mount
      /\ q.doc = composing[c].doc /\ q.body = p.body
  BY <1>4, <1>5 DEF Letters
<1>7. LetterStands(q, pen, form.mount)
  <2>1. Written(q.body, pen)
    BY <1>2, <1>3, <1>5, <1>6 DEF LetterStands, FormStands
  <2> QED
    BY <1>1, <1>2, <1>6, <2>1 DEF LetterStands
<1>8. Posted(c, q)
  BY <1>1, <1>4, <1>6, <1>7 DEF Posted, C!Served
<1>9. q.op = "contacts" => q.body = composing[c].body
  BY <1>5, <1>6
<1> QED
  BY <1>1, <1>3, <1>6, <1>8, <1>9, ServeAside

LEMMA ComposersChange ==
  ASSUME ComposersInv, NEW c \in ServerCalls, C!Change(c), kind = "brand" \/ composing[c].doc = "row"
  PROVE  ComposersInv'
<1>1. /\ composing[c].at = "asked" /\ C!Served(c, composing[c])
      /\ text' = [head |-> composing[c].head, body |-> composing[c].body]
      /\ UNCHANGED <<kind, form, marked, submitted, pen, again>>
  BY DEF C!Change
<1>2. composing[c] \in Letters /\ LetterStands(composing[c], pen, form.mount)
  BY CallStands
<1>3. FormStands'
  BY <1>1, <1>2 DEF ComposersInv, FormStands, Letters, LetterStands
<1>4. PICK q : q = [composing[c] EXCEPT !.at = "served"]
  OBVIOUS
<1>5. /\ q \in Letters /\ q.at = "served" /\ q.op = composing[c].op /\ q.mount = composing[c].mount
      /\ q.doc = composing[c].doc /\ q.body = composing[c].body
  BY <1>2, <1>4 DEF Letters
<1>6. Posted(c, q)
  BY <1>1, <1>2, <1>4, <1>5 DEF Posted, C!Served, LetterStands
<1> QED
  BY <1>1, <1>3, <1>5, <1>6, ServeAside

LEMMA ComposersCreate ==
  ASSUME ComposersAssumption, ComposersInv, NEW c \in ServerCalls, C!Create(c), kind # "brand"
  PROVE  ComposersInv'
<1>1. /\ composing[c].at = "asked" /\ composing[c].op = "save" /\ composing[c].doc = "new"
      /\ C!Served(c, composing[c])
      /\ submitted' = [v \in C!Typed |-> IF v \in C!Range(composing[c].body) THEN submitted[v] + 1 ELSE submitted[v]]
      /\ UNCHANGED <<kind, form, marked, text, pen, again>>
  BY DEF C!Create
<1>2. composing[c] \in Letters /\ LetterStands(composing[c], pen, form.mount)
  BY CallStands
<1>3. PICK q : q = [composing[c] EXCEPT !.at = "served"]
  OBVIOUS
<1>4. /\ q \in Letters /\ q.at = "served" /\ q.op = composing[c].op /\ q.mount = composing[c].mount
      /\ q.doc = composing[c].doc /\ q.body = composing[c].body
  BY <1>2, <1>3 DEF Letters
<1>5. Posted(c, q)
  BY <1>1, <1>2, <1>3, <1>4 DEF Posted, C!Served, LetterStands
<1>6. FormStands'
  BY <1>1 DEF ComposersInv, FormStands
<1>7. \A v \in C!Typed : submitted[v] \in Nat
  BY DEF ComposersInv, CountsStand
<1>8. CountsStand'
  <2>1. submitted' \in [C!Typed -> Nat]
    BY <1>1, <1>7
  <2>2. ASSUME NEW v \in C!Typed, v > pen PROVE submitted'[v] = 0
    <3>1. v \notin C!Range(composing[c].body)
      <4>1. \A i \in DOMAIN composing[c].body : composing[c].body[i] <= pen /\ composing[c].body[i] \in Int
        BY <1>2 DEF LetterStands, Written, Letters
      <4>2. pen \in Nat /\ v \in Nat
        BY DEF ComposersInv, FormStands, ComposersAssumption, C!Typed
      <4> QED
        BY <4>1, <4>2, <2>2, InBody
    <3> QED
      BY <1>1, <2>2, <3>1 DEF ComposersInv, CountsStand
  <2> QED
    BY <1>1, <2>1, <2>2 DEF CountsStand
<1>9. LettersStand' /\ composing'[c] = q /\ \A d \in ServerCalls : d # c => composing'[d] = composing[d]
  BY <1>5, PostedStands
<1>10. ASSUME NEW v \in C!Typed \ again, OnceOf(v) PROVE OnceOf(v)'
  <2>1. \A d \in ServerCalls : /\ Carries(d, v)' <=> Carries(d, v)
                               /\ Saving(d)' <=> Saving(d)
    BY <1>1, <1>4, <1>9 DEF Carries, Saving, C!Here
  <2>2. \A d \in ServerCalls : Unsent(d)' => Unsent(d) /\ d # c
    BY <1>1, <1>4, <1>9 DEF Unsent
  <2>3. CASE v \notin C!Range(composing[c].body)
    <3>1. submitted'[v] = submitted[v]
      BY <1>1, <2>3
    <3>2. OnScreen(v) => OnScreen(v)'
      BY <1>1, <2>1, <3>1 DEF OnScreen
    <3> QED
      BY <1>1, <1>10, <2>1, <2>2, <3>1, <3>2 DEF OnceOf
  <2>4. CASE v \in C!Range(composing[c].body)
    <3>1. Carries(c, v) /\ Unsent(c)
      BY <1>1, <2>4 DEF Carries, Unsent
    <3>2. submitted[v] = 0 /\ \A d \in ServerCalls : Carries(d, v) => d = c
      BY <1>10, <3>1 DEF OnceOf
    <3>3. submitted'[v] = 1
      BY <1>1, <2>4, <3>2
    <3>4. OnScreen(v) => OnScreen(v)'
      BY <1>1, <2>1, <3>1 DEF OnScreen
    <3>5. v \in C!Range(form'.body) /\ form'.doc = "new" => OnScreen(v)'
      BY <1>1, <1>10, <3>4 DEF OnceOf
    <3> QED
      BY <2>1, <2>2, <3>2, <3>3, <3>5 DEF OnceOf
  <2> QED
    BY <2>3, <2>4
<1> QED
  BY <1>1, <1>4, <1>5, <1>6, <1>8, <1>10, ServeStands

LEMMA ComposersRefuses ==
  ASSUME ComposersInv, NEW c \in ServerCalls, C!Refuse(c) PROVE ComposersInv'
<1>1. /\ composing[c].at = "asked"
      /\ composing' = [composing EXCEPT ![c].at = "refused", ![c].head = C!Blank, ![c].body = C!Blank]
      /\ UNCHANGED <<kind, form, marked, text, submitted, pen, again>>
  BY DEF C!Refuse
<1>2. composing[c] \in Letters /\ LetterStands(composing[c], pen, form.mount)
  BY CallStands
<1>3. PICK q : q = [composing[c] EXCEPT !.at = "refused", !.head = C!Blank, !.body = C!Blank]
  OBVIOUS
<1>4. /\ q \in Letters /\ q.at = "refused" /\ q.op = composing[c].op /\ q.mount = composing[c].mount
      /\ q.body = C!Blank
  BY <1>2, <1>3, Blankness DEF Letters
<1>5. composing' = [composing EXCEPT ![c] = q]
  BY <1>1, <1>3
<1>6. LetterStands(q, pen, form.mount)
  BY <1>1, <1>2, <1>4, Blankness, NoneLate DEF LetterStands
<1>7. Posted(c, q)
  BY <1>1, <1>4, <1>5, <1>6 DEF Posted
<1>8. LettersStand' /\ composing'[c] = q /\ \A d \in ServerCalls : d # c => composing'[d] = composing[d]
  BY <1>7, PostedStands
<1>9. ASSUME NEW v \in C!Typed \ again, OnceOf(v) PROVE OnceOf(v)'
  <2>1. ~Carries(c, v)'
    BY <1>4, <1>8, NoneTyped DEF Carries
  <2>2. Carries(c, v) => submitted[v] = 0
    BY <1>1, <1>9 DEF OnceOf, Unsent
  <2>3. \A d \in ServerCalls : d # c =>
          /\ Carries(d, v)' <=> Carries(d, v)
          /\ Unsent(d)' <=> Unsent(d)
          /\ Saving(d) => Saving(d)'
    BY <1>1, <1>8 DEF Carries, Unsent, Saving, C!Here
  <2>4. DroppedFor(c, v)
    BY <1>1, <2>1, <2>2, <2>3 DEF DroppedFor
  <2> QED
    BY <1>9, <2>4, OnceDropped
<1>10. FormStands' /\ CountsStand'
  BY <1>1 DEF ComposersInv, FormStands, CountsStand
<1> QED
  BY <1>1, <1>4, <1>7, <1>9, <1>10, ServeStands

LEMMA ComposersServes ==
  ASSUME ComposersAssumption, ComposersInv, NEW c \in ServerCalls, C!Serve(c) PROVE ComposersInv'
<1>1. CASE C!CreatePage(c) \/ C!CreateCampaign(c) \/ C!PublishPost(c) \/ C!SendSms(c)
  BY <1>1, ComposersCreate DEF C!CreatePage, C!CreateCampaign, C!PublishPost, C!SendSms
<1>2. CASE C!ChangePage(c) \/ C!ChangeCampaign(c) \/ C!ChangeKit(c)
  BY <1>2, ComposersChange DEF C!ChangePage, C!ChangeCampaign, C!ChangeKit
<1> QED
  BY <1>1, <1>2, ComposersText, ComposersRead, ComposersRefuses DEF C!Serve

LEMMA IdleIs ==
  ASSUME ComposersInv PROVE C!Idle \in Letters /\ LetterStands(C!Idle, pen, form.mount)
<1>1. C!Idle \in Letters
  BY Blankness DEF C!Idle, Letters, C!Ops
<1>2. form.mount \in Nat
  BY DEF ComposersInv, FormStands, Papers
<1> QED
  BY <1>1, <1>2, Blankness, NoneLate DEF C!Idle, LetterStands

(* The page has heard of a call: it is idle, and the form is its own or has *)
(* lost what v it had.                                                      *)
Heard(c) ==
  /\ composing[c].at \in {"served", "refused"} /\ C!Done(c, composing[c])
  /\ UNCHANGED <<kind, text, submitted, pen>> /\ again \subseteq again'
  /\ form' \in Papers /\ Written(form'.body, pen) /\ form'.mount = form.mount
  /\ kind = "page" /\ form'.open => form.open

LeftFor(c, v) ==
  v \in C!Range(form'.body) /\ form'.doc = "new" =>
    /\ v \in C!Range(form.body) /\ form.doc = "new" /\ form'.open = form.open
    /\ Carries(c, v) => submitted[v] = 0

LEMMA ComposersHears ==
  ASSUME ComposersInv, NEW c \in ServerCalls, Heard(c),
         \A v \in C!Typed \ again' : kind # "brand" => LeftFor(c, v)
  PROVE  ComposersInv'
<1>1. Posted(c, C!Idle)
  BY IdleIs DEF Heard, C!Done, Posted
<1>2. LettersStand' /\ composing'[c] = C!Idle /\ \A d \in ServerCalls : d # c => composing'[d] = composing[d]
  BY <1>1, PostedStands
<1>3. FormStands' /\ CountsStand'
  BY DEF Heard, ComposersInv, FormStands, CountsStand
<1>4. \A d \in ServerCalls : Saving(d)' => Saving(d) /\ d # c
  BY <1>2 DEF Heard, Saving, C!Here, C!Idle
<1>5. OneSave'
  <2> SUFFICES ASSUME kind \notin {"brand", "bulk"}, NEW d \in ServerCalls, Saving(d)'
               PROVE  "save" \in marked' /\ \A e \in ServerCalls : Saving(e)' => e = d
    BY DEF OneSave, Heard
  <2>1. Saving(d) /\ d # c
    BY <1>4
  <2>2. "save" \in marked /\ \A e \in ServerCalls : Saving(e) => e = d
    BY <2>1 DEF ComposersInv, OneSave
  <2>3. C!Here(composing[c]) => composing[c].op # "save"
    BY <2>1, <2>2 DEF Heard, Saving
  <2> QED
    BY <1>4, <2>2, <2>3 DEF Heard, C!Done
<1>6. ASSUME kind # "brand", NEW v \in C!Typed \ again' PROVE OnceOf(v)'
  <2>1. OnceOf(v) /\ LeftFor(c, v)
    BY <1>6 DEF Heard, ComposersInv, Onces
  <2>2. ~Carries(c, v)'
    BY <1>2 DEF Carries, C!Idle
  <2>3. \A d \in ServerCalls : d # c =>
          (Carries(d, v)' <=> Carries(d, v)) /\ (Unsent(d)' <=> Unsent(d))
    BY <1>2 DEF Carries, Unsent
  <2>4. form'.open = form.open => \A d \in ServerCalls : d # c /\ Saving(d) => Saving(d)'
    BY <1>2 DEF Heard, Saving, C!Here
  <2>5. DroppedFor(c, v)
    BY <2>1, <2>2, <2>3, <2>4 DEF DroppedFor, Heard, LeftFor
  <2> QED
    BY <2>1, <2>5, OnceDropped
<1>7. Onces'
  BY <1>6 DEF Onces, Heard
<1> QED
  BY <1>2, <1>3, <1>5, <1>7 DEF ComposersInv

LEMMA HearsText ==
  ASSUME ComposersInv, NEW c \in ServerCalls, C!TakeText(c) PROVE ComposersInv'
<1>1. /\ composing[c].at = "served" /\ composing[c].op \in {"generate", "suggest"}
      /\ form' = IF composing[c].op = "generate" /\ C!Here(composing[c])
                 THEN C!GeneratedInto(composing[c]) ELSE form
      /\ C!Done(c, composing[c]) /\ UNCHANGED <<kind, text, submitted, pen, again>>
  BY DEF C!TakeText
<1>2. composing[c] \in Letters /\ LetterStands(composing[c], pen, form.mount)
  BY CallStands
<1>3. form \in Papers /\ Written(form.body, pen)
  BY DEF ComposersInv, FormStands
<1>4. CASE form' = form
  <2>1. Heard(c)
    BY <1>1, <1>3, <1>4 DEF Heard
  <2>2. \A v : LeftFor(c, v)
    BY <1>1, <1>4 DEF LeftFor, Carries
  <2> QED
    BY <2>1, <2>2, ComposersHears
<1>5. CASE form' = C!GeneratedInto(composing[c]) /\ composing[c].op = "generate"
  <2>1. PICK head : head = IF kind = "page" /\ composing[c].head = C!Blank THEN <<C!Made>> ELSE form.head
    OBVIOUS
  <2>2. form' = [form EXCEPT !.body = composing[c].body, !.head = head]
    BY <1>5, <2>1 DEF C!GeneratedInto
  <2>3. head \in Seq(Int) /\ composing[c].body \in Seq(Int)
    BY <1>2, <1>3, <2>1, Blankness DEF Papers, Letters
  <2>4. /\ form' \in Papers /\ form'.body = composing[c].body /\ form'.mount = form.mount
        /\ form'.open = form.open
    BY <1>3, <2>2, <2>3 DEF Papers
  <2>5. Heard(c)
    BY <1>1, <1>2, <2>4 DEF Heard, LetterStands
  <2>6. \A v \in C!Typed : v \notin C!Range(form'.body)
    <3>1. \A i \in DOMAIN composing[c].body : composing[c].body[i] = C!Made
      BY <1>2, <1>5 DEF LetterStands
    <3>2. \A v \in C!Typed : v # C!Made
      BY DEF C!Typed, C!Made
    <3> QED
      BY <2>4, <3>1, <3>2, InBody
  <2> QED
    BY <2>5, <2>6, ComposersHears DEF LeftFor
<1> QED
  BY <1>1, <1>4, <1>5

LEMMA HearsSave ==
  ASSUME ComposersInv, NEW c \in ServerCalls, C!TakeSave(c) PROVE ComposersInv'
<1>1. /\ composing[c].at = "served" /\ form' = IF kind = "brand" THEN form ELSE C!Emptied
      /\ C!Done(c, composing[c]) /\ UNCHANGED <<kind, text, submitted, pen, again>>
  BY DEF C!TakeSave
<1>2. form \in Papers /\ Written(form.body, pen)
  BY DEF ComposersInv, FormStands
<1>3. CASE kind = "brand"
  BY <1>1, <1>2, <1>3, ComposersHears DEF Heard
<1>4. CASE kind # "brand"
  <2>1. form' \in Papers /\ form'.body = C!Blank /\ form'.mount = form.mount
        /\ (kind = "page" => ~form'.open)
    BY <1>1, <1>4, EmptiedIs DEF C!Modal
  <2>2. Heard(c)
    BY <1>1, <2>1, NoneLate DEF Heard
  <2> QED
    BY <2>1, <2>2, NoneTyped, ComposersHears DEF LeftFor
<1> QED
  BY <1>3, <1>4

LEMMA HearsLoad ==
  ASSUME ComposersInv, NEW c \in ServerCalls, C!TakeLoad(c) PROVE ComposersInv'
<1>1. /\ composing[c].at = "served" /\ composing[c].op = "load"
      /\ form' = [form EXCEPT !.head = IF composing[c].head # C!Blank THEN composing[c].head ELSE @,
                              !.body = IF composing[c].body # C!Blank THEN composing[c].body ELSE @]
      /\ C!Done(c, composing[c]) /\ UNCHANGED <<kind, text, submitted, pen, again>>
  BY DEF C!TakeLoad
<1>2. composing[c] \in Letters /\ LetterStands(composing[c], pen, form.mount)
  BY CallStands
<1>3. form \in Papers /\ Written(form.body, pen)
  BY DEF ComposersInv, FormStands
<1>4. PICK head, body : /\ head = IF composing[c].head # C!Blank THEN composing[c].head ELSE form.head
                        /\ body = IF composing[c].body # C!Blank THEN composing[c].body ELSE form.body
  OBVIOUS
<1>5. form' = [form EXCEPT !.head = head, !.body = body]
  BY <1>1, <1>4
<1>6. head \in Seq(Int) /\ body \in Seq(Int) /\ Written(body, pen)
  BY <1>2, <1>3, <1>4 DEF Papers, Letters, LetterStands
<1>7. /\ form' \in Papers /\ form'.body = body /\ form'.mount = form.mount
      /\ form'.open = form.open
  BY <1>3, <1>5, <1>6 DEF Papers
<1>8. Heard(c)
  BY <1>1, <1>6, <1>7 DEF Heard
<1>9. kind = "brand"
  BY <1>1, <1>2 DEF LetterStands, Offered
<1> QED
  BY <1>8, <1>9, ComposersHears

LEMMA HearsContacts ==
  ASSUME ComposersInv, NEW c \in ServerCalls, C!TakeContacts(c) PROVE ComposersInv'
<1>1. /\ composing[c].at = "served" /\ composing[c].op = "contacts"
      /\ composing' = [composing EXCEPT ![c].at = "asked", ![c].op = "save"]
      /\ UNCHANGED <<kind, form, text, submitted, pen, again>>
  BY DEF C!TakeContacts
<1>2. composing[c] \in Letters /\ LetterStands(composing[c], pen, form.mount)
  BY CallStands
<1>3. PICK q : q = [composing[c] EXCEPT !.at = "asked", !.op = "save"]
  OBVIOUS
<1>4. /\ q \in Letters /\ q.at = "asked" /\ q.op = "save" /\ q.mount = composing[c].mount
      /\ q.doc = composing[c].doc /\ q.body = composing[c].body
  BY <1>2, <1>3 DEF Letters, C!Ops
<1>5. composing' = [composing EXCEPT ![c] = q]
  BY <1>1, <1>3
<1>6. LetterStands(q, pen, form.mount)
  BY <1>2, <1>4 DEF LetterStands, Offered
<1>7. Posted(c, q)
  BY <1>1, <1>4, <1>5, <1>6 DEF Posted
<1>8. LettersStand' /\ composing'[c] = q /\ \A d \in ServerCalls : d # c => composing'[d] = composing[d]
  BY <1>7, PostedStands
<1>9. kind = "bulk"
  BY <1>1, <1>2 DEF LetterStands, Offered
<1>10. OneSave'
  BY <1>1, <1>9 DEF OneSave
<1>11. ASSUME NEW v, OnceOf(v) PROVE OnceOf(v)'
  <2>1. Carries(c, v)' <=> Carries(c, v)
    BY <1>1, <1>4, <1>8 DEF Carries
  <2>2. Unsent(c) /\ ~Saving(c)
    BY <1>1 DEF Unsent, Saving
  <2>3. \A d \in ServerCalls : d # c =>
          /\ Carries(d, v)' <=> Carries(d, v)
          /\ Unsent(d)' <=> Unsent(d)
          /\ Saving(d) => Saving(d)'
    BY <1>1, <1>8 DEF Carries, Unsent, Saving, C!Here
  <2>4. SameFor(v)
    BY <1>1, <2>1, <2>2, <2>3 DEF SameFor
  <2> QED
    BY <1>11, <2>4, OnceSame
<1>12. Onces'
  BY <1>1, <1>11 DEF ComposersInv, Onces
<1>13. FormStands' /\ CountsStand'
  BY <1>1 DEF ComposersInv, FormStands, CountsStand
<1> QED
  BY <1>8, <1>10, <1>12, <1>13 DEF ComposersInv

LEMMA HearsFailure ==
  ASSUME ComposersInv, NEW c \in ServerCalls, C!TakeFailure(c) PROVE ComposersInv'
<1>1. /\ composing[c].at \in {"served", "refused"} /\ C!Done(c, composing[c])
      /\ again' = again \cup (IF composing[c].op = "save" /\ composing[c].at = "served"
                              THEN C!Typed \cap C!Range(composing[c].body) ELSE {})
      /\ UNCHANGED <<kind, form, text, submitted, pen>>
  BY DEF C!TakeFailure
<1>2. LetterStands(composing[c], pen, form.mount)
  BY CallStands
<1>3. Heard(c)
  BY <1>1 DEF Heard, ComposersInv, FormStands
<1>4. ASSUME kind # "brand", NEW v \in C!Typed \ again' PROVE LeftFor(c, v)
  <2>1. OnceOf(v)
    BY <1>1, <1>4 DEF ComposersInv, Onces
  <2>2. ASSUME Carries(c, v) PROVE submitted[v] = 0
    <3>1. composing[c].at # "refused"
      BY <1>2, <2>2, NoneTyped DEF LetterStands, Carries
    <3>2. composing[c].op = "contacts"
      BY <1>1, <1>4, <2>2, <3>1 DEF Carries
    <3> QED
      BY <2>1, <2>2, <3>2 DEF OnceOf, Unsent
  <2> QED
    BY <1>1, <2>2 DEF LeftFor
<1> QED
  BY <1>3, <1>4, ComposersHears

LEMMA ComposersKept ==
  ASSUME ComposersAssumption, ComposersInv, [C!Next]_C!vars PROVE ComposersInv'
<1>1. ASSUME NEW c \in ServerCalls, C!Take(c) PROVE ComposersInv'
  BY <1>1, HearsText, HearsSave, HearsLoad, HearsContacts, HearsFailure DEF C!Take
<1>2. CASE UNCHANGED C!vars
  BY <1>2 DEF C!vars, ComposersInv, FormStands, LettersStand, LetterStands, Offered, CountsStand,
       OneSave, Onces, OnceOf, OnScreen, Carries, Unsent, Saving, C!Here
<1> QED
  BY <1>1, <1>2, ComposersOpens, ComposersCancels, ComposersWrites, ComposersPresses,
     ComposersServes DEF C!Next

-----------------------------------------------------------------------------
LEMMA SideAssumptions ==
  /\ OrdersAssumption /\ OutreachAssumption /\ ReviewsAssumption /\ StudioAssumption
  /\ DomainsAssumption /\ SearchAssumption /\ ComposersAssumption
BY StorefrontAssumption
   DEF OrdersAssumption, OutreachAssumption, ReviewsAssumption, StudioAssumption,
       DomainsAssumption, SearchAssumption, ComposersAssumption

(* Each component's invariant; those that are not at work stand still in it. *)
SideInv ==
  /\ OrdersInv /\ OutreachInv /\ ReviewsInv /\ StudioInv /\ DomainsInv /\ ListingInv
  /\ DraftInv /\ SearchInv /\ ComposersInv

LEMMA SideStart == StorefrontInit => SideInv
BY SideAssumptions, OrdersStart, OutreachStart, ReviewsStart, StudioStarts, DomainsStart,
   ListingStarts, DraftStart, SearchStart, ComposersStart
   DEF StorefrontInit, SideInv

(* A step of the whole is a step of the component, or leaves its state.     *)
LEMMA EachSteps ==
  ASSUME [StorefrontNext]_all
  PROVE  /\ [O!Next]_(O!vars) /\ [U!Next]_(U!vars) /\ [V!Next]_(V!vars)
         /\ [D!Next]_(D!vars) /\ [N!Next]_(N!vars) /\ [G!Next]_(G!vars)
         /\ [P!Next]_(P!vars) /\ [E!Next]_(E!vars) /\ [C!Next]_(C!vars)
<1>1. UNCHANGED orderVars => UNCHANGED (O!vars)
  BY DEF orderVars, O!vars
<1>2. UNCHANGED outreachVars => UNCHANGED (U!vars)
  BY DEF outreachVars, U!vars
<1>3. UNCHANGED reviewVars => UNCHANGED (V!vars)
  BY DEF reviewVars, V!vars
<1>4. UNCHANGED studioVars => UNCHANGED (D!vars)
  BY DEF studioVars, D!vars
<1>5. UNCHANGED domainVars => UNCHANGED (N!vars)
  BY DEF domainVars, N!vars
<1>6. UNCHANGED listingVars => UNCHANGED (G!vars)
  BY DEF listingVars, G!vars
<1>7. UNCHANGED consoleVars => UNCHANGED (P!vars)
  BY DEF consoleVars, P!vars
<1>8. UNCHANGED searchVars => UNCHANGED (E!vars)
  BY DEF searchVars, E!vars
<1>9. UNCHANGED formVars => UNCHANGED (C!vars)
  BY DEF formVars, C!vars
<1>10. UNCHANGED all =>
         UNCHANGED <<orderVars, outreachVars, reviewVars, studioVars, domainVars, listingVars,
                     consoleVars, searchVars, formVars>>
  BY DEF all
<1>11. /\ O!Next \/ UNCHANGED orderVars
       /\ U!Next \/ UNCHANGED outreachVars
       /\ V!Next \/ UNCHANGED reviewVars
       /\ D!Next \/ UNCHANGED studioVars
       /\ N!Next \/ UNCHANGED domainVars
       /\ G!Next \/ UNCHANGED listingVars
       /\ P!Next \/ UNCHANGED consoleVars
       /\ E!Next \/ UNCHANGED searchVars
       /\ C!Next \/ UNCHANGED formVars
  BY <1>10 DEF StorefrontNext, Others
<1> QED
  BY <1>1, <1>2, <1>3, <1>4, <1>5, <1>6, <1>7, <1>8, <1>9, <1>11

LEMMA SideKept == SideInv /\ [StorefrontNext]_all => SideInv'
<1> SUFFICES ASSUME SideInv, [StorefrontNext]_all PROVE SideInv'
  OBVIOUS
<1>1. OrdersInv' /\ OutreachInv' /\ ReviewsInv'
  BY EachSteps, SideAssumptions, OrdersKept, OutreachKept, ReviewsKept DEF SideInv
<1>2. StudioInv' /\ DomainsInv' /\ ListingInv'
  BY EachSteps, SideAssumptions, StudioKept, DomainsKept, ListingKept DEF SideInv
<1>3. DraftInv' /\ SearchInv' /\ ComposersInv'
  BY EachSteps, SideAssumptions, DraftKept, SearchKept, ComposersKept DEF SideInv
<1> QED
  BY <1>1, <1>2, <1>3 DEF SideInv

LEMMA SideStands == StorefrontSpec => []SideInv
<1> QED
  BY SideStart, SideKept, PTL DEF StorefrontSpec

(* Orders: whatever the tabs of the shop and the link's page do at once, a  *)
(* customer is charged again for an order only where the code slipped.      *)
THEOREM ChargesBySlip == StorefrontSpec => []ChargedAgainBySlip
<1>1. SideInv => ChargedAgainBySlip
  BY DEF SideInv, OrdersInv, ChargedAgainBySlip
<1> QED
  BY <1>1, SideStands, PTL

(* StudioDraft: the page and the database agree once its calls are answered *)
(* and none failed.                                                         *)
THEOREM PageGetsSaved == StorefrontSpec => []PageIsSaved
<1>1. SideInv => PageIsSaved
  BY DEF SideInv, StudioInv, PageIsSaved
<1> QED
  BY <1>1, SideStands, PTL

(* Domains and LocalListing: the record says what the registrar did and     *)
(* what was charged for, the listing what its verification came to.         *)
THEOREM RecordsAgree == StorefrontSpec => []RecordAndChargeAgree
<1>1. SideInv => RecordAndChargeAgree
  BY DEF SideInv, DomainsInv, ListingInv, RowsStand, RecordAndChargeAgree
<1> QED
  BY <1>1, SideStands, PTL

(* Outreach, Reviews, SeoAgent and Onboarding: what the owner said last of  *)
(* a contact, a review, a page and herself is not written over by what was  *)
(* decided without it.                                                      *)
THEOREM OwnersWordStands == StorefrontSpec => []OwnerHasTheLastWord
<1>1. OutreachInv => U!OwnersStageKept
  BY DEF OutreachInv, StageIsHers, U!OwnersStageKept
<1>2. ReviewsInv => V!OwnersReplyKept
  BY ReviewsPromise
<1>3. SearchInv => E!OwnersDescKept
  BY DEF SearchInv, E!OwnersDescKept
<1>4. DraftInv => P!OwnersProfileKept
  BY DEF DraftInv, OwnWords
<1>5. SideInv => OwnerHasTheLastWord
  BY <1>1, <1>2, <1>3, <1>4 DEF SideInv, OwnerHasTheLastWord
<1> QED
  BY <1>5, SideStands, PTL

(* Outreach, Reviews and Composers: a message, a note or what the owner     *)
(* sends is repeated only where the code slipped.                           *)
THEOREM RepeatsBySlip == StorefrontSpec => []RepeatedBySlip
<1>1. OutreachInv => U!RepeatedBySlip
  BY DEF OutreachInv, OutreachSent
<1>2. ReviewsInv => V!FlaggedOnce
  BY ReviewsPromise
<1>3. ComposersInv => C!SubmittedOnce
  BY ComposersPromise
<1>4. SideInv => RepeatedBySlip
  BY <1>1, <1>2, <1>3 DEF SideInv, RepeatedBySlip
<1> QED
  BY <1>4, SideStands, PTL
=============================================================================
