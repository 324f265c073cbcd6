----------------------------- MODULE StatusPolls -----------------------------
(* The steps of the dashboard that show the owner how her hosting and her    *)
(* deploy are doing (components/dashboard/HostingStep.tsx, DeployStep.tsx):  *)
(* they read the status when they are mounted and, by a timer, while it is   *)
(* one that passes.  The server actions of a page run one after the other.   *)
EXTENDS Naturals, Sequences

CONSTANTS
  MaxSites,    \* bound: sites published, the first of them 1
  MaxPresses   \* bound: calls the owner makes

Sites == 1..MaxSites
Steps == {"hosting", "deploy"}

(* A status that passes (queued, building, provisioning, scaling), one that *)
(* stays (live, running, failed), a hosting that is suspended, none or one  *)
(* that is torn down.                                                       *)
Statuses == {"none", "passing", "settled", "suspended"}

VARIABLES
  step,       \* which of the two it is
  row,        \* site -> its deployment: status, kill switch
  slug,       \* the site the step is about; 0 is none
  shown,      \* the status and the switch it shows
  timer,      \* it will read again
  busy,       \* provision() or toggleKill() is under way
  requests,   \* its server actions, the first of them running
  presses,    \* bound's counter
  behind      \* history: the last answer repeated what was shown, was lost or
              \* another site's, or the row has changed since with none due

vars == <<step, row, slug, shown, timer, busy, requests, presses, behind>>

View == [status : Statuses, kill : BOOLEAN]
Request == [verb : {"read", "provision", "kill"}, site : Sites, on : BOOLEAN,
            at : {"asked", "ok", "no"}, view : View]
Unknown == [status |-> "none", kill |-> FALSE]
Ask(verb, s, on) ==
  [verb |-> verb, site |-> s, on |-> on, at |-> "asked", view |-> Unknown]

TypeOK ==
  /\ step \in Steps
  /\ row \in [Sites -> View]
  /\ slug \in {0} \cup Sites
  /\ shown \in View
  /\ timer \in BOOLEAN /\ busy \in BOOLEAN
  /\ \A i \in DOMAIN requests : requests[i] \in Request
  /\ presses \in 0..MaxPresses
  /\ behind \in BOOLEAN

(* Mounted before or after the site was published.                          *)
Init ==
  /\ step \in Steps
  /\ \E status \in {"none", "passing", "settled"} :
       row = [s \in Sites |-> [Unknown EXCEPT !.status = IF s = 1 THEN status ELSE "none"]]
  /\ \/ slug = 0 /\ requests = <<>>
     \/ slug = 1 /\ requests = <<Ask("read", 1, FALSE)>>
  /\ shown = Unknown
  /\ timer = FALSE /\ busy = FALSE
  /\ presses = 0 /\ behind = FALSE

-----------------------------------------------------------------------------
(* The row, and what the server does.                                       *)

(* What a row changes to is seen if a read is still due.                    *)
Due == timer \/ \E i \in DOMAIN requests : requests[i].verb = "read" /\ requests[i].at = "asked"
Moved(s) == behind \/ (s = slug /\ ~Due)

(* The job, the deploy or its webhook comes to an end.                      *)
Advance(s) ==
  /\ row[s].status = "passing"
  /\ row' = [row EXCEPT ![s].status = "settled"]
  /\ behind' = Moved(s)
  /\ UNCHANGED <<step, slug, shown, timer, busy, requests, presses>>

(* The hourly meter finds no credits.                                       *)
Suspend(s) ==
  /\ step = "hosting" /\ row[s].status = "settled"
  /\ row' = [row EXCEPT ![s].status = "suspended"]
  /\ behind' = Moved(s)
  /\ UNCHANGED <<step, slug, shown, timer, busy, requests, presses>>

First(verb) == requests # <<>> /\ Head(requests).verb = verb
Reply(q) == requests' = <<q>> \o Tail(requests)

(* hostingStatusAction drives the queue before it reads, deployStatusAction *)
(* the operation.                                                           *)
ServeRead ==
  LET q == Head(requests)
  IN /\ First("read") /\ q.at = "asked"
     /\ \E now \in {row[q.site].status}
                    \cup (IF row[q.site].status = "passing" THEN {"settled"} ELSE {}) :
          /\ row' = [row EXCEPT ![q.site].status = now]
          /\ Reply([q EXCEPT !.at = "ok", !.view = [row[q.site] EXCEPT !.status = now]])
     /\ UNCHANGED <<step, slug, shown, timer, busy, presses, behind>>

(* An accepted request is queued; that the queue would not take it is       *)
(* swallowed.                                                               *)
ServeProvision ==
  LET q == Head(requests)
  IN /\ First("provision") /\ q.at = "asked"
     /\ Reply([q EXCEPT !.at = "ok"])
     /\ row' \in {row, [row EXCEPT ![q.site].status = "passing"]}
     /\ UNCHANGED <<step, slug, shown, timer, busy, presses, behind>>

(* setKillSwitch: what runs is suspended, what is suspended stays so.       *)
ServeKill ==
  LET q == Head(requests)
      now == row[q.site].status
  IN /\ First("kill") /\ q.at = "asked"
     /\ IF now = "none" THEN Reply([q EXCEPT !.at = "no"]) /\ UNCHANGED row
        ELSE /\ Reply([q EXCEPT !.at = "ok"])
             /\ \E next \in IF q.on /\ now = "settled" THEN {now, "suspended"} ELSE {now} :
                  row' = [row EXCEPT ![q.site] = [status |-> next, kill |-> q.on]]
     /\ UNCHANGED <<step, slug, shown, timer, busy, presses, behind>>

(* Denied, not signed in, failed, or done and the answer lost.              *)
Lost ==
  LET q == Head(requests)
  IN /\ requests # <<>> /\ q.at # "no"
     /\ Reply([q EXCEPT !.at = "no"])
     /\ UNCHANGED <<step, row, slug, shown, timer, busy, presses, behind>>

-----------------------------------------------------------------------------
(* The step.                                                                *)

(* Mutant: a status that passes is not waited for.                          *)
Armed_Once(view, s) == FALSE

(* The effect of [status, refresh]: it sets the timer when the status, or   *)
(* the site, is another than it was, and clears that of before.             *)
Armed(view, s) ==
  IF view.status = shown.status /\ s = slug THEN timer ELSE view.status = "passing"

TakeRead ==
  LET q == Head(requests)
      answered == q.at = "ok"
  IN /\ First("read") /\ q.at # "asked"
     /\ requests' = Tail(requests)
     /\ shown' = IF answered THEN q.view ELSE shown
     /\ timer' = IF answered THEN Armed(q.view, slug) ELSE timer
     /\ behind' = \/ ~answered \/ q.site # slug
                  \/ q.view.status = "passing" /\ shown.status = "passing" /\ ~timer
                  \/ q.view.status # row[q.site].status /\ q.view.status # "passing"
     /\ UNCHANGED <<step, row, slug, busy, presses>>

(* The timer calls refresh(), once.                                         *)
Fire ==
  /\ timer
  /\ timer' = FALSE
  /\ requests' = Append(requests, Ask("read", slug, FALSE))
  /\ UNCHANGED <<step, row, slug, shown, busy, presses, behind>>

Press(request) ==
  /\ slug # 0 /\ presses < MaxPresses
  /\ presses' = presses + 1
  /\ requests' = Append(requests, request)
  /\ UNCHANGED <<step, row, slug, shown, timer, behind>>

(* The Refresh button of a deploy, disabled while it reads.                 *)
Refresh ==
  /\ step = "deploy" /\ \A i \in DOMAIN requests : requests[i].verb # "read"
  /\ Press(Ask("read", slug, FALSE))
  /\ UNCHANGED busy

(* The picker is offered while nothing is shown to be hosted, the switch    *)
(* while something is.                                                      *)
PickerOffered == step = "hosting" /\ ~busy /\ shown.status = "none"
SwitchOffered == step = "hosting" /\ ~busy /\ shown.status # "none"

Provision ==
  /\ PickerOffered
  /\ Press(Ask("provision", slug, FALSE))
  /\ busy' = TRUE

(* The owner is told at once that it is being set up.                       *)
TakeProvision ==
  LET q == Head(requests)
      view == [shown EXCEPT !.status = "passing"]
  IN /\ First("provision") /\ q.at # "asked"
     /\ requests' = Tail(requests)
     /\ busy' = FALSE
     /\ shown' = IF q.at = "ok" THEN view ELSE shown
     /\ timer' = IF q.at = "ok" THEN Armed(view, slug) ELSE timer
     /\ behind' = (behind \/ row[q.site] # shown)
     /\ UNCHANGED <<step, row, slug, presses>>

(* toggleKill(): the other of what is shown; its answer is shown, and the   *)
(* status read again, of the site it was pressed for.                       *)
ToggleKill ==
  /\ SwitchOffered
  /\ Press(Ask("kill", slug, ~shown.kill))
  /\ busy' = TRUE

TakeKill ==
  LET q == Head(requests)
  IN /\ First("kill") /\ q.at # "asked"
     /\ busy' = FALSE
     /\ shown' = IF q.at = "ok" THEN [shown EXCEPT !.kill = q.on] ELSE shown
     /\ requests' = IF q.at = "ok" THEN Append(Tail(requests), Ask("read", q.site, FALSE))
                    ELSE Tail(requests)
     /\ behind' = (behind \/ q.at # "ok")
     /\ UNCHANGED <<step, row, slug, timer, presses>>

(* She publishes: another site is the latest, or the same is deployed anew, *)
(* which the step does not hear of.                                         *)
Publish ==
  \E s \in Sites :
    /\ s \in {slug, slug + 1}
    /\ row[s].status # "passing"
    /\ slug' = s
    /\ row' = IF step = "deploy" THEN [row EXCEPT ![s].status = "passing"] ELSE row
    /\ requests' = IF s = slug THEN requests ELSE Append(requests, Ask("read", s, FALSE))
    /\ timer' = Armed(shown, s)
    /\ behind' = (s = slug /\ (behind \/ (step = "deploy" /\ ~Due)))
    /\ presses < MaxPresses /\ presses' = presses + 1
    /\ UNCHANGED <<step, shown, busy>>

Next ==
  \/ \E s \in Sites : Advance(s) \/ Suspend(s)
  \/ ServeRead \/ ServeProvision \/ ServeKill \/ Lost
  \/ TakeRead \/ TakeProvision \/ TakeKill
  \/ Fire \/ Refresh \/ Provision \/ ToggleKill \/ Publish

Spec == Init /\ [][Next]_vars

-----------------------------------------------------------------------------
(* A step that waits for nothing, neither an answer nor its timer, shows    *)
(* the status of its site as it is, unless the last answer was lost, was    *)
(* that of a site whose switch was pressed before another was published, or *)
(* repeated what was shown, which sets no timer, or the row has changed     *)
(* since.                                                                   *)
PillIsCurrent ==
  (slug # 0 /\ requests = <<>> /\ ~timer /\ ~behind) => shown.status = row[slug].status
=============================================================================
