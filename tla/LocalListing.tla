---------------------------- MODULE LocalListing ----------------------------
(* The tenant's listing on Google (app/gbp/actions.ts, integrations/         *)
(* localListing/service.ts) and the step of the dashboard that makes it      *)
(* (components/dashboard/GbpStep.tsx).  A page's server actions run one      *)
(* after the other, those of two pages at once; a verification ends when it  *)
(* does, and is seen when the listing is next read.                          *)
EXTENDS Naturals, Sequences

CONSTANTS
  Tabs,      \* the pages the owner has open
  MaxEdits,  \* bound: changes of her profile
  MaxOps     \* bound: verifications begun

(* A profile's name, area and phone; 0 lacks one of them.                   *)
Naps == {0, 1}
Ops == 1..MaxOps
NoOperation == 0
Listed == {"pending_verification", "live", "failed"}

VARIABLES
  listings,   \* the tenant's rows, oldest first
  operation,  \* verification -> its status
  profile, view, busy,  \* per page: its business, what it shows, list() is under way
  edits,      \* bound's counter
  calls,      \* per page: its server actions, the first of them running
  overtaken,  \* history: rows a settlement wrote that were bound to a later verification
  stale       \* history: pages of which a read failed or the profile changed in list()

vars == <<listings, operation, profile, view, busy, edits, calls, overtaken,
          stale>>

Call == [by : {"effect", "list", "refresh"}, nap : Naps, active : BOOLEAN,
         at : {"asked", "found", "ended", "known", "ok", "failed"},
         row : Nat, op : {NoOperation} \cup Ops, status : Listed \cup {"none"}]

TypeOK ==
  /\ \A i \in DOMAIN listings :
       listings[i] \in [nap : Naps \ {0}, status : Listed, op : Ops]
  /\ operation \in [Ops -> {"none", "pending", "succeeded", "failed"}]
  /\ profile \in [Tabs -> Naps]
  /\ view \in [Tabs -> [nap : Naps, status : Listed \cup {"none", "unread"}]]
  /\ busy \in [Tabs -> BOOLEAN]
  /\ \A t \in Tabs : \A i \in DOMAIN calls[t] : calls[t][i] \in Call
  /\ edits \in 0..MaxEdits
  /\ overtaken \subseteq DOMAIN listings /\ stale \subseteq Tabs

Ask(by, nap) ==
  [by |-> by, nap |-> nap, active |-> TRUE, at |-> "asked", row |-> 0, op |-> NoOperation,
   status |-> "none"]

Init ==
  /\ listings = <<>>
  /\ operation = [o \in Ops |-> "none"]
  /\ \E nap \in Naps : /\ profile = [t \in Tabs |-> nap]
                       /\ calls = [t \in Tabs |-> <<Ask("effect", nap)>>]
  /\ view = [t \in Tabs |-> [nap |-> 0, status |-> "unread"]]
  /\ busy = [t \in Tabs |-> FALSE]
  /\ edits = 0 /\ overtaken = {} /\ stale = {}

-----------------------------------------------------------------------------
(* The page.                                                                *)

(* A call of an earlier effect is no longer listened to.                    *)
Unheard(q) == IF q.by = "effect" THEN [q EXCEPT !.active = FALSE] ELSE q

(* Mutant: the profile is not read again when it has changed.               *)
Reread_Never(t, nap) == calls[t]
Reread(t, nap) ==
  Append([i \in DOMAIN calls[t] |-> Unheard(calls[t][i])], Ask("effect", nap))

(* Her name, area or phone changes.                                         *)
Edit(t) ==
  /\ edits < MaxEdits /\ edits' = edits + 1
  /\ profile' = [profile EXCEPT ![t] = 1 - @]
  /\ calls' = [calls EXCEPT ![t] = Reread(t, 1 - profile[t])]
  /\ stale' = IF busy[t] THEN stale \cup {t} ELSE stale \ {t}
  /\ UNCHANGED <<listings, operation, view, busy, overtaken>>

AlreadyListed(t) == view[t].status \in {"pending_verification", "live"}
Offered(t) == ~AlreadyListed(t) /\ ~busy[t]

(* list(): what was read must be complete, what is sent is the profile.     *)
List(t) ==
  /\ view[t].status # "unread" /\ view[t].nap # 0
  /\ Offered(t)
  /\ busy' = [busy EXCEPT ![t] = TRUE]
  /\ calls' = [calls EXCEPT ![t] = Append(@, Ask("list", profile[t]))]
  /\ UNCHANGED <<listings, operation, profile, view, overtaken, stale, edits>>

-----------------------------------------------------------------------------
(* The server.                                                              *)
Running(t) == calls[t] # <<>>
Goto(t, q) == calls' = [calls EXCEPT ![t][1] = q]
Answer(t, q) == Goto(t, [q EXCEPT !.at = "ok", !.row = 0, !.op = NoOperation])

(* gbp.create through the router: denied, failed at once, or accepted.      *)
Accept(t) ==
  LET q == Head(calls[t])
  IN /\ Running(t) /\ q.by = "list" /\ q.at = "asked"
     /\ \/ Goto(t, [q EXCEPT !.at = "failed"]) /\ UNCHANGED operation
        \/ \E o \in Ops, outcome \in {"pending", "failed"} :
             /\ q.nap # 0
             /\ operation[o] = "none" /\ \A p \in 1..(o - 1) : operation[p] # "none"
             /\ operation' = [operation EXCEPT ![o] = outcome]
             /\ IF outcome = "failed" THEN Answer(t, q)
                                      ELSE Goto(t, [q EXCEPT !.op = o, !.at = "found"])
     /\ UNCHANGED <<listings, profile, view, busy, overtaken, stale, edits>>

(* upsertListingForCreate looks for the tenant's listing.                   *)
Look(t) ==
  LET q == Head(calls[t])
  IN /\ Running(t) /\ q.by = "list" /\ q.at = "found"
     /\ Goto(t, [q EXCEPT !.at = "known", !.row = IF listings = <<>> THEN 0 ELSE 1])
     /\ UNCHANGED <<listings, operation, profile, view, busy, overtaken, stale, edits>>

Pending(q) == [nap |-> q.nap, status |-> "pending_verification", op |-> q.op]

(* It updates the listing it found or creates one; a failure is swallowed.  *)
Upsert(t) ==
  LET q == Head(calls[t])
  IN /\ Running(t) /\ q.by = "list" /\ q.at = "known"
     /\ Answer(t, q)
     /\ \/ UNCHANGED <<listings, overtaken, edits>>
        \/ /\ q.row = 0
           /\ listings' = Append(listings, Pending(q))
           /\ UNCHANGED overtaken
        \/ /\ q.row # 0
           /\ listings' = [listings EXCEPT ![q.row] = Pending(q)]
           /\ overtaken' = overtaken \ {q.row}
     /\ UNCHANGED <<operation, profile, view, busy, stale, edits>>

(* Google verifies, or does not.                                            *)
Verify(o) ==
  /\ operation[o] = "pending"
  /\ \E outcome \in {"succeeded", "failed"} :
       operation' = [operation EXCEPT ![o] = outcome]
  /\ UNCHANGED <<listings, profile, view, busy, calls, overtaken, stale, edits>>

(* getListingAction reads the listing, and its operation if it is pending.  *)
Read(t) ==
  LET q == Head(calls[t])
      r == listings[1]
  IN /\ Running(t) /\ q.by # "list" /\ q.at = "asked"
     /\ CASE listings = <<>> -> Answer(t, q)
          [] listings # <<>> /\ r.status = "pending_verification" ->
               Goto(t, [q EXCEPT !.at = "found", !.status = r.status, !.op = r.op])
          [] OTHER -> Answer(t, [q EXCEPT !.status = r.status])
     /\ UNCHANGED <<listings, operation, profile, view, busy, overtaken, stale, edits>>

ReadOperation(t) ==
  LET q == Head(calls[t])
  IN /\ Running(t) /\ q.by # "list" /\ q.at = "found"
     /\ IF operation[q.op] = "pending" THEN Answer(t, q)
                                        ELSE Goto(t, [q EXCEPT !.at = "ended"])
     /\ UNCHANGED <<listings, operation, profile, view, busy, overtaken, stale, edits>>

(* Mutant: an operation that is over has succeeded.                         *)
Outcome_Live(o) == "live"
Outcome(o) == IF operation[o] = "succeeded" THEN "live" ELSE "failed"

(* settleListingVerification looks for the listing that is bound to the     *)
(* operation, the newest first.                                             *)
FindBound(t) ==
  LET q == Head(calls[t])
      bound == {i \in DOMAIN listings : listings[i].op = q.op}
      i == CHOOSE i \in bound : \A j \in bound : j <= i
  IN /\ Running(t) /\ q.by # "list" /\ q.at = "ended"
     /\ CASE bound = {} -> Answer(t, q)
          [] bound # {} /\ listings[i].status = Outcome(q.op) ->
               Answer(t, [q EXCEPT !.status = Outcome(q.op)])
          [] OTHER -> Goto(t, [q EXCEPT !.at = "known", !.row = i])
     /\ UNCHANGED <<listings, operation, profile, view, busy, overtaken, stale, edits>>

(* It writes the outcome, whatever the row is bound to by then.             *)
Settle(t) ==
  LET q == Head(calls[t])
  IN /\ Running(t) /\ q.by # "list" /\ q.at = "known"
     /\ listings' = [listings EXCEPT ![q.row].status = Outcome(q.op)]
     /\ overtaken' = IF listings[q.row].op = q.op THEN overtaken ELSE overtaken \cup {q.row}
     /\ Answer(t, [q EXCEPT !.status = Outcome(q.op)])
     /\ UNCHANGED <<operation, profile, view, busy, stale, edits>>

(* A read fails, or its answer is lost, or that of a listing is.            *)
Fail(t) ==
  LET q == Head(calls[t])
  IN /\ Running(t) /\ q.at # "failed"
     /\ Goto(t, [q EXCEPT !.at = "failed", !.row = 0, !.op = NoOperation, !.status = "none"])
     /\ UNCHANGED <<listings, operation, profile, view, busy, overtaken, stale, edits>>

-----------------------------------------------------------------------------
(* The page hears of its first call.                                        *)

(* An effect's answer is shown while it is the latest effect's.             *)
TakeEffect(t) ==
  LET q == Head(calls[t])
  IN /\ Running(t) /\ q.by = "effect" /\ q.at \in {"ok", "failed"}
     /\ view' = IF q.active /\ q.at = "ok"
                THEN [view EXCEPT ![t] = [nap |-> q.nap, status |-> q.status]] ELSE view
     /\ stale' = IF q.active /\ q.at = "failed" THEN stale \cup {t} ELSE stale
     /\ calls' = [calls EXCEPT ![t] = Tail(@)]
     /\ UNCHANGED <<listings, operation, profile, busy, overtaken, edits>>

(* What was accepted is read again, with the profile that was sent.         *)
TakeList(t) ==
  LET q == Head(calls[t])
  IN /\ Running(t) /\ q.by = "list" /\ q.at \in {"ok", "failed"}
     /\ calls' = [calls EXCEPT ![t] =
          IF q.at = "ok" THEN Append(Tail(@), Ask("refresh", q.nap)) ELSE Tail(@)]
     /\ busy' = [busy EXCEPT ![t] = q.at = "ok"]
     /\ UNCHANGED <<listings, operation, profile, view, overtaken, stale, edits>>

(* The answer is shown, whatever the profile is by now.                     *)
TakeRefresh(t) ==
  LET q == Head(calls[t])
  IN /\ Running(t) /\ q.by = "refresh" /\ q.at \in {"ok", "failed"}
     /\ view' = IF q.at = "ok"
                THEN [view EXCEPT ![t] = [nap |-> q.nap, status |-> q.status]] ELSE view
     /\ busy' = [busy EXCEPT ![t] = FALSE]
     /\ calls' = [calls EXCEPT ![t] = Tail(@)]
     /\ UNCHANGED <<listings, operation, profile, overtaken, stale, edits>>

Next ==
  \/ \E o \in Ops : Verify(o)
  \/ \E t \in Tabs :
       \/ Edit(t) \/ List(t) \/ Accept(t) \/ Look(t) \/ Upsert(t)
       \/ Read(t) \/ ReadOperation(t) \/ FindBound(t) \/ Settle(t) \/ Fail(t)
       \/ TakeEffect(t) \/ TakeList(t) \/ TakeRefresh(t)

Spec == Init /\ [][Next]_vars

-----------------------------------------------------------------------------
(* A listing is live only if its own verification succeeded, and failed     *)
(* only if it failed, unless it was bound to another one between the look   *)
(* and the write of a settlement.                                           *)
ListingFollowsVerification ==
  \A i \in DOMAIN listings \ overtaken :
    /\ listings[i].status = "live" => operation[listings[i].op] = "succeeded"
    /\ listings[i].status = "failed" => operation[listings[i].op] = "failed"

(* A page that waits for nothing shows the name, area and phone it has now, *)
(* unless they could not be read or changed while it made a listing.        *)
ProfileIsShown ==
  \A t \in Tabs \ stale : calls[t] = <<>> => view[t].nap = profile[t]
=============================================================================
