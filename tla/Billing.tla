------------------------------- MODULE Billing -------------------------------
(***************************************************************************)
(* A tenant's subscription and its Paystack webhook                        *)
(* (app/api/webhooks/paystack/route.ts, lib/billing/service.ts and         *)
(* app/billing/actions.ts), with the live provider. Paystack delivers each *)
(* event until it is answered 200, and may deliver it twice at once; the   *)
(* owner upgrades and cancels meanwhile. Every repository call is a        *)
(* transaction of its own, and a handler can throw or die between two.     *)
(* One tenant: an event's metadata names it, or is absent. Signatures,     *)
(* amounts and currentPeriodEnd, which is only displayed, are left out.    *)
(***************************************************************************)
EXTENDS Naturals

CONSTANTS
  Events,      \* the ids of the events Paystack has for this tenant
  Deliveries,  \* webhook requests that can be in flight together
  Owners,      \* calls of the owner's billing actions, one each
  Plans,       \* the paid plans
  Codes,       \* Paystack's subscription codes
  None

ASSUME BillingAssumption ==
  /\ Deliveries \cap Owners = {}
  /\ (Codes \cup Owners) \cap {None} = {}
  /\ Plans \cap {"free", "topup", "cancel", "nothing"} = {}

Actors == Deliveries \cup Owners

(* What an event asks for: a wallet top-up, a plan (charge, creation or     *)
(* renewal), a cancellation, or nothing this handler knows. A top-up is a   *)
(* one-off charge: it has no subscription code.                             *)
Contents == [does : Plans \cup {"cancel"}, code : Codes \cup {None}, meta : BOOLEAN]
            \cup [does : {"topup", "nothing"}, code : {None}, meta : BOOLEAN]

(* The row of the subscriptions table. A checkout's reference, one for each *)
(* upgrade call, stands in for the code until a charge arrives.             *)
Rows == [plan : Plans \cup {"free"}, status : {"active", "incomplete", "canceled"},
         code : Codes \cup Owners \cup {None}, cancelAtPeriodEnd : BOOLEAN]

ASSUME NoneIsNoRow == None \notin Rows

Stages == {"idle", "resolve", "drop", "claim", "apply", "read", "write",
           "ack", "bind", "done"}

VARIABLES
  inbox,    \* the content of each event
  row,      \* the tenant's subscription, or None
  claimed,  \* webhook_events: the ids whose claim was inserted
  credits,  \* how often each event credited the wallet
  acked,    \* the events Paystack has had a 200 for
  failed,   \* the events a handler failed on
  pc,
  event,    \* the event a delivery carries
  order,    \* what an owner's call asks for: a plan, "free" or "cancel"
  saw       \* the row a cancellation read

store == <<row, claimed, credits>>
paystack == <<inbox, acked, failed>>
vars == <<store, paystack, pc, event, order, saw>>

TypeOK ==
  /\ inbox \in [Events -> Contents]
  /\ row \in Rows \cup {None}
  /\ claimed \subseteq Events
  /\ credits \in [Events -> Nat]
  /\ acked \subseteq Events
  /\ failed \subseteq Events
  /\ pc \in [Actors -> Stages]
  /\ event \in [Deliveries -> Events \cup {None}]
  /\ order \in [Owners -> Plans \cup {"free", "cancel", "none"}]
  /\ saw \in [Actors -> Rows \cup {None}]

Init ==
  /\ inbox \in [Events -> Contents]
  /\ row = None
  /\ claimed = {}
  /\ credits = [e \in Events |-> 0]
  /\ acked = {}
  /\ failed = {}
  /\ pc = [a \in Actors |-> "idle"]
  /\ event = [d \in Deliveries |-> None]
  /\ order = [o \in Owners |-> "none"]
  /\ saw = [a \in Actors |-> None]

Goto(a, stage) == pc' = [pc EXCEPT ![a] = stage]
Content(d) == inbox[event[d]]

-----------------------------------------------------------------------------
(* The webhook.                                                             *)

(* The request arrives, and hasEvent answers.                               *)
Deliver(d, e) ==
  /\ pc[d] = "idle"
  /\ event' = [event EXCEPT ![d] = e]
  /\ Goto(d, IF e \in claimed THEN "ack" ELSE "resolve")
  /\ UNCHANGED <<store, paystack, order, saw>>

(* Mutant: a top-up is only taken for a tenant that has a subscription.     *)
Resolves_NeedsRow(c) ==
  \/ row # None /\ c.code # None /\ row.code = c.code
  \/ c.meta /\ row # None

(* The stored owner of the code, or the tenant the metadata names: for a    *)
(* top-up without more, else if it has a subscription.                      *)
Resolves(c) ==
  \/ row # None /\ c.code # None /\ row.code = c.code
  \/ c.meta /\ (c.does = "topup" \/ row # None)

Resolve(d) ==
  /\ pc[d] = "resolve"
  /\ Goto(d, IF Resolves(Content(d)) THEN "claim" ELSE "drop")
  /\ UNCHANGED <<store, paystack, event, order, saw>>

(* An event of nobody is claimed too, and acknowledged.                     *)
Drop(d) ==
  /\ pc[d] = "drop"
  /\ claimed' = claimed \cup {event[d]}
  /\ Goto(d, "ack")
  /\ UNCHANGED <<row, credits, paystack, event, order, saw>>

(* Mutant: the rowcount of the insert is not looked at.                     *)
Claims_Always(e) == TRUE
(* INSERT ... ON CONFLICT DO NOTHING: one claimant sees rowcount 1.         *)
Claims(e) == e \notin claimed

Claim(d) ==
  /\ pc[d] = "claim"
  /\ claimed' = claimed \cup {event[d]}
  /\ Goto(d, IF Claims(event[d])
             THEN IF Content(d).does = "cancel" THEN "read" ELSE "apply"
             ELSE "ack")
  /\ UNCHANGED <<row, credits, paystack, event, order, saw>>

(* topUp.                                                                   *)
Credit(d) ==
  /\ pc[d] = "apply"
  /\ Content(d).does = "topup"
  /\ credits' = [credits EXCEPT ![event[d]] = @ + 1]
  /\ Goto(d, "ack")
  /\ UNCHANGED <<row, claimed, paystack, event, order, saw>>

(* activatePlan.                                                            *)
Activate(d) ==
  /\ pc[d] = "apply"
  /\ Content(d).does \in Plans
  /\ row' = [plan |-> Content(d).does, status |-> "active", code |-> Content(d).code,
             cancelAtPeriodEnd |-> FALSE]
  /\ Goto(d, "ack")
  /\ UNCHANGED <<claimed, credits, paystack, event, order, saw>>

Ignore(d) ==
  /\ pc[d] = "apply"
  /\ Content(d).does = "nothing"
  /\ Goto(d, "ack")
  /\ UNCHANGED <<store, paystack, event, order, saw>>

(* The audit entry and the 200.                                             *)
Acknowledge(d) ==
  /\ pc[d] = "ack"
  /\ acked' = acked \cup {event[d]}
  /\ Goto(d, "idle")
  /\ event' = [event EXCEPT ![d] = None]
  /\ saw' = [saw EXCEPT ![d] = None]
  /\ UNCHANGED <<store, inbox, failed, order>>

(* A call throws and is answered 500, the process dies, or the answer is    *)
(* lost: to Paystack it is the same.                                        *)
HandlerFails(d) ==
  /\ d \in Deliveries
  /\ pc[d] # "idle"
  /\ failed' = failed \cup {event[d]}
  /\ Goto(d, "idle")
  /\ event' = [event EXCEPT ![d] = None]
  /\ saw' = [saw EXCEPT ![d] = None]
  /\ UNCHANGED <<store, inbox, acked, order>>

-----------------------------------------------------------------------------
(* cancelPlan, for the webhook and for the owner. The provider is told      *)
(* between the read and the write; that it refuses, as Paystack may for a   *)
(* subscription that is disabled already, fails the caller there.           *)

After(a) == IF a \in Deliveries THEN "ack" ELSE "done"

ReadRow(a) ==
  /\ pc[a] = "read"
  /\ saw' = [saw EXCEPT ![a] = row]
  /\ Goto(a, IF row = None THEN After(a) ELSE "write")
  /\ UNCHANGED <<store, paystack, event, order>>

(* Mutant: a cancellation at period end makes the row active until then.    *)
Canceled_Active(r, immediate) ==
  IF immediate
  THEN [r EXCEPT !.plan = "free", !.status = "canceled", !.cancelAtPeriodEnd = FALSE]
  ELSE [r EXCEPT !.status = "active", !.cancelAtPeriodEnd = TRUE]

(* Mutant: the status of a row that was dropped at once is misspelt.        *)
Canceled_Misspelt(r, immediate) ==
  IF immediate
  THEN [r EXCEPT !.plan = "free", !.status = "cancelled", !.cancelAtPeriodEnd = FALSE]
  ELSE [r EXCEPT !.cancelAtPeriodEnd = TRUE]

(* The row it read, written back.                                           *)
Canceled(r, immediate) ==
  IF immediate
  THEN [r EXCEPT !.plan = "free", !.status = "canceled", !.cancelAtPeriodEnd = FALSE]
  ELSE [r EXCEPT !.cancelAtPeriodEnd = TRUE]

WriteCancel(a) ==
  /\ pc[a] = "write"
  /\ row' = Canceled(saw[a], a \in Owners /\ order[a] = "free")
  /\ Goto(a, After(a))
  /\ UNCHANGED <<claimed, credits, paystack, event, order, saw>>

-----------------------------------------------------------------------------
(* The owner's actions.                                                     *)

(* startUpgradeAction writes the plan before it is paid for, as incomplete. *)
StartUpgrade(o, plan) ==
  /\ pc[o] = "idle"
  /\ order' = [order EXCEPT ![o] = plan]
  /\ row' = [plan |-> plan, status |-> "incomplete", code |-> None,
             cancelAtPeriodEnd |-> FALSE]
  /\ Goto(o, "bind")
  /\ UNCHANGED <<claimed, credits, paystack, event, saw>>

(* The checkout's reference, once the provider has answered.                *)
BindCheckout(o) ==
  /\ pc[o] = "bind"
  /\ row' = [plan |-> order[o], status |-> "incomplete", code |-> o,
             cancelAtPeriodEnd |-> FALSE]
  /\ Goto(o, "done")
  /\ UNCHANGED <<claimed, credits, paystack, event, order, saw>>

(* cancelSubscriptionAction, or a change to the free plan.                  *)
StartCancel(o, what) ==
  /\ pc[o] = "idle"
  /\ what \in {"cancel", "free"}
  /\ order' = [order EXCEPT ![o] = what]
  /\ Goto(o, "read")
  /\ UNCHANGED <<store, paystack, event, saw>>

(* A call throws, the provider's included.                                  *)
ActionFails(o) ==
  /\ o \in Owners
  /\ pc[o] \notin {"idle", "done"}
  /\ Goto(o, "done")
  /\ UNCHANGED <<store, paystack, event, order, saw>>

-----------------------------------------------------------------------------
CancelStep(a) == ReadRow(a) \/ WriteCancel(a)

WebhookStep(d) ==
  Resolve(d) \/ Drop(d) \/ Claim(d) \/ Credit(d) \/ Activate(d) \/ Ignore(d)
    \/ Acknowledge(d) \/ CancelStep(d)

OwnerStep(o) ==
  \/ \E plan \in Plans : StartUpgrade(o, plan)
  \/ \E what \in {"cancel", "free"} : StartCancel(o, what)
  \/ BindCheckout(o) \/ CancelStep(o) \/ ActionFails(o)

Next ==
  \/ \E d \in Deliveries : (\E e \in Events : Deliver(d, e)) \/ WebhookStep(d) \/ HandlerFails(d)
  \/ \E o \in Owners : OwnerStep(o)

Spec == Init /\ [][Next]_vars

-----------------------------------------------------------------------------
(* However often and however concurrently Paystack delivers a top-up, and   *)
(* whichever handler fails, the wallet is credited at most once for it.     *)
CreditedOnce == \A e \in Events : credits[e] <= 1

(* A plan grants its entitlements only if a charge for that very plan was   *)
(* taken from Paystack: the row an upgrade wrote before it was paid, and    *)
(* the rows that cancellations read before and write back after other       *)
(* writers, never make an unpaid plan active.                               *)
ActiveIsPaid ==
  (row # None /\ row.status = "active") =>
    \E e \in claimed : inbox[e].does = row.plan

(* The event was taken care of, or a delivery still has it in hand.         *)
Handled(e) == credits[e] = 1 \/ \E d \in Deliveries : event[d] = e

(* The claims of concurrent deliveries never drop a top-up between them:    *)
(* Paystack is answered 200 for one that was not credited only if a handler *)
(* of that event failed.                                                    *)
LostOnlyByFailure ==
  \A e \in acked \ failed :
    inbox[e].does = "topup" /\ inbox[e].meta => Handled(e)

-----------------------------------------------------------------------------
(* What a comment of the code says and the code does not do.                *)

(* route.ts:136: "a redelivered event is acknowledged without re-applying": *)
(* Paystack is answered 200 for a top-up that some handler has applied or   *)
(* still holds.                                                             *)
AcknowledgedIsApplied ==
  \A e \in acked :
    inbox[e].does = "topup" /\ inbox[e].meta => Handled(e)
=============================================================================
