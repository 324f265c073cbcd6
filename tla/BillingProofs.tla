---------------------------- MODULE BillingProofs ----------------------------
(***************************************************************************)
(* Proofs about Billing, for any number of events, webhook requests and    *)
(* calls of the owner: a top-up is credited once at most, only paid plans  *)
(* are active, and nothing but a failing handler loses a top-up.           *)
(***************************************************************************)
EXTENDS Billing, TLAPS

TopUp(e) == inbox[e].does = "topup" /\ inbox[e].meta

(* What a webhook request knows at each stage.                              *)
DeliveryOK ==
  \A d \in Deliveries :
    /\ pc[d] \notin {"bind", "done"}
    /\ pc[d] # "idle" => event[d] \in Events
    /\ pc[d] = "drop" => ~TopUp(event[d])
    /\ pc[d] \in {"apply", "read", "write", "ack"} => event[d] \in claimed

OwnerOK ==
  \A o \in Owners :
    /\ pc[o] \in {"idle", "read", "write", "bind", "done"}
    /\ pc[o] = "bind" => order[o] \in Plans

(* A cancellation writes back a row.                                        *)
SawRow == \A a \in Actors : pc[a] = "write" => saw[a] \in Rows

(* The request that inserted the claim is alone in applying the event.      *)
ClaimantCredits ==
  /\ \A e \in Events : e \notin claimed => credits[e] = 0
  /\ \A d \in Deliveries : pc[d] = "apply" => credits[event[d]] = 0
  /\ \A d, f \in Deliveries :
       pc[d] = "apply" /\ pc[f] = "apply" /\ event[d] = event[f] => d = f

(* An active row, stored or read, has its charge.                           *)
Paid(r, taken) ==
  (r # None /\ r.status = "active") => \E e \in taken : inbox[e].does = r.plan
PaidRows == Paid(row, claimed) /\ \A a \in Actors : Paid(saw[a], claimed)

(* A claimed top-up is credited, or about to be.                            *)
InHand(e) == \E d \in Deliveries : pc[d] = "apply" /\ event[d] = e
ClaimedIsKept == \A e \in claimed \ failed : TopUp(e) => credits[e] = 1 \/ InHand(e)

IInv ==
  /\ TypeOK
  /\ DeliveryOK
  /\ OwnerOK
  /\ SawRow
  /\ CreditedOnce
  /\ ClaimantCredits
  /\ PaidRows
  /\ ClaimedIsKept
  /\ acked \subseteq claimed

-----------------------------------------------------------------------------
LEMMA InitIInv == Init => IInv
<1> SUFFICES ASSUME Init PROVE IInv
  OBVIOUS
<1>1. TypeOK
  BY DEF Init, TypeOK, Stages
<1> QED
  BY <1>1, BillingAssumption DEF Init, IInv, DeliveryOK, OwnerOK, SawRow, CreditedOnce,
     ClaimantCredits, PaidRows, Paid, ClaimedIsKept, Actors

(* Every step keeps the types.                                              *)
LEMMA TypeStep ==
  ASSUME IInv, [Next]_vars
  PROVE  TypeOK'
<1>0. TypeOK /\ DeliveryOK /\ OwnerOK /\ SawRow
  BY DEF IInv
<1>1. inbox' = inbox
  BY DEF Next, vars, paystack, Deliver, WebhookStep, Resolve, Drop, Claim, Credit, Activate,
     Ignore, Acknowledge, HandlerFails, CancelStep, ReadRow, WriteCancel, OwnerStep,
     StartUpgrade, BindCheckout, StartCancel, ActionFails
<1>2. pc' \in [Actors -> Stages]
  BY <1>0 DEF Next, vars, Deliver, WebhookStep, Resolve, Drop, Claim, Credit, Activate,
     Ignore, Acknowledge, HandlerFails, CancelStep, ReadRow, WriteCancel, OwnerStep,
     StartUpgrade, BindCheckout, StartCancel, ActionFails, Goto, After, TypeOK, Stages
<1>3. \A r \in Rows, b \in BOOLEAN : Canceled(r, b) \in Rows
  BY DEF Canceled, Rows
<1>4. row' \in Rows \cup {None}
  <2>1. CASE UNCHANGED row
    BY <2>1, <1>0 DEF TypeOK
  <2>2. ASSUME NEW d \in Deliveries, Activate(d) PROVE row' \in Rows
    <3>1. event[d] \in Events
      BY <2>2, <1>0 DEF Activate, DeliveryOK
    <3>2. Content(d) \in Contents
      BY <3>1, <1>0 DEF Content, TypeOK
    <3>3. Content(d).code \in Codes \cup {None}
      BY <3>2 DEF Contents
    <3> QED BY <2>2, <3>3 DEF Activate, Rows
  <2>3. ASSUME NEW a \in Actors, WriteCancel(a) PROVE row' \in Rows
    BY <2>3, <1>0, <1>3 DEF WriteCancel, SawRow
  <2>4. ASSUME NEW o \in Owners, NEW plan \in Plans, StartUpgrade(o, plan) PROVE row' \in Rows
    BY <2>4 DEF StartUpgrade, Rows
  <2>5. ASSUME NEW o \in Owners, BindCheckout(o) PROVE row' \in Rows
    BY <2>5, <1>0 DEF BindCheckout, OwnerOK, Rows
  <2>6. \/ UNCHANGED row
        \/ \E d \in Deliveries : Activate(d)
        \/ \E a \in Actors : WriteCancel(a)
        \/ \E o \in Owners : BindCheckout(o) \/ \E plan \in Plans : StartUpgrade(o, plan)
    BY DEF Next, vars, store, Actors, Deliver, WebhookStep, Resolve, Drop, Claim, Credit,
       Ignore, Acknowledge, HandlerFails, CancelStep, ReadRow, OwnerStep, StartCancel,
       ActionFails
  <2> QED BY <2>1, <2>2, <2>3, <2>4, <2>5, <2>6
<1>5. /\ event' \in [Deliveries -> Events \cup {None}]
      /\ order' \in [Owners -> Plans \cup {"free", "cancel", "none"}]
  BY <1>0 DEF Next, vars, Deliver, WebhookStep, Resolve, Drop, Claim, Credit, Activate,
     Ignore, Acknowledge, HandlerFails, CancelStep, ReadRow, WriteCancel, OwnerStep,
     StartUpgrade, BindCheckout, StartCancel, ActionFails, TypeOK
<1>6. saw' \in [Actors -> Rows \cup {None}]
  BY <1>0 DEF Next, vars, Deliver, WebhookStep, Resolve, Drop, Claim, Credit, Activate,
     Ignore, Acknowledge, HandlerFails, CancelStep, ReadRow, WriteCancel, OwnerStep,
     StartUpgrade, BindCheckout, StartCancel, ActionFails, TypeOK, Actors
<1>7. claimed' \subseteq Events /\ acked' \subseteq Events /\ failed' \subseteq Events
  BY <1>0 DEF Next, vars, store, paystack, Deliver, WebhookStep, Resolve, Drop, Claim, Credit,
     Activate, Ignore, Acknowledge, HandlerFails, CancelStep, ReadRow, WriteCancel, OwnerStep,
     StartUpgrade, BindCheckout, StartCancel, ActionFails, TypeOK, DeliveryOK
<1>8. credits' \in [Events -> Nat]
  BY <1>0 DEF Next, vars, store, Deliver, WebhookStep, Resolve, Drop, Claim, Credit,
     Activate, Ignore, Acknowledge, HandlerFails, CancelStep, ReadRow, WriteCancel, OwnerStep,
     StartUpgrade, BindCheckout, StartCancel, ActionFails, TypeOK, DeliveryOK
<1> QED BY <1>0, <1>1, <1>2, <1>4, <1>5, <1>6, <1>7, <1>8 DEF TypeOK

(* What no step changes, and which events a step can claim or fail on.      *)
LEMMA Grows ==
  ASSUME IInv, [Next]_vars
  PROVE  /\ inbox' = inbox
         /\ claimed \subseteq claimed'
         /\ failed \subseteq failed'
BY DEF Next, vars, store, paystack, Deliver, WebhookStep, Resolve, Drop, Claim, Credit,
   Activate, Ignore, Acknowledge, HandlerFails, CancelStep, ReadRow, WriteCancel, OwnerStep,
   StartUpgrade, BindCheckout, StartCancel, ActionFails

LEMMA StageStep ==
  ASSUME IInv, [Next]_vars
  PROVE  DeliveryOK' /\ OwnerOK' /\ SawRow'
<1>0. TypeOK /\ DeliveryOK /\ OwnerOK /\ SawRow /\ TypeOK'
  BY TypeStep DEF IInv
<1>1. inbox' = inbox /\ claimed \subseteq claimed'
  BY Grows
<1>2. DeliveryOK'
  BY <1>0, <1>1, BillingAssumption DEF Next, vars, store, paystack, Deliver, WebhookStep,
     Resolve, Resolves, Drop, Claim, Credit, Activate, Ignore, Acknowledge, HandlerFails,
     CancelStep, ReadRow, WriteCancel, OwnerStep, StartUpgrade, BindCheckout, StartCancel,
     ActionFails, Goto, After, Content, TypeOK, DeliveryOK, TopUp, Actors
<1>3. OwnerOK'
  BY <1>0, BillingAssumption DEF Next, vars, Deliver, WebhookStep, Resolve, Drop, Claim,
     Credit, Activate, Ignore, Acknowledge, HandlerFails, CancelStep, ReadRow, WriteCancel,
     OwnerStep, StartUpgrade, BindCheckout, StartCancel, ActionFails, Goto, After, TypeOK,
     OwnerOK, Actors
<1>4. SawRow'
  BY <1>0 DEF Next, vars, Deliver, WebhookStep, Resolve, Drop, Claim, Credit, Activate,
     Ignore, Acknowledge, HandlerFails, CancelStep, ReadRow, WriteCancel, OwnerStep,
     StartUpgrade, BindCheckout, StartCancel, ActionFails, Goto, After, TypeOK, SawRow, Actors
<1> QED BY <1>2, <1>3, <1>4

(* Credits change in Credit only, by the one claimant of the event.         *)
LEMMA CreditStep ==
  ASSUME IInv, [Next]_vars
  PROVE  CreditedOnce' /\ ClaimantCredits'
<1>0. TypeOK /\ DeliveryOK /\ OwnerOK /\ CreditedOnce /\ ClaimantCredits /\ TypeOK'
  BY TypeStep DEF IInv
<1>1. CASE \E d \in Deliveries : Credit(d)
  <2>1. PICK d \in Deliveries : Credit(d)
    BY <1>1
  <2>2. event[d] \in Events /\ event[d] \in claimed /\ credits[event[d]] = 0
    BY <2>1, <1>0 DEF Credit, DeliveryOK, ClaimantCredits
  <2>3. /\ credits' = [credits EXCEPT ![event[d]] = 1]
        /\ pc' = [pc EXCEPT ![d] = "ack"]
        /\ UNCHANGED <<claimed, event>>
    BY <2>1, <2>2 DEF Credit, Goto
  <2>4. CreditedOnce'
    BY <2>2, <2>3, <1>0 DEF CreditedOnce, TypeOK
  <2>5. ClaimantCredits'
    BY <2>1, <2>2, <2>3, <1>0 DEF Credit, ClaimantCredits, TypeOK, DeliveryOK, Actors
  <2> QED BY <2>4, <2>5
<1>2. CASE \E d \in Deliveries : Claim(d)
  <2>1. PICK d \in Deliveries : Claim(d)
    BY <1>2
  <2>2. event[d] \in Events /\ (event[d] \notin claimed => credits[event[d]] = 0)
    BY <2>1, <1>0 DEF Claim, DeliveryOK, ClaimantCredits
  <2>3. \A f \in Deliveries : pc[f] = "apply" => event[f] \in claimed
    BY <1>0 DEF DeliveryOK
  <2>4. \A f \in Deliveries : pc'[f] = "apply" =>
           pc[f] = "apply" \/ (f = d /\ event[d] \notin claimed)
    BY <2>1, <1>0 DEF Claim, Claims, Goto, TypeOK, Actors
  <2>5. UNCHANGED <<credits, event>> /\ claimed' = claimed \cup {event[d]}
    BY <2>1 DEF Claim
  <2> QED BY <2>2, <2>3, <2>4, <2>5, <1>0 DEF CreditedOnce, ClaimantCredits
<1>3. CASE ~(\E d \in Deliveries : Credit(d) \/ Claim(d))
  <2>1. UNCHANGED credits /\ claimed \subseteq claimed'
    BY <1>3 DEF Next, vars, store, Deliver, WebhookStep, Resolve, Drop, Activate, Ignore,
       Acknowledge, HandlerFails, CancelStep, ReadRow, WriteCancel, OwnerStep, StartUpgrade,
       BindCheckout, StartCancel, ActionFails
  <2>2. \A d \in Deliveries : pc'[d] = "apply" => pc[d] = "apply" /\ event'[d] = event[d]
    BY <1>3, <1>0 DEF Next, vars, Deliver, WebhookStep, Resolve, Drop, Activate, Ignore,
       Acknowledge, HandlerFails, CancelStep, ReadRow, WriteCancel, OwnerStep, StartUpgrade,
       BindCheckout, StartCancel, ActionFails, Goto, After, TypeOK, Actors
  <2> QED BY <2>1, <2>2, <1>0 DEF CreditedOnce, ClaimantCredits
<1> QED BY <1>1, <1>2, <1>3

(* A row is active because a charge activated it, or because one that was   *)
(* read before is written back.                                             *)
LEMMA PaidStep ==
  ASSUME IInv, [Next]_vars
  PROVE  PaidRows'
<1>0. TypeOK /\ DeliveryOK /\ SawRow /\ PaidRows
  BY DEF IInv
<1>1. inbox' = inbox /\ claimed \subseteq claimed'
  BY Grows
<1>3. Paid(row, claimed)'
  <2>1. CASE UNCHANGED row
    BY <2>1, <1>0, <1>1 DEF PaidRows, Paid
  <2>2. ASSUME NEW d \in Deliveries, Activate(d) PROVE Paid(row, claimed)'
    BY <2>2, <1>0, <1>1 DEF Activate, Content, DeliveryOK, Paid
  <2>3. ASSUME NEW a \in Actors, WriteCancel(a) PROVE Paid(row, claimed)'
    <3>1. saw[a] \in Rows /\ Paid(saw[a], claimed) /\ saw[a] # None
      BY <2>3, <1>0, NoneIsNoRow DEF WriteCancel, SawRow, PaidRows
    <3>2. row'.status = "active" => saw[a].status = "active" /\ row'.plan = saw[a].plan
      BY <2>3, <3>1 DEF WriteCancel, Canceled, Rows
    <3> QED BY <3>1, <3>2, <1>1 DEF Paid
  <2>4. ASSUME NEW o \in Owners, BindCheckout(o) \/ \E plan \in Plans : StartUpgrade(o, plan)
        PROVE  Paid(row, claimed)'
    BY <2>4 DEF BindCheckout, StartUpgrade, Paid
  <2>6. \/ UNCHANGED row
        \/ \E d \in Deliveries : Activate(d)
        \/ \E a \in Actors : WriteCancel(a)
        \/ \E o \in Owners : BindCheckout(o) \/ \E plan \in Plans : StartUpgrade(o, plan)
    BY DEF Next, vars, store, Actors, Deliver, WebhookStep, Resolve, Drop, Claim, Credit,
       Ignore, Acknowledge, HandlerFails, CancelStep, ReadRow, OwnerStep, StartCancel,
       ActionFails
  <2> QED BY <2>1, <2>2, <2>3, <2>4, <2>6
<1>4. \A a \in Actors : saw'[a] \in {saw[a], row, None}
  BY <1>0 DEF Next, vars, Deliver, WebhookStep, Resolve, Drop, Claim, Credit, Activate,
     Ignore, Acknowledge, HandlerFails, CancelStep, ReadRow, WriteCancel, OwnerStep,
     StartUpgrade, BindCheckout, StartCancel, ActionFails, TypeOK, Actors
<1>5. \A a \in Actors : Paid(saw[a], claimed)'
  BY <1>0, <1>1, <1>4 DEF PaidRows, Paid
<1> QED BY <1>3, <1>5 DEF PaidRows

(* Only Claim takes a top-up, only Credit and HandlerFails let go of it.    *)
LEMMA KeptStep ==
  ASSUME IInv, [Next]_vars
  PROVE  ClaimedIsKept' /\ (acked \subseteq claimed)'
<1>0. TypeOK /\ DeliveryOK /\ ClaimantCredits /\ ClaimedIsKept /\ acked \subseteq claimed
  BY DEF IInv
<1>1. inbox' = inbox /\ claimed \subseteq claimed' /\ failed \subseteq failed'
  BY Grows
<1>2. (acked \subseteq claimed)'
  BY <1>0, <1>1 DEF Next, vars, paystack, Deliver, WebhookStep, Resolve, Drop, Claim, Credit,
     Activate, Ignore, Acknowledge, HandlerFails, CancelStep, ReadRow, WriteCancel, OwnerStep,
     StartUpgrade, BindCheckout, StartCancel, ActionFails, DeliveryOK
<1>3. ASSUME NEW e \in claimed' \ failed', TopUp(e)
      PROVE  credits'[e] = 1 \/ \E d \in Deliveries : pc'[d] = "apply" /\ event'[d] = e
  <2>1. CASE e \notin claimed
    <3>1. PICK d \in Deliveries : event[d] = e /\ (Claim(d) \/ Drop(d))
      BY <2>1, <1>3 DEF Next, vars, store, Deliver, WebhookStep, Resolve, Credit, Activate,
         Ignore, Acknowledge, HandlerFails, CancelStep, ReadRow, WriteCancel, OwnerStep,
         StartUpgrade, BindCheckout, StartCancel, ActionFails, Claim, Drop
    <3>2. ~Drop(d)
      BY <3>1, <1>3, <1>0 DEF Drop, DeliveryOK
    <3> QED BY <3>1, <3>2, <2>1, <1>3, <1>0 DEF Claim, Claims, Content, TopUp, Goto, TypeOK, Actors
  <2>2. CASE e \in claimed
    <3>1. credits[e] = 1 \/ InHand(e)
      BY <2>2, <1>3, <1>1, <1>0 DEF ClaimedIsKept
    <3>2. CASE credits[e] = 1
      <4>1. ASSUME NEW d \in Deliveries, Credit(d) PROVE event[d] # e
        BY <4>1, <3>2, <1>0 DEF Credit, ClaimantCredits
      <4> QED BY <3>2, <4>1, <1>0 DEF Next, vars, store, Deliver, WebhookStep, Resolve, Drop,
            Claim, Credit, Activate, Ignore, Acknowledge, HandlerFails, CancelStep, ReadRow,
            WriteCancel, OwnerStep, StartUpgrade, BindCheckout, StartCancel, ActionFails, TypeOK
    <3>3. CASE InHand(e)
      <4>1. PICK d \in Deliveries : pc[d] = "apply" /\ event[d] = e
        BY <3>3 DEF InHand
      <4>2. Content(d).does = "topup" /\ credits[e] = 0 /\ e \in Events
        BY <4>1, <1>3, <1>0 DEF Content, TopUp, ClaimantCredits, DeliveryOK
      <4>3. \/ Credit(d)
            \/ pc'[d] = "apply" /\ event'[d] = e
            \/ e \in failed'
        BY <4>1, <4>2, <1>0, BillingAssumption DEF Next, vars, Deliver, WebhookStep, Resolve,
           Drop, Claim, Credit, Activate, Ignore, Acknowledge, HandlerFails, CancelStep,
           ReadRow, WriteCancel, OwnerStep, StartUpgrade, BindCheckout, StartCancel,
           ActionFails, Goto, TypeOK, Actors
      <4> QED BY <4>1, <4>2, <4>3, <1>3, <1>0 DEF Credit, TypeOK
    <3> QED BY <3>1, <3>2, <3>3
  <2> QED BY <2>1, <2>2
<1>4. ClaimedIsKept'
  BY <1>1, <1>3 DEF ClaimedIsKept, InHand, TopUp
<1> QED BY <1>2, <1>4

(* The strengthened invariant holds in every reachable state.               *)
THEOREM SpecIInv == Spec => []IInv
<1>1. IInv /\ [Next]_vars => IInv'
  BY TypeStep, StageStep, CreditStep, PaidStep, KeptStep DEF IInv
<1> QED BY InitIInv, <1>1, PTL DEF Spec

(* The types of the subscription, the claims and the handlers.              *)
THEOREM SpecTypeOK == Spec => []TypeOK
<1>1. IInv => TypeOK
  BY DEF IInv
<1> QED BY SpecIInv, <1>1, PTL

(* claimEvent's rowcount is the single arbiter: a top-up is credited at     *)
(* most once, for any number of redeliveries, in any interleaving.          *)
THEOREM SingleCredit == Spec => []CreditedOnce
<1>1. IInv => CreditedOnce
  BY DEF IInv
<1> QED BY SpecIInv, <1>1, PTL

(* activatePlan is where a plan becomes active; the rows cancelPlan and     *)
(* startUpgradeAction write never make an unpaid plan active.               *)
THEOREM OnlyPaidPlans == Spec => []ActiveIsPaid
<1>1. IInv => ActiveIsPaid
  BY DEF IInv, PaidRows, Paid, ActiveIsPaid
<1> QED BY SpecIInv, <1>1, PTL

(* A top-up that was acknowledged without being credited had a handler that *)
(* failed: no interleaving of handlers that go on loses one.                *)
THEOREM NoTopUpLost == Spec => []LostOnlyByFailure
<1>1. IInv => LostOnlyByFailure
  BY DEF IInv, ClaimedIsKept, LostOnlyByFailure, Handled, InHand, TopUp
<1> QED BY SpecIInv, <1>1, PTL
=============================================================================
