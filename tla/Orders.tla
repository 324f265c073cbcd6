------------------------------ MODULE Orders ------------------------------
(* A WhatsApp order and its payment link: the owner's two calls             *)
(* (app/whatsapp/actions.ts), the customer's checkout page                  *)
(* (app/pay/[ref]/page.tsx), the public API behind it                       *)
(* (app/api/pay/[ref]/route.ts) and the Stripe session that is the page's   *)
(* other way to pay.  Nobody but the page tells the order of a payment: the *)
(* Paystack webhook never touches orders and the Stripe one only logs.      *)
EXTENDS Naturals, FiniteSets

CONSTANTS
  Links,      \* the owner's calls of createPaymentLinkAction
  Tabs,       \* the pages on which a customer has the link open
  MaxCharges  \* bound: charges the providers take for the order

VARIABLES
  order,    \* the row: status, and whether its payment link was bound
  link,     \* the steps of each call that makes the link
  tab,      \* each page: the screen it shows, and the status it loaded
  charges,  \* how often a provider took the order's money
  slips     \* how often a charge was taken blindly, or its record was lost

vars == <<order, link, tab, charges, slips>>

Settled == {"paid", "fulfilled"}
Screens == {"closed", "ready", "popup", "charged", "posting", "stripe", "success", "error"}

Closed == [screen |-> "closed", seen |-> "none"]

TypeOK ==
  /\ order \in [status : {"none", "draft", "sent", "paid"}, linked : BOOLEAN]
  /\ link \in [Links -> {"idle", "found", "done", "denied"}]
  /\ tab \in [Tabs -> [screen : Screens, seen : {"none", "sent", "paid"}]]
  /\ charges \in 0..MaxCharges
  /\ slips \in Nat

Init ==
  /\ order = [status |-> "none", linked |-> FALSE]
  /\ link = [l \in Links |-> "idle"]
  /\ tab = [t \in Tabs |-> Closed]
  /\ charges = 0
  /\ slips = 0

(* createOrderAction: an order needs a line that names a product of the     *)
(* catalogue; a call without one throws and changes nothing.                *)
CreateOrder ==
  /\ order.status = "none"
  /\ order' = [order EXCEPT !.status = "draft"]
  /\ UNCHANGED <<link, tab, charges, slips>>

(* createPaymentLinkAction up to its read: no step-up, a refused approval   *)
(* or no such order denies it.                                              *)
StartLink(l) ==
  /\ link[l] = "idle"
  /\ \E verdict \in {"denied", "found"} :
       /\ verdict = "found" => order.status # "none"
       /\ link' = [link EXCEPT ![l] = verdict]
  /\ UNCHANGED <<order, tab, charges, slips>>

(* The status createOrderPaymentLink leaves, whatever it was.               *)
Linked(was) == "sent"

BindLink(l) ==
  /\ link[l] = "found"
  /\ link' = [link EXCEPT ![l] = "done"]
  /\ order' = [status |-> Linked(order.status), linked |-> TRUE]
  /\ slips' = slips + Cardinality({order.status} \cap Settled)
  /\ UNCHANGED <<tab, charges>>

(* Mutant: the page is served whatever the order's status.                  *)
Loaded_AlwaysReady(status) == "ready"

(* What the page shows of GET /api/pay/[ref].                               *)
Loaded(status) == IF status \in Settled THEN "success" ELSE "ready"

(* The page mounts: without the bound reference the lookup is a 404.        *)
OpenPage(t) ==
  /\ tab[t].screen = "closed"
  /\ tab' = [tab EXCEPT ![t] =
       IF order.linked THEN [screen |-> Loaded(order.status), seen |-> order.status]
       ELSE [Closed EXCEPT !.screen = "error"]]
  /\ UNCHANGED <<order, link, charges, slips>>

(* handlePay opens Paystack's popup on what the page loaded, each time with *)
(* a reference of its own; onClose gives the page back.                     *)
Pay(t) ==
  /\ tab[t].screen = "ready"
  /\ tab' = [tab EXCEPT ![t].screen = "popup"]
  /\ UNCHANGED <<order, link, charges, slips>>

ClosePopup(t) ==
  /\ tab[t].screen = "popup"
  /\ tab' = [tab EXCEPT ![t].screen = "ready"]
  /\ UNCHANGED <<order, link, charges, slips>>

(* A charge is on its way to the row of the order.                          *)
InFlight == \E t \in Tabs : tab[t].screen \in {"charged", "posting"}

(* The page loaded the order before another page settled it.                *)
Outdated(t) == order.status \in Settled /\ tab[t].seen \notin Settled

(* A provider takes the money: blindly, where another page has settled the  *)
(* order since this one loaded it, or is about to.                          *)
Charge(t, screen) ==
  /\ charges < MaxCharges
  /\ charges' = charges + 1
  /\ tab' = [tab EXCEPT ![t].screen = screen]
  /\ UNCHANGED <<order, link>>

PaystackCharges(t) ==
  /\ tab[t].screen = "popup"
  /\ Charge(t, "charged")
  /\ slips' = IF InFlight \/ Outdated(t) THEN slips + 1 ELSE slips

(* The callback's POST finds the order; one already settled is acknowledged *)
(* and left alone.                                                          *)
PostFinds(t) ==
  /\ tab[t].screen = "charged"
  /\ tab' = [tab EXCEPT ![t].screen = IF order.status \in Settled THEN "success" ELSE "posting"]
  /\ UNCHANGED <<order, link, charges, slips>>

(* Mutant: the POST takes the order for delivered as well.                  *)
Posted_Fulfilled(was) == "fulfilled"

(* The status the POST writes.                                              *)
Posted(was) == "paid"

PostSettles(t) ==
  /\ tab[t].screen = "posting"
  /\ order' = [order EXCEPT !.status = Posted(@)]
  /\ tab' = [tab EXCEPT ![t].screen = "success"]
  /\ UNCHANGED <<link, charges, slips>>

(* The POST fails, or never leaves a page that was closed: the page shows   *)
(* its success all the same and the order is never told.                    *)
PostLost(t) ==
  /\ tab[t].screen \in {"charged", "posting"}
  /\ \E screen \in {"success", "closed"} : tab' = [tab EXCEPT ![t].screen = screen]
  /\ slips' = slips + 1
  /\ UNCHANGED <<order, link, charges>>

(* handleStripeCheckout: POST stripe-session refuses a settled order (409)  *)
(* and otherwise sends the browser to a session of its own.                 *)
StripeSession(t) ==
  /\ tab[t].screen = "ready"
  /\ order.status \notin Settled
  /\ tab' = [tab EXCEPT ![t].screen = "stripe"]
  /\ UNCHANGED <<order, link, charges, slips>>

(* Stripe takes the money and redirects to the page, which loads again; its *)
(* webhook only writes a log line.                                          *)
StripeCharges(t) ==
  /\ tab[t].screen = "stripe"
  /\ Charge(t, "closed")
  /\ slips' = slips + 1

(* The customer leaves, or comes back with cancel_url.                      *)
Leave(t) ==
  /\ tab[t].screen \in {"ready", "popup", "stripe", "success", "error"}
  /\ tab' = [tab EXCEPT ![t].screen = "closed"]
  /\ UNCHANGED <<order, link, charges, slips>>

Page(t) ==
  \/ OpenPage(t) \/ Pay(t) \/ ClosePopup(t) \/ PaystackCharges(t)
  \/ PostFinds(t) \/ PostSettles(t) \/ PostLost(t)
  \/ StripeSession(t) \/ StripeCharges(t) \/ Leave(t)

Next ==
  \/ CreateOrder
  \/ \E l \in Links : StartLink(l) \/ BindLink(l)
  \/ \E t \in Tabs : Page(t)

Spec == Init /\ [][Next]_vars

-----------------------------------------------------------------------------
(* A customer is charged again for an order only as often as a charge was   *)
(* taken blindly, its record was lost or its settled status was written     *)
(* over: what the already-paid answers of the page's API are there for.     *)
ChargedAgainBySlip == charges <= slips + 1
=============================================================================
