------------------------------ MODULE Bookings ------------------------------
(***************************************************************************)
(* Appointments: visitors book a slot on the published site                *)
(* (api/book/[slug]: look the slot up, then insert; no key of the table    *)
(* covers the slot), the owner moves bookings between statuses             *)
(* (api/dashboard/bookings).  The CRM contact is OptOuts'.                 *)
(***************************************************************************)
EXTENDS Naturals, FiniteSets

CONSTANTS
  Visitors,  \* booking requests; each makes at most one booking
  Slots,     \* (date, time) pairs that may be booked
  NoSlot

VARIABLES
  booking,  \* bookings, by the request that made it: its status, or "none"
  slot,     \* the slot each request asks for
  visitor,  \* where each request stands
  told      \* the visitors who were sent "your booking is confirmed"

bookingVars == <<booking, slot, visitor, told>>

BookingStatuses == {"none", "pending", "confirmed", "cancelled"}

TypeOK ==
  /\ booking \in [Visitors -> BookingStatuses]
  /\ slot \in [Visitors -> Slots \cup {NoSlot}]
  /\ visitor \in [Visitors -> {"idle", "insert", "confirm", "done", "taken"}]
  /\ told \subseteq Visitors

Init ==
  /\ booking = [v \in Visitors |-> "none"]
  /\ slot = [v \in Visitors |-> NoSlot]
  /\ visitor = [v \in Visitors |-> "idle"]
  /\ told = {}

(* A booking of any status, a cancelled one too, keeps its slot.            *)
InSlot(s) == {v \in Visitors : booking[v] # "none" /\ slot[v] = s}

(* "Conflict check: reject double-booking the same slot".                   *)
Look(v, s) ==
  /\ visitor[v] = "idle"
  /\ slot' = [slot EXCEPT ![v] = s]
  /\ visitor' = [visitor EXCEPT ![v] = IF InSlot(s) = {} THEN "insert" ELSE "taken"]
  /\ UNCHANGED <<booking, told>>

Insert(v) ==
  /\ visitor[v] = "insert"
  /\ booking' = [booking EXCEPT ![v] = "pending"]
  /\ visitor' = [visitor EXCEPT ![v] = "confirm"]
  /\ UNCHANGED <<slot, told>>

(* The WhatsApp message goes out, or fails, or is not configured.           *)
Confirm(v) ==
  /\ visitor[v] = "confirm"
  /\ told' \in {told, told \cup {v}}
  /\ visitor' = [visitor EXCEPT ![v] = "done"]
  /\ UNCHANGED <<booking, slot>>

Dies(v) ==
  /\ visitor[v] \in {"insert", "confirm"}
  /\ visitor' = [visitor EXCEPT ![v] = "done"]
  /\ UNCHANGED <<booking, slot, told>>

(* The owner's PATCH: any status over any other.                            *)
SetStatus(v) ==
  /\ booking[v] # "none"
  /\ \E status \in BookingStatuses \ {"none"} :
       booking' = [booking EXCEPT ![v] = status]
  /\ UNCHANGED <<slot, visitor, told>>

Next ==
  \E v \in Visitors :
    \/ \E s \in Slots : Look(v, s)
    \/ Insert(v) \/ Confirm(v) \/ Dies(v) \/ SetStatus(v)

Spec == Init /\ [][Next]_bookingVars

-----------------------------------------------------------------------------
(* What a comment of the code says and the code does not do.                *)

(* book/[slug]/route.ts:195, "reject double-booking the same slot".         *)
NoDoubleBooking == \A s \in Slots : Cardinality(InSlot(s)) <= 1
=============================================================================
