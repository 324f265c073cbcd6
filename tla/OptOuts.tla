------------------------------ MODULE OptOuts ------------------------------
(***************************************************************************)
(* One customer's phone number: the STOP she sends (webhooks/              *)
(* africas-talking), the registry that keeps it (lib/smsOptOut.ts: a set   *)
(* in the memory of each server process, and a tag on the CRM contact),    *)
(* whatever writes that contact (leads, bookings, the owner's CRM form),   *)
(* and the owner's SMS route.  Each CRM call is a step of its own: an      *)
(* upsert looks the contact up and then writes it, and no key keeps two    *)
(* contacts with one number apart.                                         *)
(***************************************************************************)
EXTENDS Naturals, FiniteSets

CONSTANTS
  Rows,      \* crm_contacts with this phone number
  Nodes,     \* server processes
  Stops,     \* STOP messages
  Writers,   \* requests that upsert the contact
  Sends,     \* SMS requests of the owner to this number
  NoRow, NoNode

(* What the proofs assume of them.                                          *)
OptOutAssumption == IsFiniteSet(Rows) /\ NoRow \notin Rows /\ NoNode \notin Nodes

VARIABLES
  resolved,  \* is the receiving number configured as one tenant's?
  contact,   \* the contacts: [exists, tagged]
  newest,    \* the contact updated last, or NoRow: first of listContacts
  memory,    \* optOutSet of each process: the keys of this number
  stop,      \* STOP messages: [at, node, row]
  upsert,    \* contact writers: [at, kind, row]
  send,      \* SMS requests: idle, sent or blocked
  tagged,    \* history: a STOP's tag was written to a contact
  retagged   \* history: the owner saved the contact with the CRM form

crm == <<contact, newest>>
history == <<tagged, retagged>>
optOutVars == <<resolved, crm, memory, stop, upsert, send, history>>

(* storeKey(tenantId, phone), by its tenant; "platform" is the sentinel.    *)
StoreKeys == {"tenant", "platform"}
UpsertKinds == {"lead", "booking", "owner"}

ContactStates == [exists : BOOLEAN, tagged : BOOLEAN]
StopStates == [at : {"idle", "list", "find", "write", "done"},
               node : Nodes \cup {NoNode}, row : Rows \cup {NoRow}]
UpsertStates == [at : {"idle", "write", "done"}, kind : UpsertKinds, row : Rows \cup {NoRow}]

TypeOK ==
  /\ resolved \in BOOLEAN
  /\ contact \in [Rows -> ContactStates]
  /\ newest \in Rows \cup {NoRow}
  /\ memory \in [Nodes -> SUBSET StoreKeys]
  /\ stop \in [Stops -> StopStates]
  /\ upsert \in [Writers -> UpsertStates]
  /\ send \in [Sends -> {"idle", "sent", "blocked"}]
  /\ tagged \in BOOLEAN
  /\ retagged \in BOOLEAN

Init ==
  /\ resolved \in BOOLEAN
  /\ contact = [r \in Rows |-> [exists |-> FALSE, tagged |-> FALSE]]
  /\ newest = NoRow
  /\ memory = [n \in Nodes |-> {}]
  /\ stop = [s \in Stops |-> [at |-> "idle", node |-> NoNode, row |-> NoRow]]
  /\ upsert \in [Writers -> {[at |-> "idle", kind |-> k, row |-> NoRow] : k \in UpsertKinds}]
  /\ send = [m \in Sends |-> "idle"]
  /\ tagged = FALSE
  /\ retagged = FALSE

Existing == {r \in Rows : contact[r].exists}

(* findFirst by phone, in no order.                                         *)
Found(r) == IF Existing = {} THEN r = NoRow ELSE r \in Existing

-----------------------------------------------------------------------------
(* Writers of the contact.                                                  *)

UpsertFinds(w) ==
  /\ upsert[w].at = "idle"
  /\ \E r \in Rows \cup {NoRow} :
       /\ Found(r)
       /\ upsert' = [upsert EXCEPT ![w].at = "write", ![w].row = r]
  /\ UNCHANGED <<resolved, crm, memory, stop, send, history>>

(* Mutant: an upsert without tags clears them.                              *)
TagsAfter_Cleared(kind, was) == FALSE

(* A lead and a booking leave the tags alone; the CRM form sends none, and  *)
(* its route writes the empty list.                                         *)
TagsAfter(kind, was) == kind # "owner" /\ was

WriteRow(r, tags) ==
  /\ contact' = [contact EXCEPT ![r] = [exists |-> TRUE, tagged |-> tags]]
  /\ newest' = r

(* An update of the row that was found, or a new row.                       *)
UpsertWrites(w) ==
  LET found == upsert[w].row
      kind == upsert[w].kind
  IN
  /\ upsert[w].at = "write"
  /\ IF found # NoRow
     THEN WriteRow(found, TagsAfter(kind, contact[found].tagged))
     ELSE \E r \in Rows \ Existing : WriteRow(r, FALSE)
  /\ retagged' = (retagged \/ (kind = "owner" /\ found # NoRow))
  /\ upsert' = [upsert EXCEPT ![w].at = "done"]
  /\ UNCHANGED <<resolved, memory, stop, send, tagged>>

-----------------------------------------------------------------------------
(* A STOP.                                                                  *)

KeyOfStop == IF resolved THEN "tenant" ELSE "platform"

(* addOptOut: the memory of the process that got it.                        *)
StopArrives(s, n) ==
  /\ stop[s].at = "idle"
  /\ memory' = [memory EXCEPT ![n] = @ \cup {KeyOfStop}]
  /\ stop' = [stop EXCEPT ![s].at = "list", ![s].node = n]
  /\ UNCHANGED <<resolved, crm, upsert, send, history>>

(* persistTagAdd lists the tenant's contacts; the sentinel has none.        *)
StopLists(s) ==
  /\ stop[s].at = "list"
  /\ stop' = [stop EXCEPT ![s].at =
       IF resolved /\ newest # NoRow THEN "find" ELSE "done"]
  /\ UNCHANGED <<resolved, crm, memory, upsert, send, history>>

(* upsertContact looks the number up again ...                              *)
StopFinds(s) ==
  /\ stop[s].at = "find"
  /\ \E r \in Existing : stop' = [stop EXCEPT ![s].at = "write", ![s].row = r]
  /\ UNCHANGED <<resolved, crm, memory, upsert, send, history>>

(* ... and writes the tags of the one listed, with the opt-out.             *)
StopTags(s) ==
  /\ stop[s].at = "write"
  /\ WriteRow(stop[s].row, TRUE)
  /\ tagged' = TRUE
  /\ stop' = [stop EXCEPT ![s].at = "done"]
  /\ UNCHANGED <<resolved, memory, upsert, send, retagged>>

(* The CRM fails, "best-effort", or the process dies.                       *)
StopGivesUp(s) ==
  /\ stop[s].at \in {"list", "find", "write"}
  /\ stop' = [stop EXCEPT ![s].at = "done"]
  /\ UNCHANGED <<resolved, crm, memory, upsert, send, history>>

(* A process is replaced: its memory is empty.                              *)
Restart(n) ==
  /\ memory[n] # {}
  /\ \A s \in Stops : stop[s].node = n => stop[s].at = "done"
  /\ memory' = [memory EXCEPT ![n] = {}]
  /\ UNCHANGED <<resolved, crm, stop, upsert, send, history>>

-----------------------------------------------------------------------------
(* POST /api/sms/send.                                                      *)

(* The first contact of the list with this number carries the tag.          *)
Tagged == newest # NoRow /\ contact[newest].tagged

IsOptedOut(n) == "tenant" \in memory[n] \/ Tagged

(* A number that opted out is left out; a tag that was found is remembered. *)
Check(m, n) ==
  /\ send[m] = "idle"
  /\ send' = [send EXCEPT ![m] = IF IsOptedOut(n) THEN "blocked" ELSE "sent"]
  /\ memory' = IF Tagged THEN [memory EXCEPT ![n] = @ \cup {"tenant"}] ELSE memory
  /\ UNCHANGED <<resolved, crm, stop, upsert, history>>

-----------------------------------------------------------------------------
Next ==
  \/ \E w \in Writers : UpsertFinds(w) \/ UpsertWrites(w)
  \/ \E s \in Stops :
       \/ \E n \in Nodes : StopArrives(s, n)
       \/ StopLists(s) \/ StopFinds(s) \/ StopTags(s) \/ StopGivesUp(s)
  \/ \E n \in Nodes : Restart(n)
  \/ \E m \in Sends, n \in Nodes : Check(m, n)

Spec == Init /\ [][Next]_optOutVars

-----------------------------------------------------------------------------
(* What the registry keeps: once a STOP's tag is on the only contact with   *)
(* the number, no lead, booking, further STOP or restart of a process makes *)
(* the number be messaged again; only the owner's own form clears it.       *)
OptOutKept ==
  tagged /\ ~retagged /\ Cardinality(Existing) = 1
    => \A n \in Nodes : IsOptedOut(n)
=============================================================================
