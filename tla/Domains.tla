------------------------------ MODULE Domains ------------------------------
(* Registering, renewing and transferring a domain name (app/domains/       *)
(* actions.ts, integrations/domain): the owner's call redeems an approval   *)
(* at the action router, which dispatches the verb to the registrar and     *)
(* leaves an operation; then the call writes the tenant's row and charges   *)
(* the wallet, each in a transaction of its own, and swallows what fails.   *)
(* A hostname has one row for all tenants.                                  *)
EXTENDS Naturals

CONSTANTS
  Names,    \* hostnames that pass validateHostname
  Tenants,
  Calls,    \* calls of runDomainGatedAction
  NoName

VARIABLES
  available,  \* does the registrar hold the name free (a hash of the name)?
  row,        \* the rows of Domain, by hostname: none is tenant 0
  call,       \* each call: where it is, what it asks, the row it found
  operation,  \* each call's operation
  charged,    \* the calls that were metered
  excused     \* history: the calls that could not record what was accepted

vars == <<available, row, call, operation, charged, excused>>

Verbs == {"register", "transfer", "renew"}
NoRow == [tenant |-> 0, status |-> "none", by |-> NoName]
RowStatuses == {"none", "pending_registration", "transfer_pending"}
Steps == {"idle", "approved", "look", "write", "meter", "accepted", "denied", "dead"}

TypeOK ==
  /\ available \in [Names -> BOOLEAN]
  /\ row \in [Names -> [tenant : {0} \cup Tenants, status : RowStatuses,
                        by : Calls \cup {NoName}]]
  /\ call \in [Calls -> [at : Steps, verb : Verbs, tenant : Tenants, name : Names,
                         found : BOOLEAN]]
  /\ operation \in [Calls -> {"none", "pending", "succeeded", "failed"}]
  /\ charged \subseteq Calls
  /\ excused \subseteq Calls

Init ==
  /\ available \in [Names -> BOOLEAN]
  /\ row = [n \in Names |-> NoRow]
  /\ call \in [Calls -> [at : {"idle"}, verb : Verbs, tenant : Tenants, name : Names,
                         found : {FALSE}]]
  /\ operation = [c \in Calls |-> "none"]
  /\ charged = {}
  /\ excused = {}

Goto(c, step) == call' = [call EXCEPT ![c].at = step]

-----------------------------------------------------------------------------
(* Without the step-up box the call is refused at once; else it mints the   *)
(* approval it is going to redeem, under a key of its own.                  *)
Begin(c) ==
  /\ call[c].at = "idle"
  /\ \E stepUp \in BOOLEAN : Goto(c, IF stepUp THEN "approved" ELSE "denied")
  /\ UNCHANGED <<available, row, operation, charged, excused>>

(* The registrar takes a name that is free, a transfer that comes with its  *)
(* code, and any renewal.                                                   *)
RegistrarAccepts(verb, name, coded) ==
  CASE verb = "register" -> available[name]
    [] verb = "transfer" -> coded
    [] verb = "renew"    -> TRUE

(* executeAction: denied for the plan or the balance, or an operation,      *)
(* which has failed already when the registrar refused.                     *)
Dispatch(c) ==
  /\ call[c].at = "approved"
  /\ \/ /\ Goto(c, "denied")
        /\ UNCHANGED operation
     \/ \E coded \in BOOLEAN :
          LET ok == RegistrarAccepts(call[c].verb, call[c].name, coded)
          IN /\ operation' = [operation EXCEPT ![c] = IF ok THEN "pending" ELSE "failed"]
             /\ Goto(c, IF ok THEN "look" ELSE "accepted")
  /\ UNCHANGED <<available, row, charged, excused>>

(* getByHostname: the tenant's own row.                                     *)
Look(c) ==
  /\ call[c].at = "look"
  /\ call' = [call EXCEPT ![c].at = "write",
                          ![c].found = row[call[c].name].tenant = call[c].tenant]
  /\ UNCHANGED <<available, row, operation, charged, excused>>

Written(c) ==
  [tenant |-> call[c].tenant, by |-> c,
   status |-> IF call[c].verb = "transfer" THEN "transfer_pending"
              ELSE "pending_registration"]

(* Mutant: a row that cannot be written does not keep the call from the     *)
(* charge.                                                                  *)
AfterWrite_ChargedAnyway(c, written) ==
  IF call[c].verb = "transfer" THEN "accepted" ELSE "meter"

(* A transfer is not metered; what could not be recorded is not either.     *)
AfterWrite(c, written) ==
  IF call[c].verb = "transfer" \/ ~written THEN "accepted" ELSE "meter"

(* upsertDomainForRegister, upsertDomainForTransfer: update of the row that *)
(* was found, create otherwise; the unique hostname refuses a second row,   *)
(* and the call ends as if nothing had happened.                            *)
Write(c) ==
  LET name == call[c].name
  IN /\ call[c].at = "write"
     /\ \/ /\ call[c].found \/ row[name].tenant = 0
           /\ row' = [row EXCEPT ![name] = Written(c)]
           /\ Goto(c, AfterWrite(c, TRUE))
           /\ UNCHANGED excused
        \/ /\ ~call[c].found /\ row[name].tenant # 0
           /\ Goto(c, AfterWrite(c, FALSE))
           /\ excused' = excused \cup {c}
           /\ UNCHANGED row
     /\ UNCHANGED <<available, operation, charged>>

(* meterDomainVerb, once by the operation's key; what it throws is swallowed*)
Meter(c) ==
  /\ call[c].at = "meter"
  /\ Goto(c, "accepted")
  /\ \/ charged' = charged \cup {c} /\ UNCHANGED excused
     \/ excused' = excused \cup {c} /\ UNCHANGED charged
  /\ UNCHANGED <<available, row, operation>>

(* The process dies between two steps.                                      *)
Crash(c) ==
  /\ call[c].at \in {"look", "write", "meter"}
  /\ Goto(c, "dead")
  /\ excused' = excused \cup {c}
  /\ UNCHANGED <<available, row, operation, charged>>

(* The reconcile, a poll or the webhook settles the operation.  Nothing     *)
(* tells the row, and nothing is given back.                                *)
Settle(c) ==
  /\ operation[c] = "pending"
  /\ \E outcome \in {"succeeded", "failed"} :
       operation' = [operation EXCEPT ![c] = outcome]
  /\ UNCHANGED <<available, row, call, charged, excused>>

Next ==
  \E c \in Calls :
    Begin(c) \/ Dispatch(c) \/ Look(c) \/ Write(c) \/ Meter(c) \/ Crash(c) \/ Settle(c)

Spec == Init /\ [][Next]_vars

-----------------------------------------------------------------------------
(* A tenant is charged for a name only when the name is on record as the    *)
(* tenant's, and for a verb the registrar took; and what was accepted is on *)
(* record, and charged unless it is a transfer, save where another tenant   *)
(* holds the name, a write failed or the process died: whichever tenant     *)
(* came first and wherever a call stopped.                                  *)
ChargedIsOnRecord ==
  \A c \in charged :
    /\ row[call[c].name].tenant = call[c].tenant
    /\ call[c].verb # "transfer"
    /\ call[c].verb = "register" => available[call[c].name]

AcceptedIsRecorded ==
  \A c \in Calls \ excused :
    call[c].at = "accepted" /\ operation[c] \in {"pending", "succeeded"} =>
      /\ row[call[c].name].tenant = call[c].tenant
      /\ call[c].verb # "transfer" => c \in charged

RecordAndChargeAgree == ChargedIsOnRecord /\ AcceptedIsRecorded
=============================================================================
