---------------------------- MODULE CreditLedger ----------------------------
(***************************************************************************)
(* What the metering ledger promises (lib/billing/metering.ts): an entry   *)
(* is posted once per accounting key, and posting it takes its amount off  *)
(* the balance in the same step; only a credit puts money on.              *)
(***************************************************************************)
EXTENDS Integers

CONSTANTS
  Keys,      \* the accounting keys
  Amounts,   \* the amounts an entry can have
  Credits,   \* the amounts a credit can have
  None

VARIABLES
  entries,   \* the amount posted under each key, or None
  balance

vars == <<entries, balance>>

Init ==
  /\ entries = [k \in Keys |-> None]
  /\ balance = 0

Post(k, a) ==
  /\ entries[k] = None
  /\ entries' = [entries EXCEPT ![k] = a]
  /\ balance' = balance - a

Credit(c) ==
  /\ balance' = balance + c
  /\ UNCHANGED entries

Next ==
  \/ \E k \in Keys, a \in Amounts : Post(k, a)
  \/ \E c \in Credits : Credit(c)

Spec == Init /\ [][Next]_vars
=============================================================================
