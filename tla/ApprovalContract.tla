-------------------------- MODULE ApprovalContract --------------------------
(***************************************************************************)
(* What an approval promises (core/approvalToken.ts, "Binding properties"):*)
(* the owner grants a nonce for one action; one agent spends it; only that *)
(* agent performs the action, and at most once.                            *)
(***************************************************************************)
CONSTANTS
  Nonces,   \* the approvals there can be
  Claims,   \* the actions an approval can be for
  Agents,   \* who can present an approval
  None

VARIABLES
  granted,     \* the action each nonce was granted for, or None
  spentBy,     \* the agent that spent it, or None
  performers   \* the agents that performed the action it authorises

vars == <<granted, spentBy, performers>>

Init ==
  /\ granted = [n \in Nonces |-> None]
  /\ spentBy = [n \in Nonces |-> None]
  /\ performers = [n \in Nonces |-> {}]

Grant(n, c) ==
  /\ granted[n] = None
  /\ granted' = [granted EXCEPT ![n] = c]
  /\ UNCHANGED <<spentBy, performers>>

Spend(n, a) ==
  /\ granted[n] # None
  /\ spentBy[n] = None
  /\ spentBy' = [spentBy EXCEPT ![n] = a]
  /\ UNCHANGED <<granted, performers>>

Perform(n, a) ==
  /\ spentBy[n] = a
  /\ performers[n] = {}
  /\ performers' = [performers EXCEPT ![n] = {a}]
  /\ UNCHANGED <<granted, spentBy>>

Next ==
  \E n \in Nonces :
    \/ \E c \in Claims : Grant(n, c)
    \/ \E a \in Agents : Spend(n, a) \/ Perform(n, a)

Spec == Init /\ [][Next]_vars
=============================================================================
