------------------------- MODULE ActionRouterProofs -------------------------
(***************************************************************************)
(* The ActionRouter's guarantees for every number of tenants, nonces and   *)
(* concurrent calls.                                                       *)
(***************************************************************************)
EXTENDS ActionRouter, TLAPS

(* Where a request has not yet touched the approval ledger, or never will.  *)
Unspent == {"idle", "entitlement", "credits", "token", "deny", "denied"}

(* Where a request has passed the ledger and can still reach the adapter.   *)
Granted == {"find", "create", "dispatch", "calling", "settle", "allow"}

(* A token presented is a token that was issued.                            *)
Presented ==
  \A r \in Requests :
    pc[r] # "idle" /\ args[r].token \in Nonces => approvals[args[r].token] \in Claims

SpendOrder ==
  \A r \in Requests : pc[r] \in Unspent => \A n \in Nonces : consumedBy[n] # r

CallOrder ==
  \A r \in Requests :
    /\ pc[r] \in Unspent \cup {"find", "create", "dispatch"} => ~ Called(r)
    /\ pc[r] = "calling" => Called(r)

(* The request holds an approval of exactly its own action, and only it does. *)
Redeemed(r) ==
  /\ args[r].token \in Nonces
  /\ approvals[args[r].token] = Claim(r)
  /\ consumedBy[args[r].token] = r

Authorised ==
  \A r \in Requests : Gated(r) /\ (pc[r] \in Granted \/ Called(r)) => Redeemed(r)

(* The inductive invariant.                                                 *)
IInv == TypeOK /\ Presented /\ SpendOrder /\ CallOrder /\ Authorised

-----------------------------------------------------------------------------
LEMMA InitIInv == Init => IInv
  BY ValuesAssumption
  DEF Init, IInv, TypeOK, Presented, SpendOrder, CallOrder, Authorised, Called,
         Gated, Granted, Unspent, PcSet

LEMMA TypeStep == TypeOK /\ [Next]_vars => TypeOK'
<1> SUFFICES ASSUME TypeOK, [Next]_vars PROVE TypeOK'
  OBVIOUS
<1> USE ValuesAssumption DEF TypeOK, store, ops, world, request
<1>1. ASSUME NEW n \in Nonces, NEW c \in Claims, Issue(n, c) PROVE TypeOK'
  BY <1>1 DEF Issue
<1>2. ASSUME NEW n \in Nonces, TokenExpires(n) PROVE TypeOK'
  BY <1>2 DEF TokenExpires
<1>3. ASSUME NEW r \in Requests, NEW a \in Args, Start(r, a) PROVE TypeOK'
  BY <1>3 DEF Start, Goto, PcSet
<1>4. ASSUME NEW r \in Requests, CheckEntitlement(r) PROVE TypeOK'
  BY <1>4 DEF CheckEntitlement, Goto, PcSet
<1>5. ASSUME NEW r \in Requests, CheckCredits(r) PROVE TypeOK'
  BY <1>5 DEF CheckCredits, Goto, PcSet
<1>6. ASSUME NEW r \in Requests, ConsumeApproval(r) PROVE TypeOK'
  BY <1>6 DEF ConsumeApproval, Goto, PcSet
<1>7. ASSUME NEW r \in Requests, RefuseApproval(r) PROVE TypeOK'
  BY <1>7 DEF RefuseApproval, Goto, PcSet
<1>8. ASSUME NEW r \in Requests, RouteUngated(r) PROVE TypeOK'
  BY <1>8 DEF RouteUngated, Goto, PcSet
<1>9. ASSUME NEW r \in Requests, FindOperation(r) PROVE TypeOK'
  <2>1. Op(r) \in OpKeys
    BY <1>9 DEF FindOperation, Op, OpKeys, Args
  <2>2. QED
    BY <1>9, <2>1 DEF FindOperation, Goto, PcSet
<1>10. ASSUME NEW r \in Requests, CreateOperation(r) PROVE TypeOK'
  <2>1. Op(r) \in OpKeys
    BY <1>10 DEF CreateOperation, Op, OpKeys, Args
  <2>2. QED
    BY <1>10, <2>1 DEF CreateOperation, Goto, PcSet
<1>11. ASSUME NEW r \in Requests, Dispatch(r) PROVE TypeOK'
  BY <1>11 DEF Dispatch, Goto, PcSet
<1>12. ASSUME NEW r \in Requests, NEW result \in {"ok", "rejected", "threw"},
              AdapterReturns(r, result)
       PROVE  TypeOK'
  BY <1>12 DEF AdapterReturns, Goto, PcSet
<1>13. ASSUME NEW r \in Requests, SettleFailed(r) PROVE TypeOK'
  <2>1. Op(r) \in OpKeys
    BY <1>13 DEF SettleFailed, Op, OpKeys, Args
  <2>2. QED
    BY <1>13, <2>1 DEF SettleFailed, Settled, Goto, PcSet, Terminal
<1>14. ASSUME NEW r \in Requests, AuditAllowed(r) PROVE TypeOK'
  BY <1>14 DEF AuditAllowed, Goto, PcSet
<1>15. ASSUME NEW r \in Requests, AuditDenied(r) PROVE TypeOK'
  BY <1>15 DEF AuditDenied, Goto, PcSet
<1>16. ASSUME NEW r \in Requests, Crash(r) PROVE TypeOK'
  BY <1>16 DEF Crash, Goto, PcSet, Ended
<1>17. ASSUME NEW o \in OpKeys, SettleTimeElapses(o) PROVE TypeOK'
  BY <1>17 DEF SettleTimeElapses
<1>18. ASSUME NEW o \in OpKeys, Poll(o) PROVE TypeOK'
  BY <1>18 DEF Poll, Settled, Terminal
<1>19. ASSUME NEW o \in OpKeys, NEW status \in Terminal, WebhookSettle(o, status)
       PROVE  TypeOK'
  BY <1>19 DEF WebhookSettle, Settled, Terminal
<1>20. ASSUME CronReconcile PROVE TypeOK'
  BY <1>20 DEF CronReconcile, Terminal
<1>21. ASSUME NEW t \in Tenants, PlanChanges(t) \/ BalanceMoves(t) PROVE TypeOK'
  BY <1>21 DEF PlanChanges, BalanceMoves
<1>22. CASE UNCHANGED vars
  BY <1>22 DEF vars
<1> QED
  BY <1>1, <1>2, <1>3, <1>4, <1>5, <1>6, <1>7, <1>8, <1>9, <1>10, <1>11, <1>12, <1>13,
     <1>14, <1>15, <1>16, <1>17, <1>18, <1>19, <1>20, <1>21, <1>22
  DEF Next, RequestStep

-----------------------------------------------------------------------------
(* The part of the invariant that ties requests to the ledger.              *)
Tie == Presented /\ SpendOrder /\ CallOrder /\ Authorised

(* Steps that move one request r along without touching the ledger, its     *)
(* arguments or its call: they may not enter a stage it has not earned.     *)
LEMMA MoveKeepsTie ==
  ASSUME NEW r \in Requests, TypeOK, Tie, NEW label \in PcSet,
         pc[r] # "idle",
         label # "calling",
         Goto(r, label),
         UNCHANGED <<approvals, consumedBy, args, call>>,
         label \in Unspent => pc[r] \in Unspent,
         label \in {"find", "create", "dispatch"} =>
           pc[r] \in Unspent \cup {"find", "create", "dispatch"},
         Gated(r) /\ label \in Granted => pc[r] \in Granted
  PROVE  Tie'
<1>1. /\ \A q \in Requests : pc'[q] = IF q = r THEN label ELSE pc[q]
      /\ \A q \in Requests : Claim(q)' = Claim(q) /\ (Gated(q)' <=> Gated(q))
                              /\ (Called(q)' <=> Called(q))
  BY DEF TypeOK, Goto, Claim, Gated, Called
<1>2. Presented'
  BY <1>1 DEF Tie, Presented
<1>3. SpendOrder'
  BY <1>1 DEF Tie, SpendOrder
<1>4. CallOrder'
  BY <1>1 DEF Tie, CallOrder
<1>5. Authorised'
  BY <1>1 DEF Tie, Authorised, Redeemed
<1> QED
  BY <1>2, <1>3, <1>4, <1>5 DEF Tie

(* Steps of the world around the requests.                                  *)
LEMMA WorldKeepsTie ==
  ASSUME Tie, UNCHANGED <<approvals, consumedBy, pc, args, call>>
  PROVE  Tie'
  BY DEF Tie, Presented, SpendOrder, CallOrder, Authorised, Redeemed, Claim, Gated, Called

LEMMA TieStep == IInv /\ [Next]_vars => Tie'
<1> SUFFICES ASSUME IInv, [Next]_vars PROVE Tie'
  OBVIOUS
<1> USE ValuesAssumption DEF store, ops, world, request
<1>t. TypeOK /\ Tie
  BY DEF IInv, Tie
<1>1. ASSUME NEW n \in Nonces, NEW c \in Claims, Issue(n, c) PROVE Tie'
  <2>1. \A m \in Nonces : approvals[m] \in Claims => approvals'[m] = approvals[m]
    BY <1>1, <1>t DEF Issue, TypeOK
  <2>2. \A r \in Requests : args[r] \in Args /\ Gated(r) => Claim(r) \in Claims
    BY DEF Gated, Claim, Claims, Args
  <2>3. \A r \in Requests : Gated(r) => args[r] \in Args
    BY <1>t DEF Gated, TypeOK
  <2>4. Presented'
    BY <1>1, <1>t, <2>1 DEF Issue, Tie, Presented
  <2>5. SpendOrder' /\ CallOrder'
    BY <1>1, <1>t DEF Issue, Tie, SpendOrder, CallOrder, Called
  <2>6. ASSUME NEW q \in Requests, (Gated(q) /\ (pc[q] \in Granted \/ Called(q)))'
        PROVE  Redeemed(q)'
    <3>1. Redeemed(q) /\ Gated(q)
      BY <1>1, <1>t, <2>6 DEF Issue, Tie, Authorised, Gated, Called
    <3>2. approvals[args[q].token] \in Claims
      BY <3>1, <2>2, <2>3 DEF Redeemed
    <3> QED
      BY <1>1, <3>1, <3>2, <2>1 DEF Issue, Redeemed, Claim
  <2>7. Authorised'
    BY <2>6 DEF Authorised
  <2> QED
    BY <2>4, <2>5, <2>7 DEF Tie
<1>2. ASSUME NEW n \in Nonces, TokenExpires(n) PROVE Tie'
  BY <1>2, <1>t, WorldKeepsTie DEF TokenExpires
<1>3. ASSUME NEW r \in Requests, NEW a \in Args, Start(r, a) PROVE Tie'
  <2>1. /\ \A q \in Requests : pc'[q] = IF q = r THEN "entitlement" ELSE pc[q]
        /\ \A q \in Requests : args'[q] = IF q = r THEN a ELSE args[q]
    BY <1>3, <1>t DEF Start, Goto, TypeOK
  <2>2. ~ Called(r) /\ pc[r] \in Unspent
    BY <1>3, <1>t DEF Start, Tie, CallOrder, Unspent
  <2>3. Presented'
    BY <1>3, <1>t, <2>1 DEF Start, Tie, Presented, TypeOK
  <2>4. SpendOrder'
    BY <1>3, <1>t, <2>1, <2>2 DEF Start, Tie, SpendOrder
  <2>5. CallOrder'
    BY <1>3, <1>t, <2>1, <2>2 DEF Start, Tie, CallOrder, Called
  <2>6. ASSUME NEW q \in Requests, (Gated(q) /\ (pc[q] \in Granted \/ Called(q)))'
        PROVE  Redeemed(q)'
    <3>1. q # r
      BY <1>3, <2>1, <2>2, <2>6 DEF Start, Granted, Called
    <3>2. Redeemed(q)
      BY <1>3, <1>t, <2>1, <2>6, <3>1 DEF Start, Tie, Authorised, Called, Gated
    <3>3. args'[q] = args[q] /\ UNCHANGED <<approvals, consumedBy>>
      BY <1>3, <2>1, <3>1 DEF Start
    <3> QED
      BY <3>2, <3>3 DEF Redeemed, Claim
  <2>7. Authorised'
    BY <2>6 DEF Authorised
  <2> QED
    BY <2>3, <2>4, <2>5, <2>7 DEF Tie
<1>4. ASSUME NEW r \in Requests, CheckEntitlement(r) PROVE Tie'
  BY <1>4, <1>t, MoveKeepsTie DEF CheckEntitlement, Unspent, Granted, PcSet
<1>5. ASSUME NEW r \in Requests, CheckCredits(r) PROVE Tie'
  BY <1>5, <1>t, MoveKeepsTie DEF CheckCredits, Unspent, Granted, PcSet
<1>6. ASSUME NEW r \in Requests, ConsumeApproval(r) PROVE Tie'
  <2> DEFINE n == args[r].token
  <2>1. /\ args[r] \in Args
        /\ n \in Nonces
        /\ approvals[n] \in Claims
        /\ consumedBy[n] = None
    BY <1>6, <1>t DEF ConsumeApproval, TokenValid, TokenBound, Consumable, Tie, Presented, TypeOK
  <2>2. approvals[n] = Claim(r)
    BY <1>6, <2>1 DEF ConsumeApproval, TokenValid, TokenBound, Consumable, Claims, Claim
  <2>3. /\ pc'[r] \in {"find", "dispatch"}
        /\ \A q \in Requests : q # r => pc'[q] = pc[q]
        /\ \A m \in Nonces : consumedBy'[m] = IF m = n THEN r ELSE consumedBy[m]
        /\ UNCHANGED <<approvals, args, call>>
    BY <1>6, <1>t, <2>1 DEF ConsumeApproval, Goto, TypeOK
  <2>4. pc[r] = "token" /\ ~ Called(r)
    BY <1>6, <1>t DEF ConsumeApproval, Tie, CallOrder, Unspent
  <2>5. Presented'
    BY <1>t, <2>3, <2>4 DEF Tie, Presented
  <2>6. SpendOrder'
    BY <1>t, <2>3 DEF Tie, SpendOrder, Unspent
  <2>7. CallOrder'
    BY <1>t, <2>3, <2>4 DEF Tie, CallOrder, Called
  <2>8. ASSUME NEW q \in Requests, (Gated(q) /\ (pc[q] \in Granted \/ Called(q)))'
        PROVE  Redeemed(q)'
    <3>1. CASE q = r
      BY <3>1, <2>1, <2>2, <2>3 DEF Redeemed, Claim
    <3>2. CASE q # r
      <4>1. Redeemed(q)
        BY <3>2, <2>3, <2>8, <1>t DEF Tie, Authorised, Gated, Called
      <4>2. args[q].token # n
        BY <4>1, <2>1 DEF Redeemed
      <4> QED
        BY <4>1, <4>2, <2>3 DEF Redeemed, Claim
    <3> QED
      BY <3>1, <3>2
  <2>9. Authorised'
    BY <2>8 DEF Authorised
  <2> QED
    BY <2>5, <2>6, <2>7, <2>9 DEF Tie
<1>7. ASSUME NEW r \in Requests, RefuseApproval(r) PROVE Tie'
  BY <1>7, <1>t, MoveKeepsTie DEF RefuseApproval, Unspent, Granted, PcSet
<1>8. ASSUME NEW r \in Requests, RouteUngated(r) PROVE Tie'
  BY <1>8, <1>t, MoveKeepsTie DEF RouteUngated, Unspent, Granted, PcSet, Gated
<1>9. ASSUME NEW r \in Requests, FindOperation(r) PROVE Tie'
  BY <1>9, <1>t, MoveKeepsTie DEF FindOperation, Unspent, Granted, PcSet
<1>10. ASSUME NEW r \in Requests, CreateOperation(r) PROVE Tie'
  BY <1>10, <1>t, MoveKeepsTie DEF CreateOperation, Unspent, Granted, PcSet
<1>11. ASSUME NEW r \in Requests, Dispatch(r) PROVE Tie'
  <2>1. /\ pc'[r] = "calling" /\ pc[r] = "dispatch" /\ Called(r)'
        /\ \A q \in Requests : q # r => pc'[q] = pc[q] /\ (Called(q)' <=> Called(q))
        /\ UNCHANGED <<approvals, consumedBy, args>>
    BY <1>11, <1>t DEF Dispatch, Goto, TypeOK, Called
  <2>2. \A q \in Requests : Claim(q)' = Claim(q) /\ (Gated(q)' <=> Gated(q))
    BY <2>1 DEF Claim, Gated
  <2>3. Presented' /\ SpendOrder' /\ CallOrder'
    BY <1>t, <2>1 DEF Tie, Presented, SpendOrder, CallOrder, Unspent
  <2>4. Authorised'
    BY <1>t, <2>1, <2>2 DEF Tie, Authorised, Redeemed, Granted
  <2> QED
    BY <2>3, <2>4 DEF Tie
<1>12. ASSUME NEW r \in Requests, NEW result \in {"ok", "rejected", "threw"},
              AdapterReturns(r, result)
       PROVE  Tie'
  <2>1. /\ pc'[r] \in {"allow", "settle", "threw"} /\ pc[r] = "calling"
        /\ \A q \in Requests : q # r => pc'[q] = pc[q] /\ (Called(q)' <=> Called(q))
        /\ UNCHANGED <<approvals, consumedBy, args>>
    BY <1>12, <1>t DEF AdapterReturns, Goto, TypeOK, Called
  <2>2. \A q \in Requests : Claim(q)' = Claim(q) /\ (Gated(q)' <=> Gated(q))
    BY <2>1 DEF Claim, Gated
  <2>3. Presented' /\ SpendOrder' /\ CallOrder'
    BY <1>t, <2>1 DEF Tie, Presented, SpendOrder, CallOrder, Unspent
  <2>4. Authorised'
    BY <1>t, <2>1, <2>2 DEF Tie, Authorised, Redeemed, Granted
  <2> QED
    BY <2>3, <2>4 DEF Tie
<1>13. ASSUME NEW r \in Requests, SettleFailed(r) PROVE Tie'
  BY <1>13, <1>t, MoveKeepsTie DEF SettleFailed, Unspent, Granted, PcSet
<1>14. ASSUME NEW r \in Requests, AuditAllowed(r) PROVE Tie'
  BY <1>14, <1>t, MoveKeepsTie DEF AuditAllowed, Unspent, Granted, PcSet
<1>15. ASSUME NEW r \in Requests, AuditDenied(r) PROVE Tie'
  BY <1>15, <1>t, MoveKeepsTie DEF AuditDenied, Unspent, Granted, PcSet
<1>16. ASSUME NEW r \in Requests, Crash(r) PROVE Tie'
  BY <1>16, <1>t, MoveKeepsTie DEF Crash, Unspent, Granted, PcSet, Ended
<1>17. ASSUME NEW o \in OpKeys,
              \/ SettleTimeElapses(o) \/ Poll(o)
              \/ \E status \in Terminal : WebhookSettle(o, status)
       PROVE  Tie'
  BY <1>17, <1>t, WorldKeepsTie DEF SettleTimeElapses, Poll, WebhookSettle
<1>18. ASSUME CronReconcile PROVE Tie'
  BY <1>18, <1>t, WorldKeepsTie DEF CronReconcile
<1>19. ASSUME NEW t \in Tenants, PlanChanges(t) \/ BalanceMoves(t) PROVE Tie'
  BY <1>19, <1>t, WorldKeepsTie DEF PlanChanges, BalanceMoves
<1>20. CASE UNCHANGED vars
  BY <1>20, <1>t, WorldKeepsTie DEF vars
<1> QED
  BY <1>1, <1>2, <1>3, <1>4, <1>5, <1>6, <1>7, <1>8, <1>9, <1>10, <1>11, <1>12, <1>13,
     <1>14, <1>15, <1>16, <1>17, <1>18, <1>19, <1>20
  DEF Next, RequestStep

-----------------------------------------------------------------------------
(* Type correctness, and the inductive invariant, of every behaviour.       *)
THEOREM SpecTypeOK == Spec => []TypeOK
<1>1. Init => TypeOK
  BY InitIInv DEF IInv
<1> QED
  BY <1>1, TypeStep, PTL DEF Spec

(* The inductive invariant holds in every reachable state.                  *)
THEOREM SpecIInv == Spec => []IInv
<1>1. IInv /\ [Next]_vars => IInv'
  BY TypeStep, TieStep DEF IInv, Tie
<1> QED
  BY <1>1, InitIInv, PTL DEF Spec

(* An approval reaches the adapter at most once, whatever the interleaving  *)
(* of the calls that present it; what runs is what the owner of that tenant *)
(* approved; a denial leaves every approval spendable (actionRouter.ts: the *)
(* binding checks of executeAction, which consumes last, and the tenant in  *)
(* consumeNonce's WHERE clause).                                            *)
THEOREM ApprovalLicence == Spec => []ApprovalIsALicence
<1>1. IInv => ApprovalSingleUse
  BY DEF IInv, Authorised, Redeemed, ApprovalSingleUse
<1>2. IInv => ExecutesOnlyWhatWasApproved
  BY DEF IInv, Authorised, Redeemed, ExecutesOnlyWhatWasApproved
<1>3. IInv => DeniedKeepsTheApproval
  BY DEF IInv, SpendOrder, CallOrder, Unspent, DeniedKeepsTheApproval
<1>4. IInv => ApprovalIsALicence
  BY <1>1, <1>2, <1>3 DEF ApprovalIsALicence
<1> QED
  BY <1>4, SpecIInv, PTL

(* Every writer of the operation store respects a terminal status: the      *)
(* WHERE status = 'pending' of settleOperation and of the cron's UPDATE.    *)
LEMMA TerminalStep ==
  ASSUME TypeOK, [Next]_vars, NEW o \in OpKeys, operations[o] \in Terminal
  PROVE  operations'[o] = operations[o]
<1> USE DEF store, ops, world, request
<1>1. ASSUME NEW r \in Requests, CreateOperation(r) PROVE operations'[o] = operations[o]
  <2>1. o # Op(r) \/ operations[Op(r)] # "none"
    BY DEF Terminal
  <2> QED
    BY <1>1, <2>1 DEF CreateOperation, TypeOK
<1>2. ASSUME NEW r \in Requests, SettleFailed(r) PROVE operations'[o] = operations[o]
  BY <1>2 DEF SettleFailed, Settled, TypeOK, Terminal
<1>3. ASSUME NEW p \in OpKeys, Poll(p) PROVE operations'[o] = operations[o]
  BY <1>3 DEF Poll, Settled, TypeOK, Terminal
<1>4. ASSUME NEW p \in OpKeys, NEW status \in Terminal, WebhookSettle(p, status)
      PROVE  operations'[o] = operations[o]
  BY <1>4 DEF WebhookSettle, Settled, TypeOK, Terminal
<1>5. ASSUME CronReconcile PROVE operations'[o] = operations[o]
  BY <1>5 DEF CronReconcile, Due, Terminal
<1>6. CASE UNCHANGED operations
  BY <1>6
<1>7. \/ UNCHANGED operations
      \/ CronReconcile
      \/ \E r \in Requests : CreateOperation(r) \/ SettleFailed(r)
      \/ \E p \in OpKeys : Poll(p) \/ \E status \in Terminal : WebhookSettle(p, status)
  BY DEF vars, Next, RequestStep, Issue, TokenExpires, Start, CheckEntitlement,
         CheckCredits, ConsumeApproval, RefuseApproval, RouteUngated, FindOperation,
         Dispatch, AdapterReturns, AuditAllowed, AuditDenied, Crash, SettleTimeElapses,
         PlanChanges, BalanceMoves
<1> QED
  BY <1>1, <1>2, <1>3, <1>4, <1>5, <1>6, <1>7

(* Terminal states are immutable, in every interleaving of the writers.     *)
THEOREM TerminalStays == Spec => TerminalIsImmutable
<1>1. TypeOK /\ [Next]_vars =>
        [\A o \in OpKeys : operations[o] \in Terminal => operations'[o] = operations[o]]_vars
  BY TerminalStep
<1> QED
  BY <1>1, SpecTypeOK, PTL DEF Spec, TerminalIsImmutable

-----------------------------------------------------------------------------
(* What a call remembers of its operation, and of its adapter, where it     *)
(* stands.                                                                  *)
Remembers(r) ==
  /\ pc[r] = "idle" => seen[r] = "none"
  /\ pc[r] \in {"find", "create", "settle"} \/ seen[r] # "none"
       => args[r].verb \in AsyncVerbs
  /\ pc[r] = "calling" => call[r] = "running"
  /\ pc[r] = "settle" => call[r] \in {"rejected", "threw"}
  /\ pc[r] \in {"allow", "done"} /\ seen[r] = "pending" => call[r] = "ok"

Remembered == \A r \in Requests : Remembers(r)

(* A step of another call, or of nobody's.                                  *)
LEMMA OthersRemember ==
  ASSUME NEW r \in Requests, Remembers(r),
         pc'[r] = pc[r], args'[r] = args[r], seen'[r] = seen[r], call'[r] = call[r]
  PROVE  Remembers(r)'
BY DEF Remembers

LEMMA RememberedStep ==
  ASSUME IInv, Remembered, [Next]_vars
  PROVE  Remembered'
<1> SUFFICES ASSUME NEW q \in Requests PROVE Remembers(q)'
  BY DEF Remembered
<1> USE DEF store, ops, world, request
<1>t. TypeOK /\ CallOrder /\ Remembers(q)
  BY DEF IInv, Remembered
<1>1. ASSUME NEW a \in Args, Start(q, a) PROVE Remembers(q)'
  BY <1>1, <1>t DEF Start, Goto, TypeOK, Remembers
<1>2. ASSUME CheckEntitlement(q) \/ CheckCredits(q) \/ RefuseApproval(q) \/ RouteUngated(q)
      PROVE  Remembers(q)'
  BY <1>2, <1>t DEF CheckEntitlement, CheckCredits, RefuseApproval, RouteUngated, Goto, TypeOK,
     Remembers
<1>3. ASSUME ConsumeApproval(q) PROVE Remembers(q)'
  BY <1>3, <1>t DEF ConsumeApproval, Goto, TypeOK, Remembers
<1>4. ASSUME FindOperation(q) PROVE Remembers(q)'
  <2>1. args[q].verb \in AsyncVerbs
    BY <1>4, <1>t DEF FindOperation, Remembers
  <2>2. /\ UNCHANGED <<args, call>>
        /\ seen'[q] = operations[Op(q)]
        /\ pc'[q] \in {"create", "dispatch", "allow"}
        /\ pc'[q] = "allow" => operations[Op(q)] # "pending"
    BY <1>4, <1>t DEF FindOperation, Goto, TypeOK
  <2> QED
    BY <2>1, <2>2 DEF Remembers
<1>5. ASSUME CreateOperation(q) PROVE Remembers(q)'
  BY <1>5, <1>t DEF CreateOperation, Goto, TypeOK, Remembers
<1>6. ASSUME Dispatch(q) PROVE Remembers(q)'
  BY <1>6, <1>t DEF Dispatch, Goto, TypeOK, Remembers
<1>7. ASSUME NEW result \in {"ok", "rejected", "threw"}, AdapterReturns(q, result)
      PROVE  Remembers(q)'
  <2>1. /\ UNCHANGED <<args, seen>>
        /\ pc[q] = "calling"
        /\ call'[q] = result
        /\ pc'[q] \in {"allow", "settle", "threw"}
        /\ pc'[q] = "settle" => result # "ok" /\ args[q].verb \in AsyncVerbs
        /\ pc'[q] = "allow" => result = "ok" \/ args[q].verb \notin AsyncVerbs
    <3>1. pc[q] = "calling" /\ call' = [call EXCEPT ![q] = result] /\ UNCHANGED <<args, seen>>
      BY <1>7 DEF AdapterReturns
    <3>2. pc' = [pc EXCEPT ![q] = IF result # "ok" /\ args[q].verb \in AsyncVerbs THEN "settle"
                                  ELSE IF result = "threw" THEN "threw" ELSE "allow"]
      BY <1>7 DEF AdapterReturns, Goto
    <3> QED
      BY <1>7, <1>t, <3>1, <3>2 DEF TypeOK
  <2>2. seen[q] # "none" => args[q].verb \in AsyncVerbs
    BY <1>t DEF Remembers
  <2>3. pc'[q] \in {"find", "create", "settle"} \/ seen'[q] # "none"
          => args'[q].verb \in AsyncVerbs
    BY <2>1, <2>2
  <2>4. pc'[q] = "settle" => call'[q] \in {"rejected", "threw"}
    BY <1>7, <2>1
  <2>5. seen'[q] = "pending" /\ pc'[q] = "allow" => call'[q] = "ok"
    BY <2>1, <2>2
  <2> QED
    BY <2>1, <2>3, <2>4, <2>5 DEF Remembers
<1>8. ASSUME SettleFailed(q) PROVE Remembers(q)'
  <2>1. args[q].verb \in AsyncVerbs /\ Op(q) \in OpKeys
    BY <1>8, <1>t DEF SettleFailed, Remembers, TypeOK, Args, Op, OpKeys
  <2>2. operations'[Op(q)] # "pending"
    <3>1. operations' = Settled(Op(q), "failed")
      BY <1>8 DEF SettleFailed
    <3>2. Settled(Op(q), "failed")[Op(q)] # "pending"
      BY <1>t, <2>1 DEF Settled, TypeOK
    <3> QED
      BY <3>1, <3>2
  <2>3. /\ UNCHANGED <<args, call>>
        /\ seen'[q] = operations'[Op(q)]
        /\ pc'[q] = "allow"
    BY <1>8, <1>t DEF SettleFailed, Goto, TypeOK
  <2> QED
    BY <2>1, <2>2, <2>3 DEF Remembers
<1>9. ASSUME AuditAllowed(q) \/ AuditDenied(q) \/ Crash(q) PROVE Remembers(q)'
  BY <1>9, <1>t DEF AuditAllowed, AuditDenied, Crash, Goto, TypeOK, Remembers
<1>10. ASSUME NEW r \in Requests, r # q,
              (\E a \in Args : Start(r, a)) \/ RequestStep(r) \/ Crash(r)
       PROVE  Remembers(q)'
  <2>1. pc'[q] = pc[q] /\ args'[q] = args[q] /\ seen'[q] = seen[q] /\ call'[q] = call[q]
    BY <1>10, <1>t DEF Start, RequestStep, CheckEntitlement, CheckCredits, ConsumeApproval,
       RefuseApproval, RouteUngated, FindOperation, CreateOperation, Dispatch, AdapterReturns,
       SettleFailed, AuditAllowed, AuditDenied, Crash, Goto, TypeOK
  <2> QED
    BY <2>1, <1>t, OthersRemember
<1>11. CASE UNCHANGED request
  BY <1>11, <1>t, OthersRemember
<1> QED
  BY <1>1, <1>2, <1>3, <1>4, <1>5, <1>6, <1>7, <1>8, <1>9, <1>10, <1>11
  DEF Next, RequestStep, vars, Issue, TokenExpires, SettleTimeElapses, Poll, WebhookSettle,
      CronReconcile, PlanChanges, BalanceMoves

(* A call that failed stays on record.                                      *)
LEMMA FailedCallStays ==
  ASSUME IInv, Remembered, [Next]_vars, NEW r \in Requests, call[r] \in {"rejected", "threw"}
  PROVE  call'[r] = call[r] /\ args'[r] = args[r] /\ args[r] \in Args
<1> USE DEF store, ops, world, request
<1>1. TypeOK /\ pc[r] \notin {"idle", "dispatch", "calling"}
  BY DEF IInv, CallOrder, Called, Unspent, Remembered, Remembers
<1>2. args[r] \in Args
  BY <1>1 DEF TypeOK
<1>3. ASSUME NEW q \in Requests, (\E a \in Args : Start(q, a)) \/ RequestStep(q) \/ Crash(q)
      PROVE  call'[r] = call[r] /\ args'[r] = args[r]
  BY <1>1, <1>3 DEF Start, RequestStep, CheckEntitlement, CheckCredits, ConsumeApproval,
     RefuseApproval, RouteUngated, FindOperation, CreateOperation, Dispatch, AdapterReturns,
     SettleFailed, AuditAllowed, AuditDenied, Crash, Goto, TypeOK
<1>4. \/ UNCHANGED request
      \/ \E q \in Requests : (\E a \in Args : Start(q, a)) \/ RequestStep(q) \/ Crash(q)
  BY DEF Next, vars, Issue, TokenExpires, SettleTimeElapses, Poll, WebhookSettle,
     CronReconcile, PlanChanges, BalanceMoves
<1> QED
  BY <1>2, <1>3, <1>4

(* Only a failed call and a vendor's report make an operation failed.       *)
LEMMA FailureStep ==
  ASSUME IInv, Remembered, FailureIsReal, [Next]_vars
  PROVE  FailureIsReal'
<1> SUFFICES ASSUME NEW o \in OpKeys, operations'[o] = "failed"
             PROVE  \/ reported'[o] = "failed"
                    \/ \E r \in Requests : /\ args'[r] # None
                                           /\ Op(r)' = o
                                           /\ call'[r] \in {"rejected", "threw"}
  BY DEF FailureIsReal
<1> USE DEF store, ops, world, request
<1>t. TypeOK
  BY DEF IInv
<1>1. CASE operations[o] = "failed"
  <2>1. CASE reported[o] = "failed"
    <3>1. reported'[o] = reported[o]
      BY <1>t, <2>1 DEF TypeOK, Next, RequestStep, vars, Issue, TokenExpires, Start,
         CheckEntitlement, CheckCredits, ConsumeApproval, RefuseApproval, RouteUngated,
         FindOperation, CreateOperation, Dispatch, AdapterReturns, SettleFailed, AuditAllowed,
         AuditDenied, Crash, SettleTimeElapses, Poll, WebhookSettle, CronReconcile,
         PlanChanges, BalanceMoves
    <3> QED
      BY <2>1, <3>1
  <2>2. CASE \E r \in Requests : /\ args[r] # None
                                 /\ Op(r) = o
                                 /\ call[r] \in {"rejected", "threw"}
    <3>1. PICK r \in Requests : Op(r) = o /\ call[r] \in {"rejected", "threw"}
      BY <2>2
    <3>2. call'[r] = call[r] /\ args'[r] = args[r] /\ args[r] \in Args
      BY <3>1, FailedCallStays
    <3> QED
      BY <3>1, <3>2, ValuesAssumption DEF Op
  <2> QED
    BY <1>1, <2>1, <2>2 DEF FailureIsReal
<1>2. CASE operations[o] # "failed"
  <2>1. ASSUME NEW r \in Requests, SettleFailed(r)
        PROVE  args'[r] # None /\ Op(r)' = o /\ call'[r] \in {"rejected", "threw"}
    <3>1. pc[r] = "settle" /\ args[r] \in Args /\ call[r] \in {"rejected", "threw"}
      BY <2>1, <1>t DEF SettleFailed, TypeOK, Remembered, Remembers
    <3>2. Op(r) = o
      BY <2>1, <1>2, <1>t DEF SettleFailed, Settled, TypeOK
    <3> QED
      BY <2>1, <3>1, <3>2, ValuesAssumption DEF SettleFailed, Op
  <2>2. ASSUME NEW p \in OpKeys, NEW status \in Terminal, WebhookSettle(p, status)
        PROVE  reported'[o] = "failed"
    BY <2>2, <1>2, <1>t DEF WebhookSettle, Settled, TypeOK
  <2>3. ASSUME NEW p \in OpKeys, Poll(p) PROVE FALSE
    BY <2>3, <1>2, <1>t DEF Poll, Settled, TypeOK
  <2>4. ASSUME CronReconcile PROVE FALSE
    BY <2>4, <1>2 DEF CronReconcile
  <2>5. ASSUME NEW r \in Requests, CreateOperation(r) PROVE FALSE
    BY <2>5, <1>2, <1>t DEF CreateOperation, TypeOK
  <2>6. operations' # operations
    BY <1>2
  <2> QED
    BY <2>1, <2>2, <2>3, <2>4, <2>5, <2>6
    DEF Next, RequestStep, vars, Issue, TokenExpires, Start, CheckEntitlement, CheckCredits,
        ConsumeApproval, RefuseApproval, RouteUngated, FindOperation, Dispatch, AdapterReturns,
        AuditAllowed, AuditDenied, Crash, SettleTimeElapses, PlanChanges, BalanceMoves
<1> QED
  BY <1>1, <1>2

(* An operation reads failed only if a vendor refused it, and "pending" is  *)
(* only answered by the call that saw its action accepted, however polls,   *)
(* the cron, webhooks and calls of one key interleave.                      *)
THEOREM TrueReplies == Spec => []ReplyIsTrue
<1>1. Init => Remembered /\ FailureIsReal
  BY DEF Init, Remembered, Remembers, FailureIsReal
<1>2. IInv /\ Remembered /\ FailureIsReal /\ [Next]_vars => (Remembered /\ FailureIsReal)'
  BY RememberedStep, FailureStep
<1>3. Remembered /\ FailureIsReal => ReplyIsTrue
  BY DEF Remembered, Remembers, ReplyIsTrue, PendingReplyWasAccepted
<1> QED
  BY <1>1, <1>2, <1>3, SpecIInv, PTL DEF Spec

-----------------------------------------------------------------------------
(* The refinement: who performed the action of a nonce, as the contract     *)
(* sees it.                                                                 *)
Performers(n) == {r \in Requests : Called(r) /\ Gated(r) /\ args[r].token = n}

(* A step that makes no call leaves every performer what it was.            *)
LEMMA SamePerformers ==
  ASSUME IInv, UNCHANGED <<args, call>>
  PROVE  \A n \in Nonces : Performers(n)' = Performers(n)
  BY DEF Performers, Called, Gated

(* Every step of the router is a step of the contract or leaves its state.  *)
LEMMA ContractStep ==
  ASSUME IInv, [Next]_vars
  PROVE  [Contract!Next]_(Contract!vars)
<1> USE ValuesAssumption DEF store, ops, world, request
<1> DEFINE performers == [n \in Nonces |-> Performers(n)]
<1>t. TypeOK /\ Tie
  BY DEF IInv, Tie
<1>v. ASSUME UNCHANGED <<approvals, consumedBy, performers>>
      PROVE  UNCHANGED Contract!vars
  BY <1>v DEF Contract!vars, Performers
<1>1. ASSUME NEW n \in Nonces, NEW c \in Claims, Issue(n, c)
      PROVE  Contract!Grant(n, c)
  <2>1. UNCHANGED performers
    BY <1>1, SamePerformers DEF Issue
  <2> QED
    BY <1>1, <2>1 DEF Issue, Contract!Grant, Performers
<1>2. ASSUME NEW r \in Requests, NEW a \in Args, Start(r, a)
      PROVE  UNCHANGED Contract!vars
  <2>1. ~ Called(r) /\ ~ Called(r)'
    BY <1>2, <1>t DEF Start, Tie, CallOrder, Unspent, Called
  <2>2. \A q \in Requests : q # r => args'[q] = args[q] /\ call'[q] = call[q]
    BY <1>2, <1>t DEF Start, TypeOK
  <2>3. \A n \in Nonces : Performers(n)' = Performers(n)
    BY <2>1, <2>2 DEF Performers, Called, Gated
  <2> QED
    BY <1>2, <2>3, <1>v DEF Start
<1>3. ASSUME NEW r \in Requests, ConsumeApproval(r)
      PROVE  Contract!Spend(args[r].token, r) /\ args[r].token \in Nonces
  <2>1. UNCHANGED performers
    BY <1>3, SamePerformers DEF ConsumeApproval
  <2>2. args[r].token \in Nonces /\ approvals[args[r].token] # None
    BY <1>3, <1>t DEF ConsumeApproval, TokenValid, Tie, Presented
  <2> QED
    BY <1>3, <2>1, <2>2 DEF ConsumeApproval, Consumable, Contract!Spend, Performers
<1>4. ASSUME NEW r \in Requests, Dispatch(r)
      PROVE  \/ UNCHANGED Contract!vars
             \/ \E n \in Nonces : Contract!Perform(n, r)
  <2>1. /\ ~ Called(r) /\ Called(r)'
        /\ \A q \in Requests : q # r => (Called(q)' <=> Called(q))
        /\ UNCHANGED <<approvals, consumedBy, args>>
    BY <1>4, <1>t DEF Dispatch, Tie, CallOrder, Called, TypeOK
  <2>2. CASE ~ Gated(r)
    <3>1. \A n \in Nonces : Performers(n)' = Performers(n)
      BY <2>1, <2>2 DEF Performers, Gated
    <3> QED
      BY <2>1, <3>1, <1>v
  <2>3. CASE Gated(r)
    <3>1. PICK n \in Nonces : n = args[r].token /\ consumedBy[n] = r
      BY <1>4, <1>t, <2>3 DEF Dispatch, Tie, Authorised, Granted, Redeemed
    <3>2. \A q \in Requests : Called(q) /\ Gated(q) => args[q].token # n
      BY <1>t, <2>1, <3>1 DEF Tie, Authorised, Redeemed
    <3>3. Performers(n) = {} /\ Performers(n)' = {r}
      BY <2>1, <2>3, <3>1, <3>2 DEF Performers, Gated
    <3>4. \A m \in Nonces : m # n => Performers(m)' = Performers(m)
      BY <2>1, <3>1 DEF Performers, Gated
    <3>5. \A m \in Nonces : Performers(m)' = IF m = n THEN {r} ELSE Performers(m)
      BY <3>3, <3>4
    <3>6. performers' = [m \in Nonces |-> IF m = n THEN {r} ELSE Performers(m)]
      BY <3>5
    <3>7. performers' = [performers EXCEPT ![n] = {r}]
      BY <3>6, <3>1
    <3>8. Contract!Perform(n, r)
      BY <2>1, <3>1, <3>3, <3>7 DEF Contract!Perform, Performers
    <3> QED
      BY <3>8
  <2> QED
    BY <2>2, <2>3
<1>5. ASSUME NEW r \in Requests, NEW result \in {"ok", "rejected", "threw"},
             AdapterReturns(r, result)
      PROVE  UNCHANGED Contract!vars
  <2>1. \A q \in Requests : Called(q)' <=> Called(q)
    BY <1>5, <1>t DEF AdapterReturns, Called, Tie, CallOrder, TypeOK
  <2>2. \A n \in Nonces : Performers(n)' = Performers(n)
    BY <1>5, <2>1 DEF AdapterReturns, Performers, Gated
  <2> QED
    BY <1>5, <2>2, <1>v DEF AdapterReturns
<1>6. ASSUME UNCHANGED <<approvals, consumedBy, args, call>>
      PROVE  UNCHANGED Contract!vars
  BY <1>6, <1>v, SamePerformers
<1>7. \/ \E n \in Nonces, c \in Claims : Issue(n, c)
      \/ \E r \in Requests : \/ \E a \in Args : Start(r, a)
                            \/ ConsumeApproval(r) \/ Dispatch(r)
                            \/ \E result \in {"ok", "rejected", "threw"} : AdapterReturns(r, result)
      \/ UNCHANGED <<approvals, consumedBy, args, call>>
  BY DEF vars, Next, RequestStep, TokenExpires, CheckEntitlement, CheckCredits,
         RefuseApproval, RouteUngated, FindOperation, CreateOperation, SettleFailed,
         AuditAllowed, AuditDenied, Crash, SettleTimeElapses, Poll, CronReconcile,
         WebhookSettle, PlanChanges, BalanceMoves
<1>8. ASSUME NEW n \in Nonces, NEW c \in Claims, Contract!Grant(n, c)
      PROVE  Contract!Next
  BY <1>8 DEF Contract!Next
<1>9. ASSUME NEW n \in Nonces, NEW r \in Requests,
             Contract!Spend(n, r) \/ Contract!Perform(n, r)
      PROVE  Contract!Next
  BY <1>9 DEF Contract!Next
<1>10. CASE \E n \in Nonces, c \in Claims : Issue(n, c)
  BY <1>10, <1>1, <1>8
<1>11. CASE \E r \in Requests : ConsumeApproval(r)
  BY <1>11, <1>3, <1>9
<1>12. CASE \E r \in Requests :
              \/ \E a \in Args : Start(r, a)
              \/ \E result \in {"ok", "rejected", "threw"} : AdapterReturns(r, result)
  BY <1>12, <1>2, <1>5
<1>13. CASE \E r \in Requests : Dispatch(r)
  BY <1>13, <1>4, <1>9
<1> QED
  BY <1>6, <1>7, <1>10, <1>11, <1>12, <1>13

(* The router and its ledger implement ApprovalContract.                    *)
THEOREM RouterImplementsContract == Spec => ImplementsContract
<1>1. Init => Contract!Init
  BY DEF Init, Contract!Init, Called
<1>2. IInv /\ [Next]_vars => [Contract!Next]_(Contract!vars)
  BY ContractStep
<1> QED
  BY <1>1, <1>2, SpecIInv, PTL DEF Spec, ImplementsContract, Contract!Spec
=============================================================================
