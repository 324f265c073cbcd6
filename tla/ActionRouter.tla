---------------------------- MODULE ActionRouter ----------------------------
(***************************************************************************)
(* The ActionRouter (integrations/core/actionRouter.ts): the chokepoint    *)
(* through which every adapter verb runs, with the two stores it decides   *)
(* on, the approval ledger and the operation store, in their Postgres form *)
(* (stores/prisma.ts).                                                     *)
(*                                                                         *)
(* A request is one call of executeAction in a serverless process.  Each   *)
(* `await` of the code is a point where other requests, the cron sweep, a  *)
(* vendor webhook or the clock can run, so the code between two awaits is  *)
(* one action here.  A process can also be killed at any await (Crash).    *)
(***************************************************************************)
EXTENDS Naturals, FiniteSets

CONSTANTS
  Tenants,        \* the accounts
  Payloads,       \* digests of the payloads a caller can send
  Keys,           \* idempotency keys
  Nonces,         \* the nonces the owner endpoint can mint
  Requests,       \* the calls of executeAction
  AsyncVerbs,     \* gated verbs of a slow vendor: 202 and an operation
  SyncVerbs,      \* gated verbs answered inline
  UngatedVerbs,   \* verbs outside GATED_VERBS of a known namespace
  UnknownVerbs,   \* verbs outside GATED_VERBS of no known namespace
  PlanVerbs,      \* gated verbs with requiresEntitlement
  CostVerbs,      \* verbs whose cost estimate is above zero
  NoToken,        \* the caller sent no approval token
  Forged,         \* the caller sent a token the HMAC check rejects
  None            \* absent row, absent argument

GatedVerbs == AsyncVerbs \cup SyncVerbs
Verbs == GatedVerbs \cup UngatedVerbs \cup UnknownVerbs

ASSUME VerbsAssumption ==
  /\ AsyncVerbs \cap SyncVerbs = {}
  /\ GatedVerbs \cap (UngatedVerbs \cup UnknownVerbs) = {}
  /\ UngatedVerbs \cap UnknownVerbs = {}
  /\ PlanVerbs \subseteq GatedVerbs
  /\ CostVerbs \subseteq Verbs

(* What an approval token is signed over, and the tenant of its ledger row. *)
Claims == [tenant : Tenants, verb : GatedVerbs, payload : Payloads, key : Keys]

(* The arguments of a call of executeAction; `fresh` is the token's expiry  *)
(* compared with the `now` the call captured when it began.                 *)
Args == [tenant : Tenants, verb : Verbs, payload : Payloads, key : Keys,
         token : Nonces \cup {NoToken, Forged}, fresh : BOOLEAN]

ASSUME ValuesAssumption ==
  /\ NoToken \notin Nonces
  /\ Forged \notin Nonces
  /\ None \notin Requests
  /\ None \notin Claims
  /\ None \notin Args

Terminal == {"succeeded", "failed"}
OpKeys == Tenants \X Keys

VARIABLES
  approvals,   \* approval_nonces: the claims of each issued nonce, or None
  expired,     \* the nonces whose expiresAt has passed
  consumedBy,  \* consumedAt of each nonce, as the request that set it, or None
  operations,  \* operations: status per (tenant, idempotencyKey), "none" if absent
  elapsed,     \* the operations whose settleAt has passed
  reported,    \* the outcome a vendor's webhook delivered for an operation
  entitled,    \* tenants whose plan grants the paid features
  funded,      \* tenants whose balance covers an estimate
  pc,          \* where each request stands
  args,        \* its arguments
  seen,        \* the status of its operation, as the request last read it
  call,        \* what its adapter.action did: "none" if never called
  audit        \* its audit_log entry

store == <<approvals, expired, consumedBy>>
ops == <<operations, elapsed, reported>>
world == <<entitled, funded>>
request == <<pc, args, seen, call, audit>>
vars == <<store, ops, world, request>>

PcSet == {"idle", "entitlement", "credits", "token", "find", "create", "dispatch",
          "calling", "settle", "allow", "deny", "done", "denied", "threw", "crashed"}
Ended == {"idle", "done", "denied", "threw", "crashed"}

TypeOK ==
  /\ approvals \in [Nonces -> Claims \cup {None}]
  /\ expired \in SUBSET Nonces
  /\ consumedBy \in [Nonces -> Requests \cup {None}]
  /\ operations \in [OpKeys -> {"none", "pending"} \cup Terminal]
  /\ elapsed \in SUBSET OpKeys
  /\ reported \in [OpKeys -> {"none"} \cup Terminal]
  /\ entitled \in SUBSET Tenants
  /\ funded \in SUBSET Tenants
  /\ pc \in [Requests -> PcSet]
  /\ args \in [Requests -> Args \cup {None}]
  /\ \A r \in Requests : pc[r] # "idle" => args[r] \in Args
  /\ seen \in [Requests -> {"none", "pending"} \cup Terminal]
  /\ call \in [Requests -> {"none", "running", "ok", "rejected", "threw"}]
  /\ audit \in [Requests -> {"none", "allowed", "denied"}]

Init ==
  /\ approvals = [n \in Nonces |-> None]
  /\ expired = {}
  /\ consumedBy = [n \in Nonces |-> None]
  /\ operations = [o \in OpKeys |-> "none"]
  /\ elapsed = {}
  /\ reported = [o \in OpKeys |-> "none"]
  /\ entitled \in SUBSET Tenants
  /\ funded \in SUBSET Tenants
  /\ pc = [r \in Requests |-> "idle"]
  /\ args = [r \in Requests |-> None]
  /\ seen = [r \in Requests |-> "none"]
  /\ call = [r \in Requests |-> "none"]
  /\ audit = [r \in Requests |-> "none"]

-----------------------------------------------------------------------------
(* The owner endpoint: POST /api/approvals and requestApprovalAction.       *)

(* The owner signs off: the nonce is recorded before the token is returned. *)
Issue(n, c) ==
  /\ approvals[n] = None
  /\ approvals' = [approvals EXCEPT ![n] = c]
  /\ UNCHANGED <<expired, consumedBy, ops, world, request>>

(* The clock passes a token's expiresAt.                                    *)
TokenExpires(n) ==
  /\ approvals[n] # None
  /\ n \notin expired
  /\ expired' = expired \cup {n}
  /\ UNCHANGED <<approvals, consumedBy, ops, world, request>>

-----------------------------------------------------------------------------
(* executeAction, one action per stretch between two awaits.                *)

Op(r) == <<args[r].tenant, args[r].key>>
Goto(r, label) == pc' = [pc EXCEPT ![r] = label]

(* The claims a token must carry to authorise the call it is sent with.     *)
Claim(r) == [tenant |-> args[r].tenant, verb |-> args[r].verb,
             payload |-> args[r].payload, key |-> args[r].key]

Start(r, a) ==
  /\ pc[r] = "idle"
  /\ a.token \in Nonces => approvals[a.token] # None
  /\ a.fresh = (a.token \notin expired)
  /\ args' = [args EXCEPT ![r] = a]
  /\ Goto(r, "entitlement")
  /\ UNCHANGED <<store, ops, world, seen, call, audit>>

CheckEntitlement(r) ==
  /\ pc[r] = "entitlement"
  /\ Goto(r, IF args[r].verb \in PlanVerbs /\ args[r].tenant \notin entitled
             THEN "deny" ELSE "credits")
  /\ UNCHANGED <<store, ops, world, args, seen, call, audit>>

(* requireCredits reads the balance; nothing is reserved or debited.        *)
CreditsCover(r) == args[r].verb \in CostVerbs => args[r].tenant \in funded

CheckCredits(r) ==
  /\ pc[r] = "credits"
  /\ Goto(r, IF CreditsCover(r) THEN "token" ELSE "deny")
  /\ UNCHANGED <<store, ops, world, args, seen, call, audit>>

(* verifyToken: an authentic token, compared with the clock the call read    *)
(* when it began.                                                           *)
TokenValid(r) == args[r].token \in Nonces /\ args[r].fresh

(* Mutant: the token's verb is not compared with the call's.                *)
TokenBound_AnyVerb(r) ==
  LET n == args[r].token IN
  /\ approvals[n].payload = args[r].payload
  /\ approvals[n].key = args[r].key

(* The three binding checks.  The tenant is not among the signed fields:    *)
(* only the ledger row holds it.                                            *)
TokenBound(r) ==
  LET n == args[r].token IN
  /\ approvals[n].verb = args[r].verb
  /\ approvals[n].payload = args[r].payload
  /\ approvals[n].key = args[r].key

(* Mutant: the UPDATE loses its "consumedAt IS NULL".                       *)
Consumable_Again(r) == approvals[args[r].token].tenant = args[r].tenant

(* UPDATE approval_nonces ... WHERE nonce, tenantId AND consumedAt IS NULL. *)
Consumable(r) ==
  LET n == args[r].token IN
  /\ approvals[n].tenant = args[r].tenant
  /\ consumedBy[n] = None

ConsumeApproval(r) ==
  /\ pc[r] = "token"
  /\ args[r].verb \in GatedVerbs
  /\ TokenValid(r)
  /\ TokenBound(r)
  /\ Consumable(r)
  /\ consumedBy' = [consumedBy EXCEPT ![args[r].token] = r]
  /\ Goto(r, IF args[r].verb \in AsyncVerbs THEN "find" ELSE "dispatch")
  /\ UNCHANGED <<approvals, expired, ops, world, args, seen, call, audit>>

RefuseApproval(r) ==
  /\ pc[r] = "token"
  /\ args[r].verb \in GatedVerbs
  /\ ~ (TokenValid(r) /\ TokenBound(r) /\ Consumable(r))
  /\ Goto(r, "deny")
  /\ UNCHANGED <<store, ops, world, args, seen, call, audit>>

(* inferInterface: the namespaces that map to an adapter.                   *)
KnownNamespace(verb) == verb \in UngatedVerbs

(* A verb outside the table needs no token, but a known namespace.          *)
RouteUngated(r) ==
  /\ pc[r] = "token"
  /\ args[r].verb \notin GatedVerbs
  /\ Goto(r, IF KnownNamespace(args[r].verb) THEN "dispatch" ELSE "deny")
  /\ UNCHANGED <<store, ops, world, args, seen, call, audit>>

(* startOperation, first statement: findUnique on (tenantId, key).  An      *)
(* operation found is re-attached to, and dispatched when it reads pending. *)
FindOperation(r) ==
  /\ pc[r] = "find"
  /\ seen' = [seen EXCEPT ![r] = operations[Op(r)]]
  /\ Goto(r, CASE operations[Op(r)] = "none" -> "create"
               [] operations[Op(r)] = "pending" -> "dispatch"
               [] OTHER -> "allow")
  /\ UNCHANGED <<store, ops, world, args, call, audit>>

(* Second statement: create.  A row another request inserted since violates *)
(* the unique constraint, and the exception leaves executeAction.           *)
CreateOperation(r) ==
  /\ pc[r] = "create"
  /\ IF operations[Op(r)] = "none"
     THEN /\ operations' = [operations EXCEPT ![Op(r)] = "pending"]
          /\ seen' = [seen EXCEPT ![r] = "pending"]
          /\ Goto(r, "dispatch")
     ELSE /\ Goto(r, "threw")
          /\ UNCHANGED <<operations, seen>>
  /\ UNCHANGED <<store, elapsed, reported, world, args, call, audit>>

(* adapter.action is entered, and its effect at the vendor may begin.       *)
Dispatch(r) ==
  /\ pc[r] = "dispatch"
  /\ call' = [call EXCEPT ![r] = "running"]
  /\ Goto(r, "calling")
  /\ UNCHANGED <<store, ops, world, args, seen, audit>>

(* Mutant: a result that is not ok is taken for a start, only a throw fails. *)
AdapterReturns_IgnoresRejection(r, result) ==
  /\ pc[r] = "calling"
  /\ call' = [call EXCEPT ![r] = result]
  /\ Goto(r, IF result = "threw" /\ args[r].verb \in AsyncVerbs THEN "settle" ELSE "allow")
  /\ UNCHANGED <<store, ops, world, args, seen, audit>>

(* adapter.action ends: result.ok, not ok, or an exception.                 *)
AdapterReturns(r, result) ==
  /\ pc[r] = "calling"
  /\ call' = [call EXCEPT ![r] = result]
  /\ Goto(r, IF result # "ok" /\ args[r].verb \in AsyncVerbs THEN "settle"
             ELSE IF result = "threw" THEN "threw" ELSE "allow")
  /\ UNCHANGED <<store, ops, world, args, seen, audit>>

(* Mutants: the WHERE clause is dropped; the status written is not one the  *)
(* readers know.                                                            *)
Settled_Unguarded(o, status) == [operations EXCEPT ![o] = status]

Settled_Misspelt(o, status) ==
  [operations EXCEPT ![o] = IF status = "succeeded" THEN "success" ELSE status]

(* settleOperation: UPDATE ... WHERE status = 'pending', then read the row. *)
Settled(o, status) ==
  IF operations[o] = "pending" THEN [operations EXCEPT ![o] = status] ELSE operations

SettleFailed(r) ==
  /\ pc[r] = "settle"
  /\ operations' = Settled(Op(r), "failed")
  /\ seen' = [seen EXCEPT ![r] = operations'[Op(r)]]
  /\ Goto(r, "allow")
  /\ UNCHANGED <<store, elapsed, reported, world, args, call, audit>>

AuditAllowed(r) ==
  /\ pc[r] = "allow"
  /\ audit' = [audit EXCEPT ![r] = "allowed"]
  /\ Goto(r, "done")
  /\ UNCHANGED <<store, ops, world, args, seen, call>>

AuditDenied(r) ==
  /\ pc[r] = "deny"
  /\ audit' = [audit EXCEPT ![r] = "denied"]
  /\ Goto(r, "denied")
  /\ UNCHANGED <<store, ops, world, args, seen, call>>

(* The process is killed: a deploy, a timeout, an out-of-memory.            *)
Crash(r) ==
  /\ pc[r] \notin Ended
  /\ Goto(r, "crashed")
  /\ UNCHANGED <<store, ops, world, args, seen, call, audit>>

-----------------------------------------------------------------------------
(* The other writers of the operation store, and of what the gates read.    *)

(* The clock passes an operation's settleAt.                                *)
SettleTimeElapses(o) ==
  /\ operations[o] # "none"
  /\ o \notin elapsed
  /\ elapsed' = elapsed \cup {o}
  /\ UNCHANGED <<store, operations, reported, world, request>>

(* Mutant: the sweep waits for the vendor's word.                           *)
Due_OnceReported == {o \in elapsed : operations[o] = "pending" /\ reported[o] # "none"}

Due == {o \in elapsed : operations[o] = "pending"}

(* The poll: getOperation and listOperations settle each operation of the   *)
(* reader's tenant that is due, as succeeded, one update at a time.         *)
Poll(o) ==
  /\ o \in Due
  /\ operations' = Settled(o, "succeeded")
  /\ UNCHANGED <<store, elapsed, reported, world, request>>

(* The cron: reconcile_pending_operations settles all of them in one UPDATE. *)
CronReconcile ==
  /\ Due # {}
  /\ operations' = [o \in OpKeys |->
                      IF o \in Due THEN "succeeded" ELSE operations[o]]
  /\ UNCHANGED <<store, elapsed, reported, world, request>>

(* A vendor reports the outcome of an action it accepted.                   *)
WebhookSettle(o, status) ==
  /\ reported[o] = "none"
  /\ \E r \in Requests : args[r] # None /\ Op(r) = o /\ call[r] = "ok"
                         /\ args[r].verb \in AsyncVerbs
  /\ operations' = Settled(o, status)
  /\ reported' = [reported EXCEPT ![o] = status]
  /\ UNCHANGED <<store, elapsed, world, request>>

PlanChanges(t) ==
  /\ entitled' = IF t \in entitled THEN entitled \ {t} ELSE entitled \cup {t}
  /\ UNCHANGED <<store, ops, funded, request>>

BalanceMoves(t) ==
  /\ funded' = IF t \in funded THEN funded \ {t} ELSE funded \cup {t}
  /\ UNCHANGED <<store, ops, entitled, request>>

-----------------------------------------------------------------------------
RequestStep(r) ==
  \/ CheckEntitlement(r)
  \/ CheckCredits(r)
  \/ ConsumeApproval(r)
  \/ RefuseApproval(r)
  \/ RouteUngated(r)
  \/ FindOperation(r)
  \/ CreateOperation(r)
  \/ Dispatch(r)
  \/ \E result \in {"ok", "rejected", "threw"} : AdapterReturns(r, result)
  \/ SettleFailed(r)
  \/ AuditAllowed(r)
  \/ AuditDenied(r)

Next ==
  \/ \E n \in Nonces : (\E c \in Claims : Issue(n, c)) \/ TokenExpires(n)
  \/ \E r \in Requests : (\E a \in Args : Start(r, a)) \/ RequestStep(r) \/ Crash(r)
  \/ \E o \in OpKeys :
       \/ SettleTimeElapses(o)
       \/ Poll(o)
       \/ \E status \in Terminal : WebhookSettle(o, status)
  \/ CronReconcile
  \/ \E t \in Tenants : PlanChanges(t) \/ BalanceMoves(t)

Spec == Init /\ [][Next]_vars

(* The clock advances and the scheduler keeps calling the cron; callers,    *)
(* owners, vendors and processes that may be killed promise nothing.        *)
Fairness ==
  /\ \A o \in OpKeys : WF_vars(SettleTimeElapses(o))
  /\ WF_vars(CronReconcile)

FairSpec == Spec /\ Fairness

-----------------------------------------------------------------------------
(* Properties.                                                              *)

Called(r) == call[r] # "none"
Gated(r) == args[r] # None /\ args[r].verb \in GatedVerbs

(* Single use: an approval runs the adapter at most once, whatever the      *)
(* number of calls it is presented to and however they interleave.          *)
ApprovalSingleUse ==
  \A r, q \in Requests :
    Called(r) /\ Called(q) /\ Gated(r) /\ Gated(q) /\ args[r].token = args[q].token
      => r = q

(* A gated adapter call does exactly what the owner of that very tenant     *)
(* signed off: same verb, payload digest, idempotency key and tenant.       *)
ExecutesOnlyWhatWasApproved ==
  \A r \in Requests :
    Called(r) /\ Gated(r) => /\ args[r].token \in Nonces
                             /\ approvals[args[r].token] = Claim(r)

(* A denial costs nothing: a request that is or will be denied has spent no *)
(* approval, so the owner can correct the cause and present it again.       *)
DeniedKeepsTheApproval ==
  \A r \in Requests :
    pc[r] \in {"deny", "denied"} => ~ Called(r) /\ \A n \in Nonces : consumedBy[n] # r

(* An approval is a licence for one execution of what was signed off, and   *)
(* nothing but that execution spends it.                                    *)
ApprovalIsALicence ==
  ApprovalSingleUse /\ ExecutesOnlyWhatWasApproved /\ DeniedKeepsTheApproval

(* Terminal states are immutable: a poll, the cron, a vendor's report and a *)
(* late failure race, and whoever settles first is never overwritten.       *)
TerminalIsImmutable ==
  [][\A o \in OpKeys : operations[o] \in Terminal => operations'[o] = operations[o]]_vars

(* An operation reads failed only if an adapter call on it was refused or   *)
(* threw, or its vendor reported the failure.                               *)
FailureIsReal ==
  \A o \in OpKeys :
    operations[o] = "failed" =>
      \/ reported[o] = "failed"
      \/ \E r \in Requests : /\ args[r] # None
                             /\ Op(r) = o
                             /\ call[r] \in {"rejected", "threw"}

(* The 202 reply: "pending" is only ever answered by the call that handed   *)
(* the action to the vendor and saw it accepted.                            *)
PendingReplyWasAccepted ==
  \A r \in Requests :
    pc[r] = "done" /\ seen[r] = "pending" => call[r] = "ok"

(* What a client is told of its action, at once or on a poll, happened.     *)
ReplyIsTrue == FailureIsReal /\ PendingReplyWasAccepted

(* Whatever happens to the process that started it, every operation leaves  *)
(* pending: a client that polls gets an answer.                             *)
OperationsSettle ==
  \A o \in OpKeys : operations[o] = "pending" ~> operations[o] \in Terminal

(* The approval ledger and the router together implement the promise of     *)
(* ApprovalContract: grant once, spend once, perform once.                  *)
Contract == INSTANCE ApprovalContract WITH
  Agents <- Requests,
  granted <- approvals,
  spentBy <- consumedBy,
  performers <- [n \in Nonces |->
                   {r \in Requests : Called(r) /\ Gated(r) /\ args[r].token = n}]

ImplementsContract == Contract!Spec

-----------------------------------------------------------------------------
(* What a comment of the code says and the code does not do.                *)

(* actionRouter.ts:543: "Re-attached (idempotent) ops are NOT               *)
(* re-dispatched" - an operation has at most one adapter call.              *)
ReattachedNotRedispatched ==
  \A r, q \in Requests :
    /\ Called(r) /\ Called(q)
    /\ args[r].verb \in AsyncVerbs /\ args[q].verb \in AsyncVerbs
    /\ Op(r) = Op(q)
    => r = q
=============================================================================
