------------------------------- MODULE Wallet -------------------------------
(***************************************************************************)
(* The prepaid wallet of one tenant (lib/billing/metering.ts) and the four *)
(* kinds of call that spend from it:                                       *)
(*   "llm"       routeLlm: balance check, provider call, debit             *)
(*   "domain"    runDomainGatedAction: the router's balance check,         *)
(*               vendor call, debit; a failed debit is swallowed           *)
(*   "whatsapp"  sendWhatsappMessage: debit, then send if it was applied   *)
(*   "sms"       POST /api/sms/send: send, debit; a failed debit is        *)
(*               swallowed                                                 *)
(* A debit is the transaction of wallet.debit and record_usage_debit, one  *)
(* action per statement: an uncommitted row of usage_records makes another *)
(* insert under its key wait, an uncommitted UPDATE holds the wallet row.  *)
(***************************************************************************)
EXTENDS Integers, FiniteSets, FiniteSetsExt

CONSTANTS
  Kinds,      \* the kinds of call in this instance
  Calls,      \* the calls
  Works,      \* what a call is for: an agent job, a message, a domain
  Stamps,     \* the milliseconds Date.now() can read
  Costs,      \* retail amounts a call can come to
  Estimate,   \* what the balance check asks for
  TopUps,     \* amounts a top-up can credit
  MaxCredit,  \* bound: top-ups stop here
  None

AllKinds == {"llm", "domain", "whatsapp", "sms"}

ASSUME WalletAssumption ==
  /\ Kinds \subseteq AllKinds
  /\ Costs \subseteq Nat \ {0}
  /\ TopUps \subseteq Nat \ {0}
  /\ Estimate \in Nat
  /\ MaxCredit \in Nat
  /\ None \notin Costs
  /\ None \notin Calls
  /\ IsFiniteSet(Calls)

(* The (tenantId, idempotencyKey) of a usage row; the prefix is the kind.   *)
Keys == [kind : Kinds, work : Works, stamp : Stamps \cup {None}]
Jobs == [kind : Kinds, work : Works, stamp : Stamps \cup {None}, cost : Costs]

ASSUME NoneIsNoJob == None \notin Jobs

VARIABLES
  usage,       \* usage_records: the amount of each committed row, or None
  balance,     \* token_wallets.balanceMicro, committed
  credited,    \* all that top-ups have put in
  keyLock,     \* the call whose uncommitted row holds a key, or None
  walletLock,  \* the call whose uncommitted UPDATE holds the wallet, or None
  pc,          \* where each call stands
  job,         \* what it is doing, or None
  did          \* its outside work: "none", "ok" or "failed"

ledger == <<usage, balance, credited>>
locks == <<keyLock, walletLock>>
call == <<pc, job, did>>
vars == <<ledger, locks, call>>

InTxn == {"insert", "update", "commit"}
Ended == {"done", "denied", "threw", "crashed"}

TypeOK ==
  /\ usage \in [Keys -> Costs \cup {None}]
  /\ balance \in Int
  /\ credited \in Nat
  /\ keyLock \in [Keys -> Calls \cup {None}]
  /\ walletLock \in Calls \cup {None}
  /\ pc \in [Calls -> {"idle", "preflight", "work", "send"} \cup InTxn \cup Ended]
  /\ job \in [Calls -> Jobs \cup {None}]
  /\ \A c \in Calls : pc[c] # "idle" => job[c] \in Jobs
  /\ did \in [Calls -> {"none", "ok", "failed"}]

Init ==
  /\ usage = [k \in Keys |-> None]
  /\ balance = 0
  /\ credited = 0
  /\ keyLock = [k \in Keys |-> None]
  /\ walletLock = None
  /\ pc = [c \in Calls |-> "idle"]
  /\ job = [c \in Calls |-> None]
  /\ did = [c \in Calls |-> "none"]

Gated(kind) == kind \in {"llm", "domain"}
Swallows(kind) == kind \in {"domain", "sms"}
KeyOf(j) == [kind |-> j.kind, work |-> j.work, stamp |-> j.stamp]
Key(c) == KeyOf(job[c])
Goto(c, label) == pc' = [pc EXCEPT ![c] = label]
Did(c, outcome) == did' = [did EXCEPT ![c] = outcome]

-----------------------------------------------------------------------------
(* Starting a call.                                                         *)

(* How the callers derive the accounting key: an agent job's key is its id, *)
(* the WhatsApp and domain actions end theirs with Date.now(), the SMS      *)
(* route adds a random suffix, so no other call has its key.                *)
Stamped(j) ==
  /\ (j.stamp = None) = (j.kind = "llm")
  /\ j.kind = "sms" => \A c \in Calls : pc[c] # "idle" => Key(c) # KeyOf(j)

(* What each kind of call does first.                                       *)
FirstStep(kind) ==
  CASE Gated(kind) -> "preflight"
    [] kind = "sms" -> "work"
    [] OTHER -> "insert"

Start(c, j) ==
  /\ pc[c] = "idle"
  /\ Stamped(j)
  /\ job' = [job EXCEPT ![c] = j]
  /\ Goto(c, FirstStep(j.kind))
  /\ UNCHANGED <<ledger, locks, did>>

(* Mutant: the balance is only required to be positive.                     *)
Covers_AnyBalance(estimate) == balance > 0 \/ estimate = 0

(* The balance check: what is committed now, whatever is in flight.         *)
Covers(estimate) == balance >= estimate

Preflight(c) ==
  /\ pc[c] = "preflight"
  /\ Goto(c, IF Covers(Estimate) THEN "work" ELSE "denied")
  /\ UNCHANGED <<ledger, locks, job, did>>

(* The provider, vendor or gateway answers.  An LLM cache hit, a degraded   *)
(* answer and a rejected domain order end the call without a debit.         *)
WorkDone(c) ==
  /\ pc[c] = "work"
  /\ Did(c, "ok")
  /\ Goto(c, "insert")
  /\ UNCHANGED <<ledger, locks, job>>

WorkFails(c) ==
  /\ pc[c] = "work"
  /\ Did(c, "failed")
  /\ Goto(c, "done")
  /\ UNCHANGED <<ledger, locks, job>>

-----------------------------------------------------------------------------
(* The debit transaction.                                                   *)

(* INSERT ... ON CONFLICT DO NOTHING: a row is inserted.                    *)
Insert(c) ==
  /\ pc[c] = "insert"
  /\ keyLock[Key(c)] = None
  /\ usage[Key(c)] = None
  /\ keyLock' = [keyLock EXCEPT ![Key(c)] = c]
  /\ Goto(c, "update")
  /\ UNCHANGED <<ledger, walletLock, job, did>>

(* Mutant: a duplicate goes on to the UPDATE.                               *)
AfterConflict_Debits(kind) == "update"

(* Mutant: the message is sent whatever `applied` says.                     *)
AfterConflict_Sends(kind) == IF kind = "whatsapp" THEN "send" ELSE "done"

(* A duplicate only reads the balance; the caller gets applied = false, and *)
(* the WhatsApp call returns without sending.                               *)
AfterConflict(kind) == "done"

InsertConflicts(c) ==
  /\ pc[c] = "insert"
  /\ keyLock[Key(c)] = None
  /\ usage[Key(c)] # None
  /\ Goto(c, AfterConflict(job[c].kind))
  /\ UNCHANGED <<ledger, locks, job, did>>

(* UPDATE token_wallets SET balanceMicro = balanceMicro - amount.           *)
Update(c) ==
  /\ pc[c] = "update"
  /\ walletLock = None
  /\ walletLock' = c
  /\ Goto(c, "commit")
  /\ UNCHANGED <<ledger, keyLock, job, did>>

(* Mutant: the lock on the key outlives a rolled back transaction.          *)
Released_Leaks(c) ==
  /\ UNCHANGED keyLock
  /\ walletLock' = IF walletLock = c THEN None ELSE walletLock

(* The end of a transaction, either way, drops its locks.                   *)
Released(c) ==
  /\ keyLock' = [k \in Keys |-> IF keyLock[k] = c THEN None ELSE keyLock[k]]
  /\ walletLock' = IF walletLock = c THEN None ELSE walletLock

(* Mutant: the margin is applied to the stored amount a second time.        *)
Debited_MarginTwice(c) ==
  /\ usage' = [usage EXCEPT ![Key(c)] = 2 * job[c].cost]
  /\ balance' = balance - job[c].cost
  /\ UNCHANGED credited

(* What COMMIT makes visible.                                               *)
Debited(c) ==
  /\ usage' = [usage EXCEPT ![Key(c)] = job[c].cost]
  /\ balance' = balance - job[c].cost
  /\ UNCHANGED credited

(* Where the caller goes once the debit is applied.                         *)
AfterDebit(kind) == IF kind = "whatsapp" THEN "send" ELSE "done"

(* Where it goes when wallet.debit throws.                                  *)
AfterError(kind) == IF Swallows(kind) THEN "done" ELSE "threw"

Commit(c) ==
  /\ pc[c] = "commit"
  /\ Debited(c)
  /\ Released(c)
  /\ Goto(c, AfterDebit(job[c].kind))
  /\ UNCHANGED <<job, did>>

(* The database commits but its answer never reaches the process.           *)
CommitUnanswered(c) ==
  /\ pc[c] = "commit"
  /\ Debited(c)
  /\ Released(c)
  /\ Goto(c, AfterError(job[c].kind))
  /\ UNCHANGED <<job, did>>

(* A statement fails: the transaction rolls back and wallet.debit throws.   *)
Rollback(c) ==
  /\ pc[c] \in InTxn
  /\ Released(c)
  /\ Goto(c, AfterError(job[c].kind))
  /\ UNCHANGED <<ledger, job, did>>

-----------------------------------------------------------------------------
(* sendWhatsappMessage after an applied debit: bspSendText answers or throws. *)
Send(c) ==
  /\ pc[c] = "send"
  /\ \/ Did(c, "ok") /\ Goto(c, "done")
     \/ Did(c, "failed") /\ Goto(c, "threw")
  /\ UNCHANGED <<ledger, locks, job>>

(* The process is killed; its open transaction rolls back.                  *)
Crash(c) ==
  /\ pc[c] \notin Ended \cup {"idle"}
  /\ Released(c)
  /\ Goto(c, "crashed")
  /\ UNCHANGED <<ledger, job, did>>

(* topUp: wallet.credit is one upsert with an increment.                    *)
TopUp(amount) ==
  /\ walletLock = None
  /\ credited + amount <= MaxCredit
  /\ balance' = balance + amount
  /\ credited' = credited + amount
  /\ UNCHANGED <<usage, locks, call>>

-----------------------------------------------------------------------------
Statement(c) ==
  \/ Insert(c) \/ InsertConflicts(c) \/ Update(c)
  \/ Commit(c) \/ CommitUnanswered(c)

Next ==
  \/ \E c \in Calls :
       \/ \E j \in Jobs : Start(c, j)
       \/ Preflight(c) \/ WorkDone(c) \/ WorkFails(c)
       \/ Statement(c) \/ Rollback(c)
       \/ Send(c) \/ Crash(c)
  \/ \E amount \in TopUps : TopUp(amount)

Spec == Init /\ [][Next]_vars

(* Postgres executes the statements it is given and grants free locks; a    *)
(* failing statement is never needed for a transaction to end.              *)
FairSpec == Spec /\ \A c \in Calls : WF_vars(Statement(c))

-----------------------------------------------------------------------------
(* Properties.                                                              *)

(* wallet.debit is atomic and exactly-once: whatever the statements of      *)
(* concurrent transactions interleave with, and wherever one is cut off,    *)
(* the committed rows and balance move as a CreditLedger's do.              *)
Ledger == INSTANCE CreditLedger WITH
  Amounts <- Costs, Credits <- TopUps, entries <- usage
ImplementsLedger == Ledger!Spec

(* The calls that handed a WhatsApp message to Meta.                        *)
Sent(c) == job[c] # None /\ job[c].kind = "whatsapp" /\ did[c] = "ok"

(* sendWhatsappMessage re-attaches a retry: of all the calls that share an  *)
(* accounting key at most one hands the message to Meta.                    *)
SentOncePerKey ==
  \A c, d \in Calls : Sent(c) /\ Sent(d) /\ Key(c) = Key(d) => c = d

(* Work before debit: nobody is charged for a provider call, order or text  *)
(* that was not made; a row implies that a call under its key did the work. *)
ChargedForWorkDone ==
  \A k \in Keys :
    usage[k] # None /\ k.kind # "whatsapp" =>
      \E c \in Calls : job[c] # None /\ Key(c) = k /\ did[c] = "ok"

(* Nothing leaves unpaid: "dispatch the real BSP call only after the wallet *)
(* has been successfully charged", at that call's own price, and an LLM     *)
(* answer from its provider only with a row under its key, so that one is   *)
(* free only for a key that has paid.                                       *)
NothingLeavesUnpaid ==
  \A c \in Calls :
    /\ Sent(c) => usage[Key(c)] = job[c].cost
    /\ pc[c] = "done" /\ job[c].kind = "llm" /\ did[c] = "ok" => usage[Key(c)] # None

(* What is sent is sent once and paid for, what is charged was done.        *)
WorkAndChargeAgree == SentOncePerKey /\ ChargedForWorkDone /\ NothingLeavesUnpaid

(* What is paid for calls of the kinds whose balance is checked first.      *)
GatedCalls == {c \in Calls : job[c] # None /\ Gated(job[c].kind)}
GatedKeys == {k \in Keys : Gated(k.kind) /\ usage[k] # None}
GatedSpent == MapThenSumSet(LAMBDA k : usage[k], GatedKeys)

(* What the balance check does guarantee, with spending it does not gate    *)
(* left out: llm and domain calls that cost at most the estimate bring the  *)
(* wallet under zero by less than what those that checked one and the same  *)
(* balance can cost together; such a call alone never overdraws.            *)
OverdraftBounded ==
  (\A x \in Costs : x <= Estimate) /\ GatedCalls # {}
    => credited - GatedSpent >= -((Cardinality(GatedCalls) - 1) * Estimate)

(* No transaction waits for ever: locks are taken key first, wallet second, *)
(* and every end of a transaction drops them.                               *)
TransactionsEnd == \A c \in Calls : pc[c] \in InTxn ~> pc[c] \notin InTxn

-----------------------------------------------------------------------------
(* What a comment of the code says and the code does not do.                *)

(* whatsapp.ts:106-107: a duplicate key "means the message was already      *)
(* sent", and the caller is told so.                                        *)
DuplicateWasSent ==
  \A c \in Calls :
    pc[c] = "done" /\ job[c].kind = "whatsapp" /\ did[c] = "none" =>
      \E d \in Calls : Sent(d) /\ Key(d) = Key(c)
=============================================================================
