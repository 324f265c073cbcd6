---------------------------- MODULE WalletProofs ----------------------------
(***************************************************************************)
(* Proofs about Wallet: the debit transaction implements CreditLedger, and *)
(* what is sent, charged and answered agree, for any number of calls.      *)
(***************************************************************************)
EXTENDS Wallet, FiniteSetTheorems, WellFoundedInduction, TLAPS

(* An uncommitted row is held by its transaction alone and is not committed. *)
RowHeld ==
  \A c \in Calls :
    pc[c] \in {"update", "commit"} => keyLock[Key(c)] = c /\ usage[Key(c)] = None

(* How far the outside work of a call is, given where the call stands.      *)
WorkMatchesStage ==
  \A c \in Calls :
    /\ pc[c] \in {"idle", "preflight", "work", "send"} => did[c] = "none"
    /\ pc[c] = "idle" => job[c] = None
    /\ pc[c] = "send" => job[c].kind = "whatsapp"
    /\ pc[c] \in {"preflight", "work"} => job[c].kind # "whatsapp"
    /\ pc[c] \in InTxn /\ job[c].kind = "whatsapp" => did[c] = "none"
    /\ pc[c] \in InTxn /\ job[c].kind # "whatsapp" => did[c] = "ok"

(* The calls that may send, or have sent, a WhatsApp message.               *)
MaySend(c) == pc[c] = "send" \/ Sent(c)

PaidToSend == \A c \in Calls : MaySend(c) => usage[Key(c)] = job[c].cost

OneSender == \A c, d \in Calls : MaySend(c) /\ MaySend(d) /\ Key(c) = Key(d) => c = d

(* The two halves of NothingLeavesUnpaid.                                   *)
SentIsCharged == \A c \in Calls : Sent(c) => usage[Key(c)] = job[c].cost

AnswerIsCharged ==
  \A c \in Calls :
    pc[c] = "done" /\ job[c].kind = "llm" /\ did[c] = "ok" => usage[Key(c)] # None

IInv ==
  /\ TypeOK
  /\ RowHeld
  /\ WorkMatchesStage
  /\ PaidToSend
  /\ OneSender
  /\ ChargedForWorkDone
  /\ AnswerIsCharged

-----------------------------------------------------------------------------
(* The key of a call that has begun is a key.                               *)
LEMMA KeyIsKey == ASSUME NEW j \in Jobs PROVE KeyOf(j) \in Keys
BY DEF Jobs, Keys, KeyOf

(* A retail amount is a number.                                             *)
LEMMA CostIsInt == ASSUME NEW x \in Costs PROVE x \in Int
BY WalletAssumption

(* The types are kept by every step.                                        *)
LEMMA TypeStep == TypeOK /\ [Next]_vars => TypeOK'
<1> SUFFICES ASSUME TypeOK, [Next]_vars PROVE TypeOK'
  OBVIOUS
<1> USE WalletAssumption, NoneIsNoJob
<1>1. ASSUME NEW c \in Calls, NEW j \in Jobs, Start(c, j) PROVE TypeOK'
  BY <1>1 DEF Start, Goto, FirstStep, TypeOK, ledger, locks, InTxn, Ended
<1>2. ASSUME NEW c \in Calls, Preflight(c) PROVE TypeOK'
  BY <1>2 DEF Preflight, Goto, TypeOK, ledger, locks, InTxn, Ended
<1>3. ASSUME NEW c \in Calls, WorkDone(c) \/ WorkFails(c) PROVE TypeOK'
  BY <1>3 DEF WorkDone, WorkFails, Goto, Did, TypeOK, ledger, locks, InTxn, Ended
<1>4. ASSUME NEW c \in Calls, Insert(c) PROVE TypeOK'
  BY <1>4, KeyIsKey DEF Insert, Goto, Key, TypeOK, ledger, InTxn, Ended
<1>5. ASSUME NEW c \in Calls, InsertConflicts(c) PROVE TypeOK'
  BY <1>5 DEF InsertConflicts, AfterConflict, Goto, TypeOK, ledger, locks, InTxn, Ended
<1>6. ASSUME NEW c \in Calls, Update(c) PROVE TypeOK'
  BY <1>6 DEF Update, Goto, TypeOK, ledger, InTxn, Ended
<1>7. ASSUME NEW c \in Calls, Commit(c) \/ CommitUnanswered(c) PROVE TypeOK'
  <2>1. job[c] \in Jobs
    BY <1>7 DEF Commit, CommitUnanswered, TypeOK
  <2>2. PICK j \in Jobs : j = job[c]
    BY <2>1
  <2>6. j.cost \in Costs /\ j.cost \in Int
    BY CostIsInt DEF Jobs
  <2>3. usage' \in [Keys -> Costs \cup {None}] /\ balance' \in Int /\ credited' \in Nat
    BY <1>7, <2>2, <2>6 DEF Commit, CommitUnanswered, Debited, Key, TypeOK
  <2>4. /\ pc' \in [Calls -> {"idle", "preflight", "work", "send"} \cup InTxn \cup Ended]
        /\ \A d \in Calls : pc'[d] # "idle" => pc[d] # "idle"
    BY <1>7 DEF Commit, CommitUnanswered, Goto, AfterDebit, AfterError, TypeOK, InTxn, Ended
  <2>5. keyLock' \in [Keys -> Calls \cup {None}] /\ walletLock' \in Calls \cup {None}
    BY <1>7 DEF Commit, CommitUnanswered, Released, TypeOK
  <2> QED BY <1>7, <2>3, <2>4, <2>5 DEF Commit, CommitUnanswered, TypeOK
<1>8. ASSUME NEW c \in Calls, Rollback(c) PROVE TypeOK'
  BY <1>8 DEF Rollback, Released, Goto, AfterError, TypeOK, ledger, InTxn, Ended
<1>9. ASSUME NEW c \in Calls, Send(c) PROVE TypeOK'
  BY <1>9 DEF Send, Goto, Did, TypeOK, ledger, locks, InTxn, Ended
<1>10. ASSUME NEW c \in Calls, Crash(c) PROVE TypeOK'
  BY <1>10 DEF Crash, Released, Goto, TypeOK, ledger, InTxn, Ended
<1>11. ASSUME NEW amount \in TopUps, TopUp(amount) PROVE TypeOK'
  BY <1>11 DEF TopUp, TypeOK, locks, call
<1>12. CASE UNCHANGED vars
  BY <1>12 DEF vars, ledger, locks, call, TypeOK
<1> QED
  BY <1>1, <1>2, <1>3, <1>4, <1>5, <1>6, <1>7, <1>8, <1>9, <1>10, <1>11, <1>12
  DEF Next, Statement

Commits(c) == Commit(c) \/ CommitUnanswered(c)

(* What COMMIT does to the ledger, from where its transaction stands: the   *)
(* row was absent, and its amount leaves the balance.                       *)
LEMMA CommitPosts ==
  ASSUME IInv, NEW c \in Calls, Commits(c)
  PROVE  /\ pc[c] = "commit"
         /\ job[c] \in Jobs
         /\ Key(c) \in Keys
         /\ usage[Key(c)] = None
         /\ usage' = [usage EXCEPT ![Key(c)] = job[c].cost]
         /\ usage'[Key(c)] = job[c].cost
         /\ job[c].cost \in Costs
         /\ balance' = balance - job[c].cost
BY KeyIsKey DEF Commits, Commit, CommitUnanswered, IInv, TypeOK, RowHeld, Debited, Key, Jobs

(* Nothing but a COMMIT writes a row.                                       *)
LEMMA OnlyCommitWrites ==
  ASSUME Next
  PROVE  \/ UNCHANGED usage
         \/ \E c \in Calls : Commits(c)
BY DEF Commits, Next, Statement, Start, Preflight, WorkDone, WorkFails, Insert, InsertConflicts,
       Update, Commit, CommitUnanswered, Rollback, Send, Crash, TopUp, ledger

(* A committed row is never rewritten: record_usage_debit is append-only.   *)
LEMMA UsageGrows ==
  ASSUME IInv, Next, NEW k \in Keys, usage[k] # None
  PROVE  usage'[k] = usage[k]
<1>1. CASE UNCHANGED usage
  BY <1>1
<1>2. ASSUME NEW c \in Calls, Commits(c) PROVE usage'[k] = usage[k]
  BY <1>2, CommitPosts DEF IInv, TypeOK
<1> QED BY <1>1, <1>2, OnlyCommitWrites

-----------------------------------------------------------------------------
(* The strengthened invariant, conjunct by conjunct.                        *)

(* A call that has begun keeps its job, hence its key; one that is in its   *)
(* transaction has a job.                                                   *)
LEMMA JobKept ==
  ASSUME TypeOK, Next, NEW c \in Calls, pc[c] # "idle"
  PROVE  job'[c] = job[c] /\ job[c] \in Jobs /\ Key(c) \in Keys /\ Key(c)' = Key(c)
<1>1. job[c] \in Jobs
  BY DEF TypeOK
<1>2. job'[c] = job[c]
  BY DEF TypeOK, Next, Statement, Start, Preflight, WorkDone, WorkFails, Insert,
         InsertConflicts, Update, Commit, CommitUnanswered, Rollback, Send, Crash,
         TopUp, call
<1> QED BY <1>1, <1>2, KeyIsKey DEF Key

LEMMA RowHeldStep == IInv /\ Next => RowHeld'
<1> SUFFICES ASSUME IInv, Next, NEW c \in Calls, pc'[c] \in {"update", "commit"}
             PROVE  keyLock'[Key(c)'] = c /\ usage'[Key(c)'] = None
  BY DEF RowHeld
<1>1. TypeOK /\ RowHeld
  BY DEF IInv
<1>2. CASE Insert(c)
  BY <1>1, <1>2, JobKept DEF Insert, TypeOK, ledger
<1>3. CASE ~Insert(c)
  <2>1. pc[c] \in {"update", "commit"}
    BY <1>1, <1>3 DEF Next, Statement, Start, FirstStep, Preflight, WorkDone, WorkFails,
       Insert, InsertConflicts, AfterConflict, Update, Commit, CommitUnanswered,
       AfterDebit, AfterError, Rollback, Send, Crash, TopUp, Goto, TypeOK, call
  <2>2. keyLock[Key(c)] = c /\ usage[Key(c)] = None /\ Key(c) \in Keys /\ Key(c)' = Key(c)
    BY <1>1, <2>1, JobKept DEF RowHeld
  <2>3. keyLock'[Key(c)] = c
    <3>1. ASSUME NEW d \in Calls, Insert(d) PROVE keyLock'[Key(c)] = c
      BY <1>1, <2>2, <3>1, WalletAssumption DEF Insert, TypeOK
    <3>2. ASSUME NEW d \in Calls, Released(d), d # c PROVE keyLock'[Key(c)] = c
      BY <2>2, <3>2 DEF Released
    <3>3. \/ \E d \in Calls : Insert(d)
          \/ \E d \in Calls : Released(d) /\ d # c
          \/ UNCHANGED keyLock
      BY <1>1, <2>1 DEF Next, Statement, Start, Preflight, WorkDone, WorkFails,
         InsertConflicts, Update, Commit, CommitUnanswered, AfterDebit, AfterError,
         Rollback, Send, Crash, TopUp, Goto, TypeOK, locks, InTxn
    <3> QED BY <2>2, <3>1, <3>2, <3>3
  <2>4. usage'[Key(c)] = None
    <3>1. ASSUME NEW d \in Calls, Commits(d) PROVE usage'[Key(c)] = None
      <4>1. d # c
        BY <1>1, <3>1 DEF Commits, Commit, CommitUnanswered, AfterDebit, AfterError,
           Goto, TypeOK
      <4>2. keyLock[Key(d)] = d
        BY <3>1, <1>1, CommitPosts DEF RowHeld
      <4> QED BY <1>1, <2>2, <3>1, <4>1, <4>2, CommitPosts DEF TypeOK
    <3> QED BY <2>2, <3>1, OnlyCommitWrites
  <2> QED BY <2>2, <2>3, <2>4
<1> QED BY <1>2, <1>3

LEMMA WorkMatchesStageStep == IInv /\ Next => WorkMatchesStage'
<1> SUFFICES ASSUME IInv, Next PROVE WorkMatchesStage'
  OBVIOUS
<1>0. TypeOK /\ WorkMatchesStage
  BY DEF IInv
<1> USE <1>0, NoneIsNoJob DEF TypeOK, WorkMatchesStage, InTxn, Goto
<1>1. ASSUME NEW c \in Calls, NEW j \in Jobs, Start(c, j) PROVE WorkMatchesStage'
  <2>1. j.kind \in AllKinds
    BY WalletAssumption DEF Jobs
  <2> QED BY <1>1, <2>1 DEF Start, FirstStep, Gated, AllKinds
<1>2. ASSUME NEW c \in Calls, Preflight(c) PROVE WorkMatchesStage'
  BY <1>2 DEF Preflight
<1>3. ASSUME NEW c \in Calls, WorkDone(c) \/ WorkFails(c) PROVE WorkMatchesStage'
  BY <1>3 DEF WorkDone, WorkFails, Did
<1>4. ASSUME NEW c \in Calls, Insert(c) \/ InsertConflicts(c) \/ Update(c)
      PROVE  WorkMatchesStage'
  BY <1>4 DEF Insert, InsertConflicts, AfterConflict, Update
<1>5. ASSUME NEW c \in Calls, Commits(c) PROVE WorkMatchesStage'
  BY <1>5 DEF Commits, Commit, CommitUnanswered, AfterDebit, AfterError
<1>6. ASSUME NEW c \in Calls, Rollback(c) \/ Crash(c) PROVE WorkMatchesStage'
  BY <1>6 DEF Rollback, AfterError, Crash, Ended
<1>7. ASSUME NEW c \in Calls, Send(c) PROVE WorkMatchesStage'
  BY <1>7 DEF Send, Did
<1>8. ASSUME NEW amount \in TopUps, TopUp(amount) PROVE WorkMatchesStage'
  BY <1>8 DEF TopUp, call
<1> QED
  BY <1>1, <1>2, <1>3, <1>4, <1>5, <1>6, <1>7, <1>8 DEF Next, Statement, Commits

(* A call comes to send only by committing its own row.                     *)
LEMMA SenderCommitted ==
  ASSUME IInv, Next, NEW c \in Calls, MaySend(c)', ~MaySend(c)
  PROVE  Commits(c)
<1>0. TypeOK /\ WorkMatchesStage
  BY DEF IInv
<1> USE <1>0, NoneIsNoJob DEF TypeOK, WorkMatchesStage, InTxn, Goto, MaySend, Sent
<1>1. ASSUME NEW d \in Calls, NEW j \in Jobs, Start(d, j) PROVE FALSE
  <2>1. did[d] = "none" /\ UNCHANGED did /\ pc'[c] # "send"
    BY <1>1 DEF Start, FirstStep
  <2> QED BY <1>1, <2>1 DEF Start
<1>2. ASSUME NEW d \in Calls, WorkDone(d) \/ WorkFails(d) PROVE FALSE
  BY <1>2 DEF WorkDone, WorkFails, Did
<1>3. ASSUME NEW d \in Calls, Preflight(d) \/ Insert(d) \/ InsertConflicts(d) \/ Update(d)
      PROVE  FALSE
  BY <1>3 DEF Preflight, Insert, InsertConflicts, AfterConflict, Update
<1>4. ASSUME NEW d \in Calls, Commits(d) PROVE c = d
  BY <1>4 DEF Commits, Commit, CommitUnanswered
<1>5. ASSUME NEW d \in Calls, Rollback(d) \/ Crash(d) PROVE FALSE
  BY <1>5 DEF Rollback, AfterError, Crash
<1>6. ASSUME NEW d \in Calls, Send(d) PROVE FALSE
  BY <1>6 DEF Send, Did
<1>7. ASSUME NEW amount \in TopUps, TopUp(amount) PROVE FALSE
  BY <1>7 DEF TopUp, call
<1> QED
  BY <1>1, <1>2, <1>3, <1>4, <1>5, <1>6, <1>7 DEF Next, Statement, Commits

(* The sender has a job and a key, before the step and after it.            *)
LEMMA SenderHasKey ==
  ASSUME IInv, Next, NEW c \in Calls, MaySend(c)'
  PROVE  job'[c] = job[c] /\ job[c] \in Jobs /\ Key(c) \in Keys /\ Key(c)' = Key(c)
<1>1. pc[c] # "idle"
  <2>1. CASE MaySend(c)
    BY <2>1 DEF IInv, MaySend, Sent, WorkMatchesStage
  <2>2. CASE ~MaySend(c)
    BY <2>2, SenderCommitted, CommitPosts
  <2> QED BY <2>1, <2>2
<1> QED BY <1>1, JobKept DEF IInv

LEMMA PaidToSendStep == IInv /\ Next => PaidToSend'
<1> SUFFICES ASSUME IInv, Next, NEW c \in Calls, MaySend(c)'
             PROVE  usage'[Key(c)'] = job'[c].cost
  BY DEF PaidToSend
<1>1. CASE MaySend(c)
  <2>1. usage[Key(c)] = job[c].cost /\ job[c].cost \in Costs
    BY <1>1, SenderHasKey DEF IInv, PaidToSend, Jobs
  <2> QED BY <2>1, SenderHasKey, UsageGrows, WalletAssumption
<1>2. CASE ~MaySend(c)
  BY <1>2, SenderCommitted, SenderHasKey, CommitPosts
<1> QED BY <1>1, <1>2

LEMMA OneSenderStep == IInv /\ Next => OneSender'
<1> SUFFICES ASSUME IInv, Next, NEW c \in Calls, NEW d \in Calls,
                    MaySend(c)', MaySend(d)', Key(c)' = Key(d)'
             PROVE  c = d
  BY DEF OneSender
<1>1. Key(c) = Key(d)
  BY SenderHasKey
<1>2. ASSUME NEW x \in Calls, NEW y \in Calls, Commits(x), MaySend(y), Key(x) = Key(y)
      PROVE  FALSE
  <2>1. usage[Key(x)] = None
    BY <1>2, CommitPosts
  <2>2. pc[y] # "idle" /\ usage[Key(y)] = job[y].cost
    BY <1>2 DEF IInv, MaySend, Sent, WorkMatchesStage, PaidToSend
  <2>3. job[y].cost \in Costs
    BY <2>2 DEF IInv, TypeOK, Jobs
  <2> QED BY <1>2, <2>1, <2>2, <2>3, WalletAssumption
<1>3. CASE MaySend(c) /\ MaySend(d)
  BY <1>1, <1>3 DEF IInv, OneSender
<1>4. CASE ~MaySend(c) /\ ~MaySend(d)
  <2>1. Commits(c) /\ Commits(d)
    BY <1>4, SenderCommitted
  <2>2. pc'[c] # "commit" /\ pc'[d] # "commit"
    BY <2>1 DEF Commits, Commit, CommitUnanswered, AfterDebit, AfterError, Goto,
       IInv, TypeOK
  <2> QED BY <2>1, <2>2 DEF Commits, Commit, CommitUnanswered, Goto, IInv, TypeOK
<1>5. CASE ~MaySend(c) /\ MaySend(d)
  BY <1>1, <1>2, <1>5, SenderCommitted
<1>6. CASE MaySend(c) /\ ~MaySend(d)
  BY <1>1, <1>2, <1>6, SenderCommitted
<1> QED BY <1>3, <1>4, <1>5, <1>6

(* Outside work that succeeded is not undone.                               *)
LEMMA WorkStays ==
  ASSUME IInv, Next, NEW c \in Calls, job[c] # None, did[c] = "ok"
  PROVE  job'[c] = job[c] /\ Key(c)' = Key(c) /\ did'[c] = "ok"
<1>1. pc[c] # "idle" /\ pc[c] # "work" /\ pc[c] # "send"
  BY DEF IInv, WorkMatchesStage
<1>2. did'[c] = "ok"
  BY <1>1 DEF IInv, TypeOK, Next, Statement, Start, Preflight, WorkDone, WorkFails,
     Insert, InsertConflicts, Update, Commit, CommitUnanswered, Rollback, Send, Crash,
     TopUp, call, Did
<1> QED BY <1>1, <1>2, JobKept DEF IInv

LEMMA ChargedForWorkDoneStep == IInv /\ Next => ChargedForWorkDone'
<1> SUFFICES ASSUME IInv, Next, NEW k \in Keys, usage'[k] # None, k.kind # "whatsapp"
             PROVE  \E c \in Calls : job'[c] # None /\ Key(c)' = k /\ did'[c] = "ok"
  BY DEF ChargedForWorkDone
<1>1. CASE usage[k] # None
  <2>1. PICK c \in Calls : job[c] # None /\ Key(c) = k /\ did[c] = "ok"
    BY <1>1 DEF IInv, ChargedForWorkDone
  <2> QED BY <2>1, WorkStays
<1>2. CASE usage[k] = None
  <2>1. PICK c \in Calls : Commits(c)
    BY <1>2, OnlyCommitWrites
  <2>2. Key(c) = k /\ pc[c] = "commit" /\ job[c] \in Jobs
    BY <1>2, <2>1, CommitPosts DEF IInv, TypeOK
  <2>3. job[c].kind # "whatsapp"
    BY <2>2 DEF Key, KeyOf
  <2>4. job[c] # None /\ did[c] = "ok"
    BY <2>2, <2>3, NoneIsNoJob DEF IInv, WorkMatchesStage, InTxn
  <2> QED BY <2>2, <2>4, WorkStays
<1> QED BY <1>1, <1>2

LEMMA AnswerIsChargedStep == IInv /\ Next => AnswerIsCharged'
<1> SUFFICES ASSUME IInv, Next, NEW c \in Calls,
                    pc'[c] = "done", job'[c].kind = "llm", did'[c] = "ok"
             PROVE  usage'[Key(c)'] # None
  BY DEF AnswerIsCharged
<1>0. TypeOK /\ WorkMatchesStage
  BY DEF IInv
<1>1. pc[c] # "idle"
  BY <1>0 DEF TypeOK, Next, Statement, Start, FirstStep, Preflight, WorkDone, WorkFails,
     Insert, InsertConflicts, Update, Commit, CommitUnanswered, Rollback, Send, Crash,
     TopUp, call, Goto, InTxn, Ended
<1>2. job'[c] = job[c] /\ Key(c) \in Keys /\ Key(c)' = Key(c) /\ job[c] \in Jobs
  BY <1>0, <1>1, JobKept
<1>3. CASE Commits(c)
  BY <1>2, <1>3, CommitPosts, WalletAssumption
<1>4. CASE InsertConflicts(c)
  BY <1>2, <1>4, UsageGrows DEF InsertConflicts
<1>5. CASE ~Commits(c) /\ ~InsertConflicts(c)
  <2>1. pc[c] = "done" /\ did[c] = "ok"
    BY <1>0, <1>1, <1>2, <1>5 DEF Commits, TypeOK, WorkMatchesStage, Next, Statement, Start,
       FirstStep, Preflight, WorkDone, WorkFails, Insert, InsertConflicts, AfterConflict,
       Update, Commit, CommitUnanswered, AfterDebit, AfterError, Swallows, Rollback, Send,
       Crash, TopUp, call, Goto, Did, InTxn, Ended
  <2>2. usage[Key(c)] # None
    BY <1>2, <2>1 DEF IInv, AnswerIsCharged
  <2> QED BY <1>2, <2>2, UsageGrows
<1> QED BY <1>3, <1>4, <1>5

-----------------------------------------------------------------------------
(* Theorems.                                                                *)

(* Every state of every instance is well typed.                             *)
THEOREM SpecTypeOK == Spec => []TypeOK
<1>1. Init => TypeOK
  BY DEF Init, TypeOK, Ended, InTxn
<1> QED BY <1>1, TypeStep, PTL DEF Spec

(* The strengthened invariant holds of every reachable state.               *)
THEOREM SpecIInv == Spec => []IInv
<1>1. Init => IInv
  BY DEF Init, IInv, TypeOK, RowHeld, WorkMatchesStage, MaySend, Sent, PaidToSend,
     OneSender, ChargedForWorkDone, AnswerIsCharged, Ended, InTxn
<1>2. IInv /\ [Next]_vars => IInv'
  <2>1. CASE Next
    BY <2>1, TypeStep, RowHeldStep, WorkMatchesStageStep, PaidToSendStep, OneSenderStep,
       ChargedForWorkDoneStep, AnswerIsChargedStep DEF IInv
  <2>2. CASE UNCHANGED vars
    BY <2>2 DEF vars, ledger, locks, call, IInv, TypeOK, RowHeld, WorkMatchesStage,
       MaySend, Sent, PaidToSend, OneSender, ChargedForWorkDone, AnswerIsCharged, Key
  <2> QED BY <2>1, <2>2
<1> QED BY <1>1, <1>2, PTL DEF Spec

(* A WhatsApp message is handed over at most once per accounting key,       *)
(* whatever calls share it, and not before its debit is committed; nobody   *)
(* is charged for work not done, and no LLM answer comes without a row      *)
(* under its key.                                                           *)
THEOREM ChargesMatchWork == Spec => []WorkAndChargeAgree
<1>1. IInv => SentOncePerKey /\ ChargedForWorkDone
  BY DEF IInv, OneSender, MaySend, SentOncePerKey
<1>2. IInv => SentIsCharged /\ AnswerIsCharged
  BY DEF IInv, PaidToSend, MaySend, SentIsCharged
<1>3. SentIsCharged /\ AnswerIsCharged => NothingLeavesUnpaid
  BY DEF SentIsCharged, AnswerIsCharged, NothingLeavesUnpaid
<1>4. IInv => WorkAndChargeAgree
  BY <1>1, <1>2, <1>3 DEF WorkAndChargeAgree
<1> QED BY <1>4, SpecIInv, PTL

(* The debit transaction, statement by statement and under concurrent       *)
(* transactions, crashes and lost answers, implements the atomic ledger.    *)
THEOREM WalletImplementsLedger == Spec => ImplementsLedger
<1>1. Init => Ledger!Init
  BY DEF Init, Ledger!Init
<1>2. IInv /\ [Next]_vars => [Ledger!Next]_(Ledger!vars)
  <2> SUFFICES ASSUME IInv, [Next]_vars PROVE [Ledger!Next]_(Ledger!vars)
    OBVIOUS
  <2>1. ASSUME NEW c \in Calls, Commits(c) PROVE Ledger!Next
    <3>1. Ledger!Post(Key(c), job[c].cost)
      BY <2>1, CommitPosts DEF Ledger!Post
    <3> QED BY <2>1, <3>1, CommitPosts DEF Ledger!Next
  <2>2. ASSUME NEW amount \in TopUps, TopUp(amount) PROVE Ledger!Next
    BY <2>2 DEF TopUp, Ledger!Next, Ledger!Credit
  <2>3. \/ \E c \in Calls : Commits(c)
        \/ \E amount \in TopUps : TopUp(amount)
        \/ UNCHANGED <<usage, balance>>
    BY DEF Commits, Next, Statement, Start, Preflight, WorkDone, WorkFails, Insert,
       InsertConflicts, Update, Commit, CommitUnanswered, Rollback, Send, Crash,
       vars, ledger
  <2> QED BY <2>1, <2>2, <2>3 DEF Ledger!vars
<1> QED BY <1>1, <1>2, SpecIInv, PTL DEF Spec, ImplementsLedger, Ledger!Spec

-----------------------------------------------------------------------------
(***************************************************************************)
(* Sums over finite sets.  MapThenSumSet takes off one element at a time,  *)
(* which one is not told; what is needed of it is that any can be first.   *)
(* The induction over the number of elements is by the least               *)
(* counterexample.                                                         *)
(***************************************************************************)
Total(F, S) == MapThenSumSet(LAMBDA k : F[k], S)

One(s) == CHOOSE x \in s : TRUE

(* g adds up F over each subset of S.                                        *)
Adds(F, S, g) ==
  g = [s \in SUBSET S |-> IF s = {} THEN 0 ELSE F[One(s)] + g[s \ {One(s)}]]

LEMMA TotalIs == ASSUME NEW F, NEW S PROVE Total(F, S) = (CHOOSE g : Adds(F, S, g))[S]
BY DEF Total, MapThenSumSet, MapThenFoldSet, Adds, One

(* A set of numbers has a least one.                                        *)
LEMMA Least ==
  ASSUME NEW B \in SUBSET Nat, B # {}
  PROVE  \E n \in B : \A m \in B : n <= m
<1> DEFINE R == OpToRel(<, Nat)
<1>1. IsWellFoundedOn(R, Nat)
  BY NatLessThanWellFounded
<1>2. \A x, y \in Nat : x < y => <<x, y>> \in R
  BY DEF OpToRel
<1> HIDE DEF R
<1>3. PICK n \in B : \A m \in B : <<m, n>> \notin R
  BY <1>1, WFMin
<1>4. ASSUME NEW m \in B PROVE n <= m
  <2>1. m \in Nat /\ n \in Nat /\ ~ (m < n)
    BY <1>2, <1>3
  <2> QED
    BY <2>1
<1> QED
  BY <1>4

-----------------------------------------------------------------------------
(* Subsets of up to n elements can be added up.                             *)
Few(S, n) == {s \in SUBSET S : Cardinality(s) <= n}

AddsFew(F, S, n, g) ==
  g = [s \in Few(S, n) |-> IF s = {} THEN 0 ELSE F[One(s)] + g[s \ {One(s)}]]

LEMMA OneIn == ASSUME NEW s, s # {} PROVE One(s) \in s
BY DEF One

LEMMA OneLess ==
  ASSUME NEW S, IsFiniteSet(S), NEW s \in SUBSET S, s # {}
  PROVE  /\ s \ {One(s)} \in SUBSET S
         /\ Cardinality(s) \in Nat /\ Cardinality(s \ {One(s)}) \in Nat
         /\ Cardinality(s \ {One(s)}) = Cardinality(s) - 1
<1>1. IsFiniteSet(s)
  BY FS_Subset
<1> QED
  BY <1>1, OneIn, FS_RemoveElement, FS_CardinalityType, FS_Subset

LEMMA CanAddFew ==
  ASSUME NEW F, NEW S, IsFiniteSet(S)
  PROVE  \A n \in Nat : \E g : AddsFew(F, S, n, g)
<1> DEFINE Bad == {n \in Nat : ~ \E g : AddsFew(F, S, n, g)}
<1> SUFFICES ASSUME Bad # {} PROVE FALSE
  OBVIOUS
<1>1. PICK n \in Bad : \A m \in Bad : n <= m
  BY Least
<1>2. CASE n = 0
  <2>1. PICK g : g = [s \in Few(S, 0) |-> 0]
    OBVIOUS
  <2>2. ASSUME NEW s \in Few(S, 0) PROVE s = {}
    <3>1. IsFiniteSet(s) /\ Cardinality(s) = 0
      BY FS_Subset, FS_CardinalityType DEF Few
    <3> QED
      BY <3>1, FS_EmptySet
  <2>3. g = [s \in Few(S, 0) |-> IF s = {} THEN 0 ELSE F[One(s)] + g[s \ {One(s)}]]
    BY <2>1, <2>2
  <2>4. AddsFew(F, S, n, g)
    BY <1>2, <2>3 DEF AddsFew
  <2> QED
    BY <1>1, <2>4
<1>3. CASE n # 0
  <2>1. n - 1 \in Nat /\ n - 1 \notin Bad
    BY <1>1, <1>3
  <2>2. PICK g : AddsFew(F, S, n - 1, g)
    BY <2>1
  <2>3. PICK h : h = [s \in Few(S, n) |-> IF s = {} THEN 0 ELSE F[One(s)] + g[s \ {One(s)}]]
    OBVIOUS
  <2>4. ASSUME NEW s \in Few(S, n), s # {} PROVE h[s \ {One(s)}] = g[s \ {One(s)}]
    <3>1. s \ {One(s)} \in Few(S, n - 1) /\ s \ {One(s)} \in Few(S, n)
      BY <2>4, <1>1, OneLess DEF Few
    <3> QED
      BY <3>1, <2>2, <2>3 DEF AddsFew
  <2>5. h = [s \in Few(S, n) |-> IF s = {} THEN 0 ELSE F[One(s)] + h[s \ {One(s)}]]
    BY <2>3, <2>4
  <2>6. AddsFew(F, S, n, h)
    BY <2>5 DEF AddsFew
  <2> QED
    BY <1>1, <2>6
<1> QED
  BY <1>2, <1>3

LEMMA CanAdd == ASSUME NEW F, NEW S, IsFiniteSet(S) PROVE \E g : Adds(F, S, g)
<1>1. Few(S, Cardinality(S)) = SUBSET S
  BY FS_Subset DEF Few
<1>2. PICK g : AddsFew(F, S, Cardinality(S), g)
  BY CanAddFew, FS_CardinalityType
<1>3. Adds(F, S, g)
  BY <1>1, <1>2 DEF Adds, AddsFew
<1> QED
  BY <1>3

(* Two ways of adding up agree where both are told.                         *)
LEMMA SumsAgree ==
  ASSUME NEW F, NEW G, NEW S, NEW T, NEW U \in SUBSET (S \cap T), IsFiniteSet(S), IsFiniteSet(T),
         \A k \in U : F[k] = G[k],
         NEW g, Adds(F, S, g), NEW h, Adds(G, T, h)
  PROVE  g[U] = h[U]
<1> DEFINE Bad == {n \in Nat : \E s \in SUBSET U : Cardinality(s) = n /\ g[s] # h[s]}
<1>0. IsFiniteSet(U) /\ \A s \in SUBSET U : Cardinality(s) \in Nat
  BY FS_Subset, FS_CardinalityType
<1>1. CASE Bad = {}
  BY <1>0, <1>1
<1>2. CASE Bad # {}
  <2>1. PICK n \in Bad : \A m \in Bad : n <= m
    BY <1>2, Least
  <2>2. PICK s \in SUBSET U : Cardinality(s) = n /\ g[s] # h[s]
    BY <2>1
  <2>3. s # {}
    BY <2>2 DEF Adds
  <2>4. /\ g[s] = F[One(s)] + g[s \ {One(s)}]
        /\ h[s] = G[One(s)] + h[s \ {One(s)}]
    BY <2>3 DEF Adds
  <2>5. g[s \ {One(s)}] = h[s \ {One(s)}]
    <3>1. /\ Cardinality(s \ {One(s)}) \in Nat
          /\ Cardinality(s \ {One(s)}) = n - 1 /\ n \in Nat
          /\ s \ {One(s)} \in SUBSET U
      BY <1>0, <2>2, <2>3, OneLess
    <3> QED
      BY <2>1, <3>1
  <2>6. F[One(s)] = G[One(s)]
    BY <2>3, OneIn
  <2> QED
    BY <2>2, <2>4, <2>5, <2>6
<1> QED
  BY <1>1, <1>2

(* What is added up is the same for functions that agree.                   *)
LEMMA TotalOfSame ==
  ASSUME NEW F, NEW G, NEW S, IsFiniteSet(S), \A k \in S : F[k] = G[k]
  PROVE  Total(F, S) = Total(G, S)
<1>1. /\ Adds(F, S, CHOOSE g : Adds(F, S, g))
      /\ Adds(G, S, CHOOSE g : Adds(G, S, g))
  BY CanAdd
<1>2. PICK g, h : /\ Adds(F, S, g) /\ g = CHOOSE i : Adds(F, S, i)
                  /\ Adds(G, S, h) /\ h = CHOOSE i : Adds(G, S, i)
  BY <1>1
<1>3. g[S] = h[S]
  BY <1>2, SumsAgree
<1> QED
  BY <1>2, <1>3, TotalIs

(* The recursion that defines a total.                                      *)
LEMMA TotalByOne ==
  ASSUME NEW F, NEW S, IsFiniteSet(S)
  PROVE  /\ S = {} => Total(F, S) = 0
         /\ S # {} => Total(F, S) = F[One(S)] + Total(F, S \ {One(S)})
<1> DEFINE T == S \ {One(S)}
<1>1. IsFiniteSet(T) /\ T \in SUBSET (S \cap T) /\ T \in SUBSET S
  BY FS_Subset
<1>2. PICK g, h : /\ Adds(F, S, g) /\ g = CHOOSE i : Adds(F, S, i)
                  /\ Adds(F, T, h) /\ h = CHOOSE i : Adds(F, T, i)
  <2>1. /\ Adds(F, S, CHOOSE i : Adds(F, S, i))
        /\ Adds(F, T, CHOOSE i : Adds(F, T, i))
    BY <1>1, CanAdd
  <2> QED
    BY <2>1
<1>3. Total(F, S) = g[S] /\ Total(F, T) = h[T]
  BY <1>2, TotalIs
<1>4. g[T] = h[T]
  BY <1>1, <1>2, SumsAgree
<1>5. g[S] = IF S = {} THEN 0 ELSE F[One(S)] + g[T]
  BY <1>2 DEF Adds
<1> QED
  BY <1>3, <1>4, <1>5

(* A total over numbers is a number, whichever is taken off.                *)
LEMMA TotalByAny ==
  ASSUME NEW F, NEW S, IsFiniteSet(S), \A k \in S : F[k] \in Int
  PROVE  /\ Total(F, S) \in Int
         /\ \A k \in S : Total(F, S) = F[k] + Total(F, S \ {k})
<1> DEFINE Fine(s) == /\ Total(F, s) \in Int
                      /\ \A k \in s : Total(F, s) = F[k] + Total(F, s \ {k})
           Bad == {n \in Nat : \E s \in SUBSET S : Cardinality(s) = n /\ ~Fine(s)}
<1>0. \A s \in SUBSET S : IsFiniteSet(s) /\ Cardinality(s) \in Nat
  BY FS_Subset, FS_CardinalityType
<1>1. CASE Bad = {}
  <2>1. Fine(S)
    BY <1>0, <1>1
  <2> QED
    BY <2>1
<1>2. CASE Bad # {}
  <2>1. PICK n \in Bad : \A m \in Bad : n <= m
    BY <1>2, Least
  <2>2. PICK s \in SUBSET S : Cardinality(s) = n /\ ~Fine(s)
    BY <2>1
  <2>3. ASSUME NEW t \in SUBSET s, Cardinality(t) < n PROVE Fine(t)
    <3>1. t \in SUBSET S /\ Cardinality(t) \in Nat /\ ~ (n <= Cardinality(t))
      BY <1>0, <2>1, <2>3
    <3> HIDE DEF Fine
    <3> QED
      BY <2>1, <3>1
  <2>4. ASSUME NEW t \in SUBSET s, NEW k \in t
        PROVE  IsFiniteSet(t) /\ t \ {k} \in SUBSET s /\ Cardinality(t \ {k}) = Cardinality(t) - 1
    BY <1>0, FS_RemoveElement
  <2>5. CASE s = {}
    <3>1. Total(F, s) = 0
      BY <1>0, <2>5, TotalByOne
    <3> QED
      BY <2>2, <2>5, <3>1
  <2>6. CASE s # {}
    <3>1. PICK x \in s : x = One(s)
      BY <2>6, OneIn
    <3>2. Total(F, s) = F[x] + Total(F, s \ {x})
      BY <1>0, <2>6, <3>1, TotalByOne
    <3>3. Fine(s \ {x})
      BY <2>2, <2>3, <2>4
    <3>4. Total(F, s) \in Int
      BY <3>2, <3>3
    <3>5. ASSUME NEW k \in s, k # x PROVE Total(F, s) = F[k] + Total(F, s \ {k})
      <4>1. Fine(s \ {k})
        BY <2>2, <2>3, <2>4
      <4>2. PICK t : t = (s \ {x}) \ {k}
        OBVIOUS
      <4>3. t = (s \ {k}) \ {x}
        BY <4>2
      <4>4. Total(F, s \ {x}) = F[k] + Total(F, t)
        BY <3>3, <3>5, <4>2
      <4>5. Total(F, s \ {k}) = F[x] + Total(F, t)
        BY <4>1, <3>5, <4>3
      <4>6. Total(F, t) \in Int
        <5>1. t \in SUBSET s /\ k \in s \ {x} /\ s \ {x} \in SUBSET s /\ s \in SUBSET s
          BY <3>5, <4>2
        <5>2. Cardinality(t) = Cardinality(s \ {x}) - 1 /\ Cardinality(s \ {x}) = n - 1
          BY <2>2, <2>4, <4>2, <5>1
        <5>3. n \in Nat /\ Cardinality(t) < n
          BY <2>1, <5>2
        <5>4. Fine(t)
          BY <2>3, <5>1, <5>3
        <5> QED
          BY <5>4
      <4> QED
        BY <3>2, <4>4, <4>5, <4>6
    <3> QED
      BY <2>2, <3>2, <3>4, <3>5
  <2> QED
    BY <2>5, <2>6
<1> QED
  BY <1>1, <1>2

-----------------------------------------------------------------------------
(***************************************************************************)
(* The overdraft.  The bound says nothing of the calls that have passed    *)
(* their check and not yet paid: each may still take an estimate, so what  *)
(* is left must cover them too.  Of the balance only an upper bound is     *)
(* needed, because what is not gated takes from it as well.                *)
(***************************************************************************)
Passed == {c \in Calls : pc[c] \in {"work"} \cup InTxn /\ Gated(job[c].kind)}

Room(p, n) == (p - (n - 1)) * Estimate

SpendInv ==
  /\ IsFiniteSet(GatedKeys)
  /\ GatedSpent \in Int
  /\ balance <= credited - GatedSpent
  /\ (\A x \in Costs : x <= Estimate) /\ GatedCalls # {}
       => credited - GatedSpent >= Room(Cardinality(Passed), Cardinality(GatedCalls))

LEMMA RoomIs ==
  ASSUME NEW p \in Nat, NEW n \in Nat
  PROVE  /\ Room(p, n) \in Int
         /\ Room(p + 1, n) = Room(p, n) + Estimate
         /\ Room(p, n + 1) = Room(p, n) - Estimate
         /\ p <= n => Room(p, n) <= Estimate
         /\ \A q \in Nat : p <= q => Room(p, n) <= Room(q, n)
         /\ -((n - 1) * Estimate) <= Room(p, n)
<1> PICK e \in Nat : e = Estimate
  BY WalletAssumption
<1>1. \A x \in Int : (x + 1) * e = x * e + e /\ x * e \in Int
  OBVIOUS
<1>2. \A x, y \in Int : x <= y => x * e <= y * e
  OBVIOUS
<1>3. p - (n - 1) \in Int /\ (p + 1) - (n - 1) = (p - (n - 1)) + 1
      /\ p - (n - 1) = (p - ((n + 1) - 1)) + 1 /\ p - ((n + 1) - 1) \in Int
  OBVIOUS
<1>4. Room(p + 1, n) = Room(p, n) + e /\ Room(p, n) = Room(p, n + 1) + e
      /\ Room(p, n + 1) \in Int
  BY <1>1, <1>3 DEF Room
<1>5. ASSUME p <= n PROVE Room(p, n) <= e
  <2>1. p - (n - 1) <= 1 /\ 1 * e = e
    BY <1>5
  <2> QED
    BY <1>2, <1>3, <2>1 DEF Room
<1>6. ASSUME NEW q \in Nat, p <= q PROVE Room(p, n) <= Room(q, n)
  <2>1. p - (n - 1) <= q - (n - 1) /\ q - (n - 1) \in Int
    BY <1>6
  <2> QED
    BY <1>2, <1>3, <2>1 DEF Room
<1>7. -((n - 1) * e) <= Room(p, n)
  <2>1. -((n - 1) * e) = (0 - (n - 1)) * e
    OBVIOUS
  <2>2. 0 - (n - 1) <= p - (n - 1) /\ 0 - (n - 1) \in Int
    OBVIOUS
  <2> QED
    BY <1>2, <1>3, <2>1, <2>2 DEF Room
<1> QED
  BY <1>4, <1>5, <1>6, <1>7

LEMMA SpentIsTotal ==
  GatedSpent = Total(usage, GatedKeys) /\ GatedSpent' = Total(usage', GatedKeys')
<1>1. GatedSpent = Total(usage, GatedKeys)
  BY DEF GatedSpent, Total, MapThenSumSet, MapThenFoldSet
<1>2. GatedSpent' = Total(usage', GatedKeys')
  BY DEF GatedSpent, Total, MapThenSumSet, MapThenFoldSet
<1> QED
  BY <1>1, <1>2

LEMMA CallsAreFew ==
  /\ IsFiniteSet(GatedCalls) /\ Cardinality(GatedCalls) \in Nat
  /\ IsFiniteSet(Passed) /\ Cardinality(Passed) \in Nat
<1>1. GatedCalls \subseteq Calls /\ Passed \subseteq Calls
  BY DEF GatedCalls, Passed
<1> QED
  BY <1>1, WalletAssumption, FS_Subset, FS_CardinalityType

(* Who has passed its check is one of the gated calls.                      *)
LEMMA PassedIsGated == ASSUME IInv PROVE Passed \subseteq GatedCalls
BY NoneIsNoJob DEF IInv, TypeOK, Passed, GatedCalls, InTxn

(* No row, and nobody who has passed, before the first gated call.          *)
LEMMA NothingBefore ==
  ASSUME IInv, GatedCalls = {} PROVE GatedSpent = 0 /\ Cardinality(Passed) = 0
<1>1. Passed = {}
  BY PassedIsGated
<1>2. GatedKeys = {}
  <2> SUFFICES ASSUME NEW k \in Keys, Gated(k.kind), usage[k] # None PROVE FALSE
    BY DEF GatedKeys
  <2>1. PICK c \in Calls : job[c] # None /\ Key(c) = k
    BY DEF IInv, ChargedForWorkDone, Gated
  <2>2. job[c].kind = k.kind
    BY <2>1 DEF Key, KeyOf
  <2> QED
    BY <2>1, <2>2 DEF GatedCalls
<1> QED
  BY <1>1, <1>2, SpentIsTotal, TotalByOne, FS_EmptySet

(* Nothing is written, nobody new has passed.                               *)
LEMMA SpendStands ==
  ASSUME IInv, SpendInv, UNCHANGED usage, GatedCalls' = GatedCalls, Passed' \subseteq Passed,
         NEW a \in Nat, balance' = balance + a, credited' = credited + a
  PROVE  SpendInv'
<1>1. GatedKeys' = GatedKeys /\ GatedSpent' = GatedSpent
  BY SpentIsTotal DEF GatedKeys
<1>2. Cardinality(Passed') <= Cardinality(Passed) /\ Cardinality(Passed') \in Nat
  BY CallsAreFew, FS_Subset, FS_CardinalityType
<1>3. balance \in Int /\ credited \in Nat
  BY DEF IInv, TypeOK
<1>4. (\A x \in Costs : x <= Estimate) /\ GatedCalls' # {}
        => credited' - GatedSpent' >= Room(Cardinality(Passed'), Cardinality(GatedCalls'))
  <2> SUFFICES ASSUME \A x \in Costs : x <= Estimate, GatedCalls # {}
               PROVE  credited' - GatedSpent' >= Room(Cardinality(Passed'), Cardinality(GatedCalls))
    OBVIOUS
  <2>1. PICK p, q, n \in Nat : p = Cardinality(Passed') /\ q = Cardinality(Passed)
                                /\ n = Cardinality(GatedCalls)
    BY <1>2, CallsAreFew
  <2>2. Room(p, n) <= Room(q, n) /\ Room(p, n) \in Int /\ Room(q, n) \in Int
    BY <1>2, <2>1, RoomIs
  <2>3. credited - GatedSpent >= Room(q, n)
    BY <2>1 DEF SpendInv
  <2> QED
    BY <1>1, <1>3, <2>1, <2>2, <2>3 DEF SpendInv
<1> QED
  BY <1>1, <1>3, <1>4 DEF SpendInv

LEMMA StartSpends ==
  ASSUME IInv, SpendInv, NEW c \in Calls, NEW j \in Jobs, Start(c, j) PROVE SpendInv'
<1>1. /\ pc[c] = "idle" /\ job[c] = None
      /\ job' = [job EXCEPT ![c] = j] /\ pc' = [pc EXCEPT ![c] = FirstStep(j.kind)]
      /\ UNCHANGED <<usage, balance, credited>>
  BY DEF Start, Goto, IInv, WorkMatchesStage, ledger
<1>2. Passed' = Passed
  <2>1. ASSUME NEW d \in Calls \ {c} PROVE d \in Passed' <=> d \in Passed
    BY <1>1 DEF Passed, IInv, TypeOK
  <2>2. c \notin Passed
    BY <1>1 DEF Passed, InTxn
  <2>3. c \notin Passed'
    <3>1. pc'[c] = FirstStep(j.kind) /\ job'[c] = j
      BY <1>1 DEF IInv, TypeOK
    <3>2. Gated(j.kind) => FirstStep(j.kind) = "preflight"
      BY DEF FirstStep, Gated
    <3> QED
      BY <3>1, <3>2 DEF Passed, InTxn
  <2>4. Passed \subseteq Calls /\ Passed' \subseteq Calls
    BY DEF Passed
  <2> QED
    BY <2>1, <2>2, <2>3, <2>4
<1>3. GatedCalls' = IF Gated(j.kind) THEN GatedCalls \cup {c} ELSE GatedCalls
  BY <1>1, NoneIsNoJob DEF GatedCalls, IInv, TypeOK
<1>4. c \notin GatedCalls
  BY <1>1 DEF GatedCalls
<1>5. CASE ~Gated(j.kind)
  <2>1. balance' = balance + 0 /\ credited' = credited + 0
    BY <1>1 DEF IInv, TypeOK
  <2> QED
    BY <1>1, <1>2, <1>3, <1>5, <2>1, SpendStands
<1>6. CASE Gated(j.kind)
  <2>1. GatedKeys' = GatedKeys /\ GatedSpent' = GatedSpent
    BY <1>1, SpentIsTotal DEF GatedKeys
  <2>2. PICK p, n \in Nat : p = Cardinality(Passed) /\ n = Cardinality(GatedCalls)
    BY CallsAreFew
  <2>3. Cardinality(GatedCalls') = n + 1
    BY <1>3, <1>4, <1>6, <2>2, CallsAreFew, FS_AddElement
  <2>4. ASSUME \A x \in Costs : x <= Estimate PROVE credited' - GatedSpent' >= Room(p, n + 1)
    <3>1. Room(p, n + 1) = Room(p, n) - Estimate /\ Room(p, n) \in Int /\ Estimate \in Nat
      BY <2>2, RoomIs, WalletAssumption
    <3>2. credited \in Nat /\ GatedSpent \in Int
      BY DEF IInv, TypeOK, SpendInv
    <3>3. CASE GatedCalls = {}
      <4>1. p = 0 /\ n = 0 /\ GatedSpent = 0
        BY <2>2, <3>3, NothingBefore, FS_EmptySet
      <4>2. Room(0, 1) = 0
        BY WalletAssumption DEF Room
      <4> QED
        BY <1>1, <2>1, <3>2, <4>1, <4>2
    <3>4. CASE GatedCalls # {}
      <4>1. credited - GatedSpent >= Room(p, n)
        BY <2>2, <2>4, <3>4 DEF SpendInv
      <4> QED
        BY <1>1, <2>1, <3>1, <3>2, <4>1
    <3> QED
      BY <3>3, <3>4
  <2> QED
    BY <1>1, <1>2, <2>1, <2>2, <2>3, <2>4 DEF SpendInv
<1> QED
  BY <1>5, <1>6

LEMMA PreflightSpends ==
  ASSUME IInv, SpendInv, NEW c \in Calls, Preflight(c) PROVE SpendInv'
<1>1. /\ pc[c] = "preflight" /\ UNCHANGED <<usage, balance, credited, job>>
      /\ pc' = [pc EXCEPT ![c] = IF Covers(Estimate) THEN "work" ELSE "denied"]
  BY DEF Preflight, Goto, ledger
<1>2. GatedCalls' = GatedCalls
  BY <1>1 DEF GatedCalls
<1>3. c \notin Passed
  BY <1>1 DEF Passed, InTxn
<1>4. Passed' = IF Covers(Estimate) /\ Gated(job[c].kind) THEN Passed \cup {c} ELSE Passed
  BY <1>1 DEF Passed, InTxn, IInv, TypeOK
<1>5. CASE ~ (Covers(Estimate) /\ Gated(job[c].kind))
  <2>1. balance' = balance + 0 /\ credited' = credited + 0
    BY <1>1 DEF IInv, TypeOK
  <2>2. Passed' \subseteq Passed
    BY <1>4, <1>5
  <2> QED
    BY <1>1, <1>2, <2>1, <2>2, SpendStands
<1>6. CASE Covers(Estimate) /\ Gated(job[c].kind)
  <2>1. GatedKeys' = GatedKeys /\ GatedSpent' = GatedSpent
    BY <1>1, SpentIsTotal DEF GatedKeys
  <2>2. PICK p, n \in Nat : p = Cardinality(Passed) /\ n = Cardinality(GatedCalls)
    BY CallsAreFew
  <2>3. Cardinality(Passed') = p + 1
    BY <1>3, <1>4, <1>6, <2>2, CallsAreFew, FS_AddElement
  <2>4. p + 1 <= n
    <3>1. c \in GatedCalls
      BY <1>1, <1>6, NoneIsNoJob DEF GatedCalls, IInv, TypeOK
    <3>2. Passed' \subseteq GatedCalls
      BY <1>4, <3>1, PassedIsGated
    <3> QED
      BY <2>2, <2>3, <3>2, CallsAreFew, FS_Subset
  <2>5. Room(p + 1, n) <= Estimate /\ Room(p + 1, n) \in Int
    BY <2>4, RoomIs
  <2>6. balance >= Estimate /\ balance \in Int /\ credited \in Nat /\ Estimate \in Nat
    BY <1>6, WalletAssumption DEF Covers, IInv, TypeOK
  <2>7. credited - GatedSpent >= Room(p + 1, n)
    BY <2>5, <2>6 DEF SpendInv
  <2> QED
    BY <1>1, <1>2, <2>1, <2>2, <2>3, <2>7 DEF SpendInv
<1> QED
  BY <1>5, <1>6

LEMMA CommitSpends ==
  ASSUME IInv, SpendInv, NEW c \in Calls, Commits(c) PROVE SpendInv'
<1>1. /\ pc[c] = "commit" /\ job[c] \in Jobs /\ Key(c) \in Keys /\ usage[Key(c)] = None
      /\ usage' = [usage EXCEPT ![Key(c)] = job[c].cost] /\ usage'[Key(c)] = job[c].cost
      /\ job[c].cost \in Costs /\ balance' = balance - job[c].cost
  BY CommitPosts
<1>2. UNCHANGED <<job, credited>>
  BY DEF Commits, Commit, CommitUnanswered, Debited
<1>3. GatedCalls' = GatedCalls
  BY <1>2 DEF GatedCalls
<1>4. PICK key \in Keys, cost \in Costs : key = Key(c) /\ cost = job[c].cost
  BY <1>1
<1>5. key.kind = job[c].kind /\ cost \in Nat /\ cost # None /\ key \notin GatedKeys
  BY <1>1, <1>4, WalletAssumption DEF Key, KeyOf, GatedKeys
<1>6. Passed' = Passed \ {c}
  BY <1>1, <1>2 DEF Commits, Commit, CommitUnanswered, Goto, AfterDebit, AfterError, Swallows,
     Gated, Passed, InTxn, IInv, TypeOK
<1>7. \A k \in GatedKeys : usage'[k] = usage[k] /\ usage[k] \in Int
  <2>1. ASSUME NEW k \in GatedKeys PROVE k \in Keys /\ usage[k] # None /\ k # key
    BY <1>5 DEF GatedKeys
  <2>2. ASSUME NEW k \in GatedKeys PROVE usage[k] \in Costs
    BY <2>1 DEF IInv, TypeOK
  <2> QED
    BY <1>1, <1>4, <2>1, <2>2, CostIsInt DEF IInv, TypeOK
<1>8. PICK F, G, S : F = usage' /\ G = usage /\ S = GatedKeys
  OBVIOUS
<1>9. IsFiniteSet(S) /\ Total(F, S) = Total(G, S)
  BY <1>7, <1>8, TotalOfSame DEF SpendInv
<1>10. Total(F, S) = GatedSpent
  BY <1>8, <1>9, SpentIsTotal
<1>11. PICK p, n \in Nat : p = Cardinality(Passed) /\ n = Cardinality(GatedCalls)
  BY CallsAreFew
<1>12. balance \in Int /\ credited \in Nat /\ GatedSpent \in Int
  BY DEF IInv, TypeOK, SpendInv
<1>13. CASE ~Gated(job[c].kind)
  <2>1. GatedKeys' = GatedKeys
    BY <1>1, <1>4, <1>5, <1>13 DEF GatedKeys, IInv, TypeOK
  <2>2. GatedSpent' = GatedSpent
    BY <1>8, <1>10, <2>1, SpentIsTotal
  <2>3. Passed' = Passed
    BY <1>6, <1>13 DEF Passed
  <2> QED
    BY <1>1, <1>2, <1>3, <1>4, <1>5, <1>12, <2>1, <2>2, <2>3 DEF SpendInv
<1>14. CASE Gated(job[c].kind)
  <2>1. GatedKeys' = S \cup {key}
    BY <1>1, <1>4, <1>5, <1>8, <1>14 DEF GatedKeys, IInv, TypeOK
  <2>2. PICK T : T = S \cup {key}
    OBVIOUS
  <2>3. IsFiniteSet(T) /\ T \ {key} = S /\ key \in T
    BY <1>5, <1>8, <1>9, <2>2, FS_AddElement
  <2>4. \A k \in T : F[k] \in Int
    BY <1>1, <1>4, <1>5, <1>7, <1>8, <2>2
  <2>5. Total(F, T) \in Int /\ Total(F, T) = F[key] + Total(F, S)
    BY <2>3, <2>4, TotalByAny
  <2>6. GatedSpent' = cost + GatedSpent
    BY <1>1, <1>4, <1>8, <1>10, <2>1, <2>2, <2>5, SpentIsTotal
  <2>7. Cardinality(Passed') \in Nat /\ p = Cardinality(Passed') + 1
    <3>1. c \in Passed
      BY <1>1, <1>14 DEF Passed, InTxn
    <3>2. PICK A, B : A = Passed /\ B = Passed'
      OBVIOUS
    <3>3. IsFiniteSet(A) /\ IsFiniteSet(B) /\ B = A \ {c} /\ c \in A
      BY <1>6, <3>1, <3>2, CallsAreFew, FS_RemoveElement
    <3>4. Cardinality(B) = Cardinality(A) - 1 /\ Cardinality(B) \in Nat /\ Cardinality(A) \in Nat
      BY <3>3, FS_RemoveElement, FS_CardinalityType
    <3> QED
      BY <1>11, <3>2, <3>4
  <2>8. PICK q \in Nat : q = Cardinality(Passed') /\ p = q + 1
    BY <2>7
  <2>9. ASSUME \A x \in Costs : x <= Estimate, GatedCalls # {}
        PROVE  credited' - GatedSpent' >= Room(q, n)
    <3>1. credited - GatedSpent >= Room(p, n)
      BY <1>11, <2>9 DEF SpendInv
    <3>2. Room(p, n) = Room(q, n) + Estimate /\ Room(q, n) \in Int
      BY <2>8, RoomIs
    <3>3. cost <= Estimate /\ Estimate \in Nat
      BY <2>9, WalletAssumption
    <3> QED
      BY <1>2, <1>5, <1>12, <2>6, <3>1, <3>2, <3>3
  <2>10. IsFiniteSet(GatedKeys') /\ GatedSpent' \in Int
    BY <1>5, <1>12, <2>1, <2>2, <2>3, <2>6
  <2>11. balance' <= credited' - GatedSpent'
    BY <1>1, <1>2, <1>4, <1>5, <1>12, <2>6 DEF SpendInv
  <2> QED
    BY <1>3, <1>11, <2>8, <2>9, <2>10, <2>11 DEF SpendInv
<1> QED
  BY <1>13, <1>14

LEMMA SpendStep ==
  ASSUME IInv, SpendInv, [Next]_vars PROVE SpendInv'
<1>0. balance + 0 = balance /\ credited + 0 = credited
  BY DEF IInv, TypeOK
<1>1. ASSUME UNCHANGED <<ledger, job>>, Passed' \subseteq Passed PROVE SpendInv'
  <2>1. GatedCalls' = GatedCalls
    BY <1>1 DEF GatedCalls
  <2> QED
    BY <1>0, <1>1, <2>1, SpendStands DEF ledger
<1>2. ASSUME NEW c \in Calls,
             \/ WorkDone(c) \/ WorkFails(c) \/ Insert(c) \/ InsertConflicts(c) \/ Update(c)
             \/ Rollback(c) \/ Send(c) \/ Crash(c)
      PROVE  SpendInv'
  <2>1. UNCHANGED <<ledger, job>>
    BY <1>2 DEF WorkDone, WorkFails, Insert, InsertConflicts, Update, Rollback, Send, Crash
  <2>2. \A d \in Calls : d # c => pc'[d] = pc[d]
    BY <1>2 DEF WorkDone, WorkFails, Insert, InsertConflicts, Update, Rollback, Send, Crash,
       Goto, IInv, TypeOK
  <2>3. pc'[c] \in {"work"} \cup InTxn => pc[c] \in {"work"} \cup InTxn
    BY <1>2 DEF WorkDone, WorkFails, Insert, InsertConflicts, AfterConflict, Update, Rollback,
       AfterError, Send, Crash, Goto, InTxn, IInv, TypeOK
  <2>4. Passed' \subseteq Passed
    BY <2>1, <2>2, <2>3 DEF Passed
  <2> QED
    BY <1>1, <2>1, <2>4
<1>3. ASSUME NEW amount \in TopUps, TopUp(amount) PROVE SpendInv'
  <2>1. /\ amount \in Nat /\ balance' = balance + amount /\ credited' = credited + amount
        /\ UNCHANGED <<usage, pc, job>>
    BY <1>3, WalletAssumption DEF TopUp, call
  <2>2. GatedCalls' = GatedCalls /\ Passed' = Passed
    BY <2>1 DEF GatedCalls, Passed
  <2> QED
    BY <2>1, <2>2, SpendStands
<1>4. CASE UNCHANGED vars
  <2>1. UNCHANGED <<ledger, job, pc>>
    BY <1>4 DEF vars, call
  <2>2. Passed' = Passed
    BY <2>1 DEF Passed
  <2> QED
    BY <1>1, <2>1, <2>2
<1> QED
  BY <1>2, <1>3, <1>4, StartSpends, PreflightSpends, CommitSpends DEF Next, Statement, Commits

(* With calls that cost at most the estimate of requireCredit, the llm and  *)
(* domain calls together overdraw the wallet by at most one estimate for    *)
(* each of them but one, however many check one balance at once.            *)
THEOREM OverdraftIsBounded == Spec => []OverdraftBounded
<1>1. Init => SpendInv
  <2> SUFFICES ASSUME Init PROVE SpendInv
    OBVIOUS
  <2>1. GatedKeys = {} /\ GatedCalls = {} /\ balance = 0 /\ credited = 0
    BY DEF Init, GatedKeys, GatedCalls
  <2>2. GatedSpent = 0
    BY <2>1, SpentIsTotal, TotalByOne, FS_EmptySet
  <2> QED
    BY <2>1, <2>2, FS_EmptySet DEF SpendInv
<1>2. IInv /\ SpendInv => OverdraftBounded
  <2> SUFFICES ASSUME IInv, SpendInv, \A x \in Costs : x <= Estimate, GatedCalls # {}
               PROVE  credited - GatedSpent >= -((Cardinality(GatedCalls) - 1) * Estimate)
    BY DEF OverdraftBounded
  <2>1. PICK p, n \in Nat : p = Cardinality(Passed) /\ n = Cardinality(GatedCalls)
    BY CallsAreFew
  <2>2. PICK most : most = -((n - 1) * Estimate)
    OBVIOUS
  <2>3. most \in Int /\ most <= Room(p, n) /\ Room(p, n) \in Int
    <3>1. Estimate \in Int /\ n - 1 \in Int
      BY WalletAssumption
    <3>2. (n - 1) * Estimate \in Int
      BY <3>1
    <3> QED
      BY <2>2, <3>2, RoomIs
  <2>4. credited - GatedSpent >= Room(p, n) /\ credited - GatedSpent \in Int
    BY <2>1 DEF SpendInv, IInv, TypeOK
  <2>5. credited - GatedSpent >= most
    BY <2>3, <2>4
  <2> QED
    BY <2>1, <2>2, <2>5
<1> QED
  BY <1>1, <1>2, SpendStep, SpecIInv, PTL DEF Spec
=============================================================================
