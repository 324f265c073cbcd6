---------------------------- MODULE AgentProofs ----------------------------
(***************************************************************************)
(* Proofs about AgentQueue, for any number of processors, jobs and kinds   *)
(* of trigger: parents go first, a risky change waits for its owner, a     *)
(* pause stops all but the jobs already passed, overspending is bounded.   *)
(***************************************************************************)
EXTENDS AgentQueue, FiniteSetTheorems, TLAPS

Working == {"credits", "block", "mark", "run", "persist", "request", "finish", "fail"}

(* The rows of agent_jobs are numbered without gaps.                        *)
NoGaps == \E n \in 0..MaxJobs : \A i \in JobIds : IsJob(i) <=> i <= n

(* A processor holds a job exactly while it works on it, and whatever it    *)
(* enqueued last, listed or took up is a row.                               *)
HoldsJob ==
  \A p \in Processors :
    /\ pc[p] \in Working <=> job[p] # None
    /\ job[p] # None => IsJob(job[p])
    /\ last[p] # None => IsJob(last[p])
    /\ \A i \in queue[p] : IsJob(i)

(* A parent is created before its child.                                    *)
ParentsExist ==
  \A i \in Created : jobs[i].parent # None => jobs[i].parent < i /\ IsJob(jobs[i].parent)

(* A job's parent, if it has one, has been taken up.                        *)
ParentGone(i) == jobs[i].parent # None => jobs[jobs[i].parent].status # "queued"

(* Whoever listed a child has its parent in hand too, or it was taken up    *)
(* before.                                                                  *)
ListedInOrder ==
  \A p \in Processors :
    /\ job[p] # None => ParentGone(job[p])
    /\ \A i \in queue[p] : jobs[i].parent \in queue[p] \cup {job[p]} \/ ParentGone(i)

(* The tier is written, and the request made, before the status.            *)
Persisted ==
  \A p \in Processors :
    /\ pc[p] \in {"request", "finish"} => jobs[job[p]].tier = Tier(jobs[job[p]].role)
    /\ pc[p] = "finish" /\ AsksOwner(p) => job[p] \in requested

(* What is done had the tier of its role written.                           *)
DoneHasTier == \A i \in Created : jobs[i].status = "done" => jobs[i].tier = Tier(jobs[i].role)

(* Processors that have passed the pause but not started their job.         *)
Passed == {p \in Processors : pc[p] \in {"credits", "mark"}}

PauseInv ==
  IF paused THEN started + Cardinality(Passed) <= Cardinality(Processors) ELSE started = 0

(* Processors that have passed the spend check but not spent.               *)
Spending == {p \in Processors : pc[p] \in {"mark", "run"}}

SpendInv ==
  LET due == Cardinality(charged) + Cardinality(Spending)
      overspend == Cardinality(Processors) - 1
  IN  due <= Credit + overspend /\ (Cap > 0 => due <= Cap + overspend)

IInv == /\ TypeOK /\ NoGaps /\ HoldsJob /\ ParentsExist /\ ListedInOrder /\ ParentsFirst
        /\ Persisted /\ DoneHasTier /\ RiskyWaitsForOwner

-----------------------------------------------------------------------------
(* CreateJob writes a slot of its own: it never overwrites a row.           *)
LEMMA NextIsFree ==
  ASSUME TypeOK, NoGaps
  PROVE  /\ NextId \in Nat \ {0}
         /\ NextId <= MaxJobs => NextId \in JobIds
         /\ ~(NextId \in JobIds /\ IsJob(NextId))
         /\ \A i \in JobIds : IsJob(i) <=> i < NextId
<1>1. PICK n \in 0..MaxJobs : \A i \in JobIds : IsJob(i) <=> i <= n
  BY DEF NoGaps
<1>2. Created = 1..n
  BY <1>1, AgentAssumption DEF Created, JobIds
<1>3. Cardinality(1..n) = n
  BY <1>1, AgentAssumption, FS_Interval
<1>4. NextId = n + 1
  BY <1>2, <1>3 DEF NextId
<1> QED BY <1>1, <1>4, AgentAssumption DEF JobIds

(* A row whose status or tier is written is a row.                          *)
LEMMA RowType ==
  ASSUME NEW row \in Jobs, NEW st \in Statuses, NEW t \in {"auto", "review"}
  PROVE  [row EXCEPT !.status = st] \in Jobs /\ [row EXCEPT !.tier = t] \in Jobs
BY DEF Jobs

(* The row a processor works on.                                            *)
LEMMA CurrentRow ==
  ASSUME TypeOK, HoldsJob, NEW p \in Processors, pc[p] \in Working
  PROVE  job[p] \in JobIds /\ job[p] # None /\ IsJob(job[p]) /\ jobs[job[p]] \in Jobs
<1>1. job[p] # None /\ IsJob(job[p]) /\ job[p] \in JobIds \cup {None}
  BY DEF TypeOK, HoldsJob
<1> QED BY <1>1 DEF TypeOK, IsJob

(* The steps that write the status of a job in hand: never back to queued,  *)
(* and to an end only when it is finished.                                  *)
StatusStep(p, st) ==
  /\ pc[p] \in Working
  /\ st \in Statuses \ {"queued"}
  /\ st \in {"done", "awaiting_approval"} =>
       pc[p] = "finish" /\ st = IF AsksOwner(p) THEN "awaiting_approval" ELSE "done"
  /\ SetStatus(p, st)

LEMMA JobSteps ==
  ASSUME [Next]_vars
  PROVE  \/ UNCHANGED jobs
         \/ \E p \in Processors : CreateJob(p)
         \/ \E p \in Processors, st \in Statuses : StatusStep(p, st)
         \/ \E p \in Processors : Persist(p)
<1>1. ASSUME NEW p \in Processors, Block(p)
      PROVE  \E st \in Statuses : StatusStep(p, st)
  BY <1>1 DEF Block, StatusStep, Working, Statuses
<1>2. ASSUME NEW p \in Processors, MarkRunning(p)
      PROVE  \E st \in Statuses : StatusStep(p, st)
  BY <1>2 DEF MarkRunning, StatusStep, Working, Statuses
<1>3. ASSUME NEW p \in Processors, Fail(p)
      PROVE  \E st \in Statuses : StatusStep(p, st)
  BY <1>3 DEF Fail, StatusStep, Working, Statuses
<1>4. ASSUME NEW p \in Processors, Finish(p)
      PROVE  \E st \in Statuses : StatusStep(p, st)
  BY <1>4 DEF Finish, StatusStep, Working, Statuses
<1> QED BY <1>1, <1>2, <1>3, <1>4
        DEF Next, vars, SetPaused, Ask, Enqueued, List, ListNothing, Take, EndOfQueue,
            CheckSpend, RunRole, RoleThrows, Request, Dies

(* The types are kept by every step.                                        *)
LEMMA TypeStep == TypeOK /\ NoGaps /\ HoldsJob /\ [Next]_vars => TypeOK'
<1> SUFFICES ASSUME TypeOK, NoGaps, HoldsJob, [Next]_vars PROVE TypeOK'
  OBVIOUS
<1>1. jobs' \in [JobIds -> Jobs \cup {None}]
  <2>1. ASSUME NEW p \in Processors, CreateJob(p) PROVE jobs' \in [JobIds -> Jobs \cup {None}]
    <3>1. NextId \in JobIds /\ Head(todo[p]) \in Roles /\ last[p] \in JobIds \cup {None}
      BY <2>1, NextIsFree DEF CreateJob, TypeOK, JobIds, NextId
    <3>2. [role |-> Head(todo[p]), parent |-> last[p], status |-> "queued",
           tier |-> "review"] \in Jobs
      BY <3>1 DEF Jobs, Statuses
    <3> QED BY <2>1, <3>1, <3>2 DEF CreateJob, TypeOK
  <2>2. ASSUME NEW p \in Processors, NEW st \in Statuses, StatusStep(p, st)
        PROVE  jobs' \in [JobIds -> Jobs \cup {None}]
    <3>1. job[p] \in JobIds /\ [jobs[job[p]] EXCEPT !.status = st] \in Jobs
      BY <2>2, CurrentRow, RowType DEF StatusStep
    <3> QED BY <2>2, <3>1 DEF StatusStep, SetStatus, TypeOK
  <2>3. ASSUME NEW p \in Processors, Persist(p) PROVE jobs' \in [JobIds -> Jobs \cup {None}]
    <3>1. job[p] \in JobIds /\ jobs[job[p]] \in Jobs
      BY <2>3, CurrentRow DEF Persist, Working
    <3>2. [jobs[job[p]] EXCEPT !.tier = Tier(jobs[job[p]].role)] \in Jobs
      BY <3>1 DEF Jobs, Tier
    <3> QED BY <2>3, <3>1, <3>2 DEF Persist, TypeOK
  <2> QED BY <2>1, <2>2, <2>3, JobSteps DEF TypeOK
<1>2. pc' \in [Processors -> Stages] /\ paused' \in BOOLEAN
  BY ZenonT(60)
  DEF Next, vars, run, TypeOK, Stages, Goto, NextJob, SetPaused, Ask, CreateJob, Enqueued, List,
     ListNothing, Take, EndOfQueue, CheckSpend, Block, MarkRunning, RunRole, RoleThrows, Fail,
     Persist, AfterPersist, Request, Finish, Dies
<1>3. todo' \in [Processors -> Seq(Roles)]
  <2>1. ASSUME NEW trigger \in Triggers PROVE Plan(trigger) \in Seq(Roles)
    <3>1. trigger \in {"owner_request", "ci_failure", "advisory"}
      BY AgentAssumption
    <3>2. /\ <<"change", "sentinel", "reviewer">> \in Seq(Roles)
          /\ <<"change", "reviewer">> \in Seq(Roles)
          /\ <<"sentinel", "reviewer">> \in Seq(Roles)
      BY DEF Roles
    <3>3. Plan(trigger) \in {<<"change", "sentinel", "reviewer">>, <<"change", "reviewer">>,
                             <<"sentinel", "reviewer">>}
      BY <3>1 DEF Plan
    <3> QED BY <3>2, <3>3
  <2>2. ASSUME NEW p \in Processors, CreateJob(p) PROVE todo' \in [Processors -> Seq(Roles)]
    <3>1. Tail(todo[p]) \in Seq(Roles)
      BY <2>2 DEF CreateJob, TypeOK
    <3> QED BY <2>2, <3>1 DEF CreateJob, TypeOK
  <2>3. \/ UNCHANGED todo
        \/ \E p \in Processors : CreateJob(p) \/ todo' = [todo EXCEPT ![p] = <<>>]
        \/ \E p \in Processors, trigger \in Triggers : todo' = [todo EXCEPT ![p] = Plan(trigger)]
    BY DEF Next, vars, run, SetPaused, Ask, Enqueued, List, ListNothing, Take, EndOfQueue,
           CheckSpend, Block, MarkRunning, RunRole, RoleThrows, Fail, Persist, Request,
           Finish, Dies, NextJob
  <2>4. <<>> \in Seq(Roles) /\ todo \in [Processors -> Seq(Roles)]
    BY DEF TypeOK
  <2> QED BY <2>1, <2>2, <2>3, <2>4
<1>4. last' \in [Processors -> JobIds \cup {None}]
  <2>1. ASSUME NEW p \in Processors, CreateJob(p) PROVE last' \in [Processors -> JobIds \cup {None}]
    BY <2>1, NextIsFree DEF CreateJob, TypeOK
  <2>2. \/ UNCHANGED last
        \/ \E p \in Processors : CreateJob(p) \/ last' = [last EXCEPT ![p] = None]
    BY DEF Next, vars, run, SetPaused, Ask, Enqueued, List, ListNothing, Take, EndOfQueue,
           CheckSpend, Block, MarkRunning, RunRole, RoleThrows, Fail, Persist, Request,
           Finish, Dies, NextJob
  <2> QED BY <2>1, <2>2 DEF TypeOK
<1>5. queue' \in [Processors -> SUBSET JobIds]
  <2>1. Queued \subseteq JobIds
    BY DEF Queued, Created
  <2>2. \/ UNCHANGED queue
        \/ \E p \in Processors, i \in JobIds : queue' = [queue EXCEPT ![p] = @ \ {i}]
        \/ \E p \in Processors : queue' = [queue EXCEPT ![p] = Queued]
        \/ \E p \in Processors : queue' = [queue EXCEPT ![p] = {}]
    BY DEF Next, vars, run, SetPaused, Ask, CreateJob, Enqueued, List, ListNothing, Take, EndOfQueue,
           CheckSpend, Block, MarkRunning, RunRole, RoleThrows, Fail, Persist, Request,
           Finish, Dies, NextJob, TypeOK
  <2> QED BY <2>1, <2>2 DEF TypeOK
<1>6. job' \in [Processors -> JobIds \cup {None}]
  <2>1. \/ UNCHANGED job
        \/ \E p \in Processors, i \in JobIds \cup {None} : job' = [job EXCEPT ![p] = i]
    BY DEF Next, vars, run, SetPaused, Ask, CreateJob, Enqueued, List, ListNothing, Take, EndOfQueue,
           CheckSpend, Block, MarkRunning, RunRole, RoleThrows, Fail, Persist, Request,
           Finish, Dies, NextJob, TypeOK
  <2> QED BY <2>1 DEF TypeOK
<1>7. charged' \subseteq JobIds /\ requested' \subseteq JobIds
  <2>1. \A p \in Processors : pc[p] \in Working => job[p] \in JobIds
    BY CurrentRow
  <2> QED BY <2>1
          DEF Next, vars, run, TypeOK, SetPaused, Ask, CreateJob, Enqueued, List, ListNothing, Take,
              EndOfQueue, CheckSpend, Block, MarkRunning, RunRole, RoleThrows, Fail, Persist,
              Request, Finish, Dies, Working
<1>8. started' \in Nat
  <2>1. started' \in {0, started, started + 1}
    BY DEF Next, vars, SetPaused, Ask, CreateJob, Enqueued, List, ListNothing, Take, EndOfQueue,
           CheckSpend, Block, MarkRunning, RunRole, RoleThrows, Fail, Persist, Request, Finish, Dies
  <2> QED BY <2>1 DEF TypeOK
<1> QED BY <1>1, <1>2, <1>3, <1>4, <1>5, <1>6, <1>7, <1>8 DEF TypeOK

(* A row stays a row, with its role and parent; once taken up it never      *)
(* waits again.                                                             *)
LEMMA RowsKept ==
  ASSUME TypeOK, NoGaps, HoldsJob, [Next]_vars, NEW i \in JobIds, IsJob(i)
  PROVE  /\ IsJob(i)'
         /\ jobs'[i].role = jobs[i].role
         /\ jobs'[i].parent = jobs[i].parent
         /\ jobs[i].status # "queued" => jobs'[i].status # "queued"
<1>0. jobs[i] \in Jobs
  BY DEF TypeOK, IsJob
<1>1. ASSUME NEW p \in Processors, CreateJob(p) PROVE jobs'[i] = jobs[i]
  BY <1>1, NextIsFree DEF CreateJob, TypeOK
<1>2. ASSUME NEW p \in Processors, NEW st \in Statuses, StatusStep(p, st)
      PROVE  jobs'[i] = jobs[i] \/ (jobs'[i] = [jobs[i] EXCEPT !.status = st] /\ st # "queued")
  BY <1>2 DEF StatusStep, SetStatus, TypeOK
<1>3. ASSUME NEW p \in Processors, Persist(p)
      PROVE  jobs'[i] = jobs[i] \/ \E t \in {"auto", "review"} : jobs'[i] = [jobs[i] EXCEPT !.tier = t]
  BY <1>3 DEF Persist, TypeOK, Tier
<1>4. \/ jobs'[i] = jobs[i]
      \/ \E st \in Statuses : jobs'[i] = [jobs[i] EXCEPT !.status = st] /\ st # "queued"
      \/ \E t \in {"auto", "review"} : jobs'[i] = [jobs[i] EXCEPT !.tier = t]
  BY <1>1, <1>2, <1>3, JobSteps
<1>5. jobs'[i] \in Jobs
  <2>1. ASSUME NEW st \in Statuses PROVE [jobs[i] EXCEPT !.status = st] \in Jobs
    BY <1>0 DEF Jobs
  <2>2. ASSUME NEW t \in {"auto", "review"} PROVE [jobs[i] EXCEPT !.tier = t] \in Jobs
    BY <1>0 DEF Jobs
  <2> QED BY <1>0, <1>4, <2>1, <2>2
<1> QED BY <1>0, <1>4, <1>5, NoneIsNoJob DEF IsJob, Jobs

-----------------------------------------------------------------------------
(* Creation: rows are numbered in order, after their parents.               *)
LEMMA CreationStep ==
  TypeOK /\ NoGaps /\ HoldsJob /\ ParentsExist /\ [Next]_vars => NoGaps' /\ ParentsExist'
<1> SUFFICES ASSUME TypeOK, NoGaps, HoldsJob, ParentsExist, [Next]_vars
             PROVE  NoGaps' /\ ParentsExist'
  OBVIOUS
<1>1. CASE \E p \in Processors : CreateJob(p)
  <2>1. PICK p \in Processors : CreateJob(p)
    BY <1>1
  <2>2. PICK n \in JobIds :
           /\ n = NextId
           /\ jobs' = [jobs EXCEPT ![n] = [role |-> Head(todo[p]), parent |-> last[p],
                                           status |-> "queued", tier |-> "review"]]
    BY <2>1, NextIsFree DEF CreateJob
  <2>3. \A i \in JobIds : IsJob(i)' <=> i <= n
    <3>1. [role |-> Head(todo[p]), parent |-> last[p], status |-> "queued", tier |-> "review"] # None
      <4>1. Head(todo[p]) \in Roles /\ last[p] \in JobIds \cup {None}
        BY <2>1 DEF CreateJob, TypeOK
      <4>2. [role |-> Head(todo[p]), parent |-> last[p], status |-> "queued",
             tier |-> "review"] \in Jobs
        BY <4>1 DEF Jobs, Statuses
      <4> QED BY <4>2, NoneIsNoJob
    <3>2. IsJob(n)'
      BY <2>2, <3>1 DEF IsJob, TypeOK
    <3>3. \A i \in JobIds \ {n} : IsJob(i)' <=> IsJob(i)
      BY <2>2 DEF IsJob, TypeOK
    <3>4. \A i \in JobIds : IsJob(i) <=> i < n
      BY <2>2, NextIsFree
    <3> QED BY <2>2, <3>2, <3>3, <3>4 DEF JobIds
  <2>4. NoGaps'
    BY <2>2, <2>3, AgentAssumption DEF NoGaps, JobIds
  <2>5. ASSUME NEW i \in JobIds, IsJob(i)', jobs'[i].parent # None
        PROVE  jobs'[i].parent < i /\ IsJob(jobs[i].parent)'
    <3>1. CASE i = n
      <4>1. jobs'[i].parent = last[p]
        BY <2>2, <3>1 DEF TypeOK
      <4>2. last[p] \in JobIds /\ IsJob(last[p])
        BY <2>5, <4>1 DEF HoldsJob, TypeOK
      <4> QED BY <2>2, <2>3, <3>1, <4>1, <4>2, NextIsFree DEF JobIds
    <3>2. CASE i # n
      <4>1. jobs'[i] = jobs[i] /\ IsJob(i)
        BY <2>2, <2>5, <3>2 DEF TypeOK, IsJob
      <4>2. jobs[i].parent < i /\ IsJob(jobs[i].parent) /\ jobs[i].parent \in JobIds
        <5>1. jobs[i] \in Jobs
          BY <4>1 DEF TypeOK, IsJob
        <5> QED BY <2>5, <4>1, <5>1 DEF ParentsExist, Created, Jobs
      <4> QED BY <4>1, <4>2, RowsKept
    <3> QED BY <3>1, <3>2
  <2> QED BY <2>4, <2>5 DEF ParentsExist, Created
<1>2. CASE ~ \E p \in Processors : CreateJob(p)
  <2>1. ASSUME NEW i \in JobIds PROVE IsJob(i)' <=> IsJob(i)
    <3>1. ASSUME NEW p \in Processors, NEW st \in Statuses, StatusStep(p, st), IsJob(i)' PROVE IsJob(i)
      <4>1. job[p] \in JobIds /\ IsJob(job[p])
        BY <3>1, CurrentRow DEF StatusStep
      <4> QED BY <3>1, <4>1 DEF StatusStep, SetStatus, TypeOK, IsJob
    <3>2. ASSUME NEW p \in Processors, Persist(p), IsJob(i)' PROVE IsJob(i)
      <4>1. job[p] \in JobIds /\ IsJob(job[p])
        BY <3>2, CurrentRow DEF Persist, Working
      <4> QED BY <3>2, <4>1 DEF Persist, TypeOK, IsJob
    <3>3. UNCHANGED jobs => (IsJob(i)' <=> IsJob(i))
      BY DEF IsJob
    <3> QED BY <1>2, <3>1, <3>2, <3>3, JobSteps, RowsKept
  <2>2. NoGaps'
    BY <2>1 DEF NoGaps
  <2>3. ASSUME NEW i \in JobIds, IsJob(i)', jobs'[i].parent # None
        PROVE  jobs'[i].parent < i /\ IsJob(jobs[i].parent)'
    <3>1. IsJob(i) /\ jobs'[i].parent = jobs[i].parent /\ jobs[i] \in Jobs
      BY <2>1, <2>3, RowsKept DEF TypeOK, IsJob
    <3>2. jobs[i].parent \in JobIds /\ jobs[i].parent < i /\ IsJob(jobs[i].parent)
      BY <2>3, <3>1 DEF ParentsExist, Created, Jobs
    <3> QED BY <2>1, <3>1, <3>2
  <2> QED BY <2>2, <2>3 DEF ParentsExist, Created
<1> QED BY <1>1, <1>2

(* What a processor has in hand are rows, before and after every step.      *)
LEMMA HoldsJobStep == TypeOK /\ NoGaps /\ HoldsJob /\ [Next]_vars => HoldsJob'
<1> SUFFICES ASSUME TypeOK, NoGaps, HoldsJob, [Next]_vars, NEW q \in Processors
             PROVE  /\ (pc[q] \in Working <=> job[q] # None)'
                    /\ job'[q] # None => IsJob(job[q])'
                    /\ last'[q] # None => IsJob(last[q])'
                    /\ \A i \in queue'[q] : IsJob(i)'
  BY DEF HoldsJob
<1>0. TypeOK'
  BY TypeStep
<1>1. (pc[q] \in Working <=> job[q] # None)'
  <2>1. ASSUME NEW p \in Processors, Take(p) PROVE (pc[q] \in Working <=> job[q] # None)'
    <3>1. \A i \in JobIds : i # None
      BY NoneIsNoJob
    <3> QED BY <2>1, <3>1 DEF Take, Goto, TypeOK, HoldsJob, Working
  <2>2. ASSUME NEW p \in Processors,
               \/ CreateJob(p) \/ Enqueued(p) \/ List(p) \/ ListNothing(p) \/ EndOfQueue(p)
               \/ \E trigger \in Triggers : Ask(p, trigger)
        PROVE  (pc[q] \in Working <=> job[q] # None)'
    BY <2>2 DEF HoldsJob, Working, TypeOK, Goto, CreateJob, Enqueued, List, ListNothing, EndOfQueue, Ask
  <2>3. ASSUME NEW p \in Processors,
               \/ CheckSpend(p) \/ MarkRunning(p) \/ RunRole(p) \/ RoleThrows(p)
               \/ Persist(p) \/ Request(p)
        PROVE  (pc[q] \in Working <=> job[q] # None)'
    BY <2>3 DEF HoldsJob, Working, TypeOK, Goto, CheckSpend, MarkRunning, RunRole, RoleThrows,
       Persist, AfterPersist, Request
  <2>4. ASSUME NEW p \in Processors, Block(p) \/ Fail(p) \/ Finish(p) \/ Dies(p)
        PROVE  (pc[q] \in Working <=> job[q] # None)'
    BY <2>4 DEF HoldsJob, Working, TypeOK, Goto, NextJob, Block, Fail, Finish, Dies
  <2>5. UNCHANGED run => (pc[q] \in Working <=> job[q] # None)'
    BY DEF HoldsJob, run
  <2> QED BY <2>1, <2>2, <2>3, <2>4, <2>5 DEF Next, vars, SetPaused
<1>2. \A i \in JobIds : IsJob(i) => IsJob(i)'
  BY RowsKept
<1>3. \/ job'[q] \in {None, job[q]}
      \/ job'[q] \in queue[q]
  BY DEF TypeOK, Next, vars, run, SetPaused, Ask, CreateJob, Enqueued, List, ListNothing, Take,
     EndOfQueue, CheckSpend, Block, MarkRunning, RunRole, RoleThrows, Fail, Persist, Request,
     Finish, Dies, NextJob
<1>4. \/ queue'[q] = Queued
      \/ queue'[q] \subseteq queue[q]
  <2>1. \/ UNCHANGED queue
        \/ \E p \in Processors, i \in JobIds : queue' = [queue EXCEPT ![p] = @ \ {i}]
        \/ \E p \in Processors : queue' = [queue EXCEPT ![p] = Queued]
        \/ \E p \in Processors : queue' = [queue EXCEPT ![p] = {}]
    BY DEF Next, vars, run, SetPaused, Ask, CreateJob, Enqueued, List, ListNothing, Take, EndOfQueue,
           CheckSpend, Block, MarkRunning, RunRole, RoleThrows, Fail, Persist, Request,
           Finish, Dies, NextJob, TypeOK
  <2> QED BY <2>1 DEF TypeOK
<1>5. ASSUME last'[q] # None PROVE IsJob(last[q])'
  <2>1. ASSUME NEW p \in Processors, CreateJob(p), last'[q] # last[q] PROVE IsJob(last[q])'
    <3>1. last'[q] = NextId /\ NextId \in JobIds
      BY <2>1, NextIsFree DEF CreateJob, TypeOK
    <3>2. Head(todo[p]) \in Roles /\ last[p] \in JobIds \cup {None}
      BY <2>1 DEF CreateJob, TypeOK
    <3>3. [role |-> Head(todo[p]), parent |-> last[p], status |-> "queued",
           tier |-> "review"] \in Jobs
      BY <3>2 DEF Jobs, Statuses
    <3> QED BY <2>1, <3>1, <3>3, NoneIsNoJob DEF CreateJob, IsJob, TypeOK
  <2>2. \/ \E p \in Processors : CreateJob(p)
        \/ last'[q] \in {None, last[q]}
    BY DEF TypeOK, Next, vars, run, SetPaused, Ask, Enqueued, List, ListNothing, Take,
       EndOfQueue, CheckSpend, Block, MarkRunning, RunRole, RoleThrows, Fail, Persist, Request,
       Finish, Dies
  <2> QED BY <1>2, <1>5, <2>1, <2>2 DEF HoldsJob, TypeOK
<1>6. \A i \in Queued : i \in JobIds /\ IsJob(i)
  BY DEF Queued, Created
<1> QED BY <1>1, <1>2, <1>3, <1>4, <1>5, <1>6 DEF HoldsJob, TypeOK

(* A status changes only where a processor writes it, to a job it holds.    *)
LEMMA StatusWrites ==
  ASSUME TypeOK, NoGaps, HoldsJob, [Next]_vars,
         NEW i \in JobIds, IsJob(i), jobs'[i].status # jobs[i].status
  PROVE  \E p \in Processors : job[p] = i /\ StatusStep(p, jobs'[i].status)
<1>0. jobs[i] \in Jobs
  BY DEF TypeOK, IsJob
<1>1. ASSUME NEW p \in Processors, CreateJob(p) PROVE FALSE
  <2>1. jobs'[i] = jobs[i]
    BY <1>1, NextIsFree DEF CreateJob, TypeOK
  <2> QED BY <2>1
<1>2. ASSUME NEW p \in Processors, NEW st \in Statuses, StatusStep(p, st)
      PROVE  job[p] = i /\ jobs'[i].status = st
  BY <1>0, <1>2 DEF StatusStep, SetStatus, TypeOK, Jobs
<1>3. ASSUME NEW p \in Processors, Persist(p) PROVE FALSE
  <2>1. \/ jobs'[i] = jobs[i]
        \/ jobs'[i] = [jobs[i] EXCEPT !.tier = Tier(jobs[i].role)]
    BY <1>3 DEF Persist, TypeOK
  <2> QED BY <1>0, <2>1 DEF Jobs
<1> QED BY <1>1, <1>2, <1>3, JobSteps

(* A tier changes only to that of its job's role.                           *)
LEMMA TierWrites ==
  ASSUME TypeOK, NoGaps, HoldsJob, [Next]_vars, NEW i \in JobIds, IsJob(i)
  PROVE  jobs'[i].tier \in {jobs[i].tier, Tier(jobs[i].role)}
<1>0. jobs[i] \in Jobs
  BY DEF TypeOK, IsJob
<1>1. ASSUME NEW p \in Processors, CreateJob(p) PROVE jobs'[i] = jobs[i]
  BY <1>1, NextIsFree DEF CreateJob, TypeOK
<1>2. ASSUME NEW p \in Processors, NEW st \in Statuses, StatusStep(p, st)
      PROVE  jobs'[i].tier = jobs[i].tier
  BY <1>0, <1>2 DEF StatusStep, SetStatus, TypeOK, Jobs
<1>3. ASSUME NEW p \in Processors, Persist(p)
      PROVE  jobs'[i].tier \in {jobs[i].tier, Tier(jobs[i].role)}
  <2>1. \/ jobs'[i] = jobs[i]
        \/ jobs'[i] = [jobs[i] EXCEPT !.tier = Tier(jobs[i].role)]
    BY <1>3 DEF Persist, TypeOK
  <2> QED BY <1>0, <2>1 DEF Jobs
<1> QED BY <1>1, <1>2, <1>3, JobSteps

(* A parent that has been taken up stays so.                                *)
LEMMA GoneKept ==
  ASSUME TypeOK, NoGaps, HoldsJob, ParentsExist, [Next]_vars,
         NEW i \in JobIds, IsJob(i), ParentGone(i)
  PROVE  ParentGone(i)'
<1>1. jobs[i] \in Jobs /\ jobs'[i].parent = jobs[i].parent
  BY RowsKept DEF TypeOK, IsJob
<1>2. CASE jobs[i].parent = None
  BY <1>1, <1>2 DEF ParentGone
<1>3. CASE jobs[i].parent # None
  <2>1. jobs[i].parent \in JobIds /\ IsJob(jobs[i].parent) /\ jobs[jobs[i].parent].status # "queued"
    BY <1>1, <1>3 DEF ParentsExist, ParentGone, Created, Jobs
  <2> QED BY <1>1, <2>1, RowsKept DEF ParentGone
<1> QED BY <1>2, <1>3

(* How a processor's list and its job change.                               *)
LEMMA ListSteps ==
  ASSUME TypeOK, [Next]_vars, NEW q \in Processors
  PROVE  \/ queue'[q] = queue[q] /\ job'[q] = job[q]
         \/ List(q)
         \/ Take(q)
         \/ Block(q) \/ Fail(q) \/ Finish(q)
         \/ queue'[q] = {} /\ job'[q] = None
<1>1. ASSUME NEW p \in Processors, p # q,
             List(p) \/ Take(p) \/ Block(p) \/ Fail(p) \/ Finish(p) \/ Dies(p)
      PROVE  queue'[q] = queue[q] /\ job'[q] = job[q]
  BY <1>1 DEF List, Take, Block, Fail, Finish, Dies, NextJob, TypeOK
<1>2. Dies(q) => queue'[q] = {} /\ job'[q] = None
  BY DEF Dies, TypeOK
<1>3. \/ UNCHANGED <<queue, job>>
      \/ \E p \in Processors :
           List(p) \/ Take(p) \/ Block(p) \/ Fail(p) \/ Finish(p) \/ Dies(p)
  BY DEF Next, vars, run, SetPaused, Ask, CreateJob, Enqueued, ListNothing, EndOfQueue, CheckSpend,
     MarkRunning, RunRole, RoleThrows, Persist, Request
<1> QED BY <1>1, <1>2, <1>3

(* The order of a list is kept as it is worked off.                         *)
LEMMA OrderStep ==
  TypeOK /\ NoGaps /\ HoldsJob /\ ParentsExist /\ ListedInOrder /\ [Next]_vars => ListedInOrder'
<1> SUFFICES ASSUME TypeOK, NoGaps, HoldsJob, ParentsExist, ListedInOrder, [Next]_vars,
                    NEW q \in Processors
             PROVE  /\ job'[q] # None => ParentGone(job[q])'
                    /\ \A i \in queue'[q] : \/ jobs'[i].parent \in queue'[q] \cup {job'[q]}
                                            \/ ParentGone(i)'
  BY DEF ListedInOrder
<1>0. /\ queue[q] \subseteq JobIds /\ job[q] \in JobIds \cup {None}
      /\ \A i \in queue[q] : IsJob(i) /\ jobs[i] \in Jobs
  BY DEF TypeOK, HoldsJob, IsJob
<1>1. CASE queue'[q] = queue[q] /\ job'[q] = job[q]
  <2>1. job'[q] # None => ParentGone(job[q])'
    <3> SUFFICES ASSUME NEW i \in JobIds, i = job[q] PROVE ParentGone(i)'
      BY <1>0, <1>1 DEF ParentGone
    <3> QED BY GoneKept, NoneIsNoJob DEF HoldsJob, ListedInOrder
  <2>2. ASSUME NEW i \in queue[q]
        PROVE  jobs'[i].parent \in queue[q] \cup {job[q]} \/ ParentGone(i)'
    BY <1>0, GoneKept, RowsKept DEF ListedInOrder
  <2> QED BY <1>1, <2>1, <2>2
<1>2. CASE List(q)
  <2>1. queue'[q] = Queued /\ UNCHANGED <<jobs, job>> /\ job[q] = None
    BY <1>2 DEF List, TypeOK, HoldsJob, Working
  <2>2. ASSUME NEW i \in Queued PROVE jobs[i].parent \in Queued \/ ParentGone(i)
    <3>1. jobs[i] \in Jobs /\ i \in Created
      BY DEF Queued, Created, TypeOK, IsJob
    <3> QED BY <3>1 DEF ParentGone, ParentsExist, Queued, Created, Jobs
  <2> QED BY <2>1, <2>2 DEF ParentGone
<1>3. CASE Take(q)
  <2>1. PICK i \in queue[q] : /\ First(queue[q], i) /\ job'[q] = i
                              /\ queue'[q] = queue[q] \ {i}
    BY <1>3 DEF Take, TypeOK
  <2>2. UNCHANGED jobs /\ job[q] = None
    BY <1>3 DEF Take, HoldsJob, Working
  <2>3. \A k \in queue[q] : jobs[k].parent \in queue[q] \/ ParentGone(k)
    BY <2>2 DEF ListedInOrder, ParentGone
  <2>4. ParentGone(i)
    <3> SUFFICES ASSUME jobs[i].parent \in queue[q] PROVE FALSE
      BY <2>3
    <3>1. jobs[i].parent \in JobIds /\ i \in JobIds /\ i <= jobs[i].parent
      BY <1>0, <2>1 DEF First
    <3>2. jobs[i].parent < i
      BY <1>0, <3>1, NoneIsNoJob DEF ParentsExist, Created
    <3> QED BY <3>1, <3>2 DEF JobIds
  <2> QED BY <2>1, <2>2, <2>3, <2>4 DEF ParentGone
<1>4. CASE Block(q) \/ Fail(q) \/ Finish(q)
  <2>1. queue'[q] = queue[q] /\ job'[q] = None /\ pc[q] \in Working
    BY <1>4 DEF Block, Fail, Finish, NextJob, TypeOK, Working
  <2>2. job[q] \in JobIds /\ IsJob(job[q]) /\ jobs[job[q]] \in Jobs
    BY <2>1, CurrentRow
  <2>3. jobs'[job[q]].status # "queued"
    BY <1>4, <2>2 DEF Block, Fail, Finish, SetStatus, TypeOK, Jobs
  <2>4. ASSUME NEW i \in queue[q] PROVE jobs'[i].parent \in queue[q] \/ ParentGone(i)'
    <3>1. jobs'[i].parent = jobs[i].parent
      BY <1>0, RowsKept
    <3>2. CASE jobs[i].parent = job[q]
      BY <2>3, <3>1, <3>2 DEF ParentGone
    <3>3. CASE jobs[i].parent # job[q]
      BY <1>0, <3>1, <3>3, GoneKept DEF ListedInOrder
    <3> QED BY <3>2, <3>3
  <2> QED BY <2>1, <2>4
<1>5. CASE queue'[q] = {} /\ job'[q] = None
  BY <1>5
<1> QED BY <1>1, <1>2, <1>3, <1>4, <1>5, ListSteps

(* Nobody takes up a child before its parent.                               *)
LEMMA ParentsFirstStep ==
  /\ TypeOK /\ NoGaps /\ HoldsJob /\ ParentsExist /\ ListedInOrder /\ ParentsFirst
  /\ [Next]_vars
  => ParentsFirst'
<1> SUFFICES ASSUME TypeOK, NoGaps, HoldsJob, ParentsExist, ListedInOrder, ParentsFirst,
                    [Next]_vars, NEW i \in JobIds, IsJob(i)', jobs'[i].status # "queued"
             PROVE  ParentGone(i)'
  BY DEF ParentsFirst, ParentGone, Created
<1>1. IsJob(i)
  <2> SUFFICES ASSUME ~IsJob(i) PROVE FALSE
    OBVIOUS
  <2>1. ASSUME NEW p \in Processors, CreateJob(p) PROVE FALSE
    BY <2>1, NextIsFree DEF CreateJob, TypeOK, IsJob
  <2>2. ASSUME NEW p \in Processors, pc[p] \in Working PROVE job[p] \in JobIds /\ job[p] # i
    BY <2>2, CurrentRow
  <2>3. ASSUME NEW p \in Processors, NEW st \in Statuses, StatusStep(p, st) PROVE FALSE
    BY <2>2, <2>3 DEF StatusStep, SetStatus, TypeOK, IsJob
  <2>4. ASSUME NEW p \in Processors, Persist(p) PROVE FALSE
    BY <2>2, <2>4 DEF Persist, Working, TypeOK, IsJob
  <2> QED BY <2>1, <2>3, <2>4, JobSteps DEF IsJob
<1>2. ParentGone(i)
  <2>1. CASE jobs[i].status # "queued"
    BY <1>1, <2>1 DEF ParentsFirst, ParentGone, Created
  <2>2. CASE jobs[i].status = "queued"
    <3>1. PICK p \in Processors : job[p] = i
      BY <1>1, <2>2, StatusWrites
    <3> QED BY <3>1, NoneIsNoJob DEF ListedInOrder
  <2> QED BY <2>1, <2>2
<1> QED BY <1>1, <1>2, GoneKept

-----------------------------------------------------------------------------
(* The tier is written, then the request, then the status.                  *)
LEMMA PersistedStep == TypeOK /\ NoGaps /\ HoldsJob /\ Persisted /\ [Next]_vars => Persisted'
<1> SUFFICES ASSUME TypeOK, NoGaps, HoldsJob, Persisted, [Next]_vars, NEW q \in Processors,
                    pc'[q] \in {"request", "finish"}
             PROVE  /\ (jobs[job[q]].tier = Tier(jobs[job[q]].role))'
                    /\ pc'[q] = "finish" /\ AsksOwner(q)' => job'[q] \in requested'
  BY DEF Persisted
<1>1. CASE Persist(q)
  <2>1. PICK i \in JobIds : i = job[q] /\ IsJob(i) /\ jobs[i] \in Jobs /\ job' = job
    BY <1>1, CurrentRow DEF Persist, Working
  <2>2. jobs'[i] = [jobs[i] EXCEPT !.tier = Tier(jobs[i].role)]
    BY <1>1, <2>1 DEF Persist, TypeOK
  <2>3. jobs'[i].tier = Tier(jobs'[i].role) /\ jobs'[i].role = jobs[i].role
    BY <2>1, <2>2 DEF Jobs
  <2>4. AsksOwner(q)' => AsksOwner(q)
    BY <2>1, <2>3 DEF AsksOwner
  <2>5. AsksOwner(q) => pc'[q] = "request"
    BY <1>1 DEF Persist, AfterPersist, Goto, TypeOK
  <2> QED BY <2>1, <2>3, <2>4, <2>5
<1>2. CASE ~Persist(q)
  <2>1. ASSUME NEW p \in Processors, p # q,
               \/ CreateJob(p) \/ Enqueued(p) \/ List(p) \/ ListNothing(p) \/ Take(p)
               \/ EndOfQueue(p) \/ CheckSpend(p) \/ Block(p) \/ MarkRunning(p) \/ RunRole(p)
               \/ RoleThrows(p) \/ Fail(p) \/ Persist(p) \/ Request(p) \/ Finish(p) \/ Dies(p)
               \/ \E trigger \in Triggers : Ask(p, trigger)
        PROVE  pc'[q] = pc[q] /\ job'[q] = job[q]
    BY <2>1 DEF CreateJob, Enqueued, List, ListNothing, Take, EndOfQueue, CheckSpend, Block,
       MarkRunning, RunRole, RoleThrows, Fail, Persist, Request, Finish, Dies, Ask, Goto,
       NextJob, TypeOK
  <2>2. \/ pc'[q] = pc[q] /\ job'[q] = job[q]
        \/ Request(q)
    <3>1. ASSUME CreateJob(q) \/ Enqueued(q) \/ List(q) \/ ListNothing(q) \/ Take(q)
                 \/ EndOfQueue(q) \/ CheckSpend(q) \/ Block(q) \/ MarkRunning(q) \/ RunRole(q)
                 \/ RoleThrows(q) \/ Fail(q) \/ Finish(q) \/ Dies(q)
                 \/ \E trigger \in Triggers : Ask(q, trigger)
          PROVE  pc'[q] = pc[q] /\ job'[q] = job[q]
      BY <3>1 DEF CreateJob, Enqueued, List, ListNothing, Take, EndOfQueue, CheckSpend, Block,
         MarkRunning, RunRole, RoleThrows, Fail, Finish, Dies, Ask, Goto, NextJob, TypeOK
    <3> QED BY <1>2, <2>1, <3>1 DEF Next, vars, run, SetPaused
  <2>3. pc[q] \in {"request", "finish"} /\ job'[q] = job[q]
    BY <2>2 DEF Request
  <2>4. PICK i \in JobIds : i = job[q] /\ IsJob(i)
    BY <2>3, CurrentRow DEF Working
  <2>5. /\ jobs'[i].role = jobs[i].role
        /\ jobs'[i].tier = Tier(jobs[i].role)
    BY <2>3, <2>4, RowsKept, TierWrites DEF Persisted
  <2>6. requested \subseteq requested'
    BY DEF Next, vars, run, SetPaused, Ask, CreateJob, Enqueued, List, ListNothing, Take, EndOfQueue,
       CheckSpend, Block, MarkRunning, RunRole, RoleThrows, Fail, Persist, Request, Finish, Dies
  <2>7. AsksOwner(q)' => AsksOwner(q)
    BY <2>3, <2>4, <2>5 DEF AsksOwner
  <2>8. Request(q) => job[q] \in requested'
    BY DEF Request
  <2> QED BY <2>2, <2>3, <2>4, <2>5, <2>6, <2>7, <2>8 DEF Persisted
<1> QED BY <1>1, <1>2

(* What ends as done, or waits for the owner, was finished as such.         *)
LEMMA OwnerStep ==
  /\ TypeOK /\ NoGaps /\ HoldsJob /\ Persisted /\ DoneHasTier /\ RiskyWaitsForOwner
  /\ [Next]_vars
  => DoneHasTier' /\ RiskyWaitsForOwner'
<1> SUFFICES ASSUME TypeOK, NoGaps, HoldsJob, Persisted, DoneHasTier, RiskyWaitsForOwner,
                    [Next]_vars, NEW i \in JobIds, IsJob(i)'
             PROVE  /\ jobs'[i].status = "done" => jobs'[i].tier = Tier(jobs'[i].role)
                    /\ jobs'[i].status = "awaiting_approval" => i \in requested'
                    /\ jobs'[i].status = "done" /\ Gated(jobs'[i].role) => jobs'[i].tier = "auto"
  BY DEF DoneHasTier, RiskyWaitsForOwner, Created
<1>1. CASE ~IsJob(i)
  <2>1. ASSUME NEW p \in Processors, CreateJob(p) PROVE jobs'[i].status = "queued"
    BY <1>1, <2>1, NextIsFree DEF CreateJob, TypeOK, IsJob
  <2>2. ASSUME NEW p \in Processors, pc[p] \in Working PROVE job[p] \in JobIds /\ job[p] # i
    BY <1>1, <2>2, CurrentRow
  <2>3. ASSUME NEW p \in Processors, NEW st \in Statuses, StatusStep(p, st) PROVE FALSE
    BY <1>1, <2>2, <2>3 DEF StatusStep, SetStatus, TypeOK, IsJob
  <2>4. ASSUME NEW p \in Processors, Persist(p) PROVE FALSE
    BY <1>1, <2>2, <2>4 DEF Persist, Working, TypeOK, IsJob
  <2> QED BY <1>1, <2>1, <2>3, <2>4, JobSteps DEF IsJob
<1>2. CASE IsJob(i)
  <2>1. requested \subseteq requested'
    BY DEF Next, vars, run, SetPaused, Ask, CreateJob, Enqueued, List, ListNothing, Take, EndOfQueue,
       CheckSpend, Block, MarkRunning, RunRole, RoleThrows, Fail, Persist, Request, Finish, Dies
  <2>2. jobs'[i].role = jobs[i].role /\ jobs'[i].tier \in {jobs[i].tier, Tier(jobs[i].role)}
    BY <1>2, RowsKept, TierWrites
  <2>3. CASE jobs'[i].status = jobs[i].status
    BY <1>2, <2>1, <2>2, <2>3 DEF DoneHasTier, RiskyWaitsForOwner, Created
  <2>4. CASE jobs'[i].status # jobs[i].status
    <3>1. PICK p \in Processors : job[p] = i /\ StatusStep(p, jobs'[i].status)
      BY <1>2, <2>4, StatusWrites
    <3>2. jobs'[i].status = "awaiting_approval" => i \in requested'
      BY <2>1, <3>1 DEF StatusStep, Persisted
    <3>3. ASSUME jobs'[i].status = "done" PROVE jobs'[i].tier = Tier(jobs'[i].role)
      BY <2>2, <3>1, <3>3 DEF StatusStep, Persisted
    <3>4. ASSUME jobs'[i].status = "done", Gated(jobs'[i].role) PROVE jobs'[i].tier = "auto"
      <4>1. ~AsksOwner(p)
        BY <3>1, <3>4 DEF StatusStep
      <4>2. Tier(jobs[i].role) = "auto"
        BY <2>2, <3>1, <3>4, <4>1 DEF AsksOwner, NeedsOwner
      <4> QED BY <2>2, <3>3, <3>4, <4>2
    <3> QED BY <3>2, <3>3, <3>4
  <2> QED BY <2>3, <2>4
<1> QED BY <1>1, <1>2

LEMMA InitIInv == Init => IInv
<1> SUFFICES ASSUME Init PROVE IInv
  OBVIOUS
<1>1. TypeOK
  <2>1. <<>> \in Seq(Roles)
    OBVIOUS
  <2> QED BY <2>1 DEF Init, TypeOK, Stages
<1>2. \A i \in JobIds : ~IsJob(i)
  BY DEF Init, IsJob
<1>3. NoGaps
  <2>1. 0 \in 0..MaxJobs /\ \A i \in JobIds : ~(i <= 0)
    BY AgentAssumption DEF JobIds
  <2> QED BY <1>2, <2>1 DEF NoGaps
<1> QED BY <1>1, <1>3, <1>2
        DEF Init, IInv, HoldsJob, Working, ParentsExist, ListedInOrder, ParentsFirst, Persisted,
            DoneHasTier, RiskyWaitsForOwner, Created

(* The inductive invariant of the agent team's queue.                       *)
THEOREM SpecIInv == Spec => []IInv
<1>1. IInv /\ [Next]_vars => IInv'
  BY TypeStep, CreationStep, HoldsJobStep, OrderStep, ParentsFirstStep, PersistedStep, OwnerStep
     DEF IInv
<1> QED BY InitIInv, <1>1, PTL DEF Spec

(* Every reachable state is well typed.                                     *)
THEOREM SpecTypeOK == Spec => []TypeOK
<1>1. IInv => TypeOK
  BY DEF IInv
<1> QED BY SpecIInv, <1>1, PTL

(* The order of the chain: no processor takes up a job whose parent waits,  *)
(* whatever was created, listed or cut off meanwhile.                       *)
THEOREM ChainsInOrder == Spec => []ParentsFirst
<1>1. IInv => ParentsFirst
  BY DEF IInv
<1> QED BY SpecIInv, <1>1, PTL

(* The agent never approves itself: what is risky waits, with a request.    *)
THEOREM OwnerDecides == Spec => []RiskyWaitsForOwner
<1>1. IInv => RiskyWaitsForOwner
  BY DEF IInv
<1> QED BY SpecIInv, <1>1, PTL

-----------------------------------------------------------------------------
(* Counting processors.                                                     *)
LEMMA ProcessorCount ==
  /\ IsFiniteSet(Processors) /\ Cardinality(Processors) \in Nat \ {0}
  /\ \A S \in SUBSET Processors :
       /\ IsFiniteSet(S) /\ Cardinality(S) \in Nat
       /\ Cardinality(S) <= Cardinality(Processors)
<1>1. IsFiniteSet(Processors) /\ Cardinality(Processors) \in Nat /\ Cardinality(Processors) # 0
  BY AgentAssumption, FS_CardinalityType, FS_EmptySet
<1>2. ASSUME NEW S \in SUBSET Processors
      PROVE  /\ IsFiniteSet(S) /\ Cardinality(S) \in Nat
             /\ Cardinality(S) <= Cardinality(Processors)
  <2>1. IsFiniteSet(S) /\ Cardinality(S) <= Cardinality(Processors)
    BY <1>1, FS_Subset
  <2> QED BY <2>1, FS_CardinalityType
<1> QED BY <1>1, <1>2

(* A set that loses processors gets no larger, and smaller by one if one of *)
(* its members is known to go.                                              *)
LEMMA FewerProcessors ==
  ASSUME NEW S \in SUBSET Processors, NEW T \in SUBSET S
  PROVE  /\ Cardinality(T) <= Cardinality(S)
         /\ \A p \in S \ T : Cardinality(T) + 1 <= Cardinality(S)
<1>1. IsFiniteSet(S) /\ Cardinality(S) \in Nat
  BY ProcessorCount
<1>2. ASSUME NEW p \in S \ T PROVE Cardinality(T) + 1 <= Cardinality(S)
  <2>1. IsFiniteSet(S \ {p}) /\ Cardinality(S \ {p}) = Cardinality(S) - 1
    BY <1>1, FS_RemoveElement
  <2>2. T \subseteq S \ {p}
    BY <1>2
  <2>3. Cardinality(T) <= Cardinality(S \ {p}) /\ Cardinality(T) \in Nat
    BY <2>1, <2>2, FS_Subset, FS_CardinalityType
  <2> QED BY <1>1, <2>1, <2>3
<1> QED BY <1>1, <1>2, FS_Subset

(* A paused team only ever has fewer processors that have passed the pause. *)
LEMMA PauseStep == TypeOK /\ PauseInv /\ [Next]_vars => PauseInv'
<1> SUFFICES ASSUME TypeOK, PauseInv, [Next]_vars PROVE PauseInv'
  OBVIOUS
<1>0. Passed \in SUBSET Processors /\ Passed' \in SUBSET Processors /\ started \in Nat
  BY DEF Passed, TypeOK
<1>1. /\ Cardinality(Processors) \in Nat
      /\ Cardinality(Passed) \in Nat
      /\ Cardinality(Passed') \in Nat /\ Cardinality(Passed') <= Cardinality(Processors)
  BY <1>0, ProcessorCount
<1>2. ASSUME NEW b \in BOOLEAN, SetPaused(b) PROVE PauseInv'
  <2>1. started' = 0 /\ paused' \in BOOLEAN
    BY <1>2 DEF SetPaused
  <2>2. 0 + Cardinality(Passed') <= Cardinality(Processors)
    BY <1>1
  <2> QED BY <2>1, <2>2 DEF PauseInv
<1>3. ASSUME NEW p \in Processors, MarkRunning(p) PROVE PauseInv'
  <2>1. Passed' \subseteq Passed /\ p \in Passed /\ p \notin Passed'
    BY <1>3 DEF MarkRunning, Goto, Passed, TypeOK
  <2>2. Cardinality(Passed') + 1 <= Cardinality(Passed)
    BY <1>0, <2>1, FewerProcessors
  <2>3. paused' = paused /\ started' = IF paused THEN started + 1 ELSE started
    BY <1>3 DEF MarkRunning
  <2> QED BY <1>0, <1>1, <2>2, <2>3 DEF PauseInv
<1>4. CASE UNCHANGED <<started, paused>> /\ (paused => Passed' \subseteq Passed)
  <2>1. paused => Cardinality(Passed') <= Cardinality(Passed)
    BY <1>0, <1>4, FewerProcessors
  <2> QED BY <1>0, <1>1, <1>4, <2>1 DEF PauseInv
<1>5. ASSUME NEW p \in Processors,
             \/ CreateJob(p) \/ Enqueued(p) \/ List(p) \/ ListNothing(p) \/ Take(p)
             \/ EndOfQueue(p) \/ CheckSpend(p) \/ Block(p) \/ RunRole(p) \/ RoleThrows(p)
             \/ Fail(p) \/ Persist(p) \/ Request(p) \/ Finish(p) \/ Dies(p)
             \/ \E trigger \in Triggers : Ask(p, trigger)
      PROVE  UNCHANGED <<started, paused>> /\ (paused => Passed' \subseteq Passed)
  BY <1>5 DEF CreateJob, Enqueued, List, ListNothing, Take, Halted, EndOfQueue, CheckSpend, Block,
     RunRole, RoleThrows, Fail, Persist, AfterPersist, Request, Finish, Dies, Ask, Goto, NextJob,
     Passed, TypeOK
<1>6. CASE UNCHANGED vars
  BY <1>4, <1>6 DEF vars, run, Passed
<1> QED BY <1>2, <1>3, <1>4, <1>5, <1>6 DEF Next

(* After the owner's pause each processor starts at most the job it had     *)
(* passed the pause with.                                                   *)
THEOREM PauseTakesHold == Spec => []PauseHalts
<1>1. Init => PauseInv
  <2> SUFFICES ASSUME Init PROVE PauseInv
    OBVIOUS
  <2> QED BY DEF Init, PauseInv
<1>2. TypeOK /\ PauseInv => PauseHalts
  <2> SUFFICES ASSUME TypeOK, PauseInv PROVE PauseHalts
    OBVIOUS
  <2>1. Passed \in SUBSET Processors /\ started \in Nat
    BY DEF Passed, TypeOK
  <2>2. Cardinality(Passed) \in Nat /\ Cardinality(Processors) \in Nat
    BY <2>1, ProcessorCount
  <2> QED BY <2>1, <2>2 DEF PauseInv, PauseHalts
<1> QED BY SpecTypeOK, PauseStep, <1>1, <1>2, PTL DEF Spec

(* Whoever passes the spend check leaves room for one job; every processor  *)
(* past it spends at most one.                                              *)
LEMMA SpendStep == TypeOK /\ SpendInv /\ [Next]_vars => SpendInv'
<1> SUFFICES ASSUME TypeOK, SpendInv, [Next]_vars PROVE SpendInv'
  OBVIOUS
<1>0. Spending \in SUBSET Processors /\ Spending' \in SUBSET Processors
  BY DEF Spending
<1>1. /\ Cardinality(Processors) \in Nat /\ Cardinality(Spending) \in Nat
      /\ Cardinality(Spending') \in Nat /\ Cardinality(Spending') <= Cardinality(Processors)
      /\ Credit \in Nat /\ Cap \in Nat
  BY <1>0, ProcessorCount, AgentAssumption
<1>2. IsFiniteSet(charged) /\ Cardinality(charged) \in Nat
  <2>1. IsFiniteSet(JobIds)
    BY AgentAssumption, FS_Interval DEF JobIds
  <2>2. charged \subseteq JobIds
    BY DEF TypeOK
  <2> QED BY <2>1, <2>2, FS_Subset, FS_CardinalityType
<1>3. CASE charged' = charged /\ Spending' \subseteq Spending
  <2>1. Cardinality(Spending') <= Cardinality(Spending)
    BY <1>0, <1>3, FewerProcessors
  <2> QED BY <1>1, <1>2, <1>3, <2>1 DEF SpendInv
<1>4. ASSUME NEW p \in Processors, CheckSpend(p) PROVE SpendInv'
  <2>1. charged' = charged
    BY <1>4 DEF CheckSpend
  <2>2. Covered(Cardinality(charged)) => SpendInv'
    BY <1>1, <1>2, <2>1 DEF Covered, SpendInv
  <2>3. ~Covered(Cardinality(charged)) => Spending' \subseteq Spending
    BY <1>4 DEF CheckSpend, Goto, Spending, TypeOK
  <2> QED BY <1>3, <2>1, <2>2, <2>3
<1>5. ASSUME NEW p \in Processors, RunRole(p) \/ RoleThrows(p) PROVE SpendInv'
  <2>1. Spending' \subseteq Spending /\ p \in Spending /\ p \notin Spending'
    BY <1>5 DEF RunRole, RoleThrows, Goto, Spending, TypeOK
  <2>2. Cardinality(Spending') + 1 <= Cardinality(Spending)
    BY <1>0, <2>1, FewerProcessors
  <2>3. charged' = charged \/ charged' = charged \cup {job[p]}
    BY <1>5 DEF RunRole, RoleThrows
  <2>4. Cardinality(charged') \in Nat /\ Cardinality(charged') <= Cardinality(charged) + 1
    <3>1. Cardinality(charged \cup {job[p]}) \in {Cardinality(charged), Cardinality(charged) + 1}
      BY <1>2, FS_AddElement
    <3>2. Cardinality(charged') \in {Cardinality(charged), Cardinality(charged) + 1}
      BY <2>3, <3>1
    <3> QED BY <1>2, <3>2
  <2> QED BY <1>1, <1>2, <2>2, <2>4 DEF SpendInv
<1>6. ASSUME NEW p \in Processors,
             \/ CreateJob(p) \/ Enqueued(p) \/ List(p) \/ ListNothing(p) \/ Take(p)
             \/ EndOfQueue(p) \/ Block(p) \/ MarkRunning(p) \/ Fail(p)
             \/ Persist(p) \/ Request(p) \/ Finish(p) \/ Dies(p)
             \/ \E trigger \in Triggers : Ask(p, trigger)
      PROVE  charged' = charged /\ Spending' \subseteq Spending
  BY <1>6 DEF CreateJob, Enqueued, List, ListNothing, Take, EndOfQueue, Block, MarkRunning, Fail,
     Persist, AfterPersist, Request, Finish, Dies, Ask, Goto, NextJob, Spending, TypeOK
<1>7. (UNCHANGED vars \/ \E b \in BOOLEAN : SetPaused(b))
        => charged' = charged /\ Spending' \subseteq Spending
  BY DEF vars, run, SetPaused, Spending
<1> QED BY <1>3, <1>4, <1>5, <1>6, <1>7 DEF Next

(* Processors that pass the spend check together overspend by at most one   *)
(* job each, less one.                                                      *)
THEOREM OverspendIsBounded == Spec => []OverspendBounded
<1>1. Init => SpendInv
  <2> SUFFICES ASSUME Init PROVE SpendInv
    OBVIOUS
  <2>1. Spending = {} /\ charged = {}
    BY DEF Init, Spending
  <2>2. Cardinality({}) = 0 /\ Cardinality(Processors) \in Nat \ {0}
    BY FS_EmptySet, ProcessorCount
  <2> QED BY <2>1, <2>2, AgentAssumption DEF SpendInv
<1>2. TypeOK /\ SpendInv => OverspendBounded
  <2> SUFFICES ASSUME TypeOK, SpendInv PROVE OverspendBounded
    OBVIOUS
  <2>1. Spending \in SUBSET Processors
    BY DEF Spending
  <2>2. Cardinality(Spending) \in Nat /\ Cardinality(Processors) \in Nat
    BY <2>1, ProcessorCount
  <2>3. Cardinality(charged) \in Nat
    <3>1. IsFiniteSet(JobIds) /\ charged \subseteq JobIds
      BY AgentAssumption, FS_Interval DEF JobIds, TypeOK
    <3> QED BY <3>1, FS_Subset, FS_CardinalityType
  <2> QED BY <2>2, <2>3, AgentAssumption DEF SpendInv, OverspendBounded
<1> QED BY SpecTypeOK, SpendStep, <1>1, <1>2, PTL DEF Spec
=============================================================================
