----------------------------- MODULE AgentQueue -----------------------------
(***************************************************************************)
(* The agent team's job queue (integrations/agentTeam/queue.ts, conductor, *)
(* roles and risk tiers): owner requests and triggers enqueue chains of    *)
(* jobs, processors (the cron, an owner's request, a pause) each run the   *)
(* jobs they listed, and the owner pauses the team meanwhile. No processor *)
(* claims a job, and each repository call is a transaction of its own. A   *)
(* job costs one unit, the estimate it is checked for. The balance is      *)
(* Wallet's: whoever else spends can make it short at any time.            *)
(***************************************************************************)
EXTENDS Integers, Sequences, FiniteSets

CONSTANTS
  Processors,  \* processes that can enqueue or process at once
  Triggers,    \* the triggers of this instance
  MaxJobs,     \* bound on the jobs created
  Credit,      \* the wallet's balance at first, in jobs
  Cap,         \* AgentPolicy.monthlySpendCapMicro, in jobs; 0 for none
  AutoApprove, \* AgentPolicy.autoApproveContent: no code changes either
  None

ASSUME AgentAssumption ==
  /\ IsFiniteSet(Processors) /\ Processors # {}
  /\ Triggers \subseteq {"owner_request", "ci_failure", "advisory"}
  /\ MaxJobs \in Nat
  /\ Credit \in Nat /\ Cap \in Nat
  /\ AutoApprove \in BOOLEAN

(* What runRole can answer: CI Medic, Builder and Bug Hunter make a change, *)
(* Security Sentinel a patch bump, Reviewer a verdict.                      *)
Roles == {"change", "sentinel", "reviewer"}

(* planForTrigger: each job is the parent of the next.                      *)
Plan(trigger) ==
  CASE trigger = "owner_request" -> <<"change", "sentinel", "reviewer">>
    [] trigger = "ci_failure" -> <<"change", "reviewer">>
    [] trigger = "advisory" -> <<"sentinel", "reviewer">>

(* tierForChange of what the role proposes; the Reviewer's default.         *)
Tier(role) == IF role = "sentinel" THEN "auto" ELSE "review"
Gated(role) == role # "reviewer"

JobIds == 1..MaxJobs
Statuses == {"queued", "running", "blocked", "failed", "awaiting_approval", "done"}
Jobs == [role : Roles, parent : JobIds \cup {None}, status : Statuses,
         tier : {"auto", "review"}]

ASSUME NoneIsNoJob == None \notin Jobs /\ None \notin JobIds

Stages == {"idle", "enqueue", "list", "next", "credits", "block", "mark", "run",
           "persist", "request", "finish", "fail"}

VARIABLES
  jobs,      \* agent_jobs in order of creation, or None
  paused,    \* AgentPolicy.pausedByOwner
  charged,   \* the jobs with a usage row under agent:<tenant>:<job>
  requested, \* the jobs with an agent.approval_requested entry
  pc,
  todo,      \* roles a processor has still to enqueue
  last,      \* the job it enqueued last, the parent of the next
  queue,     \* the ids it listed and has not taken
  job,       \* the job it works on
  started    \* jobs marked running since the owner paused

run == <<pc, todo, last, queue, job>>
vars == <<jobs, paused, charged, requested, run, started>>

IsJob(i) == jobs[i] # None
Created == {i \in JobIds : IsJob(i)}

TypeOK ==
  /\ jobs \in [JobIds -> Jobs \cup {None}]
  /\ paused \in BOOLEAN
  /\ charged \subseteq JobIds
  /\ requested \subseteq JobIds
  /\ pc \in [Processors -> Stages]
  /\ todo \in [Processors -> Seq(Roles)]
  /\ last \in [Processors -> JobIds \cup {None}]
  /\ queue \in [Processors -> SUBSET JobIds]
  /\ job \in [Processors -> JobIds \cup {None}]
  /\ started \in Nat

Init ==
  /\ jobs = [i \in JobIds |-> None]
  /\ paused = FALSE
  /\ charged = {}
  /\ requested = {}
  /\ pc = [p \in Processors |-> "idle"]
  /\ todo = [p \in Processors |-> <<>>]
  /\ last = [p \in Processors |-> None]
  /\ queue = [p \in Processors |-> {}]
  /\ job = [p \in Processors |-> None]
  /\ started = 0

Goto(p, stage) == pc' = [pc EXCEPT ![p] = stage]
SetStatus(p, status) == jobs' = [jobs EXCEPT ![job[p]].status = status]
(* The loop goes on to the next listed job.                                 *)
NextJob(p) ==
  /\ Goto(p, "next")
  /\ job' = [job EXCEPT ![p] = None]

-----------------------------------------------------------------------------
(* The owner.                                                               *)

(* setPausedAction writes the policy; the processQueue that follows a pause *)
(* is a processor's.                                                        *)
SetPaused(b) ==
  /\ paused # b
  /\ paused' = b
  /\ started' = 0
  /\ UNCHANGED <<jobs, charged, requested, run>>

-----------------------------------------------------------------------------
(* enqueueRun.                                                              *)

(* A paused tenant enqueues nothing; the caller processes the queue anyway. *)
Ask(p, trigger) ==
  /\ pc[p] = "idle"
  /\ Cardinality(Created) + Len(Plan(trigger)) <= MaxJobs
  /\ IF paused
     THEN Goto(p, "list") /\ UNCHANGED todo
     ELSE Goto(p, "enqueue") /\ todo' = [todo EXCEPT ![p] = Plan(trigger)]
  /\ UNCHANGED <<jobs, paused, charged, requested, last, queue, job, started>>

(* Mutant: the jobs are counted from zero.                                  *)
NextId_FromZero == Cardinality(Created)
NextId == Cardinality(Created) + 1

CreateJob(p) ==
  /\ pc[p] = "enqueue"
  /\ todo[p] # <<>>
  /\ NextId <= MaxJobs
  /\ jobs' = [jobs EXCEPT ![NextId] = [role |-> Head(todo[p]), parent |-> last[p],
                                       status |-> "queued", tier |-> "review"]]
  /\ last' = [last EXCEPT ![p] = NextId]
  /\ todo' = [todo EXCEPT ![p] = Tail(@)]
  /\ UNCHANGED <<paused, charged, requested, pc, queue, job, started>>

Enqueued(p) ==
  /\ pc[p] = "enqueue"
  /\ todo[p] = <<>>
  /\ last' = [last EXCEPT ![p] = None]
  /\ Goto(p, "list")
  /\ UNCHANGED <<jobs, paused, charged, requested, todo, queue, job, started>>

-----------------------------------------------------------------------------
(* processQueue.                                                            *)

Queued == {i \in Created : jobs[i].status = "queued"}

(* After an enqueue, or alone: the cron, and the pause.                     *)
List(p) ==
  /\ pc[p] \in {"idle", "list"}
  /\ Queued # {}
  /\ queue' = [queue EXCEPT ![p] = Queued]
  /\ Goto(p, "next")
  /\ UNCHANGED <<jobs, paused, charged, requested, todo, last, job, started>>

ListNothing(p) ==
  /\ pc[p] = "list"
  /\ Queued = {}
  /\ Goto(p, "idle")
  /\ UNCHANGED <<jobs, paused, charged, requested, todo, last, queue, job, started>>

(* Mutant: the newest job first.                                            *)
First_Newest(ids, i) == \A k \in ids : k <= i
First(ids, i) == \A k \in ids : i <= k

(* Mutant: only enqueueRun looks at the pause.                              *)
Halted_Never(policyPaused) == FALSE
(* The policy is read again before each job.                                *)
Halted(policyPaused) == policyPaused

(* The next listed job, and its pause pre-flight.                           *)
Take(p) ==
  /\ pc[p] = "next"
  /\ \E i \in queue[p] :
       /\ First(queue[p], i)
       /\ job' = [job EXCEPT ![p] = i]
       /\ queue' = [queue EXCEPT ![p] = @ \ {i}]
  /\ Goto(p, IF Halted(paused) THEN "block" ELSE "credits")
  /\ UNCHANGED <<jobs, paused, charged, requested, todo, last, started>>

EndOfQueue(p) ==
  /\ pc[p] = "next"
  /\ queue[p] = {}
  /\ Goto(p, "idle")
  /\ UNCHANGED <<jobs, paused, charged, requested, todo, last, queue, job, started>>

(* Mutant: a job may start as long as nothing is overspent.                 *)
Covered_OffByOne(spent) == spent <= Credit /\ (Cap > 0 => spent <= Cap)
(* The balance, and what remains of the cap, cover a job.                   *)
Covered(spent) == Credit - spent >= 1 /\ (Cap > 0 => Cap - spent >= 1)

CheckSpend(p) ==
  /\ pc[p] = "credits"
  /\ \/ Covered(Cardinality(charged)) /\ Goto(p, "mark")
     \/ Goto(p, "block")
  /\ UNCHANGED <<jobs, paused, charged, requested, todo, last, queue, job, started>>

Block(p) ==
  /\ pc[p] = "block"
  /\ SetStatus(p, "blocked")
  /\ NextJob(p)
  /\ UNCHANGED <<paused, charged, requested, todo, last, queue, started>>

MarkRunning(p) ==
  /\ pc[p] = "mark"
  /\ SetStatus(p, "running")
  /\ started' = IF paused THEN started + 1 ELSE started
  /\ Goto(p, "run")
  /\ UNCHANGED <<paused, charged, requested, todo, last, queue, job>>

(* routeLlm debits under the job's key, which a second run finds; or it is  *)
(* answered from the cache, or degrades, for nothing.                       *)
RunRole(p) ==
  /\ pc[p] = "run"
  /\ charged' \in {charged, charged \cup {job[p]}}
  /\ Goto(p, "persist")
  /\ UNCHANGED <<jobs, paused, requested, todo, last, queue, job, started>>

(* It throws, after its debit or before.                                    *)
RoleThrows(p) ==
  /\ pc[p] = "run"
  /\ charged' \in {charged, charged \cup {job[p]}}
  /\ Goto(p, "fail")
  /\ UNCHANGED <<jobs, paused, requested, todo, last, queue, job, started>>

Fail(p) ==
  /\ pc[p] = "fail"
  /\ SetStatus(p, "failed")
  /\ NextJob(p)
  /\ UNCHANGED <<paused, charged, requested, todo, last, queue, started>>

(* Mutant: whoever opted in is not asked, whatever the tier.                *)
NeedsOwner_OptIn(tier, optIn) == ~optIn
NeedsOwner(tier, optIn) == ~(tier = "auto" /\ optIn)

AsksOwner(p) ==
  LET role == jobs[job[p]].role IN Gated(role) /\ NeedsOwner(Tier(role), AutoApprove)

AfterPersist(p) == IF AsksOwner(p) THEN "request" ELSE "finish"

Persist(p) ==
  /\ pc[p] = "persist"
  /\ jobs' = [jobs EXCEPT ![job[p]].tier = Tier(jobs[job[p]].role)]
  /\ Goto(p, AfterPersist(p))
  /\ UNCHANGED <<paused, charged, requested, todo, last, queue, job, started>>

(* createAgentApprovalRequest: before the status, so that a card has its    *)
(* request.                                                                 *)
Request(p) ==
  /\ pc[p] = "request"
  /\ requested' = requested \cup {job[p]}
  /\ Goto(p, "finish")
  /\ UNCHANGED <<jobs, paused, charged, todo, last, queue, job, started>>

Finish(p) ==
  /\ pc[p] = "finish"
  /\ SetStatus(p, IF AsksOwner(p) THEN "awaiting_approval" ELSE "done")
  /\ NextJob(p)
  /\ UNCHANGED <<paused, charged, requested, todo, last, queue, started>>

(* The process is killed, or a call outside the try block throws.           *)
Dies(p) ==
  /\ pc[p] # "idle"
  /\ Goto(p, "idle")
  /\ todo' = [todo EXCEPT ![p] = <<>>]
  /\ queue' = [queue EXCEPT ![p] = {}]
  /\ job' = [job EXCEPT ![p] = None]
  /\ last' = [last EXCEPT ![p] = None]
  /\ UNCHANGED <<jobs, paused, charged, requested, started>>

-----------------------------------------------------------------------------
Next ==
  \/ \E b \in BOOLEAN : SetPaused(b)
  \/ \E p \in Processors :
       \/ \E trigger \in Triggers : Ask(p, trigger)
       \/ CreateJob(p) \/ Enqueued(p) \/ List(p) \/ ListNothing(p) \/ Take(p)
       \/ EndOfQueue(p) \/ CheckSpend(p) \/ Block(p) \/ MarkRunning(p) \/ RunRole(p)
       \/ RoleThrows(p) \/ Fail(p) \/ Persist(p) \/ Request(p) \/ Finish(p) \/ Dies(p)

Spec == Init /\ [][Next]_vars

-----------------------------------------------------------------------------
(* "DAG order (parents before children)", across processors that listed the *)
(* queue at different moments, died, or enqueue at this moment: no child is *)
(* taken up, blocked or run, while its parent still waits.                  *)
ParentsFirst ==
  \A i \in Created :
    jobs[i].parent # None /\ jobs[i].status # "queued" =>
      jobs[jobs[i].parent].status # "queued"

(* The agent never approves itself: a change that is not of the automatic   *)
(* tier never ends as done, and what waits for the owner has its request,   *)
(* although two processors may write the same job.                          *)
RiskyWaitsForOwner ==
  \A i \in Created :
    /\ jobs[i].status = "awaiting_approval" => i \in requested
    /\ jobs[i].status = "done" /\ Gated(jobs[i].role) => jobs[i].tier = "auto"

(* The pause is read again before each job: after the owner's pause each    *)
(* processor starts at most the one job it had already passed.              *)
PauseHalts == started <= Cardinality(Processors)

(* The spend check is a pre-flight between steps, not a reservation:        *)
(* processors that pass it together overspend the balance, and the cap, by  *)
(* at most one job each, less one.                                          *)
OverspendBounded ==
  LET spent == Cardinality(charged)
      overspend == Cardinality(Processors) - 1
  IN  spent <= Credit + overspend /\ (Cap > 0 => spent <= Cap + overspend)
=============================================================================
