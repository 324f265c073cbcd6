----------------------------- MODULE Conductor -----------------------------
(***************************************************************************)
(* The marketing conductor (marketing/conductor.ts): the hourly, daily and *)
(* weekly crons each walk the paying tenants and run two agents for each,  *)
(* the last two then the platform's own.  A dispatch is counted in a       *)
(* variable of the module, which every run of the process shares and sets  *)
(* to zero when it begins.                                                 *)
(***************************************************************************)
EXTENDS Naturals, FiniteSets

CONSTANTS
  Runs,      \* cron invocations in one server process
  Tenants,   \* tenants on a paid plan
  Limit,     \* LLM_RUN_LIMIT
  MaxRuns    \* bound on the number of runs

(* What the proofs assume of them.                                          *)
ConductorAssumption == Limit \in Nat /\ MaxRuns \in Nat

RunKinds == {"hourly", "daily", "weekly"}

(* What a daily run does for the platform when it has a tenant of its own:  *)
(* posts, emails, and a blog on two days of the week; a weekly run reports. *)
PlatformStages(kind) ==
  CASE kind = "daily" -> 3 [] kind = "weekly" -> 1 [] OTHER -> 0

VARIABLES
  count,    \* llmCallCount
  begun,    \* how many runs have begun
  run       \* [at, kind, todo, stage, spent, began]

conductorVars == <<count, begun, run>>

NoRun == [at |-> "idle", kind |-> "hourly", todo |-> {}, stage |-> 0, spent |-> 0,
          began |-> 0]

TypeOK ==
  /\ count \in 0..Limit
  /\ begun \in 0..MaxRuns
  /\ run \in [Runs -> [at : {"idle", "list", "first", "context", "agent", "second",
                             "agent2", "platform", "job"},
                       kind : RunKinds, todo : SUBSET Tenants, stage : 0..3,
                       spent : 0..(Limit * MaxRuns), began : 0..MaxRuns]]

Init ==
  /\ count = 0
  /\ begun = 0
  /\ run = [r \in Runs |-> NoRun]

Goto(r, label) == run' = [run EXCEPT ![r].at = label]

-----------------------------------------------------------------------------
Begin(r, kind) ==
  /\ run[r].at = "idle"
  /\ begun < MaxRuns
  /\ count' = 0
  /\ begun' = begun + 1
  /\ run' = [run EXCEPT ![r] = [NoRun EXCEPT !.at = "list", !.kind = kind,
                                             !.began = begun + 1]]

(* getActiveTenants, in no order.                                           *)
List(r) ==
  /\ run[r].at = "list"
  /\ \E todo \in SUBSET Tenants :
       run' = [run EXCEPT ![r].at = "first", ![r].todo = todo]
  /\ UNCHANGED <<count, begun>>

(* Mutants: the limit is one too high; a dispatch is not counted.           *)
CheckBudget_OneMore == count <= Limit
Counted_Not == count

CheckBudget == count < Limit
Counted == count + 1

(* checkLlmBudget: a dispatch is counted, or the run goes on otherwise.     *)
Spend(r, granted, otherwise) ==
  /\ begun' = begun
  /\ IF CheckBudget
     THEN /\ count' = Counted
          /\ run' = [run EXCEPT ![r].at = granted, ![r].spent = @ + 1]
     ELSE /\ count' = count
          /\ run' = [run EXCEPT ![r] = otherwise]

(* The loop over the tenants is left; what follows it asks again.           *)
LeavesLoop(r) == [run[r] EXCEPT !.at = "platform"]

CheckFirst(r) ==
  /\ run[r].at = "first"
  /\ run[r].todo # {}
  /\ Spend(r, "context", LeavesLoop(r))

TenantsDone(r) ==
  /\ run[r].at = "first"
  /\ run[r].todo = {}
  /\ Goto(r, "platform")
  /\ UNCHANGED <<count, begun>>

(* buildContext: a tenant without a business is passed over.                *)
Context(r) ==
  /\ run[r].at = "context"
  /\ \E t \in run[r].todo, label \in {"agent", "first"} :
       run' = [run EXCEPT ![r].at = label, ![r].todo = @ \ {t}]
  /\ UNCHANGED <<count, begun>>

(* An agent runs, reports failure rather than throw, and is logged.         *)
FirstAgent(r) ==
  /\ run[r].at = "agent"
  /\ Goto(r, "second")
  /\ UNCHANGED <<count, begun>>

CheckSecond(r) ==
  /\ run[r].at = "second"
  /\ Spend(r, "agent2", LeavesLoop(r))

SecondAgent(r) ==
  /\ run[r].at = "agent2"
  /\ Goto(r, "first")
  /\ UNCHANGED <<count, begun>>

(* The platform's own stages, each against the same budget: without its     *)
(* posts a daily run does nothing more, without its emails it still asks    *)
(* for the blog.                                                            *)
WithoutStage(r) ==
  IF run[r].kind = "daily" /\ run[r].stage = 1
  THEN [run[r] EXCEPT !.stage = 2] ELSE [run[r] EXCEPT !.at = "idle"]

(* A daily run may have no platform tenant, or not the day of the blog.     *)
CheckPlatform(r) ==
  /\ run[r].at = "platform"
  /\ run[r].stage < PlatformStages(run[r].kind)
  /\ \/ Spend(r, "job", WithoutStage(r))
     \/ /\ run[r].kind = "daily" /\ run[r].stage \in {0, 2}
        /\ Goto(r, "idle")
        /\ UNCHANGED <<count, begun>>

PlatformJob(r) ==
  /\ run[r].at = "job"
  /\ run' = [run EXCEPT ![r].at = "platform", ![r].stage = @ + 1]
  /\ UNCHANGED <<count, begun>>

RunEnds(r) ==
  /\ run[r].at = "platform"
  /\ run[r].stage = PlatformStages(run[r].kind)
  /\ Goto(r, "idle")
  /\ UNCHANGED <<count, begun>>

(* A query or a log row throws out of the run.                              *)
RunThrows(r) ==
  /\ run[r].at \notin {"idle", "first", "second", "platform"}
  /\ Goto(r, "idle")
  /\ UNCHANGED <<count, begun>>

-----------------------------------------------------------------------------
Next ==
  \E r \in Runs :
    \/ \E kind \in RunKinds : Begin(r, kind)
    \/ List(r) \/ CheckFirst(r) \/ TenantsDone(r) \/ Context(r) \/ FirstAgent(r)
    \/ CheckSecond(r) \/ SecondAgent(r) \/ CheckPlatform(r) \/ PlatformJob(r)
    \/ RunEnds(r) \/ RunThrows(r)

Spec == Init /\ [][Next]_conductorVars

-----------------------------------------------------------------------------
(* The limit holds from one reset to the next: a run dispatches at most so  *)
(* many agents, and as many again for each run of its process that has      *)
(* begun, and set the count to zero, while it was under way.                *)
BudgetPerReset ==
  \A r \in Runs : run[r].spent <= Limit * (1 + begun - run[r].began)
=============================================================================
