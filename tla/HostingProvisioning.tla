------------------------ MODULE HostingProvisioning ------------------------
(***************************************************************************)
(* Managed hosting (integrations/hosting/provision.ts, sweep.ts and        *)
(* app/hosting/actions.ts): one deployment, its provisioning_jobs, and the *)
(* processes that write it: accepted requests, queue sweeps (the cron and  *)
(* every status poll run one), meter ticks and the owner's kill switch.    *)
(* Every repository call is a transaction of its own, so the processes     *)
(* interleave between any two calls and act on rows they read earlier.     *)
(* The ActionRouter has already opened a request's operation. The tier is  *)
(* the container tier's live backend, tier/railwayBackend.ts: a service    *)
(* per provision call, known to the deployment by its backendRef. Replica  *)
(* counts, plans and regions are left out.                                 *)
(***************************************************************************)
EXTENDS Naturals, FiniteSets

CONSTANTS
  Requests,      \* accepted provision, scale and teardown requests
  Kinds,         \* the kinds of request in this instance
  Sweeps,        \* processes that can run a queue sweep
  Meters,        \* processes that can run a meter tick
  Switches,      \* the owner's kill-switch calls
  BackendFails,  \* can the tier backend refuse?
  Faults,        \* can a repository call throw, or a process be killed?
  MaxServices,   \* bound on the services the backend makes
  None

MaxAttempts == 3
JobIds == 1..Cardinality(Requests)

ASSUME HostingAssumption ==
  /\ IsFiniteSet(Requests)
  /\ Kinds \subseteq {"provision", "scale", "teardown"}
  /\ BackendFails \in BOOLEAN
  /\ Faults \in BOOLEAN
  /\ MaxServices \in Nat

Statuses == {"none", "provisioning", "running", "scaling", "suspended",
             "torn_down", "failed"}
Jobs == [kind : Kinds, status : {"queued", "running", "done", "failed"},
         attempts : 0..MaxAttempts, due : BOOLEAN, request : Requests]
(* A backendRef; NoRef is null.                                             *)
NoRef == 0
Refs == 0..MaxServices
(* What a sweep keeps of a job row it listed.                               *)
Listed == [id : JobIds, attempts : 0..MaxAttempts]

ASSUME NoneIsNoRow == None \notin Jobs /\ None \notin Listed

VARIABLES
  status,     \* hosting_deployments.status
  killSwitch, \* hosting_deployments.killSwitch
  ref,        \* hosting_deployments.backendRef
  services,   \* the services the backend runs
  made,       \* how many it ever made: each has an id of its own
  jobs,       \* provisioning_jobs by order of creation, or None
  ops,        \* the operation of each request
  req,        \* requests: [at, kind, saw]
  sweep,      \* sweeps: [at, queue, job, ref]
  meter,      \* meter ticks: [at, killed]
  switch      \* kill-switch calls: [at, saw, on]

deployment == <<status, killSwitch, ref>>
backend == <<services, made>>
vars == <<deployment, backend, jobs, ops, req, sweep, meter, switch>>

IsJob(id) == jobs[id] # None

Outcomes == {"none", "pending", "succeeded", "failed"}
Callers == [at : {"idle", "read", "write", "enqueue", "done"},
            kind : Kinds \cup {None}, saw : Statuses]
Stages == {"idle", "next", "mark", "backend", "apply", "finish", "settle",
           "retry", "giveUp", "settleFailed"}
Runs == [at : Stages, queue : SUBSET Listed, job : Listed \cup {None}, ref : Refs]
Ticks == [at : {"idle", "tick"}, killed : BOOLEAN]
Flips == [at : {"idle", "write", "done"}, saw : Statuses, on : BOOLEAN]

TypeOK ==
  /\ status \in Statuses
  /\ killSwitch \in BOOLEAN
  /\ ref \in Refs
  /\ made \in Refs
  /\ services \subseteq 1..made
  /\ jobs \in [JobIds -> Jobs \cup {None}]
  /\ ops \in [Requests -> Outcomes]
  /\ req \in [Requests -> Callers]
  /\ sweep \in [Sweeps -> Runs]
  /\ meter \in [Meters -> Ticks]
  /\ switch \in [Switches -> Flips]

Init ==
  /\ status = "none"
  /\ killSwitch = FALSE
  /\ ref = NoRef
  /\ services = {}
  /\ made = 0
  /\ jobs = [i \in JobIds |-> None]
  /\ ops = [r \in Requests |-> "none"]
  /\ req = [r \in Requests |-> [at |-> "idle", kind |-> None, saw |-> "none"]]
  /\ sweep = [s \in Sweeps |-> [at |-> "idle", queue |-> {}, job |-> None,
                             ref |-> NoRef]]
  /\ meter = [m \in Meters |-> [at |-> "idle", killed |-> FALSE]]
  /\ switch = [k \in Switches |-> [at |-> "idle", saw |-> "none", on |-> FALSE]]

(* settleOperation: only a pending operation is settled.                    *)
Settled(r, outcome) ==
  IF ops[r] = "pending" THEN [ops EXCEPT ![r] = outcome] ELSE ops

-----------------------------------------------------------------------------
(* Requests: runHostingGatedAction after the router accepted. A scale of    *)
(* no deployment is turned away before the router.                          *)

Accept(r, kind) ==
  /\ req[r].at = "idle"
  /\ kind = "scale" => status # "none"
  /\ req' = [req EXCEPT ![r] = [at |-> "read", kind |-> kind, saw |-> "none"]]
  /\ ops' = [ops EXCEPT ![r] = "pending"]
  /\ UNCHANGED <<deployment, backend, jobs, sweep, meter, switch>>

(* enqueueScale and enqueueTeardown return early on these rows; a scale     *)
(* leaves its operation pending for the reconcile to mark succeeded.        *)
Refused(kind, saw) ==
  \/ kind = "scale" /\ saw \notin {"running", "scaling"}
  \/ kind = "teardown" /\ saw \in {"none", "torn_down"}

ReadDeployment(r) ==
  /\ req[r].at = "read"
  /\ req' = [req EXCEPT ![r].saw = status,
                        ![r].at = IF Refused(req[r].kind, status) THEN "done" ELSE "write"]
  /\ UNCHANGED <<deployment, backend, jobs, ops, sweep, meter, switch>>

StatusOnRequest(kind) ==
  CASE kind = "provision" -> "provisioning"
    [] kind = "scale" -> "scaling"
    [] kind = "teardown" -> "suspended"

(* A provision of a row it saw updates it and turns the kill switch off;    *)
(* of none, it creates one, and the second of two creators throws.          *)
WriteDeployment(r) ==
  /\ req[r].at = "write"
  /\ IF req[r].saw = "none" /\ status # "none"
     THEN /\ req' = [req EXCEPT ![r].at = "done"]
          /\ UNCHANGED deployment
     ELSE /\ req' = [req EXCEPT ![r].at = "enqueue"]
          /\ status' = StatusOnRequest(req[r].kind)
          /\ killSwitch' = (killSwitch /\ req[r].kind # "provision")
          /\ UNCHANGED ref
  /\ UNCHANGED <<backend, jobs, ops, sweep, meter, switch>>

NextId == Cardinality({i \in JobIds : jobs[i] # None}) + 1

CreateJob(r) ==
  /\ req[r].at = "enqueue"
  /\ jobs' = [jobs EXCEPT ![NextId] =
       [kind |-> req[r].kind, status |-> "queued", attempts |-> 0, due |-> TRUE,
        request |-> r]]
  /\ req' = [req EXCEPT ![r].at = "done"]
  /\ UNCHANGED <<deployment, backend, ops, sweep, meter, switch>>

(* A repository call throws (the action swallows it) or the process dies.   *)
RequestFails(r) ==
  /\ Faults
  /\ req[r].at \in {"read", "write", "enqueue"}
  /\ req' = [req EXCEPT ![r].at = "done"]
  /\ UNCHANGED <<deployment, backend, jobs, ops, sweep, meter, switch>>

-----------------------------------------------------------------------------
(* A sweep: sweepProvisioningQueue and runProvisioningJob.                  *)

Runnable == {i \in JobIds : jobs[i] # None /\ jobs[i].status = "queued" /\ jobs[i].due}

List(s) ==
  /\ sweep[s].at = "idle"
  /\ Runnable # {}
  /\ sweep' = [sweep EXCEPT ![s].at = "next",
       ![s].queue = {[id |-> i, attempts |-> jobs[i].attempts] : i \in Runnable}]
  /\ UNCHANGED <<deployment, backend, jobs, ops, req, meter, switch>>

(* Mutant: the newest job first.                                            *)
First_Newest(queue, j) == \A k \in queue : k.id <= j.id

(* ORDER BY createdAt ASC.                                                  *)
First(queue, j) == \A k \in queue : j.id <= k.id

(* The next job of the list as it was read, without a claim on its row,     *)
(* and the read of its deployment.                                          *)
Take(s) ==
  /\ sweep[s].at = "next"
  /\ \/ /\ sweep[s].queue = {}
        /\ sweep' = [sweep EXCEPT ![s] =
             [at |-> "idle", queue |-> {}, job |-> None, ref |-> NoRef]]
     \/ \E j \in sweep[s].queue :
          /\ First(sweep[s].queue, j)
          /\ sweep' = [sweep EXCEPT ![s] =
               [at |-> "mark", queue |-> sweep[s].queue \ {j}, job |-> j, ref |-> ref]]
  /\ UNCHANGED <<deployment, backend, jobs, ops, req, meter, switch>>

Row(s) == jobs[sweep[s].job.id]
Goto(s, label) == sweep' = [sweep EXCEPT ![s].at = label]

MarkRunning(s) ==
  /\ sweep[s].at = "mark"
  /\ jobs' = [jobs EXCEPT ![sweep[s].job.id].status = "running"]
  /\ Goto(s, "backend")
  /\ UNCHANGED <<deployment, backend, ops, req, meter, switch>>

(* serviceCreate: every call makes a service.                               *)
Provision(s) ==
  /\ Row(s).kind = "provision"
  /\ made < MaxServices
  /\ made' = made + 1
  /\ services' = services \cup {made'}
  /\ sweep' = [sweep EXCEPT ![s].ref = made', ![s].at = "apply"]

(* A scale sends nothing, but needs a ref.                                  *)
Scale(s) ==
  /\ Row(s).kind = "scale"
  /\ Goto(s, IF sweep[s].ref = NoRef THEN "retry" ELSE "apply")
  /\ UNCHANGED backend

(* serviceDelete of the ref it read; with none there is nothing to do.      *)
Teardown(s) ==
  /\ Row(s).kind = "teardown"
  /\ services' = services \ {sweep[s].ref}
  /\ sweep' = [sweep EXCEPT ![s].ref = NoRef, ![s].at = "apply"]
  /\ UNCHANGED made

CallBackend(s) ==
  /\ sweep[s].at = "backend"
  /\ Provision(s) \/ Scale(s) \/ Teardown(s)
  /\ UNCHANGED <<deployment, jobs, ops, req, meter, switch>>

BackendRefuses(s) ==
  /\ BackendFails
  /\ sweep[s].at = "backend"
  /\ Goto(s, "retry")
  /\ UNCHANGED <<deployment, backend, jobs, ops, req, meter, switch>>

StatusWhenDone(kind) == IF kind = "teardown" THEN "torn_down" ELSE "running"

(* Mutant: a teardown leaves the ref in the row.                            *)
RefWhenDone_Kept(s) == IF Row(s).kind = "provision" THEN sweep[s].ref ELSE ref

(* The scale writes no ref: a later write of another process stays.         *)
RefWhenDone(s) == IF Row(s).kind = "scale" THEN ref ELSE sweep[s].ref

Apply(s) ==
  /\ sweep[s].at = "apply"
  /\ status' = StatusWhenDone(Row(s).kind)
  /\ ref' = RefWhenDone(s)
  /\ Goto(s, "finish")
  /\ UNCHANGED <<killSwitch, backend, jobs, ops, req, meter, switch>>

Finish(s) ==
  /\ sweep[s].at = "finish"
  /\ jobs' = [jobs EXCEPT ![sweep[s].job.id].status = "done"]
  /\ Goto(s, "settle")
  /\ UNCHANGED <<deployment, backend, ops, req, meter, switch>>

SettleSucceeded(s) ==
  /\ sweep[s].at = "settle"
  /\ ops' = Settled(Row(s).request, "succeeded")
  /\ Goto(s, "next")
  /\ UNCHANGED <<deployment, backend, jobs, req, meter, switch>>

Exhausted(attempts) == attempts >= MaxAttempts

(* Mutant: the retry does not put the job back in the queue.                *)
Requeued_StillRunning(row, attempts) ==
  [row EXCEPT !.attempts = attempts, !.due = FALSE]

(* A retry waits in the queue until its backoff is over.                    *)
Requeued(row, attempts) ==
  [row EXCEPT !.status = "queued", !.attempts = attempts, !.due = FALSE]

(* The catch block, counting from the attempts that were listed.            *)
Retry(s) ==
  /\ sweep[s].at = "retry"
  /\ LET attempts == sweep[s].job.attempts + 1 IN
       IF Exhausted(attempts)
       THEN /\ jobs' = [jobs EXCEPT ![sweep[s].job.id].status = "failed",
                                    ![sweep[s].job.id].attempts = attempts]
            /\ Goto(s, "giveUp")
       ELSE /\ jobs' = [jobs EXCEPT ![sweep[s].job.id] = Requeued(@, attempts)]
            /\ Goto(s, "next")
  /\ UNCHANGED <<deployment, backend, ops, req, meter, switch>>

GiveUp(s) ==
  /\ sweep[s].at = "giveUp"
  /\ status' = "failed"
  /\ Goto(s, "settleFailed")
  /\ UNCHANGED <<killSwitch, ref, backend, jobs, ops, req, meter, switch>>

SettleFailed(s) ==
  /\ sweep[s].at = "settleFailed"
  /\ ops' = Settled(Row(s).request, "failed")
  /\ Goto(s, "next")
  /\ UNCHANGED <<deployment, backend, jobs, req, meter, switch>>

(* A call throws inside the try block: a repository's, or the backend's     *)
(* whose answer is lost.                                                    *)
CallThrows(s) ==
  /\ Faults
  /\ sweep[s].at \in {"mark", "apply", "finish", "settle"}
  /\ Goto(s, "retry")
  /\ UNCHANGED <<deployment, backend, jobs, ops, req, meter, switch>>

(* It throws outside it, or the process is killed: the sweep is over.       *)
SweepDies(s) ==
  /\ Faults
  /\ sweep[s].at # "idle"
  /\ sweep' = [sweep EXCEPT ![s] = [at |-> "idle", queue |-> {}, job |-> None,
                                        ref |-> NoRef]]
  /\ UNCHANGED <<deployment, backend, jobs, ops, req, meter, switch>>

(* The backoff of a retried job is over.                                    *)
Due(i) ==
  /\ jobs[i] # None
  /\ ~jobs[i].due
  /\ jobs' = [jobs EXCEPT ![i].due = TRUE]
  /\ UNCHANGED <<deployment, backend, ops, req, sweep, meter, switch>>

(* The backstop of the same cron: any pending operation past its settleAt   *)
(* is marked succeeded (core/operationStore.ts).                            *)
Reconcile(r) ==
  /\ ops[r] = "pending"
  /\ ops' = [ops EXCEPT ![r] = "succeeded"]
  /\ UNCHANGED <<deployment, backend, jobs, req, sweep, meter, switch>>

-----------------------------------------------------------------------------
(* The meter tick: its debits are Wallet's; here, whom it suspends.         *)

ListRunning(m) ==
  /\ meter[m].at = "idle"
  /\ status = "running"
  /\ meter' = [meter EXCEPT ![m] = [at |-> "tick", killed |-> killSwitch]]
  /\ UNCHANGED <<deployment, backend, jobs, ops, req, sweep, switch>>

(* Suspended for the kill switch it listed or for want of credit, or not.   *)
Tick(m) ==
  /\ meter[m].at = "tick"
  /\ meter' = [meter EXCEPT ![m].at = "idle"]
  /\ \/ status' = "suspended"
     \/ ~meter[m].killed /\ UNCHANGED status
  /\ UNCHANGED <<killSwitch, ref, backend, jobs, ops, req, sweep, switch>>

(* setKillSwitch reads the row, then writes switch and status.              *)
ReadSwitch(k, on) ==
  /\ switch[k].at = "idle"
  /\ status # "none"
  /\ switch' = [switch EXCEPT ![k] = [at |-> "write", saw |-> status, on |-> on]]
  /\ UNCHANGED <<deployment, backend, jobs, ops, req, sweep, meter>>

WriteSwitch(k) ==
  /\ switch[k].at = "write"
  /\ killSwitch' = switch[k].on
  /\ status' = IF switch[k].on /\ switch[k].saw = "running"
               THEN "suspended" ELSE switch[k].saw
  /\ switch' = [switch EXCEPT ![k].at = "done"]
  /\ UNCHANGED <<ref, backend, jobs, ops, req, sweep, meter>>

-----------------------------------------------------------------------------
RequestStep(r) ==
  \/ \E kind \in Kinds : Accept(r, kind)
  \/ ReadDeployment(r) \/ WriteDeployment(r) \/ CreateJob(r) \/ RequestFails(r)

(* What a live sweep does next.                                             *)
SweepStep(s) ==
  \/ List(s) \/ Take(s) \/ MarkRunning(s) \/ CallBackend(s) \/ Apply(s) \/ Finish(s)
  \/ SettleSucceeded(s) \/ Retry(s) \/ GiveUp(s) \/ SettleFailed(s)

Next ==
  \/ \E r \in Requests : RequestStep(r) \/ Reconcile(r)
  \/ \E s \in Sweeps : SweepStep(s) \/ BackendRefuses(s) \/ CallThrows(s) \/ SweepDies(s)
  \/ \E i \in JobIds : Due(i)
  \/ \E m \in Meters : ListRunning(m) \/ Tick(m)
  \/ \E k \in Switches : (\E on \in BOOLEAN : ReadSwitch(k, on)) \/ WriteSwitch(k)

Spec == Init /\ [][Next]_vars

(* The operations cron runs every five minutes, and time passes. The        *)
(* backend need not refuse, nor any call fail.                              *)
FairSpec ==
  /\ Spec
  /\ \A s \in Sweeps : WF_vars(SweepStep(s))
  /\ \A i \in JobIds : WF_vars(Due(i))

-----------------------------------------------------------------------------
(* Nothing in flight: every accepted request is enqueued, every job over.   *)
Quiet ==
  /\ \A s \in Sweeps : sweep[s].at = "idle"
  /\ \A r \in Requests : req[r].at \in {"idle", "done"}
  /\ \A i \in JobIds : IsJob(i) => jobs[i].status \in {"done", "failed"}

LastJob == CHOOSE i \in JobIds : IsJob(i) /\ \A k \in JobIds : IsJob(k) => k <= i

(* Each request overwrites the status and runProvisioningJob overwrites it  *)
(* again, in the order of the queue: once all is done, and nothing had to   *)
(* be retried, the deployment is what the request enqueued last asked for.  *)
LastRequestWins ==
  (Quiet /\ (\E i \in JobIds : IsJob(i)) /\ \A i \in JobIds : IsJob(i) => jobs[i].attempts = 0)
    => status = StatusWhenDone(jobs[LastJob].kind)

(* A deployment shown (and metered) as running has the service its          *)
(* backendRef names, however requests, queue and retries interleave.        *)
RunningHasService == (Quiet /\ status = "running") => ref \in services

(* provision.ts: tearing down a torn-down deployment is a no-op, so a row   *)
(* shown as torn down names no service, as long as no kill-switch call has  *)
(* written back a status it read earlier.                                   *)
TornDownHasNoService ==
  (status = "torn_down" /\ \A k \in Switches : switch[k].at # "done") => ref = NoRef

(* The row and the provider agree on whether there is a service.            *)
ServiceMatchesStatus == RunningHasService /\ TornDownHasNoService

(* runProvisioningJob gives a job up at the ceiling, so what waits in the   *)
(* queue has an attempt left, whatever overlapping sweeps wrote.            *)
QueuedHasAttempts ==
  \A i \in JobIds : IsJob(i) /\ jobs[i].status = "queued" => jobs[i].attempts < MaxAttempts

(* The durable queue ends every job it accepted: done, or given up.         *)
JobsEnd ==
  \A i \in JobIds : (IsJob(i) /\ jobs[i].status = "queued")
                     ~> (IsJob(i) /\ jobs[i].status \in {"done", "failed"})

(* provision.ts:213-214, "A torn-down deployment is no longer metered": it  *)
(* comes back only when the owner asks for it.                              *)
TornDownStaysDown ==
  [][status = "torn_down" => status' \in {"torn_down", "provisioning"}]_vars
=============================================================================
