--------------------------- MODULE HostingProofs ---------------------------
(***************************************************************************)
(* Proofs about HostingProvisioning, for any number of requests, sweeps    *)
(* and meter ticks: what waits in the queue has an attempt left, and,      *)
(* until a kill-switch call has written, a torn-down row names no service. *)
(* With one sweep and no faults, row and provider agree on whether there   *)
(* is a service, and the request enqueued last is the one that stands.     *)
(***************************************************************************)
EXTENDS HostingProvisioning, FiniteSetTheorems, TLAPS

(* The rows of provisioning_jobs are numbered without gaps.                 *)
NoGaps == \E n \in 0..Cardinality(Requests) : \A i \in JobIds : IsJob(i) <=> i <= n

(* What a sweep listed are rows, and had an attempt left.                   *)
Usable(rows, j) == rows[j.id] # None /\ j.attempts < MaxAttempts

SweepOK ==
  \A s \in Sweeps :
    /\ \A j \in sweep[s].queue : Usable(jobs, j)
    /\ sweep[s].at \notin {"idle", "next"} => sweep[s].job # None
    /\ sweep[s].job # None => Usable(jobs, sweep[s].job)

(* A sweep that tore the service down is about to clear the ref.            *)
TeardownClears ==
  \A s \in Sweeps :
    sweep[s].at = "apply" /\ Row(s).kind = "teardown" => sweep[s].ref = NoRef

(* A request under way is of one of the kinds.                              *)
RequestOK == \A r \in Requests : req[r].at \in {"read", "write", "enqueue"} => req[r].kind \in Kinds

IInv == TypeOK /\ RequestOK /\ NoGaps /\ QueuedHasAttempts /\ SweepOK /\ TeardownClears

-----------------------------------------------------------------------------
(* CreateJob writes a slot of its own: it never overwrites a row.           *)
LEMMA NextIsFree ==
  ASSUME TypeOK, NoGaps
  PROVE  /\ NextId \in Nat
         /\ NextId \in JobIds => ~IsJob(NextId)
         /\ NextId \in JobIds => \A i \in JobIds : IsJob(i) <=> i <= NextId - 1
<1>1. Cardinality(Requests) \in Nat
  BY HostingAssumption, FS_CardinalityType
<1>2. PICK n \in 0..Cardinality(Requests) : \A i \in JobIds : IsJob(i) <=> i <= n
  BY DEF NoGaps
<1>3. {i \in JobIds : jobs[i] # None} = 1..n
  BY <1>1, <1>2 DEF JobIds, IsJob
<1>4. Cardinality(1..n) = n
  BY <1>1, FS_Interval
<1>5. NextId = n + 1
  BY <1>3, <1>4 DEF NextId
<1> QED BY <1>1, <1>2, <1>5 DEF JobIds

(* A sweep that only moves on is still a sweep.                             *)
LEMMA GotoType ==
  ASSUME sweep \in [Sweeps -> Runs], NEW s \in Sweeps, NEW label \in Stages, Goto(s, label)
  PROVE  sweep' \in [Sweeps -> Runs]
BY DEF Goto, Runs

(* So is a job whose status, attempts or backoff are written.               *)
LEMMA RowType ==
  ASSUME NEW row \in Jobs, NEW st \in {"queued", "running", "done", "failed"},
         NEW n \in 0..MaxAttempts, NEW d \in BOOLEAN
  PROVE  /\ [row EXCEPT !.status = st] \in Jobs
         /\ [row EXCEPT !.due = d] \in Jobs
         /\ [row EXCEPT !.status = st, !.attempts = n] \in Jobs
         /\ [row EXCEPT !.status = st, !.attempts = n, !.due = d] \in Jobs
BY DEF Jobs

(* The row a sweep works on.                                                *)
LEMMA CurrentRow ==
  ASSUME TypeOK, SweepOK, NEW s \in Sweeps, sweep[s].at \notin {"idle", "next"}
  PROVE  /\ sweep[s].job \in Listed
         /\ sweep[s].job.id \in JobIds
         /\ sweep[s].job.attempts + 1 \in 0..MaxAttempts
         /\ IsJob(sweep[s].job.id)
         /\ Row(s) \in Jobs
<1>1. sweep[s] \in Runs /\ sweep[s].job # None
  BY DEF TypeOK, SweepOK
<1>2. sweep[s].job \in Listed /\ Usable(jobs, sweep[s].job)
  BY <1>1 DEF Runs, SweepOK
<1> QED BY <1>2 DEF Listed, Usable, IsJob, Row, TypeOK, MaxAttempts

(* The types are kept by every step.                                        *)
LEMMA TypeStep == IInv /\ [Next]_vars => TypeOK'
<1> SUFFICES ASSUME IInv, [Next]_vars PROVE TypeOK'
  OBVIOUS
<1>0. TypeOK /\ SweepOK /\ RequestOK
  BY DEF IInv
<1>1. ASSUME NEW r \in Requests, NEW k \in Kinds, Accept(r, k) PROVE TypeOK'
  <2>1. req' \in [Requests -> Callers] /\ ops' \in [Requests -> Outcomes]
    BY <1>0, <1>1 DEF Accept, TypeOK, Callers, Outcomes, Statuses
  <2> QED BY <1>0, <1>1, <2>1 DEF Accept, TypeOK, deployment, backend
<1>2. ASSUME NEW r \in Requests, ReadDeployment(r) PROVE TypeOK'
  <2>1. req' \in [Requests -> Callers]
    BY <1>0, <1>2 DEF ReadDeployment, TypeOK, Callers
  <2> QED BY <1>0, <1>2, <2>1 DEF ReadDeployment, TypeOK, deployment, backend
<1>3. ASSUME NEW r \in Requests, WriteDeployment(r) PROVE TypeOK'
  <2>1. req' \in [Requests -> Callers]
    BY <1>0, <1>3 DEF WriteDeployment, TypeOK, Callers
  <2>2. req[r].kind \in {"provision", "scale", "teardown"}
    BY <1>0, <1>3, HostingAssumption DEF WriteDeployment, RequestOK
  <2>4. StatusOnRequest(req[r].kind) \in Statuses
    BY <2>2 DEF StatusOnRequest, Statuses
  <2>3. status' \in Statuses /\ killSwitch' \in BOOLEAN /\ ref' = ref
    BY <1>0, <1>3, <2>4 DEF WriteDeployment, TypeOK, deployment
  <2> QED BY <1>0, <1>3, <2>1, <2>3 DEF WriteDeployment, TypeOK, backend
<1>4. ASSUME NEW r \in Requests, CreateJob(r) PROVE TypeOK'
  <2>1. req' \in [Requests -> Callers] /\ req[r].kind \in Kinds
    BY <1>0, <1>4 DEF CreateJob, TypeOK, Callers, RequestOK
  <2>3. [kind |-> req[r].kind, status |-> "queued", attempts |-> 0, due |-> TRUE,
         request |-> r] \in Jobs
    BY <2>1 DEF Jobs, MaxAttempts
  <2>2. jobs' \in [JobIds -> Jobs \cup {None}]
    BY <1>0, <1>4, <2>3 DEF CreateJob, TypeOK
  <2> QED BY <1>0, <1>4, <2>1, <2>2 DEF CreateJob, TypeOK, deployment, backend
<1>5. ASSUME NEW r \in Requests, RequestFails(r) PROVE TypeOK'
  <2>1. req' \in [Requests -> Callers]
    BY <1>0, <1>5 DEF RequestFails, TypeOK, Callers
  <2> QED BY <1>0, <1>5, <2>1 DEF RequestFails, TypeOK, deployment, backend
<1>6. ASSUME NEW r \in Requests, Reconcile(r) PROVE TypeOK'
  <2>1. ops' \in [Requests -> Outcomes]
    BY <1>0, <1>6 DEF Reconcile, TypeOK, Outcomes
  <2> QED BY <1>0, <1>6, <2>1 DEF Reconcile, TypeOK, deployment, backend
<1>7. ASSUME NEW s \in Sweeps, List(s) PROVE TypeOK'
  <2>1. \A i \in Runnable : [id |-> i, attempts |-> jobs[i].attempts] \in Listed
    BY <1>0 DEF Runnable, TypeOK, Jobs, Listed
  <2>2. PICK queue \in SUBSET Listed :
          queue = {[id |-> i, attempts |-> jobs[i].attempts] : i \in Runnable}
    BY <2>1
  <2>3. sweep' = [sweep EXCEPT ![s].at = "next", ![s].queue = queue]
    BY <1>7, <2>2 DEF List
  <2>4. sweep' \in [Sweeps -> Runs]
    BY <1>0, <2>3, ZenonT(60) DEF TypeOK, Runs, Stages
  <2> QED BY <1>0, <1>7, <2>4 DEF List, TypeOK, deployment, backend
<1>8. ASSUME NEW s \in Sweeps, Take(s) PROVE TypeOK'
  <2>1. NoRef \in Refs /\ sweep[s].queue \in SUBSET Listed
    BY <1>0, HostingAssumption DEF TypeOK, Runs, NoRef, Refs
  <2>2. sweep' \in [Sweeps -> Runs]
    BY <1>0, <1>8, <2>1 DEF Take, TypeOK, Runs, Stages
  <2> QED BY <1>0, <1>8, <2>2 DEF Take, TypeOK, deployment, backend
<1>9. ASSUME NEW s \in Sweeps, MarkRunning(s) \/ Finish(s) PROVE TypeOK'
  <2>1. sweep[s].job.id \in JobIds /\ Row(s) \in Jobs
    BY <1>0, <1>9, CurrentRow DEF MarkRunning, Finish
  <2>4. [Row(s) EXCEPT !.status = "running"] \in Jobs /\ [Row(s) EXCEPT !.status = "done"] \in Jobs
    BY <2>1 DEF Jobs
  <2>2. jobs' \in [JobIds -> Jobs \cup {None}]
    BY <1>0, <1>9, <2>1, <2>4 DEF MarkRunning, Finish, TypeOK, Row
  <2>3. sweep' \in [Sweeps -> Runs]
    BY <1>0, <1>9, GotoType DEF MarkRunning, Finish, TypeOK, Stages
  <2> QED BY <1>0, <1>9, <2>2, <2>3 DEF MarkRunning, Finish, TypeOK, deployment, backend
<1>10. ASSUME NEW s \in Sweeps, CallBackend(s) PROVE TypeOK'
  <2>0. sweep[s] \in Runs /\ made \in Refs /\ NoRef \in Refs
    BY <1>0, HostingAssumption DEF TypeOK, NoRef, Refs
  <2>1. CASE Provision(s)
    <3>1. made' \in Refs
      BY <2>0, <2>1, HostingAssumption DEF Provision, Refs
    <3>4. PICK m \in Refs : m = made'
      BY <3>1
    <3>5. sweep' = [sweep EXCEPT ![s].ref = m, ![s].at = "apply"]
      BY <2>1, <3>4 DEF Provision
    <3>2. sweep' \in [Sweeps -> Runs]
      BY <1>0, <3>5, ZenonT(60) DEF TypeOK, Runs, Stages
    <3>3. services' \subseteq 1..made'
      BY <1>0, <2>0, <2>1, HostingAssumption DEF Provision, TypeOK, Refs
    <3> QED BY <1>0, <1>10, <3>1, <3>2, <3>3 DEF CallBackend, TypeOK, deployment
  <2>2. CASE Scale(s)
    <3>1. sweep' \in [Sweeps -> Runs]
      BY <1>0, <2>2, GotoType DEF Scale, TypeOK, Stages
    <3> QED BY <1>0, <1>10, <2>2, <3>1 DEF CallBackend, Scale, TypeOK, deployment, backend
  <2>3. CASE Teardown(s)
    <3>1. sweep' \in [Sweeps -> Runs]
      BY <1>0, <2>0, <2>3 DEF Teardown, TypeOK, Runs, Stages
    <3> QED BY <1>0, <1>10, <2>3, <3>1 DEF CallBackend, Teardown, TypeOK, deployment
  <2> QED BY <1>10, <2>1, <2>2, <2>3 DEF CallBackend
<1>11. ASSUME NEW s \in Sweeps, BackendRefuses(s) \/ CallThrows(s) \/ SweepDies(s) PROVE TypeOK'
  <2>1. NoRef \in Refs
    BY HostingAssumption DEF NoRef, Refs
  <2>2. sweep' \in [Sweeps -> Runs]
    BY <1>0, <1>11, <2>1, GotoType DEF BackendRefuses, CallThrows, SweepDies, TypeOK, Runs, Stages
  <2> QED BY <1>0, <1>11, <2>2 DEF BackendRefuses, CallThrows, SweepDies, TypeOK, deployment, backend
<1>12. ASSUME NEW s \in Sweeps, Apply(s) PROVE TypeOK'
  <2>1. sweep' \in [Sweeps -> Runs] /\ sweep[s] \in Runs
    BY <1>0, <1>12, GotoType DEF Apply, TypeOK, Stages
  <2>2. status' \in Statuses /\ ref' \in Refs
    BY <1>0, <1>12, <2>1 DEF Apply, StatusWhenDone, RefWhenDone, TypeOK, Statuses, Runs
  <2> QED BY <1>0, <1>12, <2>1, <2>2 DEF Apply, TypeOK, backend
<1>13. ASSUME NEW s \in Sweeps, SettleSucceeded(s) \/ SettleFailed(s) PROVE TypeOK'
  <2>1. sweep' \in [Sweeps -> Runs]
    BY <1>0, <1>13, GotoType DEF SettleSucceeded, SettleFailed, TypeOK, Stages
  <2>2. ops' \in [Requests -> Outcomes]
    BY <1>0, <1>13 DEF SettleSucceeded, SettleFailed, Settled, TypeOK, Outcomes
  <2> QED BY <1>0, <1>13, <2>1, <2>2 DEF SettleSucceeded, SettleFailed, TypeOK, deployment, backend
<1>14. ASSUME NEW s \in Sweeps, Retry(s) PROVE TypeOK'
  <2>1. sweep[s].job.id \in JobIds /\ Row(s) \in Jobs
    BY <1>0, <1>14, CurrentRow DEF Retry
  <2>4. PICK n \in 0..MaxAttempts : n = sweep[s].job.attempts + 1
    BY <1>0, <1>14, CurrentRow DEF Retry
  <2>5. Requeued(Row(s), n) \in Jobs /\ [Row(s) EXCEPT !.status = "failed", !.attempts = n] \in Jobs
    BY <2>1, RowType DEF Requeued
  <2>2. jobs' \in [JobIds -> Jobs \cup {None}]
    <3>1. \/ jobs' = [jobs EXCEPT ![sweep[s].job.id] = Requeued(Row(s), n)]
          \/ jobs' = [jobs EXCEPT ![sweep[s].job.id] =
                         [Row(s) EXCEPT !.status = "failed", !.attempts = n]]
      BY <1>0, <1>14, <2>1, <2>4 DEF Retry, TypeOK, Row
    <3> QED BY <1>0, <2>1, <2>5, <3>1 DEF TypeOK
  <2>3. sweep' \in [Sweeps -> Runs]
    BY <1>0, <1>14, GotoType DEF Retry, TypeOK, Stages
  <2> QED BY <1>0, <1>14, <2>2, <2>3 DEF Retry, TypeOK, deployment, backend
<1>15. ASSUME NEW s \in Sweeps, GiveUp(s) PROVE TypeOK'
  <2>1. sweep' \in [Sweeps -> Runs] /\ status' \in Statuses
    BY <1>0, <1>15, GotoType DEF GiveUp, TypeOK, Stages, Statuses
  <2> QED BY <1>0, <1>15, <2>1 DEF GiveUp, TypeOK, backend
<1>16. ASSUME NEW i \in JobIds, Due(i) PROVE TypeOK'
  <2>1. jobs' \in [JobIds -> Jobs \cup {None}]
    <3>1. jobs[i] \in Jobs
      BY <1>0, <1>16 DEF Due, TypeOK
    <3>2. [jobs[i] EXCEPT !.due = TRUE] \in Jobs
      BY <3>1 DEF Jobs
    <3> QED BY <1>0, <1>16, <3>2 DEF Due, TypeOK
  <2> QED BY <1>0, <1>16, <2>1 DEF Due, TypeOK, deployment, backend
<1>17. ASSUME NEW m \in Meters, ListRunning(m) \/ Tick(m) PROVE TypeOK'
  <2>1. meter' \in [Meters -> Ticks] /\ status' \in Statuses
    BY <1>0, <1>17 DEF ListRunning, Tick, TypeOK, Ticks, Statuses, deployment
  <2> QED BY <1>0, <1>17, <2>1 DEF ListRunning, Tick, TypeOK, deployment, backend
<1>18. ASSUME NEW k \in Switches, NEW on \in BOOLEAN, ReadSwitch(k, on) PROVE TypeOK'
  <2>1. switch' \in [Switches -> Flips]
    BY <1>0, <1>18 DEF ReadSwitch, TypeOK, Flips
  <2> QED BY <1>0, <1>18, <2>1 DEF ReadSwitch, TypeOK, deployment, backend
<1>19. ASSUME NEW k \in Switches, WriteSwitch(k) PROVE TypeOK'
  <2>1. switch' \in [Switches -> Flips] /\ switch[k] \in Flips
    BY <1>0, <1>19 DEF WriteSwitch, TypeOK, Flips
  <2>2. status' \in Statuses /\ killSwitch' \in BOOLEAN
    BY <1>19, <2>1 DEF WriteSwitch, Flips, Statuses
  <2> QED BY <1>0, <1>19, <2>1, <2>2 DEF WriteSwitch, TypeOK, backend
<1>20. ASSUME UNCHANGED vars PROVE TypeOK'
  BY <1>0, <1>20 DEF vars, deployment, backend, TypeOK
<1> QED
  BY <1>1, <1>2, <1>3, <1>4, <1>5, <1>6, <1>7, <1>8, <1>9, <1>10, <1>11, <1>12, <1>13,
     <1>14, <1>15, <1>16, <1>17, <1>18, <1>19, <1>20 DEF Next, RequestStep, SweepStep

(* A request keeps its kind.                                                *)
LEMMA RequestStepOK == IInv /\ [Next]_vars => RequestOK'
<1> SUFFICES ASSUME IInv, [Next]_vars PROVE RequestOK'
  OBVIOUS
<1>0. TypeOK /\ RequestOK
  BY DEF IInv
<1>1. CASE UNCHANGED req
  BY <1>0, <1>1 DEF RequestOK
<1>2. ASSUME NEW r \in Requests, NEW k \in Kinds, Accept(r, k) PROVE RequestOK'
  BY <1>0, <1>2 DEF Accept, RequestOK, TypeOK, Callers
<1>3. ASSUME NEW r \in Requests,
             ReadDeployment(r) \/ WriteDeployment(r) \/ CreateJob(r) \/ RequestFails(r)
      PROVE RequestOK'
  <2>1. req[r].at \in {"read", "write", "enqueue"} /\ req[r].kind \in Kinds
    BY <1>0, <1>3 DEF ReadDeployment, WriteDeployment, CreateJob, RequestFails, RequestOK
  <2>2. req'[r].kind = req[r].kind /\ \A q \in Requests \ {r} : req'[q] = req[q]
    BY <1>0, <1>3 DEF ReadDeployment, WriteDeployment, CreateJob, RequestFails, TypeOK, Callers
  <2> QED BY <1>0, <2>1, <2>2 DEF RequestOK
<1>4. \/ UNCHANGED req
      \/ \E r \in Requests, k \in Kinds : Accept(r, k)
      \/ \E r \in Requests :
           ReadDeployment(r) \/ WriteDeployment(r) \/ CreateJob(r) \/ RequestFails(r)
  BY DEF Next, RequestStep, SweepStep, vars, Reconcile, List, Take, MarkRunning, CallBackend,
     BackendRefuses, Apply, Finish, SettleSucceeded, Retry, GiveUp, SettleFailed, CallThrows,
     SweepDies, Due, ListRunning, Tick, ReadSwitch, WriteSwitch
<1> QED BY <1>1, <1>2, <1>3, <1>4

(* The writers of provisioning_jobs.                                        *)
LEMMA JobWriters ==
  ASSUME [Next]_vars
  PROVE  \/ UNCHANGED jobs
         \/ \E r \in Requests : CreateJob(r)
         \/ \E s \in Sweeps : MarkRunning(s) \/ Finish(s) \/ Retry(s)
         \/ \E i \in JobIds : Due(i)
BY DEF Next, RequestStep, SweepStep, vars, Accept, ReadDeployment, WriteDeployment,
   RequestFails, Reconcile, List, Take, CallBackend, BackendRefuses, Apply, SettleSucceeded,
   GiveUp, SettleFailed, CallThrows, SweepDies, ListRunning, Tick, ReadSwitch, WriteSwitch

(* A row is never deleted nor changes its kind; what is queued can be tried. *)
LEMMA JobsKept ==
  ASSUME IInv, [Next]_vars
  PROVE  /\ \A i \in JobIds : IsJob(i) => IsJob(i)' /\ jobs'[i].kind = jobs[i].kind
         /\ NoGaps'
         /\ QueuedHasAttempts'
<1>0. TypeOK /\ RequestOK /\ NoGaps /\ QueuedHasAttempts /\ SweepOK
  BY DEF IInv
<1>1. CASE UNCHANGED jobs
  BY <1>0, <1>1 DEF NoGaps, QueuedHasAttempts, IsJob
<1>2. ASSUME NEW r \in Requests, CreateJob(r)
      PROVE  /\ \A i \in JobIds : IsJob(i) => IsJob(i)' /\ jobs'[i].kind = jobs[i].kind
             /\ NoGaps'
             /\ QueuedHasAttempts'
  <2>1. NextId \in JobIds => ~IsJob(NextId) /\ \A i \in JobIds : IsJob(i) <=> i <= NextId - 1
    BY <1>0, NextIsFree
  <2>10. req[r].kind \in Kinds
    BY <1>0, <1>2 DEF CreateJob, RequestOK
  <2>2. PICK row \in Jobs : row = [kind |-> req[r].kind, status |-> "queued", attempts |-> 0,
                                   due |-> TRUE, request |-> r]
    <3>1. [kind |-> req[r].kind, status |-> "queued", attempts |-> 0, due |-> TRUE,
           request |-> r] \in Jobs
      BY <2>10 DEF Jobs, MaxAttempts
    <3> QED BY <3>1
  <2>3. row # None /\ row.attempts = 0
    BY <2>2, NoneIsNoRow
  <2>4. jobs' = [jobs EXCEPT ![NextId] = row]
    BY <1>2, <2>2 DEF CreateJob
  <2>5. \A i \in JobIds : jobs'[i] = IF i = NextId THEN row ELSE jobs[i]
    BY <1>0, <2>4 DEF TypeOK
  <2>6. \A i \in JobIds : IsJob(i)' <=> (IsJob(i) \/ i = NextId)
    BY <2>3, <2>5 DEF IsJob
  <2>7. NoGaps'
    <3>1. CASE NextId \in JobIds
      <4>1. NextId \in 0..Cardinality(Requests)
        BY <3>1, HostingAssumption, FS_CardinalityType DEF JobIds
      <4>2. \A i \in JobIds : IsJob(i)' <=> i <= NextId
        BY <2>1, <2>6, <3>1 DEF JobIds
      <4> QED BY <4>1, <4>2 DEF NoGaps
    <3>2. CASE NextId \notin JobIds
      BY <1>0, <2>6, <3>2 DEF NoGaps
    <3> QED BY <3>1, <3>2
  <2>8. \A i \in JobIds : IsJob(i) => IsJob(i)' /\ jobs'[i].kind = jobs[i].kind
    BY <2>1, <2>5, <2>6
  <2>9. QueuedHasAttempts'
    BY <1>0, <2>3, <2>5, <2>6 DEF QueuedHasAttempts, IsJob, MaxAttempts
  <2> QED BY <2>7, <2>8, <2>9
<1>3. ASSUME NEW s \in Sweeps, MarkRunning(s) \/ Finish(s) \/ Retry(s)
      PROVE  /\ \A i \in JobIds : IsJob(i) => IsJob(i)' /\ jobs'[i].kind = jobs[i].kind
             /\ NoGaps'
             /\ QueuedHasAttempts'
  <2>1. sweep[s].job.id \in JobIds /\ Row(s) \in Jobs /\ IsJob(sweep[s].job.id)
    BY <1>0, <1>3, CurrentRow DEF MarkRunning, Finish, Retry
  <2>2. PICK n \in 0..MaxAttempts : n = sweep[s].job.attempts + 1
    BY <1>0, <1>3, CurrentRow DEF MarkRunning, Finish, Retry
  <2>3. PICK row \in Jobs : /\ jobs' = [jobs EXCEPT ![sweep[s].job.id] = row]
                            /\ row.kind = Row(s).kind
                            /\ row.status = "queued" => row.attempts < MaxAttempts
    <3>1. CASE MarkRunning(s)
      <4> DEFINE row == [Row(s) EXCEPT !.status = "running"]
      <4>1. row \in Jobs /\ row.status = "running" /\ row.kind = Row(s).kind
        BY <2>1 DEF Jobs
      <4>2. jobs' = [jobs EXCEPT ![sweep[s].job.id] = row]
        BY <1>0, <2>1, <3>1 DEF MarkRunning, TypeOK, Row
      <4> QED BY <4>1, <4>2
    <3>2. CASE Finish(s)
      <4> DEFINE row == [Row(s) EXCEPT !.status = "done"]
      <4>1. row \in Jobs /\ row.status = "done" /\ row.kind = Row(s).kind
        BY <2>1 DEF Jobs
      <4>2. jobs' = [jobs EXCEPT ![sweep[s].job.id] = row]
        BY <1>0, <2>1, <3>2 DEF Finish, TypeOK, Row
      <4> QED BY <4>1, <4>2
    <3>3. CASE Retry(s) /\ Exhausted(n)
      <4> DEFINE row == [Row(s) EXCEPT !.status = "failed", !.attempts = n]
      <4>1. row \in Jobs /\ row.status = "failed" /\ row.kind = Row(s).kind
        BY <2>1 DEF Jobs
      <4>2. jobs' = [jobs EXCEPT ![sweep[s].job.id] = row]
        BY <1>0, <2>1, <2>2, <3>3 DEF Retry, TypeOK, Row
      <4> QED BY <4>1, <4>2
    <3>4. CASE Retry(s) /\ ~Exhausted(n)
      <4> DEFINE row == Requeued(Row(s), n)
      <4>3. row \in Jobs /\ row.attempts = n /\ row.kind = Row(s).kind
        BY <2>1, <2>2 DEF Jobs, Requeued
      <4>4. n < MaxAttempts
        BY <3>4 DEF Exhausted, MaxAttempts
      <4>1. row \in Jobs /\ row.kind = Row(s).kind /\ row.attempts < MaxAttempts
        BY <4>3, <4>4
      <4>2. jobs' = [jobs EXCEPT ![sweep[s].job.id] = row]
        BY <1>0, <2>1, <2>2, <3>4 DEF Retry, TypeOK, Row
      <4> QED BY <4>1, <4>2
    <3> QED BY <1>3, <3>1, <3>2, <3>3, <3>4
  <2>10. PICK k \in JobIds : k = sweep[s].job.id
    BY <2>1
  <2>4. \A i \in JobIds : jobs'[i] = IF i = k THEN row ELSE jobs[i]
    <3>1. jobs' = [jobs EXCEPT ![k] = row]
      BY <2>3, <2>10
    <3> QED BY <1>0, <3>1 DEF TypeOK
  <2>11. Row(s) = jobs[k]
    BY <2>10 DEF Row
  <2>5. row # None
    BY <2>3, NoneIsNoRow
  <2>6. \A i \in JobIds : IsJob(i)' <=> IsJob(i)
    BY <2>1, <2>4, <2>5, <2>10 DEF IsJob
  <2>7. NoGaps'
    BY <1>0, <2>6 DEF NoGaps
  <2>8. \A i \in JobIds : jobs'[i].kind = jobs[i].kind
    BY <2>3, <2>4, <2>11
  <2>9. QueuedHasAttempts'
    BY <1>0, <2>3, <2>4, <2>5 DEF QueuedHasAttempts, IsJob
  <2> QED BY <2>6, <2>7, <2>8, <2>9
<1>4. ASSUME NEW k \in JobIds, Due(k)
      PROVE  /\ \A i \in JobIds : IsJob(i) => IsJob(i)' /\ jobs'[i].kind = jobs[i].kind
             /\ NoGaps'
             /\ QueuedHasAttempts'
  <2>1. jobs[k] \in Jobs
    BY <1>0, <1>4 DEF Due, TypeOK
  <2>2. PICK row \in Jobs : /\ jobs' = [jobs EXCEPT ![k] = row]
                            /\ row.kind = jobs[k].kind /\ row.status = jobs[k].status
                            /\ row.attempts = jobs[k].attempts
    <3> DEFINE row == [jobs[k] EXCEPT !.due = TRUE]
    <3>1. /\ row \in Jobs /\ row.kind = jobs[k].kind /\ row.status = jobs[k].status
          /\ row.attempts = jobs[k].attempts
      BY <2>1 DEF Jobs
    <3>2. jobs' = [jobs EXCEPT ![k] = row]
      BY <1>0, <1>4 DEF Due, TypeOK
    <3> QED BY <3>1, <3>2
  <2>3. \A i \in JobIds : jobs'[i] = IF i = k THEN row ELSE jobs[i]
    BY <1>0, <2>2 DEF TypeOK
  <2>4. row # None /\ IsJob(k)
    BY <1>4, <2>2, NoneIsNoRow DEF Due, IsJob
  <2>5. \A i \in JobIds : IsJob(i)' <=> IsJob(i)
    BY <2>3, <2>4 DEF IsJob
  <2>6. NoGaps' /\ QueuedHasAttempts'
    BY <1>0, <2>2, <2>3, <2>4, <2>5 DEF NoGaps, QueuedHasAttempts
  <2> QED BY <2>2, <2>3, <2>5, <2>6
<1> QED BY <1>1, <1>2, <1>3, <1>4, JobWriters

(* What a sweep holds stays usable: only List and Take fill it, from rows.  *)
LEMMA SweepStepOK == IInv /\ [Next]_vars => SweepOK'
<1> SUFFICES ASSUME IInv, [Next]_vars PROVE SweepOK'
  OBVIOUS
<1>0. TypeOK /\ SweepOK /\ QueuedHasAttempts
  BY DEF IInv
<1>1. \A j \in Listed : Usable(jobs, j) => Usable(jobs', j)
  BY JobsKept DEF Usable, Listed, IsJob
<1>2. ASSUME NEW s \in Sweeps, sweep'[s] = sweep[s]
      PROVE  /\ \A j \in sweep'[s].queue : Usable(jobs', j)
             /\ sweep'[s].at \notin {"idle", "next"} => sweep'[s].job # None
             /\ sweep'[s].job # None => Usable(jobs', sweep'[s].job)
  BY <1>0, <1>1, <1>2 DEF SweepOK, TypeOK, Runs
<1>3. ASSUME NEW s \in Sweeps, List(s) PROVE SweepOK'
  <2>1. \A t \in Sweeps : t # s => sweep'[t] = sweep[t]
    BY <1>0, <1>3 DEF List, TypeOK
  <2>2. /\ sweep'[s].queue = {[id |-> i, attempts |-> jobs[i].attempts] : i \in Runnable}
        /\ sweep'[s].at = "next"
        /\ sweep'[s].job = sweep[s].job
    BY <1>0, <1>3 DEF List, TypeOK, Runs
  <2>3. \A i \in Runnable : IsJob(i) /\ jobs[i].attempts < MaxAttempts
    BY <1>0 DEF Runnable, QueuedHasAttempts, IsJob
  <2>4. UNCHANGED jobs
    BY <1>3 DEF List
  <2>5. \A j \in sweep'[s].queue : Usable(jobs', j)
    BY <2>2, <2>3, <2>4 DEF Usable, IsJob
  <2>6. sweep'[s].job # None => Usable(jobs', sweep'[s].job)
    BY <1>0, <2>2, <2>4 DEF SweepOK, Usable, IsJob
  <2> QED BY <1>2, <2>1, <2>2, <2>5, <2>6 DEF SweepOK
<1>4. ASSUME NEW s \in Sweeps, Take(s) PROVE SweepOK'
  <2>1. \A t \in Sweeps : t # s => sweep'[t] = sweep[t]
    BY <1>0, <1>4 DEF Take, TypeOK
  <2>2. \A j \in sweep[s].queue : Usable(jobs', j) /\ j # None
    BY <1>0, <1>1, NoneIsNoRow DEF SweepOK, TypeOK, Runs
  <2>3. \/ sweep'[s] = [at |-> "idle", queue |-> {}, job |-> None, ref |-> NoRef]
        \/ \E j \in sweep[s].queue :
             sweep'[s] = [at |-> "mark", queue |-> sweep[s].queue \ {j}, job |-> j, ref |-> ref]
    BY <1>0, <1>4 DEF Take, TypeOK
  <2>4. /\ \A j \in sweep'[s].queue : Usable(jobs', j)
        /\ sweep'[s].at \notin {"idle", "next"} => sweep'[s].job # None
        /\ sweep'[s].job # None => Usable(jobs', sweep'[s].job)
    <3>1. CASE sweep'[s] = [at |-> "idle", queue |-> {}, job |-> None, ref |-> NoRef]
      BY <3>1
    <3>2. ASSUME NEW j \in sweep[s].queue,
                 sweep'[s] = [at |-> "mark", queue |-> sweep[s].queue \ {j}, job |-> j, ref |-> ref]
          PROVE  /\ \A q \in sweep'[s].queue : Usable(jobs', q)
                 /\ sweep'[s].job # None /\ Usable(jobs', sweep'[s].job)
      <4>1. sweep'[s].queue \subseteq sweep[s].queue /\ sweep'[s].job = j
        BY <3>2
      <4> QED BY <2>2, <4>1
    <3> QED BY <2>3, <3>1, <3>2
  <2> QED BY <1>2, <2>1, <2>4 DEF SweepOK
<1>5. ASSUME NEW s \in Sweeps, SweepDies(s) PROVE SweepOK'
  <2>1. \A t \in Sweeps : t # s => sweep'[t] = sweep[t]
    BY <1>0, <1>5 DEF SweepDies, TypeOK
  <2>2. sweep'[s] = [at |-> "idle", queue |-> {}, job |-> None, ref |-> NoRef]
    BY <1>0, <1>5 DEF SweepDies, TypeOK
  <2> QED BY <1>2, <2>1, <2>2 DEF SweepOK
<1>6. ASSUME NEW s \in Sweeps,
             \/ MarkRunning(s) \/ CallBackend(s) \/ BackendRefuses(s) \/ Apply(s) \/ Finish(s)
             \/ SettleSucceeded(s) \/ Retry(s) \/ GiveUp(s) \/ SettleFailed(s) \/ CallThrows(s)
      PROVE  SweepOK'
  <2>1. \A t \in Sweeps : t # s => sweep'[t] = sweep[t]
    BY <1>0, <1>6 DEF MarkRunning, CallBackend, Provision, Scale, Teardown, BackendRefuses, Apply,
       Finish, SettleSucceeded, Retry, GiveUp, SettleFailed, CallThrows, Goto, TypeOK
  <2>2. sweep'[s].queue = sweep[s].queue /\ sweep'[s].job = sweep[s].job
    BY <1>0, <1>6 DEF MarkRunning, CallBackend, Provision, Scale, Teardown, BackendRefuses, Apply,
       Finish, SettleSucceeded, Retry, GiveUp, SettleFailed, CallThrows, Goto, TypeOK, Runs
  <2>3. sweep[s].at \notin {"idle", "next"}
    BY <1>6 DEF MarkRunning, CallBackend, BackendRefuses, Apply, Finish, SettleSucceeded, Retry,
       GiveUp, SettleFailed, CallThrows
  <2>4. sweep[s].job # None /\ sweep[s].job \in Listed /\ sweep[s].queue \subseteq Listed
    BY <1>0, <2>3 DEF SweepOK, TypeOK, Runs
  <2>5. /\ \A j \in sweep'[s].queue : Usable(jobs', j)
        /\ sweep'[s].job # None
        /\ Usable(jobs', sweep'[s].job)
    BY <1>0, <1>1, <2>2, <2>4 DEF SweepOK
  <2> QED BY <1>2, <2>1, <2>5 DEF SweepOK
<1>7. CASE UNCHANGED sweep
  BY <1>2, <1>7 DEF SweepOK
<1>8. \/ UNCHANGED sweep
      \/ \E s \in Sweeps :
           \/ List(s) \/ Take(s) \/ SweepDies(s) \/ MarkRunning(s) \/ CallBackend(s)
           \/ BackendRefuses(s) \/ Apply(s) \/ Finish(s) \/ SettleSucceeded(s) \/ Retry(s)
           \/ GiveUp(s) \/ SettleFailed(s) \/ CallThrows(s)
  BY DEF Next, RequestStep, SweepStep, vars, Accept, ReadDeployment, WriteDeployment,
     CreateJob, RequestFails, Reconcile, Due, ListRunning, Tick, ReadSwitch, WriteSwitch
<1> QED BY <1>3, <1>4, <1>5, <1>6, <1>7, <1>8

(* A teardown that reached its write has cleared the ref it will write.     *)
LEMMA TeardownStepOK == IInv /\ [Next]_vars => TeardownClears'
<1> SUFFICES ASSUME IInv, [Next]_vars,
                    NEW s \in Sweeps, sweep'[s].at = "apply", Row(s)'.kind = "teardown"
             PROVE  sweep'[s].ref = NoRef
  BY DEF TeardownClears
<1>0. TypeOK /\ SweepOK /\ TeardownClears
  BY DEF IInv
<1>1. CASE sweep'[s] = sweep[s]
  <2>1. sweep[s].job.id \in JobIds /\ IsJob(sweep[s].job.id)
    BY <1>0, <1>1, CurrentRow
  <2>2. Row(s).kind = "teardown"
    BY <1>1, <2>1, JobsKept DEF Row
  <2> QED BY <1>0, <1>1, <2>2 DEF TeardownClears
<1>2. ASSUME CallBackend(s) PROVE sweep'[s].ref = NoRef
  <2>1. sweep[s] \in Runs /\ UNCHANGED jobs
    BY <1>0, <1>2 DEF CallBackend, TypeOK
  <2>2. CASE Teardown(s)
    BY <1>0, <2>2 DEF Teardown, TypeOK, Runs
  <2>3. CASE Provision(s) \/ Scale(s)
    <3>1. sweep'[s].job = sweep[s].job
      BY <1>0, <2>1, <2>3 DEF Provision, Scale, Goto, TypeOK, Runs
    <3>2. Row(s)'.kind = Row(s).kind
      BY <2>1, <3>1 DEF Row
    <3> QED BY <2>3, <3>2 DEF Provision, Scale
  <2> QED BY <1>2, <2>2, <2>3 DEF CallBackend
<1>3. ASSUME NEW t \in Sweeps,
             \/ List(t) \/ Take(t) \/ SweepDies(t) \/ MarkRunning(t)
             \/ BackendRefuses(t) \/ Apply(t) \/ Finish(t) \/ SettleSucceeded(t) \/ Retry(t)
             \/ GiveUp(t) \/ SettleFailed(t) \/ CallThrows(t)
      PROVE  sweep'[s] = sweep[s]
  <2>1. sweep'[t].at # "apply"
    BY <1>0, <1>3 DEF List, Take, SweepDies, MarkRunning, BackendRefuses, Apply, Finish,
       SettleSucceeded, Retry, GiveUp, SettleFailed, CallThrows, Goto, TypeOK, Runs
  <2>2. \A u \in Sweeps : u # t => sweep'[u] = sweep[u]
    BY <1>0, <1>3 DEF List, Take, SweepDies, MarkRunning, BackendRefuses, Apply, Finish,
       SettleSucceeded, Retry, GiveUp, SettleFailed, CallThrows, Goto, TypeOK
  <2> QED BY <2>1, <2>2
<1>4. ASSUME NEW t \in Sweeps, t # s, CallBackend(t) PROVE sweep'[s] = sweep[s]
  BY <1>0, <1>4 DEF CallBackend, Provision, Scale, Teardown, Goto, TypeOK
<1>5. \/ UNCHANGED sweep
      \/ \E t \in Sweeps :
           \/ List(t) \/ Take(t) \/ SweepDies(t) \/ MarkRunning(t) \/ CallBackend(t)
           \/ BackendRefuses(t) \/ Apply(t) \/ Finish(t) \/ SettleSucceeded(t) \/ Retry(t)
           \/ GiveUp(t) \/ SettleFailed(t) \/ CallThrows(t)
  BY DEF Next, RequestStep, SweepStep, vars, Accept, ReadDeployment, WriteDeployment,
     CreateJob, RequestFails, Reconcile, Due, ListRunning, Tick, ReadSwitch, WriteSwitch
<1> QED BY <1>1, <1>2, <1>3, <1>4, <1>5

-----------------------------------------------------------------------------
LEMMA InitIInv == Init => IInv
<1> SUFFICES ASSUME Init PROVE IInv
  OBVIOUS
<1>1. Cardinality(Requests) \in Nat /\ NoRef \in Refs
  BY HostingAssumption, FS_CardinalityType DEF NoRef, Refs
<1>2. TypeOK
  BY <1>1, HostingAssumption DEF Init, TypeOK, Statuses, Outcomes, Callers, Runs, Stages, Ticks,
     Flips, NoRef, Refs
<1>3. NoGaps
  BY <1>1 DEF Init, NoGaps, JobIds, IsJob
<1>4. RequestOK /\ QueuedHasAttempts /\ SweepOK /\ TeardownClears
  BY DEF Init, RequestOK, QueuedHasAttempts, SweepOK, TeardownClears, IsJob
<1> QED BY <1>2, <1>3, <1>4 DEF IInv

(* The inductive invariant of managed hosting.                              *)
THEOREM SpecIInv == Spec => []IInv
<1>1. IInv /\ [Next]_vars => IInv'
  <2> SUFFICES ASSUME IInv, [Next]_vars PROVE IInv'
    OBVIOUS
  <2> QED BY TypeStep, RequestStepOK, JobsKept, SweepStepOK, TeardownStepOK DEF IInv
<1> QED BY InitIInv, <1>1, PTL DEF Spec

(* Every reachable state is well typed: in particular no job is ever        *)
(* written with more attempts than runProvisioningJob's ceiling.            *)
THEOREM SpecTypeOK == Spec => []TypeOK
<1>1. IInv => TypeOK
  BY DEF IInv
<1> QED BY SpecIInv, <1>1, PTL

(* However many sweeps overlap, and whichever calls fail, what waits in the *)
(* queue has an attempt left.                                               *)
THEOREM RetriesBounded == Spec => []QueuedHasAttempts
<1>1. IInv => QueuedHasAttempts
  BY DEF IInv
<1> QED BY SpecIInv, <1>1, PTL

(* As long as no kill-switch call has written, a row shown as torn down     *)
(* names no service: the no-op of a second teardown leaves nothing behind.  *)
THEOREM TornDownIsEmpty == Spec => []TornDownHasNoService
<1>1. Init => TornDownHasNoService
  BY DEF Init, TornDownHasNoService
<1>2. IInv /\ TornDownHasNoService /\ [Next]_vars => TornDownHasNoService'
  <2> SUFFICES ASSUME IInv, TornDownHasNoService, [Next]_vars, status' = "torn_down",
                      \A k \in Switches : switch'[k].at # "done"
               PROVE  ref' = NoRef
    BY DEF TornDownHasNoService
  <2>0. TypeOK /\ SweepOK /\ TeardownClears /\ RequestOK
    BY DEF IInv
  <2>7. \A k \in Switches : ~WriteSwitch(k) /\ (switch[k].at = "done" => switch'[k].at = "done")
    BY <2>0, ZenonT(60) DEF Next, RequestStep, SweepStep, vars, Accept, ReadDeployment, WriteDeployment,
       CreateJob, RequestFails, Reconcile, List, Take, MarkRunning, CallBackend, BackendRefuses,
       Apply, Finish, SettleSucceeded, Retry, GiveUp, SettleFailed, CallThrows, SweepDies, Due,
       ListRunning, Tick, ReadSwitch, WriteSwitch, TypeOK, Flips
  <2>1. CASE UNCHANGED <<status, ref>>
    BY <2>1, <2>7 DEF TornDownHasNoService
  <2>2. ASSUME NEW s \in Sweeps, Apply(s) PROVE ref' = NoRef
    <3>1. Row(s).kind = "teardown"
      BY <2>2 DEF Apply, StatusWhenDone
    <3>2. sweep[s].ref = NoRef
      BY <2>0, <2>2, <3>1 DEF Apply, TeardownClears
    <3> QED BY <2>2, <3>1, <3>2 DEF Apply, RefWhenDone
  <2>3. ASSUME NEW r \in Requests, WriteDeployment(r) PROVE UNCHANGED <<status, ref>>
    <3>1. req[r].kind \in {"provision", "scale", "teardown"}
      BY <2>0, <2>3, HostingAssumption DEF WriteDeployment, RequestOK
    <3>2. StatusOnRequest(req[r].kind) # "torn_down"
      BY <3>1 DEF StatusOnRequest
    <3> QED BY <2>3, <3>2 DEF WriteDeployment, deployment
  <2>4. ASSUME NEW m \in Meters, Tick(m) PROVE UNCHANGED <<status, ref>>
    BY <2>4 DEF Tick
  <2>5. ASSUME NEW s \in Sweeps, GiveUp(s) PROVE UNCHANGED <<status, ref>>
    BY <2>5 DEF GiveUp
  <2>6. \/ UNCHANGED <<status, ref>>
        \/ \E s \in Sweeps : Apply(s) \/ GiveUp(s)
        \/ \E r \in Requests : WriteDeployment(r)
        \/ \E m \in Meters : Tick(m)
    BY <2>7 DEF Next, RequestStep, SweepStep, vars, deployment, Accept, ReadDeployment, CreateJob,
       RequestFails, Reconcile, List, Take, MarkRunning, CallBackend, BackendRefuses, Finish,
       SettleSucceeded, Retry, SettleFailed, CallThrows, SweepDies, Due, ListRunning, ReadSwitch
  <2> QED BY <2>1, <2>2, <2>3, <2>4, <2>5, <2>6
<1> QED BY SpecIInv, <1>1, <1>2, PTL DEF Spec

-----------------------------------------------------------------------------
(***************************************************************************)
(* What the code promises when it is left alone: one sweep at a time, no   *)
(* call that throws, no process killed, no kill-switch call.  Overlapping  *)
(* sweeps, and a status written back late, break both promises below; a    *)
(* backend that refuses, retries and meter ticks do not break the first.   *)
(***************************************************************************)
Undisturbed == ~Faults /\ Switches = {} /\ \A s, t \in Sweeps : s = t

(* A sweep works with the ref of the row, and applies what it has.          *)
HandOK(s) ==
  /\ sweep[s].at \in {"mark", "backend"} => sweep[s].ref = ref
  /\ sweep[s].at = "apply" =>
       /\ Row(s).kind = "provision" => sweep[s].ref \in services
       /\ Row(s).kind = "scale" => sweep[s].ref = ref /\ ref # NoRef

(* The service is gone, and its row not written yet.                        *)
Removing == \E s \in Sweeps : sweep[s].at = "apply" /\ Row(s).kind = "teardown"

ServiceInv ==
  /\ \A s \in Sweeps : HandOK(s)
  /\ ~Removing /\ ref # NoRef => ref \in services
  /\ status = "running" => ref # NoRef

(* The job in a sweep's hands keeps its kind.                               *)
LEMMA KindStands ==
  ASSUME IInv, [Next]_vars, NEW s \in Sweeps, sweep[s].at \notin {"idle", "next"},
         sweep'[s].job = sweep[s].job
  PROVE  Row(s)'.kind = Row(s).kind
<1>1. sweep[s].job.id \in JobIds /\ IsJob(sweep[s].job.id)
  BY CurrentRow DEF IInv
<1> QED
  BY <1>1, JobsKept DEF Row

(* Without services, ref or sweep touched, and with no new claim to run.    *)
LEMMA ServiceStands ==
  ASSUME IInv, [Next]_vars, ServiceInv, UNCHANGED <<ref, backend, sweep>>,
         status' = "running" => status = "running"
  PROVE  ServiceInv'
<1>1. \A s \in Sweeps : sweep[s].at = "apply" => Row(s)'.kind = Row(s).kind
  BY KindStands
<1>2. Removing' <=> Removing
  BY <1>1 DEF Removing
<1>3. \A s \in Sweeps : HandOK(s)'
  BY <1>1 DEF ServiceInv, HandOK, backend
<1> QED
  BY <1>2, <1>3 DEF ServiceInv, backend

(* A sweep that goes on, neither from nor to its write of the row.          *)
LEMMA SweepGoesOn ==
  ASSUME Undisturbed, ServiceInv, NEW s \in Sweeps, sweep[s].at # "apply",
         UNCHANGED <<ref, backend>>, status' = "running" => status = "running",
         sweep'[s].at # "apply",
         sweep'[s].at \in {"mark", "backend"} => sweep'[s].ref = ref
  PROVE  ServiceInv'
<1>1. \A t \in Sweeps : t = s
  BY DEF Undisturbed
<1>2. ~Removing /\ ~Removing'
  BY <1>1 DEF Removing
<1>3. HandOK(s)'
  BY DEF HandOK
<1> QED
  BY <1>1, <1>2, <1>3 DEF ServiceInv, backend

(* The call of the backend.                                                 *)
LEMMA BackendStep ==
  ASSUME Undisturbed, IInv, [Next]_vars, ServiceInv, NEW s \in Sweeps, CallBackend(s)
  PROVE  ServiceInv'
<1>0. /\ sweep \in [Sweeps -> Runs] /\ sweep[s] \in Runs /\ services \subseteq 1..made
      /\ made \in Refs /\ sweep[s].at = "backend" /\ \A t \in Sweeps : t = s
      /\ UNCHANGED <<status, ref>>
  BY DEF IInv, TypeOK, CallBackend, Undisturbed, deployment
<1>1. ~Removing /\ HandOK(s)
  BY <1>0 DEF Removing, ServiceInv
<1>k. sweep'[s].job = sweep[s].job
  BY <1>0 DEF CallBackend, Provision, Scale, Teardown, Goto, Runs
<1>r. Row(s)'.kind = Row(s).kind
  BY <1>0, <1>k, KindStands
<1>2. CASE Provision(s)
  <2>1. sweep'[s].at = "apply" /\ sweep'[s].ref = made' /\ made' \in services'
        /\ services \subseteq services'
    BY <1>0, <1>2 DEF Provision, Runs
  <2>2. Row(s)'.kind = "provision"
    BY <1>2, <1>r DEF Provision
  <2> QED
    BY <1>0, <1>1, <2>1, <2>2 DEF ServiceInv, HandOK, Removing
<1>3. CASE Scale(s)
  <2>1. UNCHANGED backend /\ Row(s)'.kind = "scale"
    BY <1>3, <1>r DEF Scale
  <2>2. sweep'[s].ref = ref /\ ((sweep'[s].at = "apply" /\ ref # NoRef) \/ sweep'[s].at = "retry")
    BY <1>0, <1>1, <1>3 DEF Scale, Goto, HandOK, Runs
  <2> QED
    BY <1>0, <1>1, <2>1, <2>2 DEF ServiceInv, HandOK, Removing, backend
<1>4. CASE Teardown(s)
  <2>1. sweep'[s].at = "apply" /\ Row(s)'.kind = "teardown"
    BY <1>0, <1>4, <1>r DEF Teardown, Runs
  <2> QED
    BY <1>0, <1>1, <2>1 DEF ServiceInv, HandOK, Removing
<1> QED
  BY <1>2, <1>3, <1>4 DEF CallBackend

(* The write of the row.                                                    *)
LEMMA ApplyStep ==
  ASSUME Undisturbed, IInv, ServiceInv, NEW s \in Sweeps, Apply(s)
  PROVE  ServiceInv'
<1>0. /\ sweep \in [Sweeps -> Runs] /\ sweep[s].at = "apply" /\ \A t \in Sweeps : t = s
      /\ services \subseteq 1..made /\ made \in Refs /\ HandOK(s)
      /\ UNCHANGED services
  BY DEF IInv, TypeOK, Apply, Undisturbed, ServiceInv, backend
<1>1. sweep'[s].at = "finish"
  BY <1>0 DEF Apply, Goto, Runs
<1>2. Row(s).kind \in {"provision", "scale", "teardown"}
  <2>1. Row(s) \in Jobs
    BY <1>0, CurrentRow DEF IInv
  <2> QED
    BY <2>1, HostingAssumption DEF Jobs
<1>3. CASE Row(s).kind = "teardown"
  <2>1. ref' = NoRef /\ status' = "torn_down"
    BY <1>0, <1>3 DEF Apply, RefWhenDone, StatusWhenDone, IInv, TeardownClears
  <2> QED
    BY <1>0, <1>1, <2>1 DEF ServiceInv, HandOK
<1>4. CASE Row(s).kind \in {"provision", "scale"}
  <2>1. ~Removing
    BY <1>0, <1>4 DEF Removing
  <2>2. ref' \in services /\ ref' # NoRef
    BY <1>0, <1>4, <2>1, HostingAssumption DEF Apply, RefWhenDone, ServiceInv, HandOK, Refs, NoRef
  <2> QED
    BY <1>0, <1>1, <2>2 DEF ServiceInv, HandOK
<1> QED
  BY <1>2, <1>3, <1>4

LEMMA ServiceStep ==
  ASSUME Undisturbed, IInv, ServiceInv, [Next]_vars
  PROVE  ServiceInv'
<1>0. sweep \in [Sweeps -> Runs] /\ RequestOK
  BY DEF IInv, TypeOK
<1>1. ASSUME NEW r \in Requests, WriteDeployment(r) PROVE ServiceInv'
  <2>1. req[r].kind \in {"provision", "scale", "teardown"}
    BY <1>0, <1>1, HostingAssumption DEF WriteDeployment, RequestOK
  <2>2. StatusOnRequest(req[r].kind) # "running"
    BY <2>1 DEF StatusOnRequest
  <2> QED
    BY <1>1, <2>2, ServiceStands DEF WriteDeployment, deployment
<1>2. ASSUME NEW m \in Meters, ListRunning(m) \/ Tick(m) PROVE ServiceInv'
  BY <1>2, ServiceStands DEF ListRunning, Tick, deployment
<1>3. ASSUME NEW r \in Requests,
             \/ \E kind \in Kinds : Accept(r, kind)
             \/ ReadDeployment(r) \/ CreateJob(r) \/ Reconcile(r)
      PROVE  ServiceInv'
  BY <1>3, ServiceStands DEF Accept, ReadDeployment, CreateJob, Reconcile, deployment
<1>4. ASSUME NEW i \in JobIds, Due(i) PROVE ServiceInv'
  BY <1>4, ServiceStands DEF Due, deployment
<1>5. ASSUME NEW s \in Sweeps,
             \/ List(s) \/ Take(s) \/ BackendRefuses(s) \/ Finish(s) \/ SettleSucceeded(s)
             \/ Retry(s) \/ GiveUp(s) \/ SettleFailed(s)
      PROVE  ServiceInv'
  <2>1. /\ sweep[s].at # "apply" /\ UNCHANGED <<ref, backend>>
        /\ status' = "running" => status = "running"
    BY <1>5 DEF List, Take, BackendRefuses, Finish, SettleSucceeded, Retry, GiveUp, SettleFailed,
       deployment
  <2>2. sweep'[s].at # "apply" /\ (sweep'[s].at \in {"mark", "backend"} => sweep'[s].ref = ref)
    BY <1>0, <1>5 DEF List, Take, BackendRefuses, Finish, SettleSucceeded, Retry, GiveUp,
       SettleFailed, Goto, Runs
  <2> QED
    BY <2>1, <2>2, SweepGoesOn
<1>6. ASSUME NEW s \in Sweeps, MarkRunning(s) PROVE ServiceInv'
  <2>1. sweep'[s].at = "backend" /\ sweep'[s].ref = sweep[s].ref /\ sweep[s].ref = ref
    BY <1>0, <1>6 DEF MarkRunning, Goto, Runs, ServiceInv, HandOK
  <2> QED
    BY <1>6, <2>1, SweepGoesOn DEF MarkRunning, deployment
<1>7. CASE UNCHANGED vars
  BY <1>7, ServiceStands DEF vars, deployment
<1> QED
  BY <1>1, <1>2, <1>3, <1>4, <1>5, <1>6, <1>7, BackendStep, ApplyStep
     DEF Next, RequestStep, SweepStep, RequestFails, CallThrows, SweepDies, Undisturbed

(* Undisturbed, a deployment that is shown, and metered, as running has the *)
(* service its backendRef names, and one shown as torn down names none,     *)
(* whatever requests, refusals, retries and meter ticks interleave.         *)
THEOREM StatusIsTrue == ASSUME Undisturbed PROVE Spec => []ServiceMatchesStatus
<1>1. Init => ServiceInv
  BY DEF Init, ServiceInv, HandOK, Removing
<1>2. IInv /\ ServiceInv /\ [Next]_vars => ServiceInv'
  BY ServiceStep
<1>3. ServiceInv /\ TornDownHasNoService => ServiceMatchesStatus
  BY DEF ServiceInv, Removing, ServiceMatchesStatus, RunningHasService, Quiet
<1> QED
  BY <1>1, <1>2, <1>3, SpecIInv, TornDownIsEmpty, PTL DEF Spec

-----------------------------------------------------------------------------
(***************************************************************************)
(* The last request wins because the queue is worked off in the order it   *)
(* was filled: as long as no job had to be retried, the jobs that are done *)
(* come before those that are not, and at most the one between them is in  *)
(* the sweep's hands.                                                      *)
(***************************************************************************)
InHand(s, i) == sweep[s].at \notin {"idle", "next", "settle"} /\ sweep[s].job.id = i
Over(i) == IsJob(i) /\ jobs[i].status = "done"
Untried == \A i \in JobIds : IsJob(i) => jobs[i].attempts = 0

(* A job that failed, waits for its backoff or is given up was tried.       *)
Tried ==
  /\ \A i \in JobIds : IsJob(i) /\ (jobs[i].status = "failed" \/ ~jobs[i].due)
       => jobs[i].attempts # 0
  /\ \A s \in Sweeps : sweep[s].at \in {"giveUp", "settleFailed"} => Row(s).attempts # 0

(* A request enqueues one job, and is over then.                            *)
Own ==
  \A i \in JobIds : IsJob(i) =>
    /\ req[jobs[i].request].at = "done"
    /\ \A k \in JobIds : IsJob(k) /\ jobs[k].request = jobs[i].request => i = k

HandInOrder(s, i) ==
  InHand(s, i) =>
    /\ jobs[i].status = IF sweep[s].at = "mark" THEN "queued" ELSE "running"
    /\ \A k \in JobIds : k < i => Over(k)

QueueInOrder(s, j) ==
  /\ jobs[j.id].status = "queued" /\ ~InHand(s, j.id)
  /\ \A k \in sweep[s].queue : k.id = j.id => k = j
  /\ \A i \in JobIds : i < j.id =>
       Over(i) \/ InHand(s, i) \/ \E k \in sweep[s].queue : k.id = i

InOrder ==
  /\ \A i, k \in JobIds : IsJob(i) /\ i < k /\ Over(k) => Over(i)
  /\ \A i \in JobIds : IsJob(i) /\ jobs[i].status = "running" => \E s \in Sweeps : InHand(s, i)
  /\ \A s \in Sweeps, i \in JobIds : HandInOrder(s, i)
  /\ \A s \in Sweeps : \A j \in sweep[s].queue : QueueInOrder(s, j)

Last(i) == IsJob(i) /\ \A k \in JobIds : IsJob(k) => k <= i
Applied(i) == Over(i) \/ \E s \in Sweeps : sweep[s].at = "finish" /\ sweep[s].job.id = i

(* Unless a request has written a status and not yet its job, the row shows *)
(* what the last job did to it.                                             *)
Newest ==
  \A i \in JobIds : Last(i) /\ Applied(i) /\ (\A r \in Requests : req[r].at # "enqueue")
    => status = StatusWhenDone(jobs[i].kind)

OrderInv == Tried /\ Own /\ (Untried => InOrder /\ Newest)

(* A slot is free for whoever has yet to enqueue: the requests of the jobs  *)
(* are all over, and no two are the same.                                   *)
LEMMA SlotIsFree ==
  ASSUME TypeOK, NoGaps, Own, NEW r \in Requests, req[r].at = "enqueue"
  PROVE  NextId \in JobIds
<1>1. Cardinality(Requests) \in Nat /\ IsFiniteSet(Requests)
  BY HostingAssumption, FS_CardinalityType
<1>2. PICK n \in 0..Cardinality(Requests) : \A i \in JobIds : IsJob(i) <=> i <= n
  BY DEF NoGaps
<1>3. {i \in JobIds : jobs[i] # None} = 1..n /\ 1..n \subseteq JobIds
  BY <1>1, <1>2 DEF JobIds, IsJob
<1>4. Cardinality(1..n) = n /\ IsFiniteSet(1..n)
  BY <1>1, FS_Interval
<1>5. NextId = n + 1
  BY <1>3, <1>4 DEF NextId
<1> DEFINE of == [i \in 1..n |-> jobs[i].request]
           others == Requests \ {r}
<1>6. \A i \in 1..n : of[i] \in others
  <2>1. SUFFICES ASSUME NEW i \in 1..n PROVE jobs[i].request \in others
    OBVIOUS
  <2>2. jobs[i] \in Jobs /\ IsJob(i) /\ i \in JobIds
    BY <1>2, <1>3 DEF TypeOK, IsJob
  <2> QED
    BY <2>2 DEF Jobs, Own
<1>7. \A i, k \in 1..n : of[i] = of[k] => i = k
  BY <1>2, <1>3 DEF Own
<1>8. of \in Injection(1..n, others)
  <2>1. of \in [1..n -> others]
    BY <1>6
  <2> QED
    BY <1>7, <2>1 DEF Injection, IsInjective
<1>9. IsFiniteSet(others) /\ Cardinality(others) = Cardinality(Requests) - 1
  BY <1>1, FS_RemoveElement
<1>10. n <= Cardinality(others)
  BY <1>4, <1>8, <1>9, FS_Injection
<1> QED
  BY <1>1, <1>5, <1>9, <1>10 DEF JobIds

(* The row a sweep writes, field by field.                                  *)
LEMMA RowWritten ==
  ASSUME IInv, NEW s \in Sweeps, MarkRunning(s) \/ Finish(s) \/ Retry(s)
  PROVE  \E row \in Jobs :
           /\ \A i \in JobIds : jobs'[i] = IF i = sweep[s].job.id THEN row ELSE jobs[i]
           /\ row.request = Row(s).request /\ row.kind = Row(s).kind
           /\ \/ /\ MarkRunning(s)
                 /\ row.status = "running" /\ row.attempts = Row(s).attempts /\ row.due = Row(s).due
              \/ /\ Finish(s)
                 /\ row.status = "done" /\ row.attempts = Row(s).attempts /\ row.due = Row(s).due
              \/ Retry(s) /\ row.attempts # 0
<1>0. TypeOK /\ SweepOK
  BY DEF IInv
<1>1. sweep[s].job.id \in JobIds /\ Row(s) \in Jobs
  BY <1>0, CurrentRow DEF MarkRunning, Finish, Retry
<1>2. PICK n \in 0..MaxAttempts : n = sweep[s].job.attempts + 1 /\ n # 0
  <2>1. sweep[s].job.attempts + 1 \in 0..MaxAttempts /\ sweep[s].job \in Listed
    BY <1>0, CurrentRow DEF MarkRunning, Finish, Retry
  <2> QED
    BY <2>1 DEF Listed, MaxAttempts
<1> DEFINE Put(row) == /\ row \in Jobs
                       /\ jobs' = [jobs EXCEPT ![sweep[s].job.id] = row]
                       /\ row.request = Row(s).request /\ row.kind = Row(s).kind
<1>p. ASSUME NEW row, Put(row)
      PROVE  \A i \in JobIds : jobs'[i] = IF i = sweep[s].job.id THEN row ELSE jobs[i]
  BY <1>0, <1>p DEF TypeOK
<1>3. CASE MarkRunning(s)
  <2> DEFINE row == [Row(s) EXCEPT !.status = "running"]
  <2>1. /\ row \in Jobs /\ row.status = "running" /\ row.request = Row(s).request
        /\ row.kind = Row(s).kind /\ row.attempts = Row(s).attempts /\ row.due = Row(s).due
    BY <1>1 DEF Jobs
  <2>2. jobs' = [jobs EXCEPT ![sweep[s].job.id] = row]
    BY <1>0, <1>1, <1>3 DEF MarkRunning, TypeOK, Row
  <2> QED
    BY <1>3, <1>p, <2>1, <2>2
<1>4. CASE Finish(s)
  <2> DEFINE row == [Row(s) EXCEPT !.status = "done"]
  <2>1. /\ row \in Jobs /\ row.status = "done" /\ row.request = Row(s).request
        /\ row.kind = Row(s).kind /\ row.attempts = Row(s).attempts /\ row.due = Row(s).due
    BY <1>1 DEF Jobs
  <2>2. jobs' = [jobs EXCEPT ![sweep[s].job.id] = row]
    BY <1>0, <1>1, <1>4 DEF Finish, TypeOK, Row
  <2> QED
    BY <1>4, <1>p, <2>1, <2>2
<1>5. CASE Retry(s)
  <2>1. PICK row \in Jobs : /\ jobs' = [jobs EXCEPT ![sweep[s].job.id] = row]
                            /\ row.request = Row(s).request /\ row.kind = Row(s).kind
                            /\ row.attempts = n
    <3> DEFINE failed == [Row(s) EXCEPT !.status = "failed", !.attempts = n]
               again == Requeued(Row(s), n)
    <3>1. /\ failed \in Jobs /\ failed.request = Row(s).request
          /\ failed.kind = Row(s).kind /\ failed.attempts = n
      BY <1>1 DEF Jobs
    <3>2. /\ again \in Jobs /\ again.request = Row(s).request
          /\ again.kind = Row(s).kind /\ again.attempts = n
      BY <1>1 DEF Jobs, Requeued
    <3>3. \/ jobs' = [jobs EXCEPT ![sweep[s].job.id] = failed]
          \/ jobs' = [jobs EXCEPT ![sweep[s].job.id] = again]
      BY <1>0, <1>1, <1>2, <1>5 DEF Retry, TypeOK, Row
    <3> QED
      BY <3>1, <3>2, <3>3
  <2> QED
    BY <1>2, <1>5, <1>p, <2>1
<1> QED
  BY <1>3, <1>4, <1>5

(* The row a request writes comes last.                                     *)
LEMMA Created ==
  ASSUME IInv, Own, NEW r \in Requests, CreateJob(r)
  PROVE  /\ NextId \in JobIds /\ ~IsJob(NextId)
         /\ \A i \in JobIds : IsJob(i)' <=> IsJob(i) \/ i = NextId
         /\ \A i \in JobIds : IsJob(i) => i < NextId
         /\ \A i \in JobIds : i # NextId => jobs'[i] = jobs[i]
         /\ jobs'[NextId].status = "queued" /\ jobs'[NextId].due
         /\ jobs'[NextId].attempts = 0 /\ jobs'[NextId].request = r
<1>0. TypeOK /\ NoGaps /\ RequestOK
  BY DEF IInv
<1>1. /\ NextId \in JobIds /\ ~IsJob(NextId) /\ NextId \in Nat
      /\ \A i \in JobIds : IsJob(i) <=> i <= NextId - 1
  BY <1>0, SlotIsFree, NextIsFree DEF CreateJob
<1>2. PICK row \in Jobs : row = [kind |-> req[r].kind, status |-> "queued", attempts |-> 0,
                                 due |-> TRUE, request |-> r]
  <2>1. req[r].kind \in Kinds
    BY <1>0 DEF CreateJob, RequestOK
  <2>2. [kind |-> req[r].kind, status |-> "queued", attempts |-> 0, due |-> TRUE,
         request |-> r] \in Jobs
    BY <2>1 DEF Jobs, MaxAttempts
  <2> QED
    BY <2>2
<1>3. jobs' = [jobs EXCEPT ![NextId] = row]
  BY <1>2 DEF CreateJob
<1>4. \A i \in JobIds : jobs'[i] = IF i = NextId THEN row ELSE jobs[i]
  BY <1>0, <1>3 DEF TypeOK
<1>5. row # None
  BY <1>2, NoneIsNoRow
<1>6. \A i \in JobIds : i \in Int
  BY <1>1 DEF JobIds
<1>7. \A i \in JobIds : IsJob(i)' <=> IsJob(i) \/ i = NextId
  BY <1>4, <1>5 DEF IsJob
<1>8. jobs'[NextId] = row
  BY <1>1, <1>4
<1>9. row.status = "queued" /\ row.due /\ row.attempts = 0 /\ row.request = r
  BY <1>2
<1>10. \A i \in JobIds : IsJob(i) => i < NextId
  BY <1>1, <1>6
<1>11. \A i \in JobIds : i # NextId => jobs'[i] = jobs[i]
  BY <1>4
<1> QED
  BY <1>1, <1>7, <1>8, <1>9, <1>10, <1>11, Zenon

(* What was tried stays tried, and a job stays its request's.               *)
LEMMA FieldsKept ==
  ASSUME IInv, Own, [Next]_vars, NEW i \in JobIds, IsJob(i)
  PROVE  /\ IsJob(i)' /\ jobs'[i].request = jobs[i].request
         /\ jobs[i].attempts # 0 => jobs'[i].attempts # 0
<1>0. IsJob(i)' /\ TypeOK
  BY JobsKept DEF IInv
<1>1. CASE UNCHANGED jobs
  BY <1>0, <1>1
<1>2. ASSUME NEW r \in Requests, CreateJob(r)
      PROVE  jobs'[i] = jobs[i]
  BY <1>2, Created
<1>3. ASSUME NEW s \in Sweeps, MarkRunning(s) \/ Finish(s) \/ Retry(s)
      PROVE  /\ jobs'[i].request = jobs[i].request
             /\ jobs[i].attempts # 0 => jobs'[i].attempts # 0
  BY <1>3, RowWritten DEF Row
<1>4. ASSUME NEW k \in JobIds, Due(k)
      PROVE  jobs'[i].request = jobs[i].request /\ jobs'[i].attempts = jobs[i].attempts
  <2>1. jobs[k] \in Jobs /\ jobs' = [jobs EXCEPT ![k].due = TRUE]
    BY <1>0, <1>4 DEF Due, TypeOK
  <2> QED
    BY <1>0, <2>1 DEF TypeOK, Jobs
<1> QED
  BY <1>0, <1>1, <1>2, <1>3, <1>4, JobWriters

(* A sweep keeps its record unless the step is its own.                     *)
LEMMA OwnStepOnly ==
  ASSUME IInv, [Next]_vars, NEW s \in Sweeps, sweep'[s] # sweep[s]
  PROVE  \/ List(s) \/ Take(s) \/ SweepDies(s) \/ MarkRunning(s) \/ CallBackend(s)
         \/ BackendRefuses(s) \/ Apply(s) \/ Finish(s) \/ SettleSucceeded(s) \/ Retry(s)
         \/ GiveUp(s) \/ SettleFailed(s) \/ CallThrows(s)
<1>0. sweep \in [Sweeps -> Runs]
  BY DEF IInv, TypeOK
<1>1. sweep' # sweep
  OBVIOUS
<1>2. PICK t \in Sweeps :
        \/ List(t) \/ Take(t) \/ SweepDies(t) \/ MarkRunning(t) \/ CallBackend(t)
        \/ BackendRefuses(t) \/ Apply(t) \/ Finish(t) \/ SettleSucceeded(t) \/ Retry(t)
        \/ GiveUp(t) \/ SettleFailed(t) \/ CallThrows(t)
  BY <1>1 DEF Next, RequestStep, SweepStep, vars, Accept, ReadDeployment, WriteDeployment,
     CreateJob, RequestFails, Reconcile, Due, ListRunning, Tick, ReadSwitch, WriteSwitch
<1>3. \A u \in Sweeps : u # t => sweep'[u] = sweep[u]
  BY <1>0, <1>2 DEF List, Take, SweepDies, MarkRunning, CallBackend, Provision, Scale, Teardown,
     BackendRefuses, Apply, Finish, SettleSucceeded, Retry, GiveUp, SettleFailed, CallThrows, Goto
<1> QED
  BY <1>2, <1>3

LEMMA TriedStep == ASSUME IInv, Own, Tried, [Next]_vars PROVE Tried'
<1>0. TypeOK /\ SweepOK
  BY DEF IInv
<1> DEFINE RowTried(i) == IsJob(i) /\ (jobs[i].status = "failed" \/ ~jobs[i].due)
                            => jobs[i].attempts # 0
<1>1. ASSUME NEW i \in JobIds PROVE RowTried(i)'
  <2>0. RowTried(i)
    BY DEF Tried
  <2>1. CASE UNCHANGED jobs
    BY <2>0, <2>1 DEF IsJob
  <2>2. ASSUME NEW r \in Requests, CreateJob(r) PROVE RowTried(i)'
    <3>1. CASE i = NextId
      BY <2>2, <3>1, Created
    <3>2. CASE i # NextId
      <4>1. jobs'[i] = jobs[i]
        BY <2>2, <3>2, Created
      <4> QED
        BY <2>0, <4>1 DEF IsJob
    <3> QED
      BY <3>1, <3>2
  <2>3. ASSUME NEW s \in Sweeps, MarkRunning(s) \/ Finish(s) \/ Retry(s) PROVE RowTried(i)'
    <3>1. CASE i = sweep[s].job.id
      <4>1. IsJob(i) /\ Row(s) = jobs[i]
        BY <1>0, <2>3, <3>1, CurrentRow DEF MarkRunning, Finish, Retry, Row
      <4>2. PICK row \in Jobs :
              /\ jobs'[i] = row
              /\ \/ row.status = "running" /\ row.attempts = jobs[i].attempts
                                           /\ row.due = jobs[i].due
                 \/ row.status = "done" /\ row.attempts = jobs[i].attempts
                                        /\ row.due = jobs[i].due
                 \/ row.attempts # 0
        BY <2>3, <3>1, <4>1, RowWritten
      <4> QED
        BY <2>0, <4>1, <4>2
    <3>2. CASE i # sweep[s].job.id
      <4>1. jobs'[i] = jobs[i]
        BY <2>3, <3>2, RowWritten
      <4> QED
        BY <2>0, <4>1 DEF IsJob
    <3> QED
      BY <3>1, <3>2
  <2>4. ASSUME NEW k \in JobIds, Due(k) PROVE RowTried(i)'
    <3>1. CASE i = k
      <4>1. jobs[i] \in Jobs /\ jobs' = [jobs EXCEPT ![i].due = TRUE] /\ IsJob(i)
        BY <1>0, <2>4, <3>1 DEF Due, TypeOK, IsJob
      <4>2. jobs'[i].status = jobs[i].status /\ jobs'[i].due = TRUE
            /\ jobs'[i].attempts = jobs[i].attempts
        BY <1>0, <4>1 DEF TypeOK, Jobs
      <4> QED
        BY <2>0, <4>1, <4>2
    <3>2. CASE i # k
      <4>1. jobs'[i] = jobs[i]
        BY <1>0, <2>4, <3>2 DEF Due, TypeOK
      <4> QED
        BY <2>0, <4>1 DEF IsJob
    <3> QED
      BY <3>1, <3>2
  <2> QED
    BY <2>1, <2>2, <2>3, <2>4, JobWriters
<1>2. ASSUME NEW s \in Sweeps, sweep'[s].at \in {"giveUp", "settleFailed"}
      PROVE  Row(s)'.attempts # 0
  <2>1. CASE sweep'[s] = sweep[s]
    <3>1. sweep[s].job.id \in JobIds /\ IsJob(sweep[s].job.id) /\ Row(s).attempts # 0
      BY <1>0, <1>2, <2>1, CurrentRow DEF Tried
    <3> QED
      BY <2>1, <3>1, FieldsKept DEF Row
  <2>2. CASE sweep'[s] # sweep[s]
    <3>1. GiveUp(s) \/ Retry(s)
      <4>1. \/ List(s) \/ Take(s) \/ SweepDies(s) \/ MarkRunning(s) \/ CallBackend(s)
            \/ BackendRefuses(s) \/ Apply(s) \/ Finish(s) \/ SettleSucceeded(s) \/ Retry(s)
            \/ GiveUp(s) \/ SettleFailed(s) \/ CallThrows(s)
        BY <2>2, OwnStepOnly
      <4>2. ~(List(s) \/ Take(s) \/ SweepDies(s) \/ MarkRunning(s) \/ CallBackend(s))
        BY <1>0, <1>2 DEF List, Take, SweepDies, MarkRunning, CallBackend, Provision, Scale,
           Teardown, Goto, TypeOK, Runs
      <4>3. ~(\/ BackendRefuses(s) \/ Apply(s) \/ Finish(s) \/ SettleSucceeded(s)
              \/ SettleFailed(s) \/ CallThrows(s))
        BY <1>0, <1>2 DEF BackendRefuses, Apply, Finish, SettleSucceeded, SettleFailed,
           CallThrows, Goto, TypeOK, Runs
      <4> QED
        BY <4>1, <4>2, <4>3
    <3>2. sweep'[s].job = sweep[s].job /\ sweep[s].job.id \in JobIds
      BY <1>0, <3>1, CurrentRow DEF GiveUp, Retry, Goto, TypeOK, Runs
    <3>3. CASE GiveUp(s)
      BY <3>2, <3>3 DEF GiveUp, Tried, Row
    <3>4. CASE Retry(s)
      <4>1. ~MarkRunning(s) /\ ~Finish(s)
        BY <3>4 DEF Retry, MarkRunning, Finish
      <4>2. jobs'[sweep[s].job.id].attempts # 0
        BY <3>2, <3>4, <4>1, RowWritten
      <4> QED
        BY <3>2, <4>2 DEF Row
    <3> QED
      BY <3>1, <3>3, <3>4
  <2> QED
    BY <2>1, <2>2
<1>3. \A i \in JobIds : RowTried(i)'
  BY <1>1
<1> QED
  BY <1>2, <1>3 DEF Tried

LEMMA OwnStep == ASSUME IInv, Own, [Next]_vars PROVE Own'
<1>0. TypeOK
  BY DEF IInv
<1>1. ASSUME NEW r \in Requests, req[r].at = "done" PROVE req'[r].at = "done"
  BY <1>0, <1>1 DEF Next, RequestStep, SweepStep, vars, Accept, ReadDeployment, WriteDeployment,
     CreateJob, RequestFails, Reconcile, List, Take, MarkRunning, CallBackend, BackendRefuses,
     Apply, Finish, SettleSucceeded, Retry, GiveUp, SettleFailed, CallThrows, SweepDies, Due,
     ListRunning, Tick, ReadSwitch, WriteSwitch, TypeOK, Callers
<1>2. ASSUME NEW i \in JobIds, IsJob(i)
      PROVE  jobs'[i].request = jobs[i].request /\ req'[jobs[i].request].at = "done"
  <2>1. jobs[i].request \in Requests
    BY <1>0, <1>2 DEF IsJob, TypeOK, Jobs
  <2> QED
    BY <1>1, <1>2, <2>1, FieldsKept DEF Own
<1>3. ASSUME NEW r \in Requests, CreateJob(r) PROVE Own'
  <2>1. req'[r].at = "done" /\ req[r].at = "enqueue"
    BY <1>0, <1>3 DEF CreateJob, TypeOK, Callers
  <2>2. \A i \in JobIds : IsJob(i) => jobs[i].request # r
    BY <2>1 DEF Own
  <2>3. /\ \A i \in JobIds : IsJob(i)' <=> IsJob(i) \/ i = NextId
        /\ NextId \in JobIds /\ jobs'[NextId].request = r
    BY <1>3, Created
  <2> QED
    BY <1>2, <2>1, <2>2, <2>3 DEF Own
<1>4. CASE \A i \in JobIds : IsJob(i)' => IsJob(i)
  BY <1>2, <1>4 DEF Own
<1>5. CASE UNCHANGED jobs
  BY <1>4, <1>5 DEF IsJob
<1>6. ASSUME NEW s \in Sweeps, MarkRunning(s) \/ Finish(s) \/ Retry(s) PROVE Own'
  <2>1. IsJob(sweep[s].job.id) /\ sweep[s].job.id \in JobIds
    BY <1>0, <1>6, CurrentRow DEF IInv, MarkRunning, Finish, Retry
  <2>2. \A i \in JobIds : i # sweep[s].job.id => jobs'[i] = jobs[i]
    BY <1>6, RowWritten
  <2> QED
    BY <1>4, <2>1, <2>2 DEF IsJob
<1>7. ASSUME NEW k \in JobIds, Due(k) PROVE Own'
  <2>1. IsJob(k) /\ \A i \in JobIds : i # k => jobs'[i] = jobs[i]
    BY <1>0, <1>7 DEF Due, TypeOK, IsJob
  <2> QED
    BY <1>4, <2>1 DEF IsJob
<1> QED
  BY <1>3, <1>5, <1>6, <1>7, JobWriters

(* Untried to the end, untried all along.                                   *)
LEMMA UntriedBefore == ASSUME IInv, Own, [Next]_vars, Untried' PROVE Untried
BY FieldsKept DEF Untried

(* Under Untried a job that is not done, nor in a sweep's hands, is queued. *)
LEMMA OnlyQueued ==
  ASSUME IInv, Tried, Untried, InOrder, NEW i \in JobIds, IsJob(i)
  PROVE  \/ Over(i)
         \/ jobs[i].status = "queued" /\ jobs[i].due
         \/ \E s \in Sweeps : InHand(s, i)
<1>1. jobs[i] \in Jobs
  BY DEF IInv, TypeOK, IsJob
<1>2. jobs[i].attempts = 0
  BY DEF Untried
<1>3. jobs[i].due /\ jobs[i].status # "failed"
  BY <1>2 DEF Tried
<1> QED
  BY <1>1, <1>3 DEF Jobs, Over, InOrder

(* The row a request writes is the last, and still to be done.              *)
LEMMA CreateKeepsOrder ==
  ASSUME IInv, Own, InOrder, NEW r \in Requests, CreateJob(r)
  PROVE  InOrder' /\ Newest'
<1>0. /\ NextId \in JobIds /\ ~IsJob(NextId) /\ jobs'[NextId].status = "queued"
      /\ \A i \in JobIds : IsJob(i)' <=> IsJob(i) \/ i = NextId
      /\ \A i \in JobIds : IsJob(i) => i < NextId
      /\ \A i \in JobIds : i # NextId => jobs'[i] = jobs[i]
  BY Created
<1>1. UNCHANGED <<sweep, status>> /\ JobIds \subseteq Nat
  BY DEF CreateJob, deployment, JobIds
<1>2. \A i \in JobIds : Over(i)' <=> Over(i)
  BY <1>0 DEF Over, IsJob
<1>3. \A s \in Sweeps, i \in JobIds : (InHand(s, i)' <=> InHand(s, i)) /\ (InHand(s, i) => IsJob(i))
  <2>1. ASSUME NEW s \in Sweeps, NEW i \in JobIds, InHand(s, i) PROVE IsJob(i)
    <3>1. CASE sweep[s].at \notin {"idle", "next"}
      BY <2>1, <3>1, CurrentRow DEF IInv, InHand
    <3> QED
      BY <2>1, <3>1 DEF InHand
  <2> QED
    BY <1>1, <2>1 DEF InHand
<1>4. \A s \in Sweeps : \A j \in sweep[s].queue : j.id \in JobIds /\ IsJob(j.id)
  BY DEF IInv, SweepOK, Usable, TypeOK, Runs, Listed, IsJob
<1>5. \A i, k \in JobIds : IsJob(i)' /\ i < k /\ Over(k)' => Over(i)'
  <2> SUFFICES ASSUME NEW i \in JobIds, NEW k \in JobIds, IsJob(i)', i < k, Over(k)'
               PROVE  Over(i)'
    OBVIOUS
  <2>1. Over(k) /\ IsJob(k) /\ k < NextId
    BY <1>0, <1>2 DEF Over
  <2>2. i # NextId
    BY <1>1, <2>1
  <2> QED
    BY <1>0, <1>2, <2>1, <2>2 DEF InOrder
<1>6. \A i \in JobIds : IsJob(i)' /\ jobs'[i].status = "running"
        => \E s \in Sweeps : InHand(s, i)'
  BY <1>0, <1>3 DEF InOrder
<1>7. \A s \in Sweeps, i \in JobIds : HandInOrder(s, i)'
  <2> SUFFICES ASSUME NEW s \in Sweeps, NEW i \in JobIds, InHand(s, i)
               PROVE  /\ jobs'[i].status = IF sweep[s].at = "mark" THEN "queued" ELSE "running"
                      /\ \A k \in JobIds : k < i => Over(k)'
    BY <1>1, <1>3 DEF HandInOrder
  <2>1. jobs'[i] = jobs[i]
    BY <1>0, <1>3
  <2> QED
    BY <1>2, <2>1 DEF InOrder, HandInOrder
<1>8. \A s \in Sweeps : \A j \in sweep'[s].queue : QueueInOrder(s, j)'
  <2> SUFFICES ASSUME NEW s \in Sweeps, NEW j \in sweep[s].queue PROVE QueueInOrder(s, j)'
    BY <1>1
  <2>1. QueueInOrder(s, j) /\ j.id \in JobIds /\ jobs'[j.id] = jobs[j.id]
    BY <1>0, <1>4 DEF InOrder
  <2> QED
    BY <1>1, <1>2, <1>3, <2>1 DEF QueueInOrder
<1>9. ASSUME NEW i \in JobIds, Last(i)', Applied(i)' PROVE FALSE
  <2>1. i = NextId
    <3>1. NextId <= i
      BY <1>0, <1>9 DEF Last
    <3>2. ~(i < NextId)
      BY <1>1, <1>0, <3>1
    <3> QED
      BY <1>0, <1>9, <3>2 DEF Last
  <2>2. ~Over(i)'
    BY <1>0, <1>2, <2>1 DEF Over
  <2>3. PICK s \in Sweeps : sweep[s].at = "finish" /\ sweep[s].job.id = i
    BY <1>1, <1>9, <2>2 DEF Applied
  <2> QED
    BY <1>0, <1>3, <2>1, <2>3 DEF InHand
<1> QED
  BY <1>5, <1>6, <1>7, <1>8, <1>9 DEF InOrder, Newest

(* A sweep lists what is queued, and so all that is not done yet.           *)
LEMMA ListKeepsOrder ==
  ASSUME Undisturbed, IInv, Tried, Untried, InOrder, Newest, NEW s \in Sweeps, List(s)
  PROVE  InOrder' /\ Newest'
<1>0. /\ \A t \in Sweeps : t = s
      /\ sweep \in [Sweeps -> Runs] /\ sweep[s].at = "idle"
      /\ UNCHANGED <<jobs, status, req>>
  BY DEF Undisturbed, IInv, TypeOK, List, deployment
<1>1. /\ sweep'[s].at = "next"
      /\ sweep'[s].queue = {[id |-> i, attempts |-> jobs[i].attempts] : i \in Runnable}
  BY <1>0 DEF List
<1>2. \A t \in Sweeps, i \in JobIds : ~InHand(t, i) /\ ~InHand(t, i)'
  BY <1>0, <1>1 DEF InHand
<1>3. \A i \in JobIds : (Over(i)' <=> Over(i)) /\ (IsJob(i)' <=> IsJob(i))
  BY <1>0 DEF Over, IsJob
<1>4. \A j \in sweep'[s].queue : QueueInOrder(s, j)'
  <2> SUFFICES ASSUME NEW j \in sweep'[s].queue PROVE QueueInOrder(s, j)'
    OBVIOUS
  <2>1. PICK i \in Runnable : j = [id |-> i, attempts |-> jobs[i].attempts]
    BY <1>1
  <2>2. j.id = i /\ i \in JobIds /\ IsJob(i) /\ jobs[i].status = "queued"
    BY <2>1 DEF Runnable, IsJob
  <2>3. \A k \in sweep'[s].queue : k.id = j.id => k = j
    BY <1>1, <2>1
  <2>4. ASSUME NEW m \in JobIds, m < i
        PROVE  Over(m) \/ \E k \in sweep'[s].queue : k.id = m
    <3>1. IsJob(m)
      <4>1. PICK n \in 0..Cardinality(Requests) : \A h \in JobIds : IsJob(h) <=> h <= n
        BY DEF IInv, NoGaps
      <4>2. m \in Nat /\ i \in Nat /\ i <= n /\ n \in Int
        BY <2>2, <4>1, HostingAssumption, FS_CardinalityType DEF JobIds
      <4> QED
        BY <2>4, <4>1, <4>2
    <3>2. Over(m) \/ (jobs[m].status = "queued" /\ jobs[m].due)
      BY <1>2, <3>1, OnlyQueued
    <3>3. CASE jobs[m].status = "queued" /\ jobs[m].due
      <4>1. m \in Runnable
        BY <3>1, <3>3 DEF Runnable, IsJob
      <4>2. [id |-> m, attempts |-> jobs[m].attempts] \in sweep'[s].queue
        BY <1>1, <4>1
      <4> QED
        BY <4>2
    <3> QED
      BY <3>2, <3>3
  <2> QED
    BY <1>0, <1>2, <1>3, <2>2, <2>3, <2>4 DEF QueueInOrder
<1>5. InOrder'
  BY <1>0, <1>2, <1>3, <1>4 DEF InOrder, HandInOrder
<1>6. Newest'
  <2>1. \A i \in JobIds : (Last(i)' <=> Last(i)) /\ (Applied(i)' => Applied(i))
    BY <1>0, <1>1, <1>3 DEF Last, Applied
  <2> QED
    BY <1>0, <2>1 DEF Newest
<1> QED
  BY <1>5, <1>6

(* It takes the first of its list: all before it are done.                  *)
LEMMA TakeKeepsOrder ==
  ASSUME Undisturbed, IInv, InOrder, Newest, NEW s \in Sweeps, Take(s)
  PROVE  InOrder' /\ Newest'
<1>0. /\ \A t \in Sweeps : t = s
      /\ sweep \in [Sweeps -> Runs] /\ sweep[s].at = "next"
      /\ UNCHANGED <<jobs, status, req>>
  BY DEF Undisturbed, IInv, TypeOK, Take, deployment
<1>2. \A t \in Sweeps, i \in JobIds : ~InHand(t, i)
  BY <1>0 DEF InHand
<1>3. \A i \in JobIds : (Over(i)' <=> Over(i)) /\ (IsJob(i)' <=> IsJob(i))
  BY <1>0 DEF Over, IsJob
<1>4. sweep'[s].at # "finish"
  BY <1>0 DEF Take
<1>5. CASE sweep'[s].at = "idle" /\ sweep'[s].queue = {}
  <2>1. \A t \in Sweeps, i \in JobIds : ~InHand(t, i)'
    BY <1>0, <1>5 DEF InHand
  <2> QED
    BY <1>0, <1>2, <1>3, <1>5, <2>1 DEF InOrder, HandInOrder, Newest, Last, Applied
<1>6. ASSUME NEW j \in sweep[s].queue, First(sweep[s].queue, j), sweep'[s].at = "mark",
             sweep'[s].queue = sweep[s].queue \ {j}, sweep'[s].job = j
      PROVE  InOrder' /\ Newest'
  <2>1. /\ j.id \in JobIds /\ \A k \in sweep[s].queue : k.id \in JobIds
        /\ JobIds \subseteq Nat
    BY <1>0 DEF Runs, Listed, JobIds
  <2>2. jobs[j.id].status = "queued" /\ \A i \in JobIds : i < j.id => Over(i)
    <3>1. \A k \in sweep[s].queue : ~(k.id < j.id)
      <4> SUFFICES ASSUME NEW k \in sweep[s].queue PROVE ~(k.id < j.id)
        OBVIOUS
      <4>1. j.id <= k.id
        BY <1>6 DEF First
      <4>2. j.id \in Nat /\ k.id \in Nat
        BY <2>1
      <4> QED
        BY <4>1, <4>2
    <3> QED
      BY <1>2, <2>1, <3>1 DEF InOrder, QueueInOrder
  <2>3. \A t \in Sweeps, i \in JobIds : InHand(t, i)' <=> i = j.id
    BY <1>0, <1>6 DEF InHand
  <2>4. ASSUME NEW k \in sweep'[s].queue PROVE QueueInOrder(s, k)'
    <3>1. k \in sweep[s].queue /\ k # j /\ QueueInOrder(s, k) /\ QueueInOrder(s, j)
      BY <1>6, <2>4 DEF InOrder
    <3>2. k.id # j.id
      BY <3>1 DEF QueueInOrder
    <3>3. \A i \in JobIds : i < k.id =>
            Over(i) \/ InHand(s, i)' \/ \E h \in sweep'[s].queue : h.id = i
      <4> SUFFICES ASSUME NEW i \in JobIds, i < k.id, ~Over(i)
                   PROVE  i = j.id \/ \E h \in sweep'[s].queue : h.id = i
        BY <2>3
      <4>1. PICK h \in sweep[s].queue : h.id = i
        BY <1>2, <3>1 DEF QueueInOrder
      <4> QED
        BY <1>6, <4>1
    <3> QED
      BY <1>0, <1>3, <1>6, <2>1, <2>3, <3>1, <3>2, <3>3 DEF QueueInOrder
  <2>5. \A t \in Sweeps, i \in JobIds : HandInOrder(t, i)'
    BY <1>0, <1>3, <1>6, <2>2, <2>3 DEF HandInOrder
  <2>6. InOrder'
    BY <1>0, <1>2, <1>3, <2>4, <2>5 DEF InOrder
  <2>7. \A i \in JobIds : (Last(i)' <=> Last(i)) /\ (Applied(i)' => Applied(i))
    BY <1>0, <1>3, <1>4 DEF Last, Applied
  <2> QED
    BY <1>0, <2>6, <2>7 DEF Newest
<1>7. \/ sweep'[s].at = "idle" /\ sweep'[s].queue = {}
      \/ \E j \in sweep[s].queue :
           /\ First(sweep[s].queue, j) /\ sweep'[s].at = "mark"
           /\ sweep'[s].queue = sweep[s].queue \ {j} /\ sweep'[s].job = j
  BY <1>0 DEF Take
<1> QED
  BY <1>5, <1>6, <1>7

(* The row of the job at hand is written: running, or done.                 *)
LEMMA WriteKeepsOrder ==
  ASSUME Undisturbed, IInv, InOrder, Newest, NEW s \in Sweeps, MarkRunning(s) \/ Finish(s)
  PROVE  InOrder' /\ Newest'
<1> DEFINE k == sweep[s].job.id
<1>0. /\ \A t \in Sweeps : t = s
      /\ sweep \in [Sweeps -> Runs] /\ sweep[s].at \in {"mark", "finish"}
      /\ UNCHANGED <<status, req>>
      /\ k \in JobIds /\ IsJob(k) /\ JobIds \subseteq Nat
  BY CurrentRow DEF Undisturbed, IInv, TypeOK, MarkRunning, Finish, deployment, JobIds
<1>1. /\ InHand(s, k) /\ \A i \in JobIds : InHand(s, i) => i = k
      /\ \A i \in JobIds : i < k => Over(i)
      /\ jobs[k].status # "done"
  <2>1. InHand(s, k) /\ \A i \in JobIds : InHand(s, i) => i = k
    BY <1>0 DEF InHand
  <2> QED
    BY <1>0, <2>1 DEF InOrder, HandInOrder
<1>2. PICK row \in Jobs :
        /\ \A i \in JobIds : jobs'[i] = IF i = k THEN row ELSE jobs[i]
        /\ row.kind = jobs[k].kind
        /\ \/ MarkRunning(s) /\ row.status = "running"
           \/ Finish(s) /\ row.status = "done"
  BY RowWritten DEF MarkRunning, Finish, Retry, Row
<1>3. \A i \in JobIds : IsJob(i)' <=> IsJob(i)
  BY <1>0, <1>2, NoneIsNoRow DEF IsJob
<1>4. sweep'[s].queue = sweep[s].queue /\ sweep'[s].job = sweep[s].job
  BY <1>0 DEF MarkRunning, Finish, Goto, Runs
<1>5. \A j \in sweep[s].queue : j.id \in JobIds /\ j.id # k
  BY <1>0, <1>1 DEF Runs, Listed, InOrder, QueueInOrder
<1>l. \A i \in JobIds : (Last(i)' <=> Last(i)) /\ jobs'[i].kind = jobs[i].kind
  BY <1>2, <1>3 DEF Last
<1>6. CASE MarkRunning(s)
  <2>1. sweep'[s].at = "backend" /\ row.status = "running" /\ sweep[s].at = "mark"
    BY <1>0, <1>2, <1>6 DEF MarkRunning, Finish, Goto, Runs
  <2>2. \A i \in JobIds : InHand(s, i)' <=> InHand(s, i)
    BY <1>4, <2>1 DEF InHand
  <2>3. \A i \in JobIds : Over(i)' <=> Over(i)
    BY <1>1, <1>2, <1>3, <2>1 DEF Over
  <2>4. \A j \in sweep'[s].queue : QueueInOrder(s, j)'
    <3> SUFFICES ASSUME NEW j \in sweep[s].queue PROVE QueueInOrder(s, j)'
      BY <1>4
    <3>1. QueueInOrder(s, j) /\ j.id \in JobIds /\ jobs'[j.id] = jobs[j.id]
      BY <1>2, <1>5 DEF InOrder
    <3> QED
      BY <1>4, <2>2, <2>3, <3>1 DEF QueueInOrder
  <2>5. \A i \in JobIds : HandInOrder(s, i)'
    BY <1>1, <1>2, <2>1, <2>2, <2>3 DEF HandInOrder
  <2>6. \A i \in JobIds : IsJob(i)' /\ jobs'[i].status = "running" => InHand(s, i)'
    BY <1>0, <1>1, <1>2, <1>3, <2>2 DEF InOrder
  <2>7. InOrder'
    BY <1>0, <1>3, <2>3, <2>4, <2>5, <2>6 DEF InOrder
  <2>8. \A i \in JobIds : Applied(i)' => Applied(i)
    BY <1>0, <2>1, <2>3 DEF Applied
  <2> QED
    BY <1>0, <1>l, <2>7, <2>8 DEF Newest
<1>7. CASE Finish(s)
  <2>1. sweep'[s].at = "settle" /\ row.status = "done" /\ sweep[s].at = "finish"
    BY <1>0, <1>2, <1>7 DEF MarkRunning, Finish, Goto, Runs
  <2>2. \A i \in JobIds : ~InHand(s, i)'
    BY <2>1 DEF InHand
  <2>3. \A i \in JobIds : Over(i)' <=> Over(i) \/ i = k
    BY <1>0, <1>2, <1>3, <2>1 DEF Over
  <2>4. \A j \in sweep'[s].queue : QueueInOrder(s, j)'
    <3> SUFFICES ASSUME NEW j \in sweep[s].queue PROVE QueueInOrder(s, j)'
      BY <1>4
    <3>1. QueueInOrder(s, j) /\ j.id \in JobIds /\ jobs'[j.id] = jobs[j.id]
      BY <1>2, <1>5 DEF InOrder
    <3> QED
      BY <1>1, <1>4, <2>2, <2>3, <3>1 DEF QueueInOrder
  <2>5. \A i \in JobIds : HandInOrder(s, i)'
    BY <2>2 DEF HandInOrder
  <2>6. \A i \in JobIds : IsJob(i)' => jobs'[i].status # "running"
    BY <1>0, <1>1, <1>2, <1>3, <2>1 DEF InOrder
  <2>7. InOrder'
    BY <1>0, <1>1, <1>3, <2>3, <2>4, <2>5, <2>6 DEF InOrder
  <2>8. \A i \in JobIds : Applied(i)' => Applied(i)
    BY <1>0, <2>1, <2>3 DEF Applied
  <2> QED
    BY <1>0, <1>l, <2>7, <2>8 DEF Newest
<1> QED
  BY <1>6, <1>7

(* Rows, lists and hands as they were: so is the order.                     *)
LEMMA OrderStands ==
  ASSUME IInv, InOrder, UNCHANGED jobs,
         \A s \in Sweeps : /\ sweep'[s].queue = sweep[s].queue
                           /\ sweep'[s].at = "mark" <=> sweep[s].at = "mark"
                           /\ \A i \in JobIds : InHand(s, i)' <=> InHand(s, i)
  PROVE  InOrder'
<1>1. \A i \in JobIds : (Over(i)' <=> Over(i)) /\ (IsJob(i)' <=> IsJob(i))
  BY DEF Over, IsJob
<1>2. \A s \in Sweeps, i \in JobIds : HandInOrder(s, i)'
  BY <1>1 DEF InOrder, HandInOrder
<1>3. ASSUME NEW s \in Sweeps, NEW j \in sweep'[s].queue PROVE QueueInOrder(s, j)'
  <2>1. j.id \in JobIds
    BY DEF IInv, TypeOK, Runs, Listed
  <2>2. QueueInOrder(s, j)
    BY DEF InOrder
  <2> QED
    BY <1>1, <2>1, <2>2 DEF QueueInOrder
<1> QED
  BY <1>1, <1>2, <1>3 DEF InOrder

(* The job at hand goes from the backend to the row of the deployment. The  *)
(* row is written for the last job, or for one that others come after.      *)
LEMMA HandMoves ==
  ASSUME Undisturbed, IInv, InOrder, Newest, NEW s \in Sweeps,
         CallBackend(s) \/ BackendRefuses(s) \/ Apply(s) \/ SettleSucceeded(s)
  PROVE  InOrder' /\ Newest'
<1>0. /\ \A t \in Sweeps : t = s
      /\ sweep \in [Sweeps -> Runs] /\ sweep[s].at \in {"backend", "apply", "settle"}
      /\ UNCHANGED <<jobs, req>>
  BY DEF Undisturbed, IInv, TypeOK, CallBackend, BackendRefuses, Apply, SettleSucceeded
<1>1. /\ sweep'[s].queue = sweep[s].queue /\ sweep'[s].job = sweep[s].job
      /\ \/ sweep[s].at = "backend" /\ sweep'[s].at \in {"apply", "retry"} /\ status' = status
         \/ sweep[s].at = "settle" /\ sweep'[s].at = "next" /\ status' = status
         \/ sweep[s].at = "apply" /\ sweep'[s].at = "finish" /\ Apply(s)
  <2>1. CASE CallBackend(s)
    BY <1>0, <2>1 DEF CallBackend, Provision, Scale, Teardown, Goto, Runs, deployment
  <2>2. CASE BackendRefuses(s) \/ Apply(s) \/ SettleSucceeded(s)
    BY <1>0, <2>2 DEF BackendRefuses, Apply, SettleSucceeded, Goto, Runs, deployment
  <2> QED
    BY <2>1, <2>2
<1>2. InOrder'
  <2>1. \A i \in JobIds : InHand(s, i)' <=> InHand(s, i)
    BY <1>1 DEF InHand
  <2>2. sweep'[s].at = "mark" <=> sweep[s].at = "mark"
    BY <1>1
  <2> QED
    BY <1>0, <1>1, <2>1, <2>2, OrderStands
<1>3. \A i \in JobIds : (Last(i)' <=> Last(i)) /\ (Over(i)' <=> Over(i))
  BY <1>0 DEF Last, Over, IsJob
<1>4. CASE sweep'[s].at # "finish" /\ status' = status
  <2>1. \A i \in JobIds : Applied(i)' => Applied(i)
    BY <1>0, <1>3, <1>4 DEF Applied
  <2> QED
    BY <1>0, <1>2, <1>3, <1>4, <2>1 DEF Newest
<1>5. CASE sweep[s].at = "apply" /\ sweep'[s].at = "finish" /\ Apply(s)
  <2>1. PICK k \in JobIds : k = sweep[s].job.id /\ IsJob(k) /\ status' = StatusWhenDone(jobs[k].kind)
    BY <1>0, <1>5, CurrentRow DEF IInv, Apply, Row
  <2>2. jobs[k].status = "running" /\ ~Over(k)
    BY <1>5, <2>1 DEF InOrder, HandInOrder, InHand, Over
  <2>3. ASSUME NEW i \in JobIds, Last(i)', Applied(i)' PROVE i = k
    <3>1. CASE Over(i)
      <4>1. k <= i /\ k \in Nat /\ i \in Nat
        BY <1>3, <2>1, <2>3 DEF Last, JobIds
      <4>2. ~(k < i)
        BY <2>1, <2>2, <3>1 DEF InOrder
      <4> QED
        BY <4>1, <4>2
    <3>2. CASE ~Over(i)
      BY <1>0, <1>1, <1>3, <2>1, <2>3, <3>2 DEF Applied
    <3> QED
      BY <3>1, <3>2
  <2>4. Newest'
    BY <1>0, <2>1, <2>3 DEF Newest
  <2> QED
    BY <1>2, <2>4
<1> QED
  BY <1>1, <1>4, <1>5

(* A request on its way to its job may write the status: Newest waits.      *)
LEMMA RequestKeepsOrder ==
  ASSUME IInv, InOrder, Newest, UNCHANGED <<jobs, sweep>>,
         \/ \E r \in Requests : \/ \E kind \in Kinds : Accept(r, kind)
                                \/ ReadDeployment(r) \/ WriteDeployment(r) \/ Reconcile(r)
         \/ UNCHANGED vars
  PROVE  InOrder' /\ Newest'
<1>0. req \in [Requests -> Callers]
  BY DEF IInv, TypeOK
<1>1. \A s \in Sweeps, i \in JobIds : InHand(s, i)' <=> InHand(s, i)
  BY DEF InHand
<1>2. InOrder'
  BY <1>1, OrderStands
<1>3. \A i \in JobIds : (Last(i)' <=> Last(i)) /\ (Applied(i)' <=> Applied(i))
  BY DEF Last, Applied, Over, IsJob
<1>4. \/ \E r \in Requests : req'[r].at = "enqueue"
      \/ /\ status' = status
         /\ \A r \in Requests : req[r].at = "enqueue" => req'[r].at = "enqueue"
  <2>1. ASSUME NEW r \in Requests,
               (\E kind \in Kinds : Accept(r, kind)) \/ ReadDeployment(r) \/ Reconcile(r)
        PROVE  /\ status' = status
               /\ \A q \in Requests : req[q].at = "enqueue" => req'[q].at = "enqueue"
    BY <1>0, <2>1 DEF Accept, ReadDeployment, Reconcile, deployment, Callers
  <2>2. ASSUME NEW r \in Requests, WriteDeployment(r)
        PROVE  \/ req'[r].at = "enqueue"
               \/ /\ status' = status
                  /\ \A q \in Requests : req[q].at = "enqueue" => req'[q].at = "enqueue"
    BY <1>0, <2>2 DEF WriteDeployment, deployment, Callers
  <2>3. CASE UNCHANGED vars
    BY <2>3 DEF vars, deployment
  <2> QED
    BY <2>1, <2>2, <2>3
<1>5. Newest'
  BY <1>3, <1>4 DEF Newest
<1> QED
  BY <1>2, <1>5

(* What a job that was tried, or is given up, goes through.                 *)
LEMMA OnlyOnceTried ==
  ASSUME IInv, Own, Tried, Untried, [Next]_vars, Untried',
         \/ \E s \in Sweeps : Retry(s) \/ GiveUp(s) \/ SettleFailed(s)
         \/ \E i \in JobIds : Due(i)
  PROVE  FALSE
<1>1. ASSUME NEW s \in Sweeps, GiveUp(s) \/ SettleFailed(s) PROVE FALSE
  <2>1. sweep[s].job.id \in JobIds /\ IsJob(sweep[s].job.id) /\ Row(s).attempts # 0
    BY <1>1, CurrentRow DEF IInv, Tried, GiveUp, SettleFailed
  <2> QED
    BY <2>1 DEF Untried, Row
<1>2. ASSUME NEW s \in Sweeps, Retry(s) PROVE FALSE
  <2>1. PICK i \in JobIds : i = sweep[s].job.id /\ IsJob(i)
    BY <1>2, CurrentRow DEF IInv, Retry
  <2>2. ~MarkRunning(s) /\ ~Finish(s)
    BY <1>2 DEF Retry, MarkRunning, Finish
  <2>3. jobs'[i].attempts # 0
    BY <1>2, <2>1, <2>2, RowWritten
  <2>4. IsJob(i)'
    BY <2>1, FieldsKept
  <2> QED
    BY <2>3, <2>4 DEF Untried
<1>3. ASSUME NEW i \in JobIds, Due(i) PROVE FALSE
  BY <1>3 DEF Due, Tried, Untried, IsJob
<1> QED
  BY <1>1, <1>2, <1>3

LEMMA OrderStep ==
  ASSUME Undisturbed, Meters = {}, IInv, OrderInv, [Next]_vars
  PROVE  OrderInv'
<1>1. Tried' /\ Own'
  BY TriedStep, OwnStep DEF OrderInv
<1>2. ASSUME Untried' PROVE InOrder' /\ Newest'
  <2>1. Own /\ Tried /\ Untried /\ InOrder /\ Newest
    BY <1>2, UntriedBefore DEF OrderInv
  <2>2. ASSUME NEW r \in Requests, RequestStep(r) \/ Reconcile(r) PROVE InOrder' /\ Newest'
    <3>1. CASE CreateJob(r)
      BY <2>1, <3>1, CreateKeepsOrder
    <3>2. CASE \/ \E kind \in Kinds : Accept(r, kind)
               \/ ReadDeployment(r) \/ WriteDeployment(r) \/ Reconcile(r)
      <4>1. UNCHANGED <<jobs, sweep>>
        BY <3>2 DEF Accept, ReadDeployment, WriteDeployment, Reconcile
      <4> QED
        BY <2>1, <3>2, <4>1, RequestKeepsOrder
    <3> QED
      BY <2>2, <3>1, <3>2 DEF RequestStep, RequestFails, Undisturbed
  <2>3. ASSUME NEW s \in Sweeps,
               SweepStep(s) \/ BackendRefuses(s) \/ CallThrows(s) \/ SweepDies(s)
        PROVE  InOrder' /\ Newest'
    <3>1. CASE List(s) \/ Take(s) \/ MarkRunning(s) \/ Finish(s)
      BY <2>1, <3>1, ListKeepsOrder, TakeKeepsOrder, WriteKeepsOrder
    <3>2. CASE CallBackend(s) \/ BackendRefuses(s) \/ Apply(s) \/ SettleSucceeded(s)
      BY <2>1, <3>2, HandMoves
    <3>3. CASE Retry(s) \/ GiveUp(s) \/ SettleFailed(s)
      BY <1>2, <2>1, <3>3, OnlyOnceTried
    <3> QED
      BY <2>3, <3>1, <3>2, <3>3 DEF SweepStep, CallThrows, SweepDies, Undisturbed
  <2>4. ASSUME NEW i \in JobIds, Due(i) PROVE InOrder' /\ Newest'
    BY <1>2, <2>1, <2>4, OnlyOnceTried
  <2>5. CASE UNCHANGED vars
    <3>1. UNCHANGED <<jobs, sweep>>
      BY <2>5 DEF vars
    <3> QED
      BY <2>1, <2>5, <3>1, RequestKeepsOrder
  <2> QED
    BY <2>2, <2>3, <2>4, <2>5 DEF Next, Undisturbed
<1> QED
  BY <1>1, <1>2 DEF OrderInv

(* Undisturbed and unmetered, with the queue worked off and nothing         *)
(* retried, the deployment is what the request enqueued last asked for.     *)
THEOREM LastRequestStands ==
  ASSUME Undisturbed, Meters = {}
  PROVE  Spec => []LastRequestWins
<1>1. Init => OrderInv
  <2> SUFFICES ASSUME Init PROVE OrderInv
    OBVIOUS
  <2>1. /\ \A i \in JobIds : ~IsJob(i)
        /\ \A s \in Sweeps : sweep[s].at = "idle" /\ sweep[s].queue = {}
    BY DEF Init, IsJob
  <2> QED
    BY <2>1 DEF OrderInv, Tried, Own, InOrder, HandInOrder, InHand, Newest, Last, Over
<1>2. IInv /\ OrderInv /\ [Next]_vars => OrderInv'
  BY OrderStep
<1>3. IInv /\ OrderInv => LastRequestWins
  <2> SUFFICES ASSUME IInv, OrderInv, Quiet, NEW h \in JobIds, IsJob(h),
                      \A i \in JobIds : IsJob(i) => jobs[i].attempts = 0
               PROVE  status = StatusWhenDone(jobs[LastJob].kind)
    BY DEF LastRequestWins
  <2>1. PICK n \in 0..Cardinality(Requests) : \A i \in JobIds : IsJob(i) <=> i <= n
    BY DEF IInv, NoGaps
  <2>2. Cardinality(Requests) \in Nat /\ h \in 1..Cardinality(Requests) /\ h <= n
    BY <2>1, HostingAssumption, FS_CardinalityType DEF JobIds
  <2>3. n \in JobIds /\ Last(n)
    BY <2>1, <2>2 DEF JobIds, Last
  <2>4. \A i \in JobIds : Last(i) => i = n
    <3> SUFFICES ASSUME NEW i \in JobIds, Last(i) PROVE i = n
      OBVIOUS
    <3>1. n <= i /\ i <= n
      BY <2>1, <2>3 DEF Last
    <3> QED
      BY <2>2, <2>3, <3>1 DEF JobIds
  <2>5. LastJob = n
    <3>1. LastJob \in JobIds /\ Last(LastJob)
      BY <2>3 DEF LastJob, Last
    <3> QED
      BY <2>4, <3>1
  <2>6. Over(n)
    <3>1. IsJob(n) /\ jobs[n].attempts = 0
      BY <2>3 DEF Last
    <3> QED
      BY <2>3, <3>1 DEF Over, Quiet, OrderInv, Tried
  <2>7. \A r \in Requests : req[r].at # "enqueue"
    BY DEF Quiet
  <2> QED
    BY <2>3, <2>5, <2>6, <2>7 DEF OrderInv, Untried, Newest, Applied
<1> QED
  BY <1>1, <1>2, <1>3, SpecIInv, PTL DEF Spec
=============================================================================
