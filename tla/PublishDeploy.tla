--------------------------- MODULE PublishDeploy ---------------------------
(***************************************************************************)
(* One site from draft to live: publishSiteAction and rollbackSiteAction   *)
(* (app/actions.ts) write versions; the publish chain (publishPipeline.ts) *)
(* commits the version to the site's repository, opens a hosting.deploy    *)
(* operation and a deployments row; the Vercel webhook, the settle timers  *)
(* and the owner's status poll settle the two.  The two writers of a       *)
(* version are transactions under READ COMMITTED, kept apart only by the   *)
(* unique key (siteId, version); every other call is a step of its own.    *)
(* The router is ActionRouter's: here a deploy is accepted or not.         *)
(***************************************************************************)
EXTENDS Naturals, Sequences, FiniteSets

CONSTANTS
  Publishes,   \* calls of publishSiteAction; each has a draft of its own
  Rollbacks,   \* calls of rollbackSiteAction
  Deliveries,  \* webhook requests alive at once
  Polls,       \* deployStatusAction calls
  NoCall

Writers == Publishes \cup Rollbacks
Versions == 1..Cardinality(Writers)

(* What the proofs assume of them.                                          *)
PublishAssumption == IsFiniteSet(Writers) /\ NoCall \notin Writers

VARIABLES
  snapshot,  \* site_versions: the draft of each version, or NoCall
  current,   \* the number of the version generated_sites points at, or 0
  rowLock,   \* per version: the transaction with an uncommitted row, or NoCall
  writer,    \* writers: [at, saw, target, version]
  committed, \* site_repos.lastCommitSha, as the version it stands for, or 0
  deployOp,  \* the operation of each version's deploy
  deployRow, \* the deployments row of each version
  newest,    \* the version whose row was created last, or 0
  verdict,   \* what the host made of each deploy
  claimed,   \* webhook_events: the versions whose event was claimed
  delivery,  \* webhook requests: [at, version]
  poll       \* status polls: [at, version, outcome]

site == <<snapshot, current, rowLock>>
deploys == <<deployOp, deployRow, newest>>
hook == <<claimed, delivery>>
publishVars == <<site, writer, committed, deploys, verdict, hook, poll>>

OpStatuses == {"none", "pending", "succeeded", "failed"}
RowStatuses == {"none", "queued", "live", "failed"}

NoDelivery == [at |-> "idle", version |-> 0]

TypeOK ==
  /\ snapshot \in [Versions -> Publishes \cup {NoCall}]
  /\ current \in {0} \cup Versions
  /\ rowLock \in [Versions -> Writers \cup {NoCall}]
  /\ writer \in [Writers -> [at : {"idle", "insert", "point", "push", "deploy",
                                   "record", "done"},
                             saw : {0} \cup Versions, target : {0} \cup Versions,
                             version : {0} \cup Versions]]
  /\ committed \in {0} \cup Versions
  /\ deployOp \in [Versions -> OpStatuses]
  /\ deployRow \in [Versions -> RowStatuses]
  /\ newest \in {0} \cup Versions
  /\ verdict \in [Versions -> {"none", "succeeded", "failed"}]
  /\ claimed \subseteq Versions
  /\ delivery \in [Deliveries -> [at : {"idle", "claim", "operation", "row"},
                                  version : {0} \cup Versions]]
  /\ poll \in [Polls -> [at : {"idle", "write"}, version : {0} \cup Versions,
                         outcome : OpStatuses]]

Init ==
  /\ snapshot = [v \in Versions |-> NoCall]
  /\ current = 0
  /\ rowLock = [v \in Versions |-> NoCall]
  /\ writer = [w \in Writers |-> [at |-> "idle", saw |-> 0, target |-> 0, version |-> 0]]
  /\ committed = 0
  /\ deployOp = [v \in Versions |-> "none"]
  /\ deployRow = [v \in Versions |-> "none"]
  /\ newest = 0
  /\ verdict = [v \in Versions |-> "none"]
  /\ claimed = {}
  /\ delivery = [d \in Deliveries |-> NoDelivery]
  /\ poll = [p \in Polls |-> [at |-> "idle", version |-> 0, outcome |-> "none"]]

-----------------------------------------------------------------------------
(* The transaction that writes a version.                                   *)

(* publish finds the site and its current version.                          *)
ReadForPublish(w) ==
  /\ w \in Publishes
  /\ writer[w].at = "idle"
  /\ writer' = [writer EXCEPT ![w].at = "insert", ![w].saw = current]
  /\ UNCHANGED <<site, committed, deploys, verdict, hook, poll>>

(* restoreVersion finds the site, and the version the owner picked.         *)
ReadForRollback(w, v) ==
  /\ w \in Rollbacks
  /\ writer[w].at = "idle"
  /\ current # 0
  /\ snapshot[v] # NoCall
  /\ writer' = [writer EXCEPT ![w].at = "insert", ![w].saw = current, ![w].target = v]
  /\ UNCHANGED <<site, committed, deploys, verdict, hook, poll>>

Number(w) == writer[w].saw + 1

(* A committed row is under the key.                                        *)
Taken(w) == snapshot[Number(w)] # NoCall

(* INSERT under the unique key: an uncommitted row of another transaction   *)
(* makes it wait.                                                           *)
InsertVersion(w) ==
  /\ writer[w].at = "insert"
  /\ rowLock[Number(w)] = NoCall
  /\ ~Taken(w)
  /\ rowLock' = [rowLock EXCEPT ![Number(w)] = w]
  /\ writer' = [writer EXCEPT ![w].at = "point", ![w].version = Number(w)]
  /\ UNCHANGED <<snapshot, current, committed, deploys, verdict, hook, poll>>

(* Its insert throws: nothing is written.                                   *)
InsertThrows(w) ==
  /\ writer[w].at = "insert"
  /\ Taken(w)
  /\ writer' = [writer EXCEPT ![w].at = "done"]
  /\ UNCHANGED <<site, committed, deploys, verdict, hook, poll>>

(* Mutant: a rollback points the site at the old version.                   *)
PointsAt_OldVersion(w) ==
  IF w \in Rollbacks THEN writer[w].target ELSE writer[w].version

PointsAt(w) == writer[w].version

(* The site is pointed at the new row and the transaction commits.  A       *)
(* publish goes on to the publish chain, a rollback does not.               *)
CommitVersion(w) ==
  /\ writer[w].at = "point"
  /\ snapshot' = [snapshot EXCEPT ![writer[w].version] =
                    IF w \in Publishes THEN w ELSE snapshot[writer[w].target]]
  /\ current' = PointsAt(w)
  /\ rowLock' = [rowLock EXCEPT ![writer[w].version] = NoCall]
  /\ writer' = [writer EXCEPT ![w].at = IF w \in Publishes THEN "push" ELSE "done"]
  /\ UNCHANGED <<committed, deploys, verdict, hook, poll>>

(* A statement fails or the process dies: the transaction is rolled back.   *)
WriterAborts(w) ==
  /\ writer[w].at \in {"insert", "point"}
  /\ rowLock' = [v \in Versions |-> IF rowLock[v] = w THEN NoCall ELSE rowLock[v]]
  /\ writer' = [writer EXCEPT ![w].at = "done"]
  /\ UNCHANGED <<snapshot, current, committed, deploys, verdict, hook, poll>>

-----------------------------------------------------------------------------
(* The publish chain.                                                       *)

(* github.commit: the repository's last commit is that of this version.     *)
Push(w) ==
  /\ writer[w].at = "push"
  /\ committed' = writer[w].version
  /\ writer' = [writer EXCEPT ![w].at = "deploy"]
  /\ UNCHANGED <<site, deploys, verdict, hook, poll>>

(* hosting.deploy is accepted: an operation is opened under the key of this *)
(* version, or has already failed at dispatch.                              *)
OpenDeploy(w) ==
  /\ writer[w].at = "deploy"
  /\ \E status \in {"pending", "failed"} :
       deployOp' = [deployOp EXCEPT ![writer[w].version] = status]
  /\ writer' = [writer EXCEPT ![w].at = "record"]
  /\ UNCHANGED <<site, committed, deployRow, newest, verdict, hook, poll>>

(* createDeployment, with the status the accepted operation had.            *)
RecordDeploy(w) ==
  LET v == writer[w].version IN
  /\ writer[w].at = "record"
  /\ deployRow' = [deployRow EXCEPT ![v] =
       IF deployOp[v] = "failed" THEN "failed" ELSE "queued"]
  /\ newest' = v
  /\ writer' = [writer EXCEPT ![w].at = "done"]
  /\ UNCHANGED <<site, committed, deployOp, verdict, hook, poll>>

(* The commit or the deploy is refused or throws, or the process dies: what *)
(* is left of the chain is not done, and the publish stands.                *)
ChainStops(w) ==
  /\ writer[w].at \in {"push", "deploy", "record"}
  /\ writer' = [writer EXCEPT ![w].at = "done"]
  /\ UNCHANGED <<site, committed, deploys, verdict, hook, poll>>

-----------------------------------------------------------------------------
(* What settles a deploy.                                                   *)

(* settleOperation: a terminal operation stays as it is.                    *)
OpSettled(v, outcome) ==
  [deployOp EXCEPT ![v] = IF @ = "pending" THEN outcome ELSE @]

(* The settle time passes, and the cron's sweep or any read of the tenant's *)
(* operations marks the operation succeeded.                                *)
Timer(v) ==
  /\ deployOp[v] = "pending"
  /\ deployOp' = OpSettled(v, "succeeded")
  /\ UNCHANGED <<site, writer, committed, deployRow, newest, verdict, hook, poll>>

(* The host is done with a deploy that was dispatched.                      *)
HostDecides(v) ==
  /\ deployOp[v] \in {"pending", "succeeded"}
  /\ verdict[v] = "none"
  /\ \E outcome \in {"succeeded", "failed"} : verdict' = [verdict EXCEPT ![v] = outcome]
  /\ UNCHANGED <<site, writer, committed, deploys, hook, poll>>

(* Its event arrives, once or again: hasEvent, and the row of the deploy.   *)
(* A deploy with no row yet has its event claimed and forgotten.            *)
Receive(d, v) ==
  /\ delivery[d].at = "idle"
  /\ verdict[v] # "none"
  /\ delivery' = [delivery EXCEPT ![d] =
       IF v \notin claimed /\ deployRow[v] # "none"
       THEN [at |-> "claim", version |-> v] ELSE NoDelivery]
  /\ claimed' = IF deployRow[v] = "none" THEN claimed \cup {v} ELSE claimed
  /\ UNCHANGED <<site, writer, committed, deploys, verdict, poll>>

Claim(d) ==
  LET v == delivery[d].version IN
  /\ delivery[d].at = "claim"
  /\ claimed' = claimed \cup {v}
  /\ delivery' = [delivery EXCEPT ![d] =
       IF v \in claimed THEN NoDelivery ELSE [at |-> "operation", version |-> v]]
  /\ UNCHANGED <<site, writer, committed, deploys, verdict, poll>>

HookSettles(v) == deployOp' = OpSettled(v, verdict[v])

HookOperation(d) ==
  /\ delivery[d].at = "operation"
  /\ HookSettles(delivery[d].version)
  /\ delivery' = [delivery EXCEPT ![d].at = "row"]
  /\ UNCHANGED <<site, writer, committed, deployRow, newest, verdict, claimed, poll>>

RowFor(outcome) == IF outcome = "succeeded" THEN "live" ELSE "failed"

(* settleDeployment writes the row whatever it says.                        *)
HookRow(d) ==
  LET v == delivery[d].version IN
  /\ delivery[d].at = "row"
  /\ deployRow' = [deployRow EXCEPT ![v] = RowFor(verdict[v])]
  /\ delivery' = [delivery EXCEPT ![d] = NoDelivery]
  /\ UNCHANGED <<site, writer, committed, deployOp, newest, verdict, claimed, poll>>

(* A call throws, and the host is told so, or the process dies.             *)
HookFails(d) ==
  /\ delivery[d].at \in {"claim", "operation", "row"}
  /\ delivery' = [delivery EXCEPT ![d] = NoDelivery]
  /\ UNCHANGED <<site, writer, committed, deploys, verdict, claimed, poll>>

(* Mutant: a pending operation is taken for a failed one.                   *)
OpIsOver_NotSucceeded(v) == deployOp[v] \in {"pending", "succeeded", "failed"}

OpIsOver(v) == deployOp[v] \in {"succeeded", "failed"}

(* deployStatusAction reads the newest row and, while that is in flight,    *)
(* its operation; it writes the row only when the operation is over.        *)
PollReads(p) ==
  /\ poll[p].at = "idle"
  /\ newest # 0
  /\ deployRow[newest] = "queued"
  /\ OpIsOver(newest)
  /\ poll' = [poll EXCEPT ![p] = [at |-> "write", version |-> newest,
                                  outcome |-> deployOp[newest]]]
  /\ UNCHANGED <<site, writer, committed, deploys, verdict, hook>>

PollWrites(p) ==
  /\ poll[p].at = "write"
  /\ deployRow' = [deployRow EXCEPT ![poll[p].version] = RowFor(poll[p].outcome)]
  /\ poll' = [poll EXCEPT ![p] = [at |-> "idle", version |-> 0, outcome |-> "none"]]
  /\ UNCHANGED <<site, writer, committed, deployOp, newest, verdict, hook>>

-----------------------------------------------------------------------------
WriterStep(w) ==
  \/ ReadForPublish(w) \/ (\E v \in Versions : ReadForRollback(w, v))
  \/ InsertVersion(w) \/ InsertThrows(w) \/ CommitVersion(w) \/ WriterAborts(w)
  \/ Push(w) \/ OpenDeploy(w) \/ RecordDeploy(w) \/ ChainStops(w)

DeliveryStep(d) ==
  \/ (\E v \in Versions : Receive(d, v))
  \/ Claim(d) \/ HookOperation(d) \/ HookRow(d) \/ HookFails(d)

PollStep(p) == PollReads(p) \/ PollWrites(p)

Next ==
  \/ \E w \in Writers : WriterStep(w)
  \/ \E v \in Versions : Timer(v) \/ HostDecides(v)
  \/ \E d \in Deliveries : DeliveryStep(d)
  \/ \E p \in Polls : PollStep(p)

Spec == Init /\ [][Next]_publishVars

-----------------------------------------------------------------------------
(* The history of the site as the owner sees it (listVersions).             *)
History == [v \in 1..current |-> snapshot[v]]

VH == INSTANCE VersionHistory WITH history <- History, Snapshots <- Publishes

(* publish and restoreVersion, read in one statement and written in the     *)
(* next, keep a history that only grows at its end, however their           *)
(* transactions interleave or abort: no version is lost or rewritten.       *)
ImplementsHistory == VH!Spec

(* A deploy is shown as live or failed only when its operation is over, and *)
(* as live only when that succeeded: settleOperation comes first, in the    *)
(* webhook as in the poll.                                                  *)
RowFollowsOperation ==
  \A v \in Versions :
    /\ deployRow[v] \in {"live", "failed"} => deployOp[v] \in {"succeeded", "failed"}
    /\ deployRow[v] = "live" => deployOp[v] = "succeeded"
=============================================================================
