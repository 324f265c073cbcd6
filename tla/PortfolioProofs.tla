--------------------------- MODULE PortfolioProofs ---------------------------
(***************************************************************************)
(* Theorems about the components of Portfolio, for any numbers of          *)
(* processes, campaigns, contacts, calls, tenants and posts: each has its  *)
(* inductive invariant, and the whole is, for every part, a behaviour of   *)
(* that part.                                                              *)
(***************************************************************************)
EXTENDS Portfolio, Integers, FiniteSetTheorems, SequenceTheorems, TLAPS

(***************************************************************************)
(* Publishing, for any number of publishes, rollbacks, webhook requests    *)
(* and polls.  The history grows by one because whoever holds the unique   *)
(* key of a version read the version before it as the current one; a       *)
(* version in the publish chain is its writer's alone, so nobody opens its *)
(* deploy twice.                                                           *)
(***************************************************************************)

(* The versions that are written are those up to the current one.           *)
Contiguous == \A v \in Versions : snapshot[v] # NoCall <=> v <= current

(* What a transaction has read.                                             *)
Reads ==
  \A w \in Writers : writer[w].at \in {"insert", "point"} =>
    /\ Number(w) \in Versions
    /\ writer[w].saw <= current
    /\ w \notin Publishes => writer[w].target \in 1..current

(* An uncommitted row is under the key, above the current version.          *)
Locks ==
  \A w \in Writers : writer[w].at = "point" =>
    /\ writer[w].version = Number(w)
    /\ rowLock[writer[w].version] = w
    /\ writer[w].version > current

(* Every version has a writer, and who has not begun is not one.            *)
Owned ==
  /\ \A v \in 1..current : \E w \in Writers :
       writer[w].version = v /\ writer[w].at \in {"push", "deploy", "record", "done"}
  /\ \A w \in Writers : writer[w].at \in {"idle", "insert"} => writer[w].version = 0

InChain(w) == writer[w].at \in {"push", "deploy", "record"}

(* The publish chain of a version is one writer's, and opens one deploy.    *)
Chains ==
  /\ \A w \in Writers : InChain(w) =>
       /\ writer[w].version \in 1..current
       /\ writer[w].at # "record" => deployOp[writer[w].version] = "none"
       /\ writer[w].at = "record" => deployOp[writer[w].version] # "none"
  /\ \A w, u \in Writers :
       InChain(w) /\ InChain(u) /\ writer[w].version = writer[u].version => w = u

Over(v) == deployOp[v] \in {"succeeded", "failed"}

(* What a deploy's operation, its row and the host say of one another.      *)
Deploys ==
  /\ \A v \in Versions :
       /\ v > current => deployOp[v] = "none"
       /\ deployRow[v] # "none" => deployOp[v] # "none"
       /\ verdict[v] # "none" => deployOp[v] # "none"
       /\ deployOp[v] = "failed" => verdict[v] # "succeeded"
  /\ newest # 0 => deployRow[newest] # "none"

(* What a webhook request and a poll have in hand.                          *)
InHand ==
  /\ \A d \in Deliveries : delivery[d].at # "idle" =>
       /\ delivery[d].version \in Versions
       /\ verdict[delivery[d].version] # "none"
       /\ delivery[d].at = "row" => Over(delivery[d].version)
  /\ \A p \in Polls : poll[p].at = "write" =>
       /\ poll[p].version \in Versions
       /\ poll[p].outcome = deployOp[poll[p].version]
       /\ Over(poll[p].version)

SiteInv == Contiguous /\ Reads /\ Locks /\ Owned
DeployInv == Chains /\ Deploys /\ InHand /\ RowFollowsOperation
IInv == TypeOK /\ SiteInv /\ DeployInv

-----------------------------------------------------------------------------
(* What the type invariant says of the numbers and of one writer.           *)
Places == {"idle", "insert", "point", "push", "deploy", "record", "done"}

WriterStates ==
  [at : Places, saw : {0} \cup Versions, target : {0} \cup Versions,
   version : {0} \cup Versions]

LEMMA Numbers ==
  ASSUME PublishAssumption, TypeOK
  PROVE  /\ Cardinality(Writers) \in Nat
         /\ Versions \subseteq Nat \ {0} /\ current \in Nat
         /\ \A v \in Versions, n \in Nat : n # 0 /\ n <= v => n \in Versions
         /\ writer \in [Writers -> WriterStates]
         /\ \A w \in Writers : /\ writer[w].at \in Places
                              /\ writer[w].saw \in Nat /\ writer[w].target \in Nat
                              /\ writer[w].version \in Nat
<1>1. Cardinality(Writers) \in Nat
  BY FS_CardinalityType DEF PublishAssumption
<1>2. Versions \subseteq Nat \ {0}
  BY <1>1 DEF Versions
<1>3. writer \in [Writers -> WriterStates]
  BY DEF TypeOK, WriterStates, Places
<1>4. \A w \in Writers : writer[w] \in WriterStates
  BY <1>3
<1>5. \A v \in Versions, n \in Nat : n # 0 /\ n <= v => n \in Versions
  BY <1>1 DEF Versions
<1>6. \A w \in Writers : /\ writer[w].at \in Places
                       /\ writer[w].saw \in {0} \cup Versions
                       /\ writer[w].target \in {0} \cup Versions
                       /\ writer[w].version \in {0} \cup Versions
  BY <1>4 DEF WriterStates
<1>7. current \in {0} \cup Versions
  BY DEF TypeOK
<1>8. {0} \cup Versions \subseteq Nat
  BY <1>2
<1>9. \A w \in Writers : /\ writer[w].at \in Places
                       /\ writer[w].saw \in Nat /\ writer[w].target \in Nat
                       /\ writer[w].version \in Nat
  BY <1>6, <1>8, Zenon
<1>10. current \in Nat
  BY <1>7, <1>8
<1> QED
  BY <1>1, <1>2, <1>3, <1>5, <1>9, <1>10, Zenon

(* A writer that only goes on to its next place.                            *)
Goes(w, to) == writer' = [writer EXCEPT ![w].at = to]

LEMMA Going ==
  ASSUME TypeOK, NEW w \in Writers, NEW to \in Places, Goes(w, to)
  PROVE  /\ writer' \in [Writers -> WriterStates]
         /\ writer'[w].at = to /\ writer'[w].saw = writer[w].saw
         /\ writer'[w].target = writer[w].target /\ writer'[w].version = writer[w].version
         /\ \A u \in Writers : u # w => writer'[u] = writer[u]
<1>1. writer \in [Writers -> WriterStates] /\ writer' = [writer EXCEPT ![w].at = to]
  BY DEF TypeOK, WriterStates, Places, Goes
<1> QED
  BY <1>1 DEF WriterStates

(* Whoever has not begun is one writer more than there are versions.        *)
LEMMA RoomForOne ==
  ASSUME PublishAssumption, TypeOK, SiteInv, NEW w \in Writers, writer[w].at = "idle"
  PROVE  current + 1 \in Versions
<1> DEFINE author == [v \in 1..current |-> CHOOSE u \in Writers :
                       writer[u].version = v
                         /\ writer[u].at \in {"push", "deploy", "record", "done"}]
           others == Writers \ {w}
<1>1. current \in Nat /\ Cardinality(Writers) \in Nat
  BY Numbers
<1>2. \A v \in 1..current : author[v] \in others /\ writer[author[v]].version = v
  <2> SUFFICES ASSUME NEW v \in 1..current
               PROVE  author[v] \in others /\ writer[author[v]].version = v
    OBVIOUS
  <2>1. \E u \in Writers : writer[u].version = v
                          /\ writer[u].at \in {"push", "deploy", "record", "done"}
    BY DEF SiteInv, Owned
  <2>2. /\ author[v] \in Writers /\ writer[author[v]].version = v
        /\ writer[author[v]].at \in {"push", "deploy", "record", "done"}
    BY <2>1
  <2> QED
    BY <2>2
<1>3. author \in Injection(1..current, others)
  <2>1. author \in [1..current -> others]
    BY <1>2
  <2>2. \A v, n \in 1..current : author[v] = author[n] => v = n
    BY <1>2
  <2> QED
    BY <2>1, <2>2 DEF Injection, IsInjective
<1>4. IsFiniteSet(others) /\ Cardinality(others) = Cardinality(Writers) - 1
  BY FS_RemoveElement DEF PublishAssumption
<1>5. Cardinality(1..current) <= Cardinality(others)
  BY <1>3, <1>4, FS_Injection
<1>6. Cardinality(1..current) = current
  <2>1. current \in Int /\ 1 \in Int
    BY <1>1
  <2>2. Cardinality(1..current) = IF 1 > current THEN 0 ELSE current - 1 + 1
    BY <2>1, FS_Interval
  <2> QED
    BY <1>1, <2>2
<1> QED
  BY <1>1, <1>4, <1>5, <1>6 DEF Versions

(* A step that leaves the deploys alone keeps what is said of them.         *)
LEMMA DeploysStand ==
  ASSUME PublishAssumption, TypeOK, TypeOK', DeployInv, current <= current', Chains',
         UNCHANGED <<deploys, verdict, hook, poll>>
  PROVE  DeployInv'
<1>1. current \in Nat /\ current' \in Nat /\ Versions \subseteq Nat
  BY Numbers DEF TypeOK
<1> QED
  BY <1>1 DEF DeployInv, Deploys, InHand, RowFollowsOperation, Over, deploys, hook

(* A step that leaves the site and its writers alone.                       *)
LEMMA SiteStands ==
  ASSUME SiteInv, UNCHANGED <<site, writer>>
  PROVE  SiteInv'
BY DEF SiteInv, Contiguous, Reads, Locks, Owned, Number, site

(* The chain goes on at a place, or not at all.                             *)
LEMMA SiteStandsInChain ==
  ASSUME PublishAssumption, TypeOK, SiteInv, NEW w \in Writers, InChain(w),
         NEW to \in {"deploy", "record", "done"}, Goes(w, to), UNCHANGED site
  PROVE  SiteInv'
<1>1. /\ writer'[w].at = to /\ writer'[w].version = writer[w].version
      /\ \A u \in Writers : u # w => writer'[u] = writer[u]
  BY Going DEF Places
<1>2. Contiguous'
  BY DEF SiteInv, Contiguous, site
<1>3. Reads' /\ Locks'
  BY <1>1 DEF SiteInv, Reads, Locks, Number, site
<1>4. Owned'
  BY <1>1 DEF SiteInv, Owned, InChain, site
<1> QED
  BY <1>2, <1>3, <1>4 DEF SiteInv
-----------------------------------------------------------------------------
(* The transaction of a version.                                            *)

LEMMA ReadStep ==
  ASSUME PublishAssumption, IInv, NEW w \in Writers,
         ReadForPublish(w) \/ (\E v \in Versions : ReadForRollback(w, v))
  PROVE  IInv'
<1>1. /\ TypeOK /\ SiteInv /\ DeployInv /\ writer[w].at = "idle"
      /\ UNCHANGED <<site, committed, deploys, verdict, hook, poll>>
  BY DEF IInv, ReadForPublish, ReadForRollback
<1>2. /\ current + 1 \in Versions /\ current \in Nat /\ Versions \subseteq Nat
      /\ \A v \in Versions : v # 0
      /\ writer \in [Writers -> WriterStates]
  BY <1>1, RoomForOne, Numbers
<1>3. PICK target \in {0} \cup Versions :
        /\ writer' \in [Writers -> WriterStates]
        /\ writer'[w].at = "insert" /\ writer'[w].saw = current
        /\ writer'[w].target = target /\ writer'[w].version = writer[w].version
        /\ \A u \in Writers : u # w => writer'[u] = writer[u]
        /\ w \notin Publishes => target \in 1..current
  <2>1. CASE ReadForPublish(w)
    <3>1. writer' = [writer EXCEPT ![w].at = "insert", ![w].saw = current] /\ w \in Publishes
      BY <2>1 DEF ReadForPublish
    <3>2. writer[w] \in WriterStates /\ writer[w].target \in {0} \cup Versions
      BY <1>2 DEF WriterStates
    <3>3. current \in {0} \cup Versions
      BY <1>1 DEF TypeOK
    <3>4. /\ writer' \in [Writers -> WriterStates]
          /\ writer'[w].at = "insert" /\ writer'[w].saw = current
          /\ writer'[w].target = writer[w].target /\ writer'[w].version = writer[w].version
          /\ \A u \in Writers : u # w => writer'[u] = writer[u]
      BY <1>2, <3>1, <3>3 DEF WriterStates, Places
    <3> QED
      BY <3>1, <3>2, <3>4
  <2>2. CASE \E v \in Versions : ReadForRollback(w, v)
    <3>1. PICK v \in Versions :
            /\ writer' = [writer EXCEPT ![w].at = "insert", ![w].saw = current,
                                       ![w].target = v]
            /\ snapshot[v] # NoCall
      BY <2>2 DEF ReadForRollback
    <3>2. v \in 1..current
      BY <1>1, <1>2, <3>1 DEF SiteInv, Contiguous
    <3>3. current \in {0} \cup Versions
      BY <1>1 DEF TypeOK
    <3>4. /\ writer' \in [Writers -> WriterStates]
          /\ writer'[w].at = "insert" /\ writer'[w].saw = current
          /\ writer'[w].target = v /\ writer'[w].version = writer[w].version
          /\ \A u \in Writers : u # w => writer'[u] = writer[u]
      BY <1>2, <3>1, <3>3 DEF WriterStates, Places
    <3> QED
      BY <3>2, <3>4
  <2> QED
    BY <2>1, <2>2
<1>4. TypeOK'
  BY <1>1, <1>3 DEF TypeOK, WriterStates, Places, site, deploys, hook
<1>5. SiteInv'
  <2>1. Contiguous'
    BY <1>1 DEF SiteInv, Contiguous, site
  <2>2. Reads'
    BY <1>1, <1>2, <1>3 DEF SiteInv, Reads, Number, site
  <2>3. Locks'
    BY <1>1, <1>3 DEF SiteInv, Locks, Number, site
  <2>4. Owned'
    BY <1>1, <1>3 DEF SiteInv, Owned, site
  <2> QED
    BY <2>1, <2>2, <2>3, <2>4 DEF SiteInv
<1>6. Chains'
  BY <1>1, <1>3 DEF DeployInv, Chains, InChain, site, deploys
<1> QED
  BY <1>1, <1>2, <1>4, <1>5, <1>6, DeploysStand DEF IInv, site

LEMMA InsertStep ==
  ASSUME PublishAssumption, IInv, NEW w \in Writers, InsertVersion(w)
  PROVE  IInv'
<1> DEFINE n == Number(w)
<1>1. /\ TypeOK /\ SiteInv /\ DeployInv
      /\ writer[w].at = "insert" /\ rowLock[n] = NoCall /\ snapshot[n] = NoCall
      /\ rowLock' = [rowLock EXCEPT ![n] = w]
      /\ UNCHANGED <<snapshot, current, committed, deploys, verdict, hook, poll>>
  BY DEF IInv, InsertVersion, Taken
<1>2. /\ n \in Versions /\ n > current
      /\ current \in Nat /\ Versions \subseteq Nat /\ writer \in [Writers -> WriterStates]
  BY <1>1, Numbers DEF SiteInv, Contiguous, Reads, Number
<1>3. /\ writer' \in [Writers -> WriterStates]
      /\ writer'[w].at = "point" /\ writer'[w].version = n
      /\ writer'[w].saw = writer[w].saw /\ writer'[w].target = writer[w].target
      /\ \A u \in Writers : u # w => writer'[u] = writer[u]
  <2>1. writer' = [writer EXCEPT ![w].at = "point", ![w].version = n]
    BY DEF InsertVersion
  <2> HIDE DEF n
  <2> QED
    BY <1>2, <2>1 DEF WriterStates, Places
<1>4. /\ rowLock' \in [Versions -> Writers \cup {NoCall}] /\ rowLock'[n] = w
      /\ \A v \in Versions : v # n => rowLock'[v] = rowLock[v]
  BY <1>1, <1>2 DEF TypeOK
<1>5. TypeOK'
  BY <1>1, <1>3, <1>4 DEF TypeOK, WriterStates, Places, deploys, hook
<1>6. SiteInv'
  <2>1. Contiguous'
    BY <1>1 DEF SiteInv, Contiguous
  <2>2. Reads'
    BY <1>1, <1>3 DEF SiteInv, Reads, Number
  <2>3. Locks'
    <3> SUFFICES ASSUME NEW u \in Writers, writer'[u].at = "point"
                 PROVE  /\ writer'[u].version = Number(u)'
                        /\ rowLock'[writer'[u].version] = u
                        /\ writer'[u].version > current'
      BY DEF Locks
    <3>1. CASE u = w
      BY <1>1, <1>2, <1>3, <1>4, <3>1 DEF Number
    <3>2. CASE u # w
      <4>1. writer'[u] = writer[u] /\ writer[u].at = "point"
        BY <1>3, <3>2
      <4>2. /\ writer[u].version = Number(u) /\ rowLock[writer[u].version] = u
            /\ writer[u].version > current /\ Number(u) \in Versions
        BY <1>1, <4>1 DEF SiteInv, Locks, Reads
      <4>3. writer[u].version # n
        BY <1>1, <4>2 DEF PublishAssumption
      <4> QED
        BY <1>1, <1>4, <4>1, <4>2, <4>3 DEF Number
    <3> QED
      BY <3>1, <3>2
  <2>4. Owned'
    BY <1>1, <1>3 DEF SiteInv, Owned
  <2> QED
    BY <2>1, <2>2, <2>3, <2>4 DEF SiteInv
<1>7. Chains'
  BY <1>1, <1>3 DEF DeployInv, Chains, InChain, deploys
<1> QED
  BY <1>1, <1>2, <1>5, <1>6, <1>7, DeploysStand DEF IInv

(* The insert throws, or the transaction is rolled back.                    *)
LEMMA AbortStep ==
  ASSUME PublishAssumption, IInv, NEW w \in Writers, InsertThrows(w) \/ WriterAborts(w)
  PROVE  IInv'
<1>1. /\ TypeOK /\ SiteInv /\ DeployInv /\ writer[w].at \in {"insert", "point"}
      /\ Goes(w, "done")
      /\ UNCHANGED <<snapshot, current, committed, deploys, verdict, hook, poll>>
  BY DEF IInv, InsertThrows, WriterAborts, site, Goes
<1>2. /\ writer' \in [Writers -> WriterStates]
      /\ writer'[w].at = "done" /\ writer'[w].version = writer[w].version
      /\ \A u \in Writers : u # w => writer'[u] = writer[u]
  BY <1>1, Going DEF Places
<1>3. /\ rowLock' \in [Versions -> Writers \cup {NoCall}]
      /\ \A v \in Versions : rowLock[v] # w => rowLock'[v] = rowLock[v]
  <2>1. rowLock \in [Versions -> Writers \cup {NoCall}]
    BY <1>1 DEF TypeOK
  <2>2. \/ rowLock' = rowLock
        \/ rowLock' = [v \in Versions |-> IF rowLock[v] = w THEN NoCall ELSE rowLock[v]]
    BY DEF InsertThrows, WriterAborts, site
  <2> QED
    BY <2>1, <2>2
<1>4. TypeOK'
  BY <1>1, <1>2, <1>3 DEF TypeOK, WriterStates, Places, deploys, hook
<1>5. SiteInv'
  <2>1. Contiguous'
    BY <1>1 DEF SiteInv, Contiguous
  <2>2. Reads'
    BY <1>1, <1>2 DEF SiteInv, Reads, Number
  <2>3. Locks'
    <3> SUFFICES ASSUME NEW u \in Writers, writer'[u].at = "point"
                 PROVE  /\ writer'[u].version = Number(u)'
                        /\ rowLock'[writer'[u].version] = u
                        /\ writer'[u].version > current'
      BY DEF Locks
    <3>1. u # w /\ writer'[u] = writer[u] /\ writer[u].at = "point"
      BY <1>2
    <3>2. /\ writer[u].version = Number(u) /\ rowLock[writer[u].version] = u
          /\ writer[u].version > current /\ Number(u) \in Versions
      BY <1>1, <3>1 DEF SiteInv, Locks, Reads
    <3> QED
      BY <1>1, <1>3, <3>1, <3>2 DEF Number
  <2>4. Owned'
    <3>1. /\ writer[w].at \notin {"push", "deploy", "record", "done"}
          /\ writer'[w].at \notin {"idle", "insert"}
      BY <1>1, <1>2
    <3> QED
      BY <1>1, <1>2, <3>1 DEF SiteInv, Owned
  <2> QED
    BY <2>1, <2>2, <2>3, <2>4 DEF SiteInv
<1>6. Chains'
  BY <1>1, <1>2 DEF DeployInv, Chains, InChain, deploys
<1>7. current' = current /\ current \in Nat
  BY <1>1, Numbers
<1> QED
  BY <1>1, <1>4, <1>5, <1>6, <1>7, DeploysStand DEF IInv
(* What a transaction at its commit writes: the next version, and a draft.  *)
LEMMA Committing ==
  ASSUME PublishAssumption, IInv, NEW w \in Writers, CommitVersion(w)
  PROVE  \E s \in Publishes, to \in {"push", "done"} :
           /\ current + 1 \in Versions
           /\ current \in Nat
           /\ writer[w].at = "point" /\ writer[w].version = current + 1
           /\ rowLock[current + 1] = w
           /\ current' = current + 1
           /\ snapshot' = [snapshot EXCEPT ![current + 1] = s]
           /\ Goes(w, to)
           /\ w \in Publishes \/ \E n \in 1..current : s = snapshot[n]
<1>1. TypeOK /\ SiteInv /\ writer[w].at = "point"
  BY DEF IInv, CommitVersion
<1>2. /\ current \in Nat /\ Versions \subseteq Nat \ {0} /\ writer[w].saw \in Nat
      /\ \A v \in Versions, n \in Nat : n # 0 /\ n <= v => n \in Versions
  BY <1>1, Numbers
<1>3. /\ writer[w].version = Number(w) /\ rowLock[writer[w].version] = w
      /\ writer[w].version > current /\ Number(w) \in Versions
      /\ writer[w].saw <= current
      /\ w \notin Publishes => writer[w].target \in 1..current
  BY <1>1 DEF SiteInv, Reads, Locks
<1>4. writer[w].version = current + 1
  BY <1>2, <1>3 DEF Number
<1>5. current + 1 \in Versions
  BY <1>3, <1>4
<1>6. PICK s \in Publishes, to \in {"push", "done"} :
        /\ snapshot' = [snapshot EXCEPT ![writer[w].version] = s]
        /\ Goes(w, to)
        /\ w \in Publishes \/ \E n \in 1..current : s = snapshot[n]
  <2>1. CASE w \in Publishes
    BY <2>1 DEF CommitVersion, Goes
  <2>2. CASE w \notin Publishes
    <3>1. writer[w].target \in 1..current /\ writer[w].target \in Versions
      BY <1>2, <1>3, <1>5, <2>2
    <3>2. snapshot[writer[w].target] \in Publishes
      BY <1>1, <1>2, <3>1 DEF SiteInv, Contiguous, TypeOK
    <3> QED
      BY <2>2, <3>1, <3>2 DEF CommitVersion, Goes
  <2> QED
    BY <2>1, <2>2
<1>7. current' = writer[w].version
  BY DEF CommitVersion, PointsAt
<1> QED
  BY <1>1, <1>2, <1>3, <1>4, <1>5, <1>6, <1>7

LEMMA CommitStep ==
  ASSUME PublishAssumption, IInv, NEW w \in Writers, CommitVersion(w)
  PROVE  IInv'
<1> DEFINE v == current + 1
<1>1. PICK s \in Publishes, to \in {"push", "done"} :
        /\ v \in Versions /\ current \in Nat
        /\ writer[w].at = "point" /\ writer[w].version = v /\ rowLock[v] = w
        /\ current' = v /\ snapshot' = [snapshot EXCEPT ![v] = s]
        /\ Goes(w, to)
  BY Committing
<1>2. /\ TypeOK /\ SiteInv /\ DeployInv
      /\ rowLock' = [rowLock EXCEPT ![v] = NoCall]
      /\ UNCHANGED <<committed, deploys, verdict, hook, poll>>
  BY <1>1 DEF IInv, CommitVersion
<1>3. /\ writer' \in [Writers -> WriterStates]
      /\ writer'[w].at = to /\ writer'[w].version = v
      /\ \A u \in Writers : u # w => writer'[u] = writer[u]
  BY <1>1, <1>2, Going DEF Places
<1>4. /\ Versions \subseteq Nat \ {0}
      /\ \A u \in Writers : writer[u].saw \in Nat /\ writer[u].version \in Nat
  BY <1>2, Numbers
<1>5. /\ rowLock' \in [Versions -> Writers \cup {NoCall}]
      /\ \A n \in Versions : n # v => rowLock'[n] = rowLock[n]
  BY <1>1, <1>2 DEF TypeOK
<1>6. /\ snapshot' \in [Versions -> Publishes \cup {NoCall}]
      /\ snapshot'[v] = s /\ \A n \in Versions : n # v => snapshot'[n] = snapshot[n]
  BY <1>1, <1>2 DEF TypeOK
<1> HIDE DEF v
<1>v. v = current + 1
  BY DEF v
<1>7. TypeOK'
  BY <1>1, <1>2, <1>3, <1>5, <1>6 DEF TypeOK, WriterStates, Places, deploys, hook
<1>8. SiteInv'
  <2>1. Contiguous'
    <3> SUFFICES ASSUME NEW n \in Versions PROVE snapshot'[n] # NoCall <=> n <= current'
      BY DEF Contiguous
    <3>1. s # NoCall
      BY DEF PublishAssumption, Writers
    <3>2. snapshot[n] # NoCall <=> n <= current
      BY <1>2 DEF SiteInv, Contiguous
    <3> QED
      BY <1>1, <1>4, <1>6, <1>v, <3>1, <3>2
  <2>2. Reads'
    <3> SUFFICES ASSUME NEW u \in Writers, writer'[u].at \in {"insert", "point"}
                 PROVE  /\ Number(u)' \in Versions
                        /\ writer'[u].saw <= current'
                        /\ u \notin Publishes => writer'[u].target \in 1..current'
      BY DEF Reads
    <3>1. u # w /\ writer'[u] = writer[u]
      BY <1>3
    <3>2. /\ Number(u) \in Versions /\ writer[u].saw <= current
          /\ u \notin Publishes => writer[u].target \in 1..current
      BY <1>2, <3>1 DEF SiteInv, Reads
    <3> QED
      BY <1>1, <1>4, <1>v, <3>1, <3>2 DEF Number
  <2>3. Locks'
    <3> SUFFICES ASSUME NEW u \in Writers, writer'[u].at = "point" PROVE FALSE
      BY DEF Locks
    <3>1. u # w /\ writer[u].at = "point"
      BY <1>3
    <3>2. /\ writer[u].version = writer[u].saw + 1 /\ rowLock[writer[u].version] = u
          /\ writer[u].version > current /\ writer[u].saw <= current
      BY <1>2, <3>1 DEF SiteInv, Locks, Reads, Number
    <3>3. writer[u].version = v
      BY <1>1, <1>4, <1>v, <3>2
    <3> QED
      BY <1>1, <3>1, <3>2, <3>3
  <2>4. Owned'
    <3>1. ASSUME NEW n \in 1..current'
          PROVE  \E u \in Writers : /\ writer'[u].version = n
                                   /\ writer'[u].at \in {"push", "deploy", "record", "done"}
      <4>1. CASE n = v
        BY <1>3, <4>1
      <4>2. CASE n # v
        <5>1. n \in 1..current
          BY <1>1, <1>v, <3>1, <4>2
        <5>2. PICK u \in Writers : /\ writer[u].version = n
                                  /\ writer[u].at \in {"push", "deploy", "record", "done"}
          BY <1>2, <5>1 DEF SiteInv, Owned
        <5>3. u # w
          BY <1>1, <5>2
        <5> QED
          BY <1>3, <5>2, <5>3
      <4> QED
        BY <4>1, <4>2
    <3>2. \A u \in Writers : writer'[u].at \in {"idle", "insert"} => writer'[u].version = 0
      BY <1>2, <1>3 DEF SiteInv, Owned
    <3> QED
      BY <3>1, <3>2 DEF Owned
  <2> QED
    BY <2>1, <2>2, <2>3, <2>4 DEF SiteInv
<1>9. Chains'
  <2>1. deployOp[v] = "none"
    BY <1>1, <1>2, <1>v DEF DeployInv, Deploys
  <2>2. \A u \in Writers : u # w /\ InChain(u)' =>
          /\ InChain(u) /\ writer'[u] = writer[u]
          /\ writer[u].version \in 1..current
    BY <1>2, <1>3 DEF DeployInv, Chains, InChain
  <2>3. ASSUME NEW u \in Writers, InChain(u)'
        PROVE  /\ writer'[u].version \in 1..current'
               /\ writer'[u].at # "record" => deployOp'[writer'[u].version] = "none"
               /\ writer'[u].at = "record" => deployOp'[writer'[u].version] # "none"
    <3>1. CASE u = w
      BY <1>1, <1>2, <1>3, <1>v, <2>1, <2>3, <3>1 DEF deploys, InChain
    <3>2. CASE u # w
      <4>1. /\ InChain(u) /\ writer'[u] = writer[u] /\ writer[u].version \in 1..current
        BY <2>2, <2>3, <3>2
      <4>2. /\ writer[u].at # "record" => deployOp[writer[u].version] = "none"
            /\ writer[u].at = "record" => deployOp[writer[u].version] # "none"
        BY <1>2, <4>1 DEF DeployInv, Chains
      <4>3. writer[u].version \in 1..current'
        BY <1>1, <1>v, <4>1
      <4> QED
        BY <1>2, <4>1, <4>2, <4>3 DEF deploys
    <3> QED
      BY <3>1, <3>2
  <2>4. ASSUME NEW u \in Writers, NEW x \in Writers, InChain(u)', InChain(x)',
               writer'[u].version = writer'[x].version
        PROVE  u = x
    <3>1. CASE u # w /\ x # w
      BY <1>2, <2>2, <2>4, <3>1 DEF DeployInv, Chains
    <3>2. CASE u = w /\ x # w
      <4>1. writer'[x].version \in 1..current /\ writer'[u].version = v
        BY <1>3, <2>2, <2>4, <3>2
      <4> QED
        BY <1>1, <1>v, <2>4, <4>1
    <3>3. CASE u # w /\ x = w
      <4>1. writer'[u].version \in 1..current /\ writer'[x].version = v
        BY <1>3, <2>2, <2>4, <3>3
      <4> QED
        BY <1>1, <1>v, <2>4, <4>1
    <3> QED
      BY <3>1, <3>2, <3>3
  <2> QED
    BY <2>3, <2>4 DEF Chains
<1> QED
  BY <1>1, <1>2, <1>7, <1>8, <1>9, <1>v, DeploysStand DEF IInv

-----------------------------------------------------------------------------
(* The publish chain.                                                       *)

LEMMA PushStep ==
  ASSUME PublishAssumption, IInv, NEW w \in Writers, Push(w) \/ ChainStops(w)
  PROVE  IInv'
<1>1. PICK to \in {"deploy", "done"} :
        /\ Goes(w, to) /\ InChain(w) /\ (to = "deploy" => writer[w].at = "push")
        /\ committed' \in {committed, writer[w].version}
        /\ UNCHANGED <<site, deploys, verdict, hook, poll>>
  BY DEF Push, ChainStops, Goes, InChain
<1>2. TypeOK /\ SiteInv /\ DeployInv
  BY DEF IInv
<1>3. /\ writer' \in [Writers -> WriterStates]
      /\ writer'[w].at = to /\ writer'[w].version = writer[w].version
      /\ \A u \in Writers : u # w => writer'[u] = writer[u]
  BY <1>1, <1>2, Going DEF Places
<1>4. TypeOK'
  <2>1. writer[w].version \in {0} \cup Versions
    BY <1>2, Numbers DEF WriterStates
  <2> QED
    BY <1>1, <1>2, <1>3, <2>1 DEF TypeOK, WriterStates, Places, site, deploys, hook
<1>5. SiteInv'
  BY <1>1, <1>2, SiteStandsInChain
<1>6. Chains'
  BY <1>1, <1>2, <1>3 DEF DeployInv, Chains, InChain, site, deploys
<1>7. current' = current /\ current \in Nat
  BY <1>1, <1>2, Numbers DEF site
<1> QED
  BY <1>1, <1>2, <1>4, <1>5, <1>6, <1>7, DeploysStand DEF IInv
LEMMA OpenStep ==
  ASSUME PublishAssumption, IInv, NEW w \in Writers, OpenDeploy(w)
  PROVE  IInv'
<1> DEFINE v == writer[w].version
<1>1. PICK status \in {"pending", "failed"} :
        /\ deployOp' = [deployOp EXCEPT ![v] = status]
        /\ Goes(w, "record") /\ writer[w].at = "deploy"
        /\ UNCHANGED <<site, committed, deployRow, newest, verdict, hook, poll>>
  BY DEF OpenDeploy, Goes
<1>2. TypeOK /\ SiteInv /\ DeployInv /\ InChain(w)
  BY <1>1 DEF IInv, InChain
<1>3. v \in 1..current /\ v \in Versions /\ deployOp[v] = "none"
  <2>1. v \in 1..current /\ deployOp[v] = "none"
    BY <1>1, <1>2 DEF DeployInv, Chains, InChain
  <2>2. v \in {0} \cup Versions /\ current \in Nat
    BY <1>2, Numbers DEF WriterStates
  <2> QED
    BY <2>1, <2>2
<1> HIDE DEF v
<1>4. /\ writer' \in [Writers -> WriterStates]
      /\ writer'[w].at = "record" /\ writer'[w].version = v
      /\ \A u \in Writers : u # w => writer'[u] = writer[u]
  BY <1>1, <1>2, Going DEF Places, v
<1>5. /\ deployOp' \in [Versions -> OpStatuses] /\ deployOp'[v] \in {"pending", "failed"}
      /\ \A n \in Versions : n # v => deployOp'[n] = deployOp[n]
  BY <1>1, <1>2, <1>3 DEF TypeOK, OpStatuses
<1>6. TypeOK'
  BY <1>1, <1>2, <1>4, <1>5 DEF TypeOK, WriterStates, Places, site, hook
<1>7. SiteInv'
  BY <1>1, <1>2, SiteStandsInChain
<1>8. Chains'
  <2>1. \A u \in Writers : u # w /\ InChain(u)' =>
          /\ InChain(u) /\ writer'[u] = writer[u]
          /\ writer[u].version # v /\ writer[u].version \in 1..current
          /\ writer[u].version \in Versions
    <3>1. \A u \in Writers : writer[u].version \in {0} \cup Versions
      BY <1>2, Numbers DEF WriterStates
    <3> QED
      BY <1>2, <1>4, <3>1 DEF DeployInv, Chains, InChain, v
  <2>2. ASSUME NEW u \in Writers, InChain(u)'
        PROVE  /\ writer'[u].version \in 1..current'
               /\ writer'[u].at # "record" => deployOp'[writer'[u].version] = "none"
               /\ writer'[u].at = "record" => deployOp'[writer'[u].version] # "none"
    <3>1. CASE u = w
      BY <1>1, <1>3, <1>4, <1>5, <3>1 DEF site
    <3>2. CASE u # w
      BY <1>1, <1>2, <1>5, <2>1, <2>2, <3>2 DEF DeployInv, Chains, site
    <3> QED
      BY <3>1, <3>2
  <2>3. \A u, x \in Writers :
          InChain(u)' /\ InChain(x)' /\ writer'[u].version = writer'[x].version => u = x
    BY <1>2, <1>4, <2>1 DEF DeployInv, Chains
  <2> QED
    BY <2>2, <2>3 DEF Chains
<1>9. Deploys' /\ InHand' /\ RowFollowsOperation'
  <2>1. /\ verdict[v] = "none" /\ deployRow[v] = "none" /\ ~ (v > current)
    <3>1. current \in Nat
      BY <1>2, Numbers
    <3> QED
      BY <1>2, <1>3, <3>1 DEF DeployInv, Deploys
  <2>2. Deploys'
    BY <1>1, <1>2, <1>5, <2>1 DEF DeployInv, Deploys, site
  <2>3. InHand'
    BY <1>1, <1>2, <1>3, <1>5, <2>1 DEF DeployInv, InHand, Over, hook
  <2>4. RowFollowsOperation'
    BY <1>1, <1>2, <1>5, <2>1 DEF DeployInv, RowFollowsOperation
  <2> QED
    BY <2>2, <2>3, <2>4
<1> QED
  BY <1>6, <1>7, <1>8, <1>9 DEF IInv, DeployInv

LEMMA RecordStep ==
  ASSUME PublishAssumption, IInv, NEW w \in Writers, RecordDeploy(w)
  PROVE  IInv'
<1> DEFINE v == writer[w].version
<1>1. PICK status \in {"failed", "queued"} :
        /\ deployRow' = [deployRow EXCEPT ![v] = status]
        /\ status = "failed" => deployOp[v] = "failed"
        /\ newest' = v
        /\ Goes(w, "done") /\ writer[w].at = "record"
        /\ UNCHANGED <<site, committed, deployOp, verdict, hook, poll>>
  BY DEF RecordDeploy, Goes
<1>2. TypeOK /\ SiteInv /\ DeployInv /\ InChain(w)
  BY <1>1 DEF IInv, InChain
<1>3. v \in Versions /\ deployOp[v] # "none"
  <2>1. v \in 1..current /\ deployOp[v] # "none"
    BY <1>1, <1>2 DEF DeployInv, Chains
  <2>2. v \in {0} \cup Versions /\ current \in Nat
    BY <1>2, Numbers DEF WriterStates
  <2> QED
    BY <2>1, <2>2
<1> HIDE DEF v
<1>4. /\ writer' \in [Writers -> WriterStates]
      /\ writer'[w].at = "done" /\ writer'[w].version = v
      /\ \A u \in Writers : u # w => writer'[u] = writer[u]
  BY <1>1, <1>2, Going DEF Places, v
<1>5. /\ deployRow' \in [Versions -> RowStatuses] /\ deployRow'[v] = status
      /\ \A n \in Versions : n # v => deployRow'[n] = deployRow[n]
  BY <1>1, <1>2, <1>3 DEF TypeOK, RowStatuses
<1>6. TypeOK'
  BY <1>1, <1>2, <1>3, <1>4, <1>5 DEF TypeOK, WriterStates, Places, site, hook
<1>7. SiteInv'
  BY <1>1, <1>2, SiteStandsInChain
<1>8. Chains'
  BY <1>1, <1>2, <1>4 DEF DeployInv, Chains, InChain, site
<1>9. Deploys'
  BY <1>1, <1>2, <1>3, <1>5 DEF DeployInv, Deploys, site
<1>10. InHand'
  BY <1>1, <1>2 DEF DeployInv, InHand, Over, hook
<1>11. RowFollowsOperation'
  BY <1>1, <1>2, <1>3, <1>5 DEF DeployInv, RowFollowsOperation
<1> QED
  BY <1>6, <1>7, <1>8, <1>9, <1>10, <1>11 DEF IInv, DeployInv

-----------------------------------------------------------------------------
(* What settles a deploy.                                                   *)

(* A pending operation comes to an end, or nothing changes.                 *)
LEMMA Settling ==
  ASSUME TypeOK, DeployInv, NEW v \in Versions, NEW outcome \in {"succeeded", "failed"},
         deployOp' = OpSettled(v, outcome), outcome = "failed" => verdict[v] # "succeeded",
         UNCHANGED <<site, writer, deployRow, newest, verdict, poll>>
  PROVE  /\ deployOp' \in [Versions -> OpStatuses]
         /\ \A n \in Versions : Over(n) => Over(n)' /\ deployOp'[n] = deployOp[n]
         /\ deployOp[v] # "none" => Over(v)'
         /\ Chains' /\ Deploys' /\ RowFollowsOperation'
<1>1. /\ deployOp' \in [Versions -> OpStatuses]
      /\ deployOp'[v] = IF deployOp[v] = "pending" THEN outcome ELSE deployOp[v]
      /\ \A n \in Versions : n # v => deployOp'[n] = deployOp[n]
  BY DEF TypeOK, OpSettled, OpStatuses
<1>2. \A n \in Versions : Over(n) => Over(n)' /\ deployOp'[n] = deployOp[n]
  BY <1>1 DEF Over
<1>3. deployOp[v] # "none" => Over(v)'
  BY <1>1 DEF Over, TypeOK, OpStatuses
<1>4. \A n \in Versions : deployOp'[n] = "none" <=> deployOp[n] = "none"
  BY <1>1
<1>5. Chains'
  <2>1. \A w \in Writers : writer[w].version \in {0} \cup Versions
    BY DEF TypeOK
  <2>2. \A w \in Writers : InChain(w) => writer[w].version \in Versions
    BY <2>1 DEF DeployInv, Chains
  <2> QED
    BY <1>4, <2>2 DEF DeployInv, Chains, InChain, site
<1>6. Deploys'
  BY <1>1, <1>4 DEF DeployInv, Deploys, site, TypeOK
<1>7. RowFollowsOperation'
  BY <1>2 DEF DeployInv, RowFollowsOperation, Over
<1> QED
  BY <1>1, <1>2, <1>3, <1>5, <1>6, <1>7
LEMMA TimerStep ==
  ASSUME IInv, NEW v \in Versions, Timer(v)
  PROVE  IInv'
<1>1. TypeOK /\ SiteInv /\ DeployInv /\ deployOp' = OpSettled(v, "succeeded")
      /\ UNCHANGED <<site, writer, committed, deployRow, newest, verdict, hook, poll>>
  BY DEF IInv, Timer
<1>2. /\ deployOp' \in [Versions -> OpStatuses]
      /\ \A n \in Versions : Over(n) => Over(n)' /\ deployOp'[n] = deployOp[n]
      /\ Chains' /\ Deploys' /\ RowFollowsOperation'
  BY <1>1, Settling
<1>3. TypeOK'
  BY <1>1, <1>2 DEF TypeOK, site, hook
<1>4. InHand'
  BY <1>1, <1>2 DEF DeployInv, InHand, hook
<1> QED
  BY <1>1, <1>2, <1>3, <1>4, SiteStands DEF IInv, DeployInv

LEMMA HostStep ==
  ASSUME IInv, NEW v \in Versions, HostDecides(v)
  PROVE  IInv'
<1>1. PICK outcome \in {"succeeded", "failed"} :
        /\ verdict' = [verdict EXCEPT ![v] = outcome]
        /\ verdict[v] = "none" /\ deployOp[v] \in {"pending", "succeeded"}
        /\ UNCHANGED <<site, writer, committed, deploys, hook, poll>>
  BY DEF HostDecides
<1>2. TypeOK /\ SiteInv /\ DeployInv
  BY DEF IInv
<1>3. /\ verdict' \in [Versions -> {"none", "succeeded", "failed"}] /\ verdict'[v] = outcome
      /\ \A n \in Versions : n # v => verdict'[n] = verdict[n]
  BY <1>1, <1>2 DEF TypeOK
<1>4. TypeOK'
  BY <1>1, <1>2, <1>3 DEF TypeOK, site, deploys, hook
<1>5. Chains'
  BY <1>1, <1>2 DEF DeployInv, Chains, InChain, site, deploys
<1>6. Deploys'
  BY <1>1, <1>2, <1>3 DEF DeployInv, Deploys, site, deploys
<1>7. InHand'
  BY <1>1, <1>2, <1>3 DEF DeployInv, InHand, Over, deploys, hook
<1>8. RowFollowsOperation'
  BY <1>1, <1>2 DEF DeployInv, RowFollowsOperation, deploys
<1> QED
  BY <1>1, <1>2, <1>4, <1>5, <1>6, <1>7, <1>8, SiteStands DEF IInv, DeployInv

(* A step of a request or a poll that writes neither operation nor row.     *)
LEMMA OnlyInHand ==
  ASSUME IInv, InHand', claimed' \subseteq Versions,
         delivery' \in [Deliveries -> [at : {"idle", "claim", "operation", "row"},
                                       version : {0} \cup Versions]],
         poll' \in [Polls -> [at : {"idle", "write"}, version : {0} \cup Versions,
                              outcome : OpStatuses]],
         UNCHANGED <<site, writer, committed, deploys, verdict>>
  PROVE  IInv'
<1>1. TypeOK'
  BY DEF IInv, TypeOK, site, deploys
<1>2. SiteInv'
  BY SiteStands DEF IInv
<1>3. Chains' /\ Deploys' /\ RowFollowsOperation'
  BY DEF IInv, DeployInv, Chains, Deploys, RowFollowsOperation, InChain, site, deploys
<1> QED
  BY <1>1, <1>2, <1>3 DEF IInv, DeployInv

DeliveryStates ==
  [at : {"idle", "claim", "operation", "row"}, version : {0} \cup Versions]

LEMMA ReceiveStep ==
  ASSUME IInv, NEW d \in Deliveries, NEW v \in Versions, Receive(d, v)
  PROVE  IInv'
<1>1. /\ delivery \in [Deliveries -> DeliveryStates] /\ claimed \subseteq Versions
      /\ poll \in [Polls -> [at : {"idle", "write"}, version : {0} \cup Versions,
                             outcome : OpStatuses]]
  BY DEF IInv, TypeOK, DeliveryStates
<1> DEFINE r == IF v \notin claimed /\ deployRow[v] # "none"
                THEN [at |-> "claim", version |-> v] ELSE NoDelivery
<1>2. /\ delivery' = [delivery EXCEPT ![d] = r]
      /\ r \in DeliveryStates
      /\ r.at = "idle" \/ (r.at = "claim" /\ r.version = v)
  <2>1. [at |-> "claim", version |-> v] \in DeliveryStates /\ NoDelivery \in DeliveryStates
    BY DEF NoDelivery, DeliveryStates
  <2>2. delivery' = [delivery EXCEPT ![d] = r]
    BY DEF Receive
  <2>3. CASE v \notin claimed /\ deployRow[v] # "none"
    BY <2>1, <2>2, <2>3
  <2>4. CASE ~ (v \notin claimed /\ deployRow[v] # "none")
    <3>1. r = NoDelivery
      BY <2>4
    <3>2. NoDelivery.at = "idle"
      BY DEF NoDelivery
    <3> QED
      BY <2>1, <2>2, <3>1, <3>2
  <2> QED
    BY <2>3, <2>4
<1> HIDE DEF r
<1>3. /\ delivery' \in [Deliveries -> DeliveryStates] /\ delivery'[d] = r
      /\ \A e \in Deliveries : e # d => delivery'[e] = delivery[e]
  BY <1>1, <1>2
<1>4. claimed' \subseteq Versions /\ verdict[v] # "none"
      /\ UNCHANGED <<site, writer, committed, deploys, verdict, poll>>
  BY <1>1 DEF Receive
<1>5. InHand'
  BY <1>2, <1>3, <1>4 DEF IInv, DeployInv, InHand, Over, deploys
<1> QED
  BY <1>1, <1>3, <1>4, <1>5, OnlyInHand DEF DeliveryStates

LEMMA ClaimStep ==
  ASSUME IInv, NEW d \in Deliveries, Claim(d) \/ HookFails(d)
  PROVE  IInv'
<1>1. /\ delivery \in [Deliveries -> DeliveryStates] /\ claimed \subseteq Versions
      /\ poll \in [Polls -> [at : {"idle", "write"}, version : {0} \cup Versions,
                             outcome : OpStatuses]]
      /\ delivery[d].at # "idle"
  BY DEF IInv, TypeOK, DeliveryStates, Claim, HookFails
<1>2. delivery[d].version \in Versions /\ verdict[delivery[d].version] # "none"
  BY <1>1 DEF IInv, DeployInv, InHand
<1> DEFINE onward == [at |-> "operation", version |-> delivery[d].version]
<1>3. PICK r \in {onward, NoDelivery} :
        /\ delivery' = [delivery EXCEPT ![d] = r]
        /\ r \in DeliveryStates
        /\ r.at = "idle" \/ (r.at = "operation" /\ r.version = delivery[d].version)
  <2>1. onward \in DeliveryStates /\ NoDelivery \in DeliveryStates
    BY <1>2 DEF NoDelivery, DeliveryStates
  <2>2. PICK r \in {onward, NoDelivery} : delivery' = [delivery EXCEPT ![d] = r]
    BY DEF Claim, HookFails
  <2>3. NoDelivery.at = "idle"
    BY DEF NoDelivery
  <2>4. onward.at = "operation" /\ onward.version = delivery[d].version
    OBVIOUS
  <2> QED
    BY <2>1, <2>2, <2>3, <2>4
<1> HIDE DEF onward
<1>4. /\ delivery' \in [Deliveries -> DeliveryStates] /\ delivery'[d] = r
      /\ \A e \in Deliveries : e # d => delivery'[e] = delivery[e]
  BY <1>1, <1>3
<1>5. claimed' \subseteq Versions
      /\ UNCHANGED <<site, writer, committed, deploys, verdict, poll>>
  BY <1>1, <1>2 DEF Claim, HookFails
<1>6. InHand'
  BY <1>2, <1>3, <1>4, <1>5 DEF IInv, DeployInv, InHand, Over, deploys
<1> QED
  BY <1>1, <1>4, <1>5, <1>6, OnlyInHand DEF DeliveryStates

LEMMA HookOperationStep ==
  ASSUME IInv, NEW d \in Deliveries, HookOperation(d)
  PROVE  IInv'
<1>0. PICK v \in Versions : v = delivery[d].version /\ verdict[v] # "none"
  BY DEF IInv, DeployInv, InHand, HookOperation
<1>1. /\ TypeOK /\ SiteInv /\ DeployInv /\ delivery[d].at = "operation"
      /\ deployOp' = OpSettled(v, verdict[v])
      /\ delivery' = [delivery EXCEPT ![d].at = "row"]
      /\ UNCHANGED <<site, writer, committed, deployRow, newest, verdict, claimed, poll>>
  BY <1>0 DEF IInv, HookOperation, HookSettles
<1>2. verdict[v] \in {"succeeded", "failed"} /\ deployOp[v] # "none"
  BY <1>0, <1>1 DEF TypeOK, DeployInv, Deploys
<1>3. /\ delivery' \in [Deliveries -> DeliveryStates]
      /\ delivery'[d].at = "row" /\ delivery'[d].version = v
      /\ \A e \in Deliveries : e # d => delivery'[e] = delivery[e]
  <2>1. delivery \in [Deliveries -> DeliveryStates]
    BY <1>1 DEF TypeOK, DeliveryStates
  <2> QED
    BY <1>0, <1>1, <2>1 DEF DeliveryStates
<1>4. /\ deployOp' \in [Versions -> OpStatuses]
      /\ \A n \in Versions : Over(n) => Over(n)' /\ deployOp'[n] = deployOp[n]
      /\ Over(v)'
      /\ Chains' /\ Deploys' /\ RowFollowsOperation'
  BY <1>1, <1>2, Settling
<1>5. TypeOK'
  BY <1>1, <1>3, <1>4 DEF TypeOK, DeliveryStates, site
<1>6. InHand'
  <2>1. ASSUME NEW e \in Deliveries, delivery'[e].at # "idle"
        PROVE  /\ delivery'[e].version \in Versions
               /\ verdict'[delivery'[e].version] # "none"
               /\ delivery'[e].at = "row" => Over(delivery[e].version)'
    <3>1. CASE e = d
      BY <1>0, <1>1, <1>2, <1>3, <1>4, <3>1 DEF Over
    <3>2. CASE e # d
      <4>1. delivery'[e] = delivery[e]
        BY <1>3, <3>2
      <4>2. /\ delivery[e].version \in Versions /\ verdict[delivery[e].version] # "none"
            /\ delivery[e].at = "row" => Over(delivery[e].version)
        BY <1>1, <2>1, <4>1 DEF DeployInv, InHand
      <4>3. Over(delivery[e].version) => Over(delivery[e].version)'
        BY <1>4, <4>1, <4>2 DEF Over
      <4> QED
        BY <1>1, <4>1, <4>2, <4>3
    <3> QED
      BY <3>1, <3>2
  <2>2. ASSUME NEW p \in Polls, poll'[p].at = "write"
        PROVE  /\ poll'[p].version \in Versions
               /\ poll'[p].outcome = deployOp'[poll'[p].version]
               /\ Over(poll[p].version)'
    BY <1>1, <1>4, <2>2 DEF DeployInv, InHand, Over
  <2> QED
    BY <2>1, <2>2 DEF InHand
<1> QED
  BY <1>1, <1>4, <1>5, <1>6, SiteStands DEF IInv, DeployInv

(* A row is written as its operation has ended.                             *)
LEMMA RowWritten ==
  ASSUME TypeOK, DeployInv, NEW v \in Versions, NEW outcome \in {"succeeded", "failed"},
         deployRow' = [deployRow EXCEPT ![v] = RowFor(outcome)],
         Over(v), outcome = "succeeded" => deployOp[v] = "succeeded",
         UNCHANGED <<site, writer, deployOp, newest, verdict>>
  PROVE  /\ deployRow' \in [Versions -> RowStatuses]
         /\ Chains' /\ Deploys' /\ RowFollowsOperation'
<1>1. /\ deployRow' \in [Versions -> RowStatuses]
      /\ deployRow'[v] = RowFor(outcome) /\ deployRow'[v] \in {"live", "failed"}
      /\ \A n \in Versions : n # v => deployRow'[n] = deployRow[n]
  BY DEF TypeOK, RowStatuses, RowFor
<1>2. Chains'
  BY DEF DeployInv, Chains, InChain, site
<1>3. Deploys'
  BY <1>1 DEF DeployInv, Deploys, Over, site
<1>4. RowFollowsOperation'
  BY <1>1 DEF DeployInv, RowFollowsOperation, Over, RowFor
<1> QED
  BY <1>1, <1>2, <1>3, <1>4

LEMMA HookRowStep ==
  ASSUME IInv, NEW d \in Deliveries, HookRow(d)
  PROVE  IInv'
<1> DEFINE v == delivery[d].version
<1>1. /\ TypeOK /\ SiteInv /\ DeployInv /\ delivery[d].at = "row"
      /\ deployRow' = [deployRow EXCEPT ![v] = RowFor(verdict[v])]
      /\ delivery' = [delivery EXCEPT ![d] = NoDelivery]
      /\ UNCHANGED <<site, writer, committed, deployOp, newest, verdict, claimed, poll>>
  BY DEF IInv, HookRow
<1>2. /\ v \in Versions /\ verdict[v] \in {"succeeded", "failed"} /\ Over(v)
      /\ verdict[v] = "succeeded" => deployOp[v] = "succeeded"
  <2>1. v \in Versions /\ verdict[v] # "none" /\ Over(v)
    BY <1>1 DEF DeployInv, InHand
  <2> QED
    BY <1>1, <2>1 DEF TypeOK, DeployInv, Deploys, Over
<1>3. /\ delivery' \in [Deliveries -> DeliveryStates] /\ delivery'[d].at = "idle"
      /\ \A e \in Deliveries : e # d => delivery'[e] = delivery[e]
  <2>1. delivery \in [Deliveries -> DeliveryStates] /\ NoDelivery \in DeliveryStates
    BY <1>1 DEF TypeOK, DeliveryStates, NoDelivery
  <2> QED
    BY <1>1, <2>1 DEF NoDelivery
<1>4. /\ deployRow' \in [Versions -> RowStatuses]
      /\ Chains' /\ Deploys' /\ RowFollowsOperation'
  BY <1>1, <1>2, RowWritten
<1> HIDE DEF v
<1>5. TypeOK'
  BY <1>1, <1>3, <1>4 DEF TypeOK, DeliveryStates, site
<1>6. InHand'
  BY <1>1, <1>3 DEF DeployInv, InHand, Over
<1> QED
  BY <1>1, <1>4, <1>5, <1>6, SiteStands DEF IInv, DeployInv

PollStates ==
  [at : {"idle", "write"}, version : {0} \cup Versions, outcome : OpStatuses]

LEMMA PollReadsStep ==
  ASSUME IInv, NEW p \in Polls, PollReads(p)
  PROVE  IInv'
<1>1. /\ TypeOK /\ DeployInv /\ newest \in Versions /\ Over(newest)
      /\ poll' = [poll EXCEPT ![p] = [at |-> "write", version |-> newest,
                                     outcome |-> deployOp[newest]]]
      /\ UNCHANGED <<site, writer, committed, deploys, verdict, hook>>
  BY DEF IInv, PollReads, OpIsOver, Over, TypeOK
<1>2. deployOp[newest] \in OpStatuses
  BY <1>1 DEF TypeOK
<1>3. /\ poll' \in [Polls -> PollStates]
      /\ poll'[p] = [at |-> "write", version |-> newest, outcome |-> deployOp[newest]]
      /\ \A q \in Polls : q # p => poll'[q] = poll[q]
  <2>1. poll \in [Polls -> PollStates]
    BY <1>1 DEF TypeOK, PollStates
  <2>2. [at |-> "write", version |-> newest, outcome |-> deployOp[newest]] \in PollStates
    BY <1>1, <1>2 DEF PollStates
  <2> QED
    BY <1>1, <2>1, <2>2
<1>4. InHand'
  BY <1>1, <1>3 DEF DeployInv, InHand, Over, deploys, hook
<1>5. /\ claimed' \subseteq Versions
      /\ delivery' \in [Deliveries -> DeliveryStates]
  BY <1>1 DEF TypeOK, DeliveryStates, hook
<1> QED
  BY <1>1, <1>3, <1>4, <1>5, OnlyInHand DEF PollStates, DeliveryStates

LEMMA PollWritesStep ==
  ASSUME IInv, NEW p \in Polls, PollWrites(p)
  PROVE  IInv'
<1> DEFINE v == poll[p].version
           outcome == poll[p].outcome
           idle == [at |-> "idle", version |-> 0, outcome |-> "none"]
<1>1. /\ TypeOK /\ SiteInv /\ DeployInv /\ poll[p].at = "write"
      /\ deployRow' = [deployRow EXCEPT ![v] = RowFor(outcome)]
      /\ poll' = [poll EXCEPT ![p] = idle]
      /\ UNCHANGED <<site, writer, committed, deployOp, newest, verdict, hook>>
  BY DEF IInv, PollWrites
<1>2. /\ v \in Versions /\ Over(v) /\ outcome = deployOp[v]
      /\ outcome \in {"succeeded", "failed"}
  <2>1. v \in Versions /\ Over(v) /\ outcome = deployOp[v]
    BY <1>1 DEF DeployInv, InHand
  <2> QED
    BY <2>1 DEF Over
<1>3. /\ poll' \in [Polls -> PollStates] /\ poll'[p].at = "idle"
      /\ \A q \in Polls : q # p => poll'[q] = poll[q]
  <2>1. poll \in [Polls -> PollStates] /\ idle \in PollStates
    BY <1>1 DEF TypeOK, PollStates, OpStatuses
  <2> QED
    BY <1>1, <2>1
<1>4. /\ deployRow' \in [Versions -> RowStatuses]
      /\ Chains' /\ Deploys' /\ RowFollowsOperation'
  BY <1>1, <1>2, RowWritten
<1> HIDE DEF v, outcome
<1>5. TypeOK'
  BY <1>1, <1>3, <1>4 DEF TypeOK, PollStates, site, hook
<1>6. InHand'
  BY <1>1, <1>3 DEF DeployInv, InHand, Over, hook
<1> QED
  BY <1>1, <1>4, <1>5, <1>6, SiteStands DEF IInv, DeployInv
-----------------------------------------------------------------------------
LEMMA InitIInv == ASSUME PublishAssumption PROVE Init => IInv
<1> SUFFICES ASSUME Init PROVE IInv
  OBVIOUS
<1>1. Cardinality(Writers) \in Nat
  BY FS_CardinalityType DEF PublishAssumption
<1>2. Versions \subseteq Nat \ {0}
  BY <1>1 DEF Versions
<1>3. TypeOK
  <2>1. writer \in [Writers -> WriterStates]
    BY DEF Init, WriterStates, Places
  <2>2. delivery \in [Deliveries -> DeliveryStates]
    BY DEF Init, NoDelivery, DeliveryStates
  <2>3. poll \in [Polls -> PollStates]
    BY DEF Init, PollStates, OpStatuses
  <2> QED
    BY <2>1, <2>2, <2>3 DEF Init, TypeOK, WriterStates, Places, DeliveryStates, PollStates,
       OpStatuses, RowStatuses
<1>4. /\ current = 0 /\ newest = 0
      /\ \A w \in Writers : writer[w].at = "idle" /\ writer[w].version = 0
      /\ \A v \in Versions : /\ snapshot[v] = NoCall /\ deployOp[v] = "none"
                            /\ deployRow[v] = "none" /\ verdict[v] = "none"
      /\ \A d \in Deliveries : delivery[d].at = "idle"
      /\ \A p \in Polls : poll[p].at = "idle"
  BY DEF Init, NoDelivery
<1>5. SiteInv
  <2>1. Contiguous
    BY <1>2, <1>4 DEF Contiguous
  <2>2. Reads /\ Locks
    BY <1>4 DEF Reads, Locks
  <2>3. 1..current = {}
    BY <1>4
  <2>4. Owned
    BY <1>4, <2>3 DEF Owned
  <2> QED
    BY <2>1, <2>2, <2>4 DEF SiteInv
<1>6. DeployInv
  BY <1>4 DEF DeployInv, Chains, InChain, Deploys, InHand, RowFollowsOperation
<1> QED
  BY <1>3, <1>5, <1>6 DEF IInv

LEMMA StepIInv == ASSUME PublishAssumption PROVE IInv /\ [Next]_publishVars => IInv'
<1> SUFFICES ASSUME IInv, [Next]_publishVars PROVE IInv'
  OBVIOUS
<1>1. ASSUME NEW w \in Writers, WriterStep(w) PROVE IInv'
  BY <1>1, ReadStep, InsertStep, AbortStep, CommitStep, PushStep, OpenStep, RecordStep
     DEF WriterStep
<1>2. ASSUME NEW v \in Versions, Timer(v) \/ HostDecides(v) PROVE IInv'
  BY <1>2, TimerStep, HostStep
<1>3. ASSUME NEW d \in Deliveries, DeliveryStep(d) PROVE IInv'
  BY <1>3, ReceiveStep, ClaimStep, HookOperationStep, HookRowStep DEF DeliveryStep
<1>4. ASSUME NEW p \in Polls, PollStep(p) PROVE IInv'
  BY <1>4, PollReadsStep, PollWritesStep DEF PollStep
<1>5. CASE UNCHANGED publishVars
  <2>1. InHand'
    BY <1>5 DEF IInv, DeployInv, InHand, Over, publishVars, deploys, hook
  <2>2. UNCHANGED <<site, writer, committed, deploys, verdict, hook, poll>>
    BY <1>5 DEF publishVars
  <2>3. /\ claimed' \subseteq Versions /\ delivery' \in [Deliveries -> DeliveryStates]
        /\ poll' \in [Polls -> PollStates]
    BY <2>2 DEF IInv, TypeOK, DeliveryStates, PollStates, hook
  <2> QED
    BY <2>1, <2>2, <2>3, OnlyInHand DEF DeliveryStates, PollStates
<1> QED
  BY <1>1, <1>2, <1>3, <1>4, <1>5 DEF Next

THEOREM SpecIInv == ASSUME PublishAssumption PROVE Spec => []IInv
<1>1. Init => IInv
  BY InitIInv
<1>2. IInv /\ [Next]_publishVars => IInv'
  BY StepIInv
<1> QED
  BY <1>1, <1>2, PTL DEF Spec

(* However the webhook (app/api/webhooks/vercel), the settle timers, the    *)
(* polls and the publish chains of any number of publishes interleave, a    *)
(* deploy is shown as live or failed only when its operation is over, and   *)
(* as live only when that succeeded.                                        *)
THEOREM RowFollows == ASSUME PublishAssumption PROVE Spec => []RowFollowsOperation
<1>1. IInv => RowFollowsOperation
  BY DEF IInv, DeployInv
<1> QED
  BY <1>1, SpecIInv, PTL

-----------------------------------------------------------------------------
(* The first n versions of a table, as a sequence.                          *)
LEMMA Prefix ==
  ASSUME NEW table, NEW n \in Nat, \A v \in 1..n : table[v] \in Publishes,
         NEW h, h = [v \in 1..n |-> table[v]]
  PROVE  /\ h \in Seq(Publishes) /\ Len(h) = n /\ DOMAIN h = 1..n
         /\ \A v \in 1..n : h[v] = table[v]
<1>1. h \in [1..n -> Publishes] /\ DOMAIN h = 1..n
  OBVIOUS
<1>2. h \in Seq(Publishes)
  BY <1>1, SeqDef
<1>3. 1..Len(h) = 1..n /\ Len(h) \in Nat
  BY <1>1, <1>2, LenProperties
<1>4. Len(h) = n
  <2>1. CASE Len(h) < n
    <3>1. n \in 1..n /\ n \notin 1..Len(h)
      BY <1>3, <2>1
    <3> QED
      BY <1>3, <3>1
  <2>2. CASE Len(h) > n
    <3>1. Len(h) \in 1..Len(h) /\ Len(h) \notin 1..n
      BY <1>3, <2>2
    <3> QED
      BY <1>3, <3>1
  <2> QED
    BY <1>3, <2>1, <2>2
<1> QED
  BY <1>1, <1>2, <1>4

(* The history, and the step that lengthens it.                             *)
LEMMA HistoryIsSeq ==
  ASSUME PublishAssumption, IInv
  PROVE  /\ History \in Seq(Publishes) /\ Len(History) = current /\ current \in Nat
         /\ DOMAIN History = 1..current
         /\ \A v \in 1..current : History[v] = snapshot[v] /\ snapshot[v] \in Publishes
<1>1. current \in Nat /\ current \in {0} \cup Versions
      /\ \A v \in Versions, n \in Nat : n # 0 /\ n <= v => n \in Versions
  BY Numbers DEF IInv, TypeOK
<1>2. \A v \in 1..current : snapshot[v] \in Publishes
  <2> SUFFICES ASSUME NEW v \in 1..current PROVE snapshot[v] \in Publishes
    OBVIOUS
  <2>1. v \in Nat /\ v # 0 /\ v <= current /\ current \in Versions
    BY <1>1
  <2>2. v \in Versions
    BY <1>1, <2>1
  <2>3. snapshot[v] # NoCall /\ snapshot[v] \in Publishes \cup {NoCall}
    BY <2>1, <2>2 DEF IInv, SiteInv, Contiguous, TypeOK
  <2> QED
    BY <2>3
<1>3. History = [v \in 1..current |-> snapshot[v]]
  BY DEF History
<1> QED
  BY <1>1, <1>2, <1>3, Prefix

LEMMA CommitAppends ==
  ASSUME PublishAssumption, IInv, NEW w \in Writers, CommitVersion(w)
  PROVE  VH!Next
<1>1. PICK s \in Publishes, to \in {"push", "done"} :
        /\ current + 1 \in Versions /\ current \in Nat
        /\ current' = current + 1
        /\ snapshot' = [snapshot EXCEPT ![current + 1] = s]
        /\ w \in Publishes \/ \E n \in 1..current : s = snapshot[n]
  BY Committing
<1>2. /\ History \in Seq(Publishes) /\ Len(History) = current
      /\ DOMAIN History = 1..current
      /\ \A v \in 1..current : History[v] = snapshot[v] /\ snapshot[v] \in Publishes
  BY HistoryIsSeq
<1>3. /\ snapshot'[current + 1] = s
      /\ \A v \in 1..current : snapshot'[v] = snapshot[v]
  <2>1. snapshot \in [Versions -> Publishes \cup {NoCall}]
    BY DEF IInv, TypeOK
  <2>2. \A v \in 1..current : v # current + 1
    BY <1>1
  <2>3. \A v \in 1..current : v \in Versions
    <3>1. \A v \in Versions, n \in Nat : n # 0 /\ n <= v => n \in Versions
      BY Numbers DEF IInv
    <3>2. \A v \in 1..current : v \in Nat /\ v # 0 /\ v <= current + 1
      BY <1>1
    <3> QED
      BY <1>1, <3>1, <3>2
  <2> QED
    BY <1>1, <2>1, <2>2, <2>3
<1>4. /\ History' \in Seq(Publishes) /\ Len(History') = current + 1
      /\ \A v \in 1..(current + 1) : History'[v] = snapshot'[v]
  <2>1. \A v \in 1..(current + 1) : snapshot'[v] \in Publishes
    <3>1. \A v \in 1..(current + 1) : v = current + 1 \/ v \in 1..current
      BY <1>1
    <3> QED
      BY <1>2, <1>3, <3>1
  <2>2. History' = [v \in 1..(current + 1) |-> snapshot'[v]]
    BY <1>1 DEF History
  <2>3. current + 1 \in Nat
    BY <1>1
  <2> QED
    BY <2>1, <2>2, <2>3, Prefix
<1>5. /\ Append(History, s) \in Seq(Publishes) /\ Len(Append(History, s)) = current + 1
      /\ \A v \in 1..current : Append(History, s)[v] = History[v]
      /\ Append(History, s)[current + 1] = s
  BY <1>2, AppendProperties
<1>6. \A v \in 1..(current + 1) : History'[v] = Append(History, s)[v]
  <2> SUFFICES ASSUME NEW v \in 1..(current + 1)
               PROVE  History'[v] = Append(History, s)[v]
    OBVIOUS
  <2>1. CASE v = current + 1
    BY <1>3, <1>4, <1>5, <2>1
  <2>2. CASE v # current + 1
    <3>1. v \in 1..current
      BY <1>1, <2>2
    <3> QED
      BY <1>2, <1>3, <1>4, <1>5, <3>1
  <2> QED
    BY <2>1, <2>2
<1>7. History' = Append(History, s)
  BY <1>4, <1>5, <1>6, SeqEqual
<1>8. CASE w \in Publishes
  BY <1>7 DEF VH!Next, VH!Publish
<1>9. CASE \E n \in 1..current : s = snapshot[n]
  <2>1. PICK n \in 1..current : s = snapshot[n]
    BY <1>9
  <2>2. n \in DOMAIN History /\ s = History[n]
    BY <1>2, <2>1
  <2> QED
    BY <1>7, <2>2 DEF VH!Next, VH!Rollback
<1> QED
  BY <1>1, <1>8, <1>9

(* Every behaviour of publish, restoreVersion (app/actions.ts) and the      *)
(* publish chain, with transactions that interleave, wait for one another   *)
(* and abort, is one of a history that only grows at its end.               *)
THEOREM PublishImplementsHistory == ASSUME PublishAssumption PROVE Spec => ImplementsHistory
<1>1. Init => VH!Init
  <2> SUFFICES ASSUME Init PROVE VH!Init
    OBVIOUS
  <2>1. History \in Seq(Publishes) /\ Len(History) = 0
    BY InitIInv, HistoryIsSeq DEF Init
  <2>2. History = << >>
    BY <2>1, EmptySeq
  <2> QED
    BY <2>2 DEF VH!Init
<1>2. IInv /\ [Next]_publishVars => [VH!Next]_History
  <2> SUFFICES ASSUME IInv, [Next]_publishVars PROVE VH!Next \/ UNCHANGED History
    OBVIOUS
  <2>1. (\E w \in Writers : CommitVersion(w)) \/ UNCHANGED <<snapshot, current>>
    <3>1. ASSUME NEW w \in Writers, WriterStep(w)
          PROVE  CommitVersion(w) \/ UNCHANGED <<snapshot, current>>
      BY <3>1 DEF WriterStep, ReadForPublish, ReadForRollback, InsertVersion, InsertThrows,
         WriterAborts, Push, OpenDeploy, RecordDeploy, ChainStops, site
    <3>2. ASSUME NEW v \in Versions, Timer(v) \/ HostDecides(v)
          PROVE  UNCHANGED <<snapshot, current>>
      BY <3>2 DEF Timer, HostDecides, site
    <3>3. ASSUME NEW d \in Deliveries, DeliveryStep(d)
          PROVE  UNCHANGED <<snapshot, current>>
      BY <3>3 DEF DeliveryStep, Receive, Claim, HookOperation, HookRow, HookFails, site
    <3>4. ASSUME NEW p \in Polls, PollStep(p)
          PROVE  UNCHANGED <<snapshot, current>>
      BY <3>4 DEF PollStep, PollReads, PollWrites, site
    <3>5. CASE UNCHANGED publishVars
      BY <3>5 DEF publishVars, site
    <3> QED
      BY <3>1, <3>2, <3>3, <3>4, <3>5 DEF Next
  <2>2. UNCHANGED <<snapshot, current>> => UNCHANGED History
    BY DEF History
  <2> QED
    BY <2>1, <2>2, CommitAppends
<1> QED
  BY <1>1, <1>2, SpecIInv, PTL DEF Spec, ImplementsHistory, VH!Spec

-----------------------------------------------------------------------------
(***************************************************************************)
(* Campaigns.  ResentOnlyBySlip says nothing of who is about to mail.  A   *)
(* campaign no write slipped on is in one dispatcher's hands at most, and  *)
(* in nobody's, and never mailed, while its status still lets it be sent.  *)
(***************************************************************************)
EditableStatuses == {"none", "draft", "scheduled"}

(* Past the mark, and not yet over.                                         *)
Works(r, c) ==
  runner[r].item = c /\ runner[r].at \in {"resolve", "mail", "marked", "record", "undo"}

Steady(c) ==
  /\ mailed[c] <= 1
  /\ campaign[c] \in EditableStatuses => mailed[c] = 0 /\ \A r \in C!Runners : ~Works(r, c)
  /\ \A r, q \in C!Runners : Works(r, c) /\ Works(q, c) => r = q
  /\ \A r \in C!Runners :
       Works(r, c) /\ runner[r].at \in {"resolve", "mail", "undo"} => mailed[c] = 0

(* What a dispatcher or an editor has in hand is a campaign it found in a   *)
(* status that let it go on.                                                *)
CampaignHands ==
  /\ \A r \in C!Runners :
       /\ runner[r].at \notin {"idle", "next", "done"} => runner[r].item \in Campaigns
       /\ runner[r].at = "mark" => runner[r].saw \in {"draft", "scheduled"}
  /\ \A e \in Editors : editor[e].at = "write" =>
       /\ editor[e].item \in Campaigns
       /\ editor[e].saw \in {"draft", "scheduled"}
       /\ editor[e].to \in {"draft", "scheduled"}

CampaignInv ==
  C!TypeOK /\ CampaignHands /\ \A c \in Campaigns : c \notin excused => Steady(c)

RunnerStates == [at : {"idle", "next", "mark", "resolve", "mail", "marked", "record", "undo",
                       "done"},
                 queue : SUBSET Campaigns, item : Campaigns \cup {NoCampaign},
                 saw : C!CampaignStatuses]
EditorStates == [at : {"idle", "write", "done"}, item : Campaigns \cup {NoCampaign},
                 saw : C!CampaignStatuses, to : C!CampaignStatuses]

LEMMA CampaignInit == ASSUME C!CampaignAssumption PROVE C!Init => CampaignInv
<1> SUFFICES ASSUME C!Init PROVE CampaignInv
  OBVIOUS
<1>1. C!TypeOK
  BY DEF C!CampaignAssumption, C!Init, C!TypeOK, C!NoRun, C!NoEdit, C!CampaignStatuses
<1>2. /\ \A r \in C!Runners : runner[r].at = "idle"
      /\ \A e \in Editors : editor[e].at = "idle"
      /\ \A c \in Campaigns : mailed[c] = 0
  BY DEF C!Init, C!NoRun, C!NoEdit
<1>3. CampaignHands
  BY <1>2 DEF CampaignHands
<1>4. \A c \in Campaigns : Steady(c)
  BY <1>2 DEF Steady, Works
<1> QED
  BY <1>1, <1>3, <1>4 DEF CampaignInv

(* A dispatcher goes over from one record to another.                       *)
LEMMA RunnerMoves ==
  ASSUME CampaignInv, NEW r \in C!Runners, NEW f \in RunnerStates,
         runner' = [runner EXCEPT ![r] = f]
  PROVE  /\ runner' \in [C!Runners -> RunnerStates]
         /\ runner'[r] = f
         /\ \A q \in C!Runners : q # r => runner'[q] = runner[q]
BY DEF CampaignInv, C!TypeOK, RunnerStates

(* Where campaigns and mails stand, a dispatcher that gets no new campaign  *)
(* past the mark disturbs nothing.                                          *)
LEMMA RunnerOnly ==
  ASSUME CampaignInv, NEW r \in C!Runners, NEW f \in RunnerStates,
         runner' = [runner EXCEPT ![r] = f],
         f.at \in {"idle", "next", "mark", "done", "mail"},
         f.at = "mail" => runner[r].at = "resolve" /\ f.item = runner[r].item,
         f.at = "mark" => f.item \in Campaigns /\ f.saw \in {"draft", "scheduled"},
         UNCHANGED <<campaign, due, mailed, excused, recipients, editor>>
  PROVE  CampaignInv'
<1>1. /\ runner' \in [C!Runners -> RunnerStates]
      /\ runner'[r] = f
      /\ \A q \in C!Runners : q # r => runner'[q] = runner[q]
  BY RunnerMoves
<1>2. C!TypeOK'
  BY <1>1 DEF CampaignInv, C!TypeOK, RunnerStates
<1>3. CampaignHands'
  BY <1>1 DEF CampaignInv, CampaignHands
<1>4. ASSUME NEW c \in Campaigns, c \notin excused' PROVE Steady(c)'
  <2>1. Steady(c)
    BY <1>4 DEF CampaignInv
  <2>2. \A q \in C!Runners : Works(q, c)' => Works(q, c)
    BY <1>1 DEF Works
  <2>3. \A q \in C!Runners : Works(q, c)' /\ runner'[q].at \in {"resolve", "mail", "undo"}
                               => runner[q].at \in {"resolve", "mail", "undo"}
    BY <1>1 DEF Works
  <2> QED
    BY <2>1, <2>2, <2>3 DEF Steady
<1> QED
  BY <1>2, <1>3, <1>4 DEF CampaignInv

(* A dispatcher past the mark moves on to label, by one of its steps or a   *)
(* throw: what it writes is its campaign's, and unless the step slips, one  *)
(* that may be sent again was not mailed, and nobody goes on with it.       *)
Advances(r, c, label) ==
  /\ c = runner[r].item
  /\ runner[r].at \in {"resolve", "mail", "marked", "record", "undo"}
  /\ label \in {"marked", "record", "undo", "next", "done"}
  /\ runner' = [runner EXCEPT ![r].at = label]
  /\ campaign' \in [Campaigns -> C!CampaignStatuses]
  /\ mailed' \in [Campaigns -> 0..MaxMailed]
  /\ \A d \in Campaigns : d # c => campaign'[d] = campaign[d] /\ mailed'[d] = mailed[d]
  /\ excused' \subseteq Campaigns /\ excused \subseteq excused'
  /\ c \notin excused' =>
       /\ mailed'[c] <= 1
       /\ campaign'[c] \in EditableStatuses => mailed'[c] = 0 /\ label \in {"next", "done"}
       /\ label = "undo" => mailed'[c] = 0
  /\ UNCHANGED <<due, recipients, editor>>

LEMMA WorkStep ==
  ASSUME CampaignInv, NEW r \in C!Runners, NEW c, NEW label, Advances(r, c, label)
  PROVE  CampaignInv'
<1> DEFINE f == [runner[r] EXCEPT !.at = label]
<1>a. /\ c = runner[r].item
      /\ runner[r].at \in {"resolve", "mail", "marked", "record", "undo"}
      /\ label \in {"marked", "record", "undo", "next", "done"}
      /\ runner' = [runner EXCEPT ![r] = f]
  BY DEF Advances
<1>b. /\ campaign' \in [Campaigns -> C!CampaignStatuses]
      /\ mailed' \in [Campaigns -> 0..MaxMailed]
      /\ \A d \in Campaigns : d # c => campaign'[d] = campaign[d] /\ mailed'[d] = mailed[d]
      /\ excused' \subseteq Campaigns /\ excused \subseteq excused'
      /\ UNCHANGED <<due, recipients, editor>>
  BY DEF Advances
<1>0. f \in RunnerStates /\ f.item = c /\ f.at = label /\ c \in Campaigns
  <2>1. runner[r] \in RunnerStates
    BY DEF CampaignInv, C!TypeOK, RunnerStates
  <2>2. c \in Campaigns
    BY <1>a DEF CampaignInv, CampaignHands
  <2> QED
    BY <1>a, <2>1, <2>2 DEF RunnerStates
<1>1. /\ runner' \in [C!Runners -> RunnerStates]
      /\ runner'[r] = f
      /\ \A q \in C!Runners : q # r => runner'[q] = runner[q]
  BY <1>0, <1>a, RunnerMoves
<1> HIDE DEF f
<1>2. C!TypeOK'
  BY <1>1, <1>b DEF CampaignInv, C!TypeOK, RunnerStates
<1>3. CampaignHands'
  BY <1>0, <1>1, <1>a, <1>b DEF CampaignInv, CampaignHands
<1>4. ASSUME NEW d \in Campaigns, d \notin excused' PROVE Steady(d)'
  <2>1. Steady(d)
    BY <1>4, <1>b DEF CampaignInv
  <2>2. \A q \in C!Runners : Works(q, d)' => Works(q, d)
    BY <1>0, <1>1, <1>a DEF Works
  <2>3. CASE d # c
    <3>1. \A q \in C!Runners : Works(q, d)' => runner'[q] = runner[q]
      BY <1>0, <1>1, <2>3 DEF Works
    <3> QED
      BY <1>b, <2>1, <2>2, <2>3, <3>1 DEF Steady
  <2>4. CASE d = c
    <3>1. Works(r, c) /\ \A q \in C!Runners : Works(q, c) => q = r
      BY <1>a, <2>1, <2>4 DEF Works, Steady
    <3>2. \A q \in C!Runners : Works(q, c)' => q = r /\ label \in {"marked", "record", "undo"}
      BY <1>0, <1>1, <1>a, <2>2, <2>4, <3>1 DEF Works
    <3>3. /\ mailed'[c] <= 1
          /\ campaign'[c] \in EditableStatuses => mailed'[c] = 0 /\ label \in {"next", "done"}
          /\ label = "undo" => mailed'[c] = 0
      BY <1>4, <2>4 DEF Advances
    <3> QED
      BY <1>0, <1>1, <2>4, <3>2, <3>3 DEF Steady, EditableStatuses
  <2> QED
    BY <2>3, <2>4
<1> QED
  BY <1>2, <1>3, <1>4 DEF CampaignInv

(* The mark: who acts on the status it read is the only one from there on.  *)
LEMMA MarkStep ==
  ASSUME CampaignInv, NEW r \in C!Runners, C!MarkSending(r)
  PROVE  CampaignInv'
<1>c. PICK c \in Campaigns : c = runner[r].item
  BY DEF C!MarkSending, CampaignInv, CampaignHands
<1> DEFINE f == [runner[r] EXCEPT !.at = "resolve"]
<1>0. /\ f \in RunnerStates /\ f.item = c /\ f.at = "resolve"
      /\ runner[r].saw \in {"draft", "scheduled"}
  <2>1. runner[r] \in RunnerStates
    BY DEF CampaignInv, C!TypeOK, RunnerStates
  <2>2. runner[r].saw \in {"draft", "scheduled"}
    BY DEF C!MarkSending, CampaignInv, CampaignHands
  <2> QED
    BY <1>c, <2>1, <2>2 DEF RunnerStates
<1>1. /\ runner' \in [C!Runners -> RunnerStates]
      /\ runner'[r] = f
      /\ \A q \in C!Runners : q # r => runner'[q] = runner[q]
  <2>1. runner' = [runner EXCEPT ![r] = f]
    BY DEF C!MarkSending, C!Goto
  <2> QED
    BY <1>0, <2>1, RunnerMoves
<1>2. /\ campaign' = [campaign EXCEPT ![c] = "sending"]
      /\ excused' = IF campaign[c] = runner[r].saw THEN excused ELSE excused \cup {c}
      /\ UNCHANGED <<due, mailed, recipients, editor>>
  BY <1>c DEF C!MarkSending, C!Slips, C!Item
<1> HIDE DEF f
<1>3. C!TypeOK'
  BY <1>0, <1>1, <1>2 DEF CampaignInv, C!TypeOK, RunnerStates, C!CampaignStatuses
<1>4. CampaignHands'
  BY <1>0, <1>1, <1>2 DEF CampaignInv, CampaignHands
<1>5. ASSUME NEW d \in Campaigns, d \notin excused' PROVE Steady(d)'
  <2>1. Steady(d)
    BY <1>2, <1>5 DEF CampaignInv
  <2>2. CASE d # c
    <3>1. campaign'[d] = campaign[d] /\ mailed'[d] = mailed[d]
      BY <1>2, <2>2 DEF CampaignInv, C!TypeOK
    <3>2. \A q \in C!Runners : Works(q, d)' => Works(q, d) /\ runner'[q] = runner[q]
      BY <1>0, <1>1, <2>2 DEF Works
    <3> QED
      BY <2>1, <3>1, <3>2 DEF Steady
  <2>3. CASE d = c
    <3>1. campaign[c] = runner[r].saw
      BY <1>2, <1>5, <2>3
    <3>2. mailed[c] = 0 /\ \A q \in C!Runners : ~Works(q, c)
      BY <1>0, <2>1, <2>3, <3>1 DEF Steady, EditableStatuses
    <3>3. campaign'[c] = "sending" /\ mailed'[c] = 0
      BY <1>0, <1>2, <3>2 DEF CampaignInv, C!TypeOK
    <3>4. \A q \in C!Runners : Works(q, c)' => q = r
      BY <1>1, <3>2 DEF Works
    <3> QED
      BY <2>3, <3>3, <3>4 DEF Steady, EditableStatuses
  <2> QED
    BY <2>2, <2>3
<1> QED
  BY <1>3, <1>4, <1>5 DEF CampaignInv

(* The editor's write goes on what it read, or slips.                       *)
LEMMA EditStep ==
  ASSUME CampaignInv, NEW e \in Editors, C!EditWrites(e)
  PROVE  CampaignInv'
<1> DEFINE c == editor[e].item
<1>0. /\ c \in Campaigns /\ editor[e] \in EditorStates
      /\ editor[e].saw \in {"draft", "scheduled"} /\ editor[e].to \in {"draft", "scheduled"}
  BY DEF C!EditWrites, CampaignInv, CampaignHands, C!TypeOK, EditorStates
<1>1. /\ editor' = [editor EXCEPT ![e].at = "done"]
      /\ campaign' = [campaign EXCEPT ![c] = editor[e].to]
      /\ excused' = IF campaign[c] = editor[e].saw THEN excused ELSE excused \cup {c}
      /\ due' = due \ {c}
      /\ UNCHANGED <<mailed, recipients, runner>>
  BY DEF C!EditWrites, C!Slips
<1>2. /\ editor' \in [Editors -> EditorStates]
      /\ editor'[e].at = "done"
      /\ \A o \in Editors : o # e => editor'[o] = editor[o]
  <2>1. editor \in [Editors -> EditorStates]
    BY DEF CampaignInv, C!TypeOK, EditorStates
  <2> QED
    BY <1>1, <2>1 DEF EditorStates
<1>3. C!TypeOK'
  BY <1>0, <1>1, <1>2 DEF CampaignInv, C!TypeOK, EditorStates, C!CampaignStatuses
<1>4. CampaignHands'
  BY <1>1, <1>2 DEF CampaignInv, CampaignHands
<1>5. ASSUME NEW d \in Campaigns, d \notin excused' PROVE Steady(d)'
  <2>1. Steady(d)
    BY <1>1, <1>5 DEF CampaignInv
  <2>2. campaign'[d] \in EditableStatuses => campaign[d] \in EditableStatuses
    BY <1>0, <1>1, <1>5 DEF CampaignInv, C!TypeOK, EditableStatuses
  <2> QED
    BY <1>1, <2>1, <2>2 DEF Steady, Works
<1> QED
  BY <1>3, <1>4, <1>5 DEF CampaignInv

(* A status that is written over one that let the campaign be edited.       *)
LEMMA CreateStep ==
  ASSUME CampaignInv, NEW c \in Campaigns, C!Create(c)
  PROVE  CampaignInv'
<1>1. PICK status \in {"draft", "scheduled"} : campaign' = [campaign EXCEPT ![c] = status]
  BY DEF C!Create
<1>2. campaign[c] = "none" /\ UNCHANGED <<due, mailed, excused, recipients, runner, editor>>
  BY DEF C!Create
<1>3. C!TypeOK'
  BY <1>1, <1>2 DEF CampaignInv, C!TypeOK, C!CampaignStatuses
<1>4. CampaignHands'
  BY <1>2 DEF CampaignInv, CampaignHands
<1>5. ASSUME NEW d \in Campaigns, d \notin excused' PROVE Steady(d)'
  <2>1. Steady(d)
    BY <1>2, <1>5 DEF CampaignInv
  <2>2. campaign'[d] \in EditableStatuses => campaign[d] \in EditableStatuses
    BY <1>1, <1>2 DEF CampaignInv, C!TypeOK, EditableStatuses
  <2> QED
    BY <1>2, <2>1, <2>2 DEF Steady, Works
<1> QED
  BY <1>3, <1>4, <1>5 DEF CampaignInv

LEMMA EditReadsStep ==
  ASSUME CampaignInv, NEW e \in Editors, NEW c \in Campaigns, C!EditReads(e, c)
  PROVE  CampaignInv'
<1>1. PICK to \in {"draft", "scheduled"} :
        editor' = [editor EXCEPT ![e] =
          [at |-> "write", item |-> c, saw |-> campaign[c], to |-> to]]
  BY DEF C!EditReads
<1> DEFINE f == [at |-> "write", item |-> c, saw |-> campaign[c], to |-> to]
<1>2. f \in EditorStates /\ f.item = c /\ f.saw \in {"draft", "scheduled"} /\ f.to = to
  BY DEF C!EditReads, C!Editable, EditorStates, C!CampaignStatuses
<1>3. /\ editor' \in [Editors -> EditorStates]
      /\ editor'[e] = f
      /\ \A o \in Editors : o # e => editor'[o] = editor[o]
  <2>1. editor \in [Editors -> EditorStates]
    BY DEF CampaignInv, C!TypeOK, EditorStates
  <2> QED
    BY <1>1, <1>2, <2>1
<1> HIDE DEF f
<1>4. UNCHANGED <<campaign, due, mailed, excused, recipients, runner>>
  BY DEF C!EditReads
<1>5. C!TypeOK'
  BY <1>3, <1>4 DEF CampaignInv, C!TypeOK, EditorStates
<1>6. CampaignHands'
  BY <1>2, <1>3, <1>4 DEF CampaignInv, CampaignHands
<1>7. \A d \in Campaigns : d \notin excused' => Steady(d)'
  BY <1>4 DEF CampaignInv, Steady, Works
<1> QED
  BY <1>5, <1>6, <1>7 DEF CampaignInv

(* A dispatcher's step past the mark.                                       *)
LEMMA SendStep ==
  ASSUME C!CampaignAssumption, CampaignInv, NEW r \in C!Runners,
         C!Resolve(r) \/ C!Mail(r) \/ C!AdapterRecords(r) \/ C!Record(r) \/ C!CallThrows(r)
           \/ C!Undo(r)
  PROVE  CampaignInv'
<1>c. PICK c \in Campaigns : c = runner[r].item
  BY DEF C!Resolve, C!Mail, C!AdapterRecords, C!Record, C!CallThrows, C!Undo,
         CampaignInv, CampaignHands
<1> DEFINE over == IF r \in CampaignTicks THEN "next" ELSE "done"
<1>0. /\ Works(r, c)
      /\ runner[r].at \in {"resolve", "mail", "marked", "record", "undo"}
      /\ campaign \in [Campaigns -> C!CampaignStatuses]
      /\ mailed \in [Campaigns -> 0..MaxMailed]
      /\ excused \subseteq Campaigns
      /\ c \notin excused => Steady(c)
  BY <1>c DEF C!Resolve, C!Mail, C!AdapterRecords, C!Record, C!CallThrows, C!Undo, Works,
              CampaignInv, C!TypeOK
<1>1. c \notin excused => campaign[c] \notin EditableStatuses
  BY <1>0 DEF Steady
<1>2. CASE C!Resolve(r)
  <2>1. CASE recipients
    <3> DEFINE f == [runner[r] EXCEPT !.at = "mail"]
    <3>1. f \in RunnerStates /\ f.item = c /\ f.at = "mail"
      BY <1>c DEF CampaignInv, C!TypeOK, RunnerStates
    <3>2. runner' = [runner EXCEPT ![r] = f] /\ runner[r].at = "resolve"
      BY <1>2, <2>1 DEF C!Resolve, C!Goto
    <3> HIDE DEF f
    <3> QED
      BY <1>c, <1>2, <2>1, <3>1, <3>2, RunnerOnly DEF C!Resolve
  <2>2. CASE ~recipients
    <3>1. /\ runner' = [runner EXCEPT ![r].at = over]
          /\ campaign' = [campaign EXCEPT ![c] = C!WithNobody(r)]
          /\ UNCHANGED <<due, mailed, excused, recipients, editor>>
          /\ runner[r].at = "resolve"
      BY <1>c, <1>2, <2>2 DEF C!Resolve, C!Over, C!Goto, C!Item
    <3>2. C!WithNobody(r) \in C!CampaignStatuses
      BY DEF C!WithNobody, C!CampaignStatuses
    <3>3. c \notin excused => mailed[c] = 0
      BY <1>0, <3>1 DEF Steady
    <3>4. Advances(r, c, over)
      BY <1>c, <1>0, <3>1, <3>2, <3>3 DEF Advances
    <3> QED
      BY <3>4, WorkStep
  <2> QED
    BY <2>1, <2>2
<1>3. CASE C!Mail(r)
  <2>1. /\ runner' = [runner EXCEPT ![r].at = "marked"]
        /\ mailed' = [mailed EXCEPT ![c] = @ + 1] /\ mailed[c] < MaxMailed
        /\ UNCHANGED <<campaign, due, excused, recipients, editor>>
        /\ runner[r].at = "mail"
    BY <1>c, <1>3 DEF C!Mail, C!Goto, C!Item
  <2>2. c \notin excused => mailed[c] = 0
    BY <1>0, <2>1 DEF Steady
  <2>3. mailed' \in [Campaigns -> 0..MaxMailed] /\ mailed'[c] = mailed[c] + 1
    BY <1>0, <2>1 DEF C!CampaignAssumption
  <2>4. Advances(r, c, "marked")
    BY <1>c, <1>0, <1>1, <2>1, <2>2, <2>3 DEF Advances
  <2> QED
    BY <2>4, WorkStep
<1>4. CASE C!AdapterRecords(r) \/ C!Record(r)
  <2>1. PICK label \in {"record", over} : runner' = [runner EXCEPT ![r].at = label]
    BY <1>4 DEF C!AdapterRecords, C!Record, C!Over, C!Goto
  <2>2. /\ campaign' = [campaign EXCEPT ![c] = "sent"]
        /\ UNCHANGED <<due, mailed, excused, recipients, editor>>
        /\ runner[r].at \in {"marked", "record"}
    BY <1>c, <1>4 DEF C!AdapterRecords, C!Record, C!Item
  <2>3. c \notin excused => mailed[c] <= 1
    BY <1>0 DEF Steady
  <2>4. Advances(r, c, label)
    BY <1>c, <1>0, <2>1, <2>2, <2>3 DEF Advances, C!CampaignStatuses, EditableStatuses
  <2> QED
    BY <2>4, WorkStep
<1>5. CASE C!CallThrows(r)
  <2>1. /\ runner' = [runner EXCEPT ![r].at = "undo"]
        /\ excused' = IF runner[r].at \in {"marked", "record"}
                      THEN excused \cup {c} ELSE excused
        /\ UNCHANGED <<campaign, due, mailed, recipients, editor>>
        /\ runner[r].at \in {"resolve", "mail", "marked", "record"}
    BY <1>c, <1>5 DEF C!CallThrows, C!Goto, C!Item
  <2>2. c \notin excused' => mailed[c] = 0 /\ c \notin excused
    BY <1>0, <2>1 DEF Steady
  <2>4. Advances(r, c, "undo")
    BY <1>c, <1>0, <1>1, <2>1, <2>2 DEF Advances
  <2> QED
    BY <2>4, WorkStep
<1>6. CASE C!Undo(r)
  <2>1. PICK status \in C!CampaignStatuses : campaign' = [campaign EXCEPT ![c] = status]
    <3>1. \/ campaign' = [campaign EXCEPT ![c] = IF r \in CampaignTicks THEN "scheduled" ELSE "draft"]
          \/ campaign' = [campaign EXCEPT ![c] = campaign[c]]
      BY <1>c, <1>0, <1>6 DEF C!Undo, C!Item
    <3> QED
      BY <1>0, <3>1 DEF C!CampaignStatuses
  <2>2. /\ runner' = [runner EXCEPT ![r].at = over]
        /\ UNCHANGED <<due, mailed, excused, recipients, editor>>
        /\ runner[r].at = "undo"
    BY <1>6 DEF C!Undo, C!Over, C!Goto
  <2>3. c \notin excused => mailed[c] = 0
    BY <1>0, <2>2 DEF Steady
  <2>4. Advances(r, c, over)
    BY <1>c, <1>0, <2>1, <2>2, <2>3 DEF Advances
  <2> QED
    BY <2>4, WorkStep
<1> QED
  BY <1>2, <1>3, <1>4, <1>5, <1>6

LEMMA CampaignStep ==
  ASSUME C!CampaignAssumption PROVE CampaignInv /\ [C!Next]_C!campaignVars => CampaignInv'
<1> SUFFICES ASSUME CampaignInv, [C!Next]_C!campaignVars PROVE CampaignInv'
  OBVIOUS
<1>r. \A r \in C!Runners : runner[r] \in RunnerStates
  BY DEF CampaignInv, C!TypeOK, RunnerStates
<1>1. ASSUME NEW c \in Campaigns, C!ComesDue(c) PROVE CampaignInv'
  BY <1>1 DEF C!ComesDue, CampaignInv, C!TypeOK, CampaignHands, Steady, Works
<1>2. ASSUME NEW r \in C!Runners, C!List(r) PROVE CampaignInv'
  <2>1. PICK queue \in SUBSET Campaigns :
          runner' = [runner EXCEPT ![r].at = "next", ![r].queue = queue]
    BY <1>2 DEF C!List, C!Due, CampaignInv, C!TypeOK
  <2> DEFINE f == [runner[r] EXCEPT !.at = "next", !.queue = queue]
  <2>2. f \in RunnerStates /\ f.at = "next"
    BY <1>r DEF RunnerStates
  <2>3. runner' = [runner EXCEPT ![r] = f]
    BY <2>1
  <2> HIDE DEF f
  <2> QED
    BY <1>2, <2>2, <2>3, RunnerOnly DEF C!List
<1>3. ASSUME NEW r \in C!Runners, C!TakeNext(r) PROVE CampaignInv'
  <2>1. UNCHANGED <<campaign, due, mailed, excused, recipients, editor>>
    BY <1>3 DEF C!TakeNext
  <2>2. CASE runner' = [runner EXCEPT ![r] = C!NoRun]
    <3>1. C!NoRun \in RunnerStates /\ C!NoRun.at = "idle"
      BY DEF C!NoRun, RunnerStates, C!CampaignStatuses
    <3> QED
      BY <2>1, <2>2, <3>1, RunnerOnly
  <2>3. ASSUME NEW c \in runner[r].queue,
               runner' = [runner EXCEPT ![r].at = "mark", ![r].queue = @ \ {c},
                                        ![r].item = c, ![r].saw = "scheduled"]
        PROVE  CampaignInv'
    <3> DEFINE f == [runner[r] EXCEPT !.at = "mark", !.queue = @ \ {c},
                                      !.item = c, !.saw = "scheduled"]
    <3>1. f \in RunnerStates /\ f.at = "mark" /\ f.item \in Campaigns /\ f.saw = "scheduled"
      BY <1>r DEF RunnerStates, C!CampaignStatuses
    <3>2. runner' = [runner EXCEPT ![r] = f]
      BY <2>3
    <3> HIDE DEF f
    <3> QED
      BY <2>1, <3>1, <3>2, RunnerOnly
  <2> QED
    BY <1>3, <2>2, <2>3 DEF C!TakeNext
<1>4. ASSUME NEW r \in C!Runners, NEW c \in Campaigns, C!SendNow(r, c) PROVE CampaignInv'
  <2> DEFINE f == [runner[r] EXCEPT !.at = "mark", !.item = c, !.saw = campaign[c]]
  <2>1. campaign[c] \in {"draft", "scheduled"}
    BY <1>4 DEF C!SendNow, C!Sendable
  <2>2. f \in RunnerStates /\ f.at = "mark" /\ f.item = c /\ f.saw = campaign[c]
    BY <1>r, <2>1 DEF RunnerStates, C!CampaignStatuses
  <2>3. runner' = [runner EXCEPT ![r] = f]
    BY <1>4 DEF C!SendNow
  <2> HIDE DEF f
  <2> QED
    BY <1>4, <2>1, <2>2, <2>3, RunnerOnly DEF C!SendNow
<1>5. ASSUME NEW r \in C!Runners, C!Dies(r) PROVE CampaignInv'
  <2>1. C!NoRun \in RunnerStates /\ C!NoRun.at = "idle"
    BY DEF C!NoRun, RunnerStates, C!CampaignStatuses
  <2> QED
    BY <1>5, <2>1, RunnerOnly DEF C!Dies
<1>6. CASE UNCHANGED C!campaignVars
  BY <1>6 DEF C!campaignVars, CampaignInv, C!TypeOK, CampaignHands, Steady, Works
<1>7. ASSUME NEW r \in C!Runners, C!RunnerStep(r) PROVE CampaignInv'
  BY <1>2, <1>3, <1>7, MarkStep, SendStep DEF C!RunnerStep
<1>8. CASE C!Next
  BY <1>1, <1>4, <1>5, <1>7, <1>8, CreateStep, EditReadsStep, EditStep, SendStep DEF C!Next
<1> QED
  BY <1>6, <1>8

THEOREM SpecCampaignInv == ASSUME C!CampaignAssumption PROVE C!Spec => []CampaignInv
<1>1. C!Init => CampaignInv
  BY CampaignInit
<1>2. CampaignInv /\ [C!Next]_C!campaignVars => CampaignInv'
  BY CampaignStep
<1> QED
  BY <1>1, <1>2, PTL DEF C!Spec

(* However dispatchers, senders and editors interleave, throw or die, a     *)
(* campaign goes out twice only if a writer acted on a status that had      *)
(* changed under it, or a campaign that was mailed could not be recorded as *)
(* sent (the "mark as sending" of api/cron/email-dispatch).                 *)
THEOREM ResentBySlip == C!Spec => []ResentOnlyBySlip
<1>1. CampaignInv => ResentOnlyBySlip
  BY DEF ResentOnlyBySlip, C!ResentOnlyBySlip, CampaignInv, C!TypeOK, Steady
<1>2. C!CampaignAssumption
  BY PortfolioAssumption
<1> QED
  BY <1>1, <1>2, SpecCampaignInv, PTL

(***************************************************************************)
(* Social posts.  RepublishedBySlip says nothing of who is about to        *)
(* publish.  A post of the agent on which no run of the cron slipped is in *)
(* the hands of one run at most; it is out only after that run has         *)
(* published it, and from then on its row is not scheduled, or that run is *)
(* about to write it.                                                      *)
(***************************************************************************)
PostStates == [status : S!PostStatuses, kind : S!PostKinds, day : S!Days, atVendor : BOOLEAN]
FillerStates == [at : {"idle", "fill"}, hour : Hours, missing : SUBSET S!Slots,
                 extras : SUBSET Extras]
TickStates == [at : {"idle", "next", "publish", "record"},
               queue : SUBSET S!PostIds, item : {0} \cup S!PostIds]

PostTypes ==
  /\ today \in FirstDay..LastDay
  /\ posts \in Seq(PostStates) /\ Len(posts) <= MaxPosts
  /\ published \in [S!PostIds -> 0..MaxPublished]
  /\ slipped \subseteq S!PostIds
  /\ filler \in [Fillers -> FillerStates]
  /\ tick \in [PostTicks -> TickStates]
  /\ owner \in {0} \cup S!PostIds

(* What a run of the cron, or the owner, has in hand is a row; and what is  *)
(* no row yet never went out.                                               *)
PostHands ==
  /\ \A t \in PostTicks :
       /\ tick[t].queue \subseteq 1..Len(posts)
       /\ tick[t].at \in {"publish", "record"} => tick[t].item \in 1..Len(posts)
       /\ tick[t].at \in {"idle", "next"} => tick[t].item = 0
       /\ tick[t].at = "idle" => tick[t].queue = {}
       /\ tick[t].item \notin tick[t].queue
  /\ owner \in 0..Len(posts)
  /\ \A p \in S!PostIds : p > Len(posts) => published[p] = 0

(* The post a run is about to publish, or has just published.               *)
At(t, p, label) == tick[t].item = p /\ tick[t].at = label

Once(p) ==
  /\ ~posts[p].atVendor
  /\ published[p] <= 1
  /\ \A t, u \in PostTicks : p \in S!Held(t) /\ p \in S!Held(u) => t = u
  /\ \A t \in PostTicks : p \in tick[t].queue \/ At(t, p, "publish") => published[p] = 0
  /\ posts[p].status = "scheduled" /\ published[p] # 0
       => \E t \in PostTicks : At(t, p, "record")

Unslipped(p) == posts[p].kind # "owner" /\ p \notin slipped

SocialInv ==
  PostTypes /\ PostHands /\ \A p \in 1..Len(posts) : Unslipped(p) => Once(p)

LEMMA SocialInit == ASSUME S!SocialAssumption PROVE S!Init => SocialInv
<1> SUFFICES ASSUME S!Init PROVE SocialInv
  OBVIOUS
<1>1. posts = <<>> /\ Len(posts) = 0 /\ posts \in Seq(PostStates)
  BY DEF S!Init
<1>2. tick = [t \in PostTicks |-> [at |-> "idle", queue |-> {}, item |-> 0]]
  BY DEF S!Init
<1>3. /\ tick \in [PostTicks -> TickStates]
      /\ \A t \in PostTicks : tick[t].at = "idle" /\ tick[t].queue = {} /\ tick[t].item = 0
  BY <1>2 DEF TickStates
<1>4. filler \in [Fillers -> FillerStates]
  BY DEF S!Init, FillerStates
<1>5. PostTypes
  BY <1>1, <1>3, <1>4 DEF S!Init, PostTypes, S!SocialAssumption, S!PostIds
<1>6. PostHands
  BY <1>1, <1>3 DEF S!Init, PostHands
<1> QED
  BY <1>1, <1>5, <1>6 DEF SocialInv

(* Only the clock, or the agent's runs, go on.                              *)
LEMMA FillerOnly ==
  ASSUME SocialInv, today' \in FirstDay..LastDay, filler' \in [Fillers -> FillerStates],
         UNCHANGED <<posts, published, slipped, tick, owner>>
  PROVE  SocialInv'
BY DEF SocialInv, PostTypes, PostHands, Once, Unslipped, At, S!Held

(* A row is added at the end.                                               *)
LEMMA AddStep ==
  ASSUME S!SocialAssumption, SocialInv, NEW kind \in S!PostKinds, NEW day \in S!Days,
         NEW atVendor \in BOOLEAN,
         S!Add(kind, day, atVendor), kind # "owner" => ~atVendor,
         filler' \in [Fillers -> FillerStates],
         UNCHANGED <<today, published, slipped, tick, owner>>
  PROVE  SocialInv'
<1> DEFINE f == [status |-> "scheduled", kind |-> kind, day |-> day, atVendor |-> atVendor]
<1>1. f \in PostStates /\ f.kind = kind /\ f.atVendor = atVendor
  BY DEF PostStates, S!PostStatuses
<1>2. posts' = Append(posts, f) /\ Len(posts) < MaxPosts /\ posts \in Seq(PostStates)
  BY DEF S!Add, SocialInv, PostTypes
<1> HIDE DEF f
<1>3. /\ posts' \in Seq(PostStates) /\ Len(posts) \in Nat
      /\ Len(posts') = Len(posts) + 1 /\ posts'[Len(posts) + 1] = f
      /\ \A p \in 1..Len(posts) : posts'[p] = posts[p]
  BY <1>1, <1>2
<1>4. PostTypes'
  BY <1>2, <1>3 DEF SocialInv, PostTypes, S!SocialAssumption
<1>5. PostHands'
  <2>1. \A t \in PostTicks : tick'[t] = tick[t]
    OBVIOUS
  <2>2. 1..Len(posts) \subseteq 1..Len(posts')
    BY <1>3
  <2>3. \A t \in PostTicks :
          /\ tick[t].queue \subseteq 1..Len(posts')
          /\ tick[t].at \in {"publish", "record"} => tick[t].item \in 1..Len(posts')
    BY <2>2 DEF SocialInv, PostHands
  <2>4. owner' \in 0..Len(posts') /\ \A p \in S!PostIds : p > Len(posts') => published'[p] = 0
    BY <1>3 DEF SocialInv, PostHands, S!PostIds
  <2> QED
    BY <2>1, <2>3, <2>4 DEF SocialInv, PostHands
<1>6. ASSUME NEW p \in 1..Len(posts'), Unslipped(p)' PROVE Once(p)'
  <2>1. CASE p \in 1..Len(posts)
    <3>1. posts'[p] = posts[p]
      BY <1>3, <2>1
    <3>2. Once(p)
      BY <1>6, <2>1, <3>1 DEF SocialInv, Unslipped
    <3> QED
      BY <3>1, <3>2 DEF Once, At, S!Held
  <2>2. CASE p = Len(posts) + 1
    <3>1. /\ posts'[p] = f /\ p \in S!PostIds /\ p > Len(posts) /\ p # 0
          /\ p \notin 1..Len(posts)
      BY <1>2, <1>3, <2>2 DEF S!PostIds, S!SocialAssumption
    <3>2. published'[p] = 0
      BY <3>1 DEF SocialInv, PostHands
    <3>3. \A t \in PostTicks : p \notin S!Held(t)'
      BY <3>1 DEF SocialInv, PostTypes, TickStates, PostHands, S!Held
    <3>4. ~posts'[p].atVendor
      BY <1>1, <1>6, <3>1 DEF Unslipped
    <3> QED
      BY <3>2, <3>3, <3>4 DEF Once, At, S!Held
  <2> QED
    BY <1>3, <2>1, <2>2
<1> QED
  BY <1>4, <1>5, <1>6 DEF SocialInv

(* A row is rewritten: its kind stays, no row goes back to "scheduled", and *)
(* none is handed to the vendor.                                            *)
Rewrites(p, f) ==
  /\ posts' = [posts EXCEPT ![p] = f]
  /\ f.kind = posts[p].kind
  /\ f.status = "scheduled" => posts[p].status = "scheduled"
  /\ f.atVendor => posts[p].atVendor

LEMMA Rewritten ==
  ASSUME SocialInv, NEW p \in 1..Len(posts), NEW f \in PostStates, Rewrites(p, f)
  PROVE  /\ posts' \in Seq(PostStates) /\ Len(posts') = Len(posts)
         /\ posts'[p] = f
         /\ \A q \in 1..Len(posts) :
              /\ q # p => posts'[q] = posts[q]
              /\ posts'[q].kind = posts[q].kind
              /\ posts'[q].status = "scheduled" => posts[q].status = "scheduled"
              /\ posts'[q].atVendor => posts[q].atVendor
<1>1. posts \in Seq(PostStates)
  BY DEF SocialInv, PostTypes
<1>2. posts' \in Seq(PostStates) /\ Len(posts') = Len(posts)
  BY <1>1 DEF Rewrites
<1>3. posts'[p] = f /\ \A q \in 1..Len(posts) : q # p => posts'[q] = posts[q]
  BY <1>1 DEF Rewrites
<1> QED
  BY <1>2, <1>3 DEF Rewrites

(* The owner, or the vendor that drops what it will not publish.            *)
LEMMA RowOnly ==
  ASSUME SocialInv, NEW p \in 1..Len(posts), NEW f \in PostStates, Rewrites(p, f),
         owner' \in 0..Len(posts), owner' \in {0} \cup S!PostIds,
         UNCHANGED <<today, published, slipped, filler, tick>>
  PROVE  SocialInv'
<1>1. /\ posts' \in Seq(PostStates) /\ Len(posts') = Len(posts)
      /\ \A q \in 1..Len(posts) :
           /\ posts'[q].kind = posts[q].kind
           /\ posts'[q].status = "scheduled" => posts[q].status = "scheduled"
           /\ posts'[q].atVendor => posts[q].atVendor
  BY Rewritten
<1>2. PostTypes' /\ PostHands'
  BY <1>1 DEF SocialInv, PostTypes, PostHands
<1>3. ASSUME NEW q \in 1..Len(posts), Unslipped(q)' PROVE Once(q)'
  <2>1. Once(q)
    BY <1>1, <1>3 DEF SocialInv, Unslipped
  <2> QED
    BY <1>1, <2>1 DEF Once, At, S!Held
<1> QED
  BY <1>1, <1>2, <1>3 DEF SocialInv

(* A run of the cron goes over from one record to another.                  *)
LEMMA TickMoves ==
  ASSUME SocialInv, NEW t \in PostTicks, NEW f \in TickStates,
         tick' = [tick EXCEPT ![t] = f]
  PROVE  /\ tick' \in [PostTicks -> TickStates]
         /\ tick'[t] = f
         /\ \A u \in PostTicks : u # t => tick'[u] = tick[u]
BY DEF SocialInv, PostTypes

LEMMA RowIds == ASSUME SocialInv, S!SocialAssumption PROVE 1..Len(posts) \subseteq S!PostIds
<1>1. Len(posts) \in Nat /\ Len(posts) <= MaxPosts
  BY DEF SocialInv, PostTypes
<1> QED
  BY <1>1 DEF S!PostIds, S!SocialAssumption

(* What keeps PostHands when one run goes on.                               *)
LEMMA HandsMove ==
  ASSUME SocialInv, NEW t \in PostTicks, NEW f,
         tick'[t] = f, \A u \in PostTicks : u # t => tick'[u] = tick[u],
         f.queue \subseteq 1..Len(posts), f.item \notin f.queue,
         f.at \in {"publish", "record"} => f.item \in 1..Len(posts),
         f.at \in {"idle", "next"} => f.item = 0,
         f.at = "idle" => f.queue = {},
         Len(posts') = Len(posts), UNCHANGED owner,
         \A p \in S!PostIds : p > Len(posts) => published'[p] = 0
  PROVE  PostHands'
BY DEF SocialInv, PostHands

LEMMA ListsStep ==
  ASSUME SocialInv, NEW t \in PostTicks, S!TickLists(t)
  PROVE  SocialInv'
<1> DEFINE f == [tick[t] EXCEPT !.at = "next", !.queue = S!DuePosts]
<1>0. /\ tick[t] \in TickStates /\ tick[t].queue = {} /\ tick[t].item = 0
      /\ S!DuePosts \subseteq 1..Len(posts) /\ S!DuePosts \subseteq S!PostIds
  BY DEF S!TickLists, SocialInv, PostTypes, PostHands, S!DuePosts, S!PostIds, TickStates
<1>1. f \in TickStates /\ f.at = "next" /\ f.queue = S!DuePosts /\ f.item = 0
  BY <1>0 DEF TickStates
<1>2. tick' = [tick EXCEPT ![t] = f]
  BY DEF S!TickLists
<1> HIDE DEF f
<1>3. /\ tick' \in [PostTicks -> TickStates]
      /\ tick'[t] = f
      /\ \A u \in PostTicks : u # t => tick'[u] = tick[u]
  BY <1>1, <1>2, TickMoves
<1>4. /\ UNCHANGED <<today, posts, published, filler, owner>>
      /\ slipped' = slipped \cup {p \in S!DuePosts : \E u \in PostTicks : p \in S!Held(u)}
  BY DEF S!TickLists
<1>5. PostTypes'
  BY <1>0, <1>3, <1>4 DEF SocialInv, PostTypes
<1>6. PostHands'
  <2>1. 0 \notin S!DuePosts /\ \A p \in S!PostIds : p > Len(posts) => published[p] = 0
    BY <1>0 DEF SocialInv, PostHands
  <2> QED
    BY <1>0, <1>1, <1>3, <1>4, <2>1, HandsMove
<1>7. ASSUME NEW p \in 1..Len(posts), Unslipped(p)' PROVE Once(p)'
  <2>1. Once(p) /\ (p \in S!DuePosts => \A u \in PostTicks : p \notin S!Held(u))
    BY <1>4, <1>7 DEF SocialInv, Unslipped
  <2>2. CASE p \notin S!DuePosts
    <3>1. \A u \in PostTicks : p \in S!Held(u)' => p \in S!Held(u)
      BY <1>1, <1>3, <2>2 DEF S!Held
    <3>2. \A u \in PostTicks : p \in tick'[u].queue \/ At(u, p, "publish")'
                               => p \in tick[u].queue \/ At(u, p, "publish")
      BY <1>1, <1>3, <2>2 DEF At
    <3>3. \A u \in PostTicks : At(u, p, "record") => At(u, p, "record")'
      BY <1>0, <1>3 DEF At
    <3> QED
      BY <1>4, <2>1, <3>1, <3>2, <3>3 DEF Once
  <2>3. CASE p \in S!DuePosts
    <3>1. published[p] = 0
      BY <2>1, <2>3 DEF Once, At, S!Held, S!DuePosts
    <3>2. \A u \in PostTicks : p \in S!Held(u)' => u = t
      BY <1>3, <2>1, <2>3 DEF S!Held
    <3> QED
      BY <1>4, <2>1, <3>1, <3>2 DEF Once
  <2> QED
    BY <2>2, <2>3
<1> QED
  BY <1>4, <1>5, <1>6, <1>7 DEF SocialInv

LEMMA TakesStep ==
  ASSUME SocialInv, NEW t \in PostTicks, S!TickTakes(t)
  PROVE  SocialInv'
<1>0. /\ tick[t] \in TickStates /\ tick[t].at = "next" /\ tick[t].item = 0
      /\ tick[t].queue \subseteq 1..Len(posts) /\ tick[t].queue \subseteq S!PostIds
      /\ UNCHANGED <<today, posts, published, slipped, filler, owner>>
  BY DEF S!TickTakes, SocialInv, PostTypes, PostHands, TickStates
<1>1. ASSUME NEW f \in TickStates, tick' = [tick EXCEPT ![t] = f],
             f.queue \subseteq tick[t].queue, f.item \in tick[t].queue \cup {0},
             f.item \notin f.queue,
             f.at \in {"idle", "publish"},
             f.at = "idle" => f.queue = {} /\ f.item = 0,
             f.at = "publish" => f.item \in tick[t].queue
      PROVE  SocialInv'
  <2>1. /\ tick' \in [PostTicks -> TickStates]
        /\ tick'[t] = f
        /\ \A u \in PostTicks : u # t => tick'[u] = tick[u]
    BY <1>1, TickMoves
  <2>2. PostTypes'
    BY <1>0, <2>1 DEF SocialInv, PostTypes
  <2>3. PostHands'
    <3>1. /\ f.queue \subseteq 1..Len(posts)
          /\ f.at = "publish" => f.item \in 1..Len(posts)
      BY <1>0, <1>1
    <3>2. \A p \in S!PostIds : p > Len(posts) => published[p] = 0
      BY DEF SocialInv, PostHands
    <3> QED
      BY <1>0, <1>1, <2>1, <3>1, <3>2, HandsMove
  <2>4. ASSUME NEW p \in 1..Len(posts), Unslipped(p)' PROVE Once(p)'
    <3>1. Once(p) /\ p # 0
      BY <1>0, <2>4 DEF SocialInv, Unslipped
    <3>2. \A u \in PostTicks : p \in S!Held(u)' => p \in S!Held(u)
      BY <1>1, <2>1, <3>1 DEF S!Held
    <3>3. \A u \in PostTicks : p \in tick'[u].queue \/ At(u, p, "publish")'
                               => p \in tick[u].queue \/ At(u, p, "publish")
      BY <1>1, <2>1, <3>1 DEF At
    <3>4. \A u \in PostTicks : At(u, p, "record") => At(u, p, "record")'
      BY <1>0, <2>1 DEF At
    <3> QED
      BY <1>0, <3>1, <3>2, <3>3, <3>4 DEF Once
  <2> QED
    BY <1>0, <2>2, <2>3, <2>4 DEF SocialInv
<1>2. CASE tick[t].queue = {}
  <2> DEFINE f == [tick[t] EXCEPT !.at = "idle"]
  <2>1. f \in TickStates /\ f.at = "idle" /\ f.queue = {} /\ f.item = 0
    BY <1>0, <1>2 DEF TickStates
  <2>2. tick' = [tick EXCEPT ![t] = f]
    BY <1>2 DEF S!TickTakes
  <2> HIDE DEF f
  <2> QED
    BY <1>1, <2>1, <2>2
<1>3. CASE tick[t].queue # {}
  <2>1. PICK p \in tick[t].queue :
          tick' = [tick EXCEPT ![t].at = "publish", ![t].queue = @ \ {p}, ![t].item = p]
    BY <1>3 DEF S!TickTakes
  <2> DEFINE f == [tick[t] EXCEPT !.at = "publish", !.queue = @ \ {p}, !.item = p]
  <2>2. /\ f \in TickStates /\ f.at = "publish" /\ f.queue = tick[t].queue \ {p} /\ f.item = p
    BY <1>0, <2>1 DEF TickStates
  <2>3. tick' = [tick EXCEPT ![t] = f]
    BY <2>1
  <2> HIDE DEF f
  <2> QED
    BY <1>1, <2>1, <2>2, <2>3
<1> QED
  BY <1>2, <1>3

(* It is published: the run is the only one with the post, which had not    *)
(* been out.                                                                *)
LEMMA PublishesStep ==
  ASSUME S!SocialAssumption, SocialInv, NEW t \in PostTicks, S!TickPublishes(t)
  PROVE  SocialInv'
<1>p. PICK p \in 1..Len(posts) : p = tick[t].item
  BY DEF S!TickPublishes, SocialInv, PostHands
<1>0. /\ tick[t] \in TickStates /\ At(t, p, "publish") /\ p \in S!PostIds
      /\ published \in [S!PostIds -> 0..MaxPublished] /\ published[p] < MaxPublished
      /\ published' = [published EXCEPT ![p] = @ + 1]
      /\ UNCHANGED <<today, posts, slipped, filler, owner>>
  BY <1>p DEF S!TickPublishes, S!Goes, SocialInv, PostTypes, TickStates, At
<1> DEFINE f == [tick[t] EXCEPT !.at = "record"]
<1>1. f \in TickStates /\ f.at = "record" /\ f.queue = tick[t].queue /\ f.item = p
  BY <1>0 DEF TickStates, At
<1>2. tick' = [tick EXCEPT ![t] = f]
  BY DEF S!TickPublishes
<1> HIDE DEF f
<1>3. /\ tick' \in [PostTicks -> TickStates]
      /\ tick'[t] = f
      /\ \A u \in PostTicks : u # t => tick'[u] = tick[u]
  BY <1>1, <1>2, TickMoves
<1>4. /\ published' \in [S!PostIds -> 0..MaxPublished] /\ published'[p] = published[p] + 1
      /\ \A q \in S!PostIds : q # p => published'[q] = published[q]
  BY <1>0 DEF S!SocialAssumption
<1>5. PostTypes'
  BY <1>0, <1>3, <1>4 DEF SocialInv, PostTypes
<1>6. PostHands'
  <2>1. \A q \in S!PostIds : q > Len(posts') => published'[q] = 0
    BY <1>0, <1>4 DEF SocialInv, PostHands, S!PostIds
  <2>2. p \notin tick[t].queue
    BY <1>0 DEF SocialInv, PostHands, At
  <2> QED
    BY <1>0, <1>1, <1>3, <2>1, <2>2 DEF SocialInv, PostHands
<1>7. ASSUME NEW q \in 1..Len(posts), Unslipped(q)' PROVE Once(q)'
  <2>1. Once(q) /\ q \in S!PostIds
    BY <1>0, <1>7, RowIds DEF SocialInv, Unslipped
  <2>2. \A u \in PostTicks : q \in S!Held(u)' => q \in S!Held(u)
    BY <1>0, <1>1, <1>3 DEF S!Held, At
  <2>3. CASE q # p
    <3>1. \A u \in PostTicks : q \in tick'[u].queue \/ At(u, q, "publish")'
                               => q \in tick[u].queue \/ At(u, q, "publish")
      BY <1>1, <1>3, <2>3 DEF At
    <3>2. \A u \in PostTicks : At(u, q, "record") => At(u, q, "record")'
      BY <1>0, <1>1, <1>3 DEF At
    <3>3. published'[q] = published[q]
      BY <1>4, <2>1, <2>3
    <3> QED
      BY <1>0, <2>1, <2>2, <3>1, <3>2, <3>3 DEF Once
  <2>4. CASE q = p
    <3>1. published'[q] = 1
      BY <1>0, <1>4, <2>1, <2>4 DEF Once
    <3>2. At(t, q, "record")'
      BY <1>1, <1>3, <2>4 DEF At
    <3>3. \A u \in PostTicks : q \in S!Held(u)' => u = t
      BY <1>0, <2>1, <2>2, <2>4 DEF Once, S!Held, At
    <3>4. \A u \in PostTicks : ~(q \in tick'[u].queue \/ At(u, q, "publish")')
      <4>1. \A u \in PostTicks : q \in tick'[u].queue \/ At(u, q, "publish")' => u = t
        BY <3>3 DEF S!Held, At
      <4>2. q \notin tick'[t].queue /\ ~At(t, q, "publish")'
        BY <1>1, <1>3, <1>6, <2>4 DEF At, PostHands
      <4> QED
        BY <4>1, <4>2
    <3> QED
      BY <1>0, <2>1, <2>2, <3>1, <3>2, <3>4 DEF Once
  <2> QED
    BY <2>3, <2>4
<1> QED
  BY <1>0, <1>5, <1>6, <1>7 DEF SocialInv

(* It is written down, as posted or as failed.                              *)
LEMMA RecordsStep ==
  ASSUME SocialInv, NEW t \in PostTicks, S!TickRecords(t) \/ S!TickFails(t)
  PROVE  SocialInv'
<1>p. PICK p \in 1..Len(posts) : p = tick[t].item
  BY DEF S!TickRecords, S!TickFails, SocialInv, PostHands
<1>s. PICK status \in {"posted", "failed"} : posts' = [posts EXCEPT ![p].status = status]
  BY <1>p DEF S!TickRecords, S!TickFails, S!Recorded, S!SetStatus
<1> DEFINE g == [posts[p] EXCEPT !.status = status]
<1>0. /\ tick[t] \in TickStates /\ tick[t].item = p
      /\ UNCHANGED <<today, published, slipped, filler, owner>>
      /\ posts \in Seq(PostStates) /\ posts[p] \in PostStates
  BY <1>p DEF S!TickRecords, S!TickFails, SocialInv, PostTypes, TickStates
<1>1. g \in PostStates /\ Rewrites(p, g) /\ g.status # "scheduled"
  BY <1>0, <1>s DEF PostStates, S!PostStatuses, Rewrites
<1> HIDE DEF g
<1>2. /\ posts' \in Seq(PostStates) /\ Len(posts') = Len(posts)
      /\ posts'[p] = g
      /\ \A q \in 1..Len(posts) :
           /\ posts'[q].kind = posts[q].kind
           /\ posts'[q].status = "scheduled" => posts[q].status = "scheduled"
           /\ posts'[q].atVendor => posts[q].atVendor
  BY <1>1, Rewritten
<1> DEFINE f == [tick[t] EXCEPT !.at = "next", !.item = 0]
<1>3. f \in TickStates /\ f.at = "next" /\ f.queue = tick[t].queue /\ f.item = 0
  BY <1>0 DEF TickStates
<1>4. tick' = [tick EXCEPT ![t] = f]
  BY DEF S!TickRecords, S!TickFails
<1> HIDE DEF f
<1>5. /\ tick' \in [PostTicks -> TickStates]
      /\ tick'[t] = f
      /\ \A u \in PostTicks : u # t => tick'[u] = tick[u]
  BY <1>3, <1>4, TickMoves
<1>6. PostTypes'
  BY <1>0, <1>2, <1>5 DEF SocialInv, PostTypes
<1>7. PostHands'
  <2>1. 0 \notin tick[t].queue
    BY DEF SocialInv, PostHands
  <2> QED
    BY <1>0, <1>2, <1>3, <1>5, <2>1 DEF SocialInv, PostHands
<1>8. ASSUME NEW q \in 1..Len(posts), Unslipped(q)' PROVE Once(q)'
  <2>1. Once(q)
    BY <1>0, <1>2, <1>8 DEF SocialInv, Unslipped
  <2>2. \A u \in PostTicks : q \in S!Held(u)' => q \in S!Held(u)
    BY <1>3, <1>5 DEF S!Held
  <2>3. \A u \in PostTicks : q \in tick'[u].queue \/ At(u, q, "publish")'
                             => q \in tick[u].queue \/ At(u, q, "publish")
    BY <1>3, <1>5 DEF At
  <2>4. q # p => \A u \in PostTicks : At(u, q, "record") => At(u, q, "record")'
    BY <1>0, <1>5 DEF At
  <2>5. ~posts'[q].atVendor
    BY <1>2, <2>1 DEF Once
  <2>6. posts'[q].status = "scheduled" => posts[q].status = "scheduled" /\ q # p
    BY <1>1, <1>2
  <2> QED
    BY <1>0, <2>1, <2>2, <2>3, <2>4, <2>5, <2>6 DEF Once
<1> QED
  BY <1>2, <1>6, <1>7, <1>8 DEF SocialInv

(* The run dies; what it had just published has slipped.                    *)
LEMMA DiesStep ==
  ASSUME SocialInv, NEW t \in PostTicks, S!TickDies(t)
  PROVE  SocialInv'
<1> DEFINE f == [at |-> "idle", queue |-> {}, item |-> 0]
<1>0. /\ tick[t] \in TickStates
      /\ slipped' = IF tick[t].at = "record" THEN slipped \cup {tick[t].item} ELSE slipped
      /\ UNCHANGED <<today, posts, published, filler, owner>>
      /\ tick[t].at = "record" => tick[t].item \in S!PostIds
  BY DEF S!TickDies, SocialInv, PostTypes, PostHands, TickStates
<1>1. f \in TickStates /\ f.at = "idle" /\ f.queue = {} /\ f.item = 0
  BY DEF TickStates
<1>2. tick' = [tick EXCEPT ![t] = f]
  BY DEF S!TickDies
<1> HIDE DEF f
<1>3. /\ tick' \in [PostTicks -> TickStates]
      /\ tick'[t] = f
      /\ \A u \in PostTicks : u # t => tick'[u] = tick[u]
  BY <1>1, <1>2, TickMoves
<1>4. PostTypes'
  BY <1>0, <1>3 DEF SocialInv, PostTypes
<1>5. PostHands'
  BY <1>0, <1>1, <1>3 DEF SocialInv, PostHands
<1>6. ASSUME NEW q \in 1..Len(posts), Unslipped(q)' PROVE Once(q)'
  <2>1. Once(q) /\ q # 0 /\ ~At(t, q, "record")
    BY <1>0, <1>6 DEF SocialInv, Unslipped, At
  <2>2. \A u \in PostTicks : q \in S!Held(u)' => q \in S!Held(u)
    BY <1>1, <1>3, <2>1 DEF S!Held
  <2>3. \A u \in PostTicks : q \in tick'[u].queue \/ At(u, q, "publish")'
                             => q \in tick[u].queue \/ At(u, q, "publish")
    BY <1>1, <1>3, <2>1 DEF At
  <2>4. \A u \in PostTicks : At(u, q, "record") => At(u, q, "record")'
    BY <1>3, <2>1 DEF At
  <2> QED
    BY <1>0, <2>1, <2>2, <2>3, <2>4 DEF Once
<1> QED
  BY <1>0, <1>4, <1>5, <1>6 DEF SocialInv

(* The vendor publishes what it was handed: never a post of the agent.      *)
LEMMA VendorStep ==
  ASSUME S!SocialAssumption, SocialInv, NEW p \in 1..Len(posts), S!VendorPublishes(p)
  PROVE  SocialInv'
<1> DEFINE g == [posts[p] EXCEPT !.atVendor = FALSE]
<1>0. /\ posts[p].atVendor /\ posts[p] \in PostStates /\ p \in S!PostIds
      /\ published \in [S!PostIds -> 0..MaxPublished] /\ published[p] < MaxPublished
      /\ published' = [published EXCEPT ![p] = @ + 1]
      /\ UNCHANGED <<today, slipped, filler, tick, owner>>
      /\ posts' = [posts EXCEPT ![p] = g]
  BY DEF S!VendorPublishes, S!Goes, SocialInv, PostTypes, S!PostIds, S!SocialAssumption
<1>1. g \in PostStates /\ Rewrites(p, g)
  BY <1>0 DEF PostStates, Rewrites
<1> HIDE DEF g
<1>2. /\ posts' \in Seq(PostStates) /\ Len(posts') = Len(posts)
      /\ \A q \in 1..Len(posts) :
           /\ q # p => posts'[q] = posts[q]
           /\ posts'[q].kind = posts[q].kind
  BY <1>1, Rewritten
<1>3. /\ published' \in [S!PostIds -> 0..MaxPublished]
      /\ \A q \in S!PostIds : q # p => published'[q] = published[q]
  BY <1>0 DEF S!SocialAssumption
<1>4. PostTypes'
  BY <1>0, <1>2, <1>3 DEF SocialInv, PostTypes
<1>5. PostHands'
  <2>1. \A q \in S!PostIds : q > Len(posts') => published'[q] = 0
    BY <1>0, <1>2, <1>3 DEF SocialInv, PostHands, S!PostIds
  <2> QED
    BY <1>0, <1>2, <2>1 DEF SocialInv, PostHands
<1>6. ASSUME NEW q \in 1..Len(posts), Unslipped(q)' PROVE Once(q)'
  <2>1. Once(q) /\ q \in S!PostIds
    BY <1>0, <1>2, <1>6, RowIds DEF SocialInv, Unslipped
  <2>2. q # p
    BY <1>0, <2>1 DEF Once
  <2>3. posts'[q] = posts[q] /\ published'[q] = published[q]
    BY <1>2, <1>3, <2>1, <2>2
  <2> QED
    BY <1>0, <2>1, <2>3 DEF Once, At, S!Held
<1> QED
  BY <1>2, <1>4, <1>5, <1>6 DEF SocialInv

-----------------------------------------------------------------------------
(* The slots the agent fills: the first that is missing is one of them.     *)
LEMMA FirstSlot == ASSUME NEW T \in SUBSET S!Slots, T # {} PROVE S!Min(T) \in T
<1>1. T \subseteq {1, 3, 5, 6}
  BY DEF S!Slots, S!SlotHour
<1>2. \E x \in T : \A y \in T : x <= y
  <2>1. CASE 1 \in T
    BY <1>1, <2>1
  <2>2. CASE 1 \notin T /\ 3 \in T
    BY <1>1, <2>2
  <2>3. CASE 1 \notin T /\ 3 \notin T /\ 5 \in T
    BY <1>1, <2>3
  <2>4. CASE 1 \notin T /\ 3 \notin T /\ 5 \notin T
    <3>1. T = {6}
      BY <1>1, <2>4
    <3> QED
      BY <3>1
  <2> QED
    BY <2>1, <2>2, <2>3, <2>4
<1> QED
  BY <1>2 DEF S!Min

LEMMA NextDay ==
  ASSUME S!SocialAssumption, SocialInv, NEW day \in Nat, NEW slotHour, NEW hour
  PROVE  S!NextOccurrence(day, slotHour, hour) \in S!Days
<1> DEFINE diff == (day + 7 - S!Weekday(today)) % 7
<1>1. today \in Nat /\ today \in FirstDay..LastDay
  BY DEF SocialInv, PostTypes, S!SocialAssumption
<1>2. diff \in 0..6
  <2>1. S!Weekday(today) \in 0..6
    BY <1>1 DEF S!Weekday
  <2> QED
    BY <2>1
<1>3. \A n \in 0..7 : today + n \in S!Days
  BY <1>1 DEF S!Days, S!SocialAssumption
<1>4. S!NextOccurrence(day, slotHour, hour)
        = today + IF diff = 0 /\ slotHour <= hour THEN 7 ELSE diff
  BY DEF S!NextOccurrence
<1> HIDE DEF diff
<1> QED
  BY <1>2, <1>3, <1>4

LEMMA FillStep ==
  ASSUME S!SocialAssumption, SocialInv, NEW f \in Fillers, S!FillSlot(f) \/ S!FillExtra(f)
  PROVE  SocialInv'
<1>0. filler \in [Fillers -> FillerStates] /\ filler[f] \in FillerStates
  BY DEF SocialInv, PostTypes
<1>1. CASE S!FillSlot(f)
  <2>1. PICK free \in S!Slots : free = S!Min(filler[f].missing)
    BY <1>0, <1>1, FirstSlot DEF S!FillSlot, FillerStates
  <2>2. filler' = [filler EXCEPT ![f].missing = @ \ {free}]
    BY <1>1, <2>1 DEF S!FillSlot
  <2>3. filler' \in [Fillers -> FillerStates]
    BY <1>0, <2>2 DEF FillerStates
  <2>4. free \in Nat
    BY DEF S!Slots, S!SlotHour
  <2>5. UNCHANGED <<today, published, slipped, tick, owner>>
    BY <1>1 DEF S!FillSlot
  <2>6. CASE UNCHANGED posts
    <3>1. today' \in FirstDay..LastDay
      BY <2>5 DEF SocialInv, PostTypes
    <3> QED
      BY <2>3, <2>5, <2>6, <3>1, FillerOnly
  <2>7. CASE ~UNCHANGED posts
    <3>1. PICK day \in S!Days : S!Add("slot", day, FALSE)
      <4>1. S!Add("slot", S!NextOccurrence(free, S!SlotHour[free], filler[f].hour), FALSE)
        BY <1>1, <2>1, <2>7 DEF S!FillSlot
      <4> QED
        BY <2>4, <4>1, NextDay
    <3>2. "slot" \in S!PostKinds /\ "slot" # "owner"
      BY DEF S!PostKinds
    <3> QED
      BY <2>3, <2>5, <3>1, <3>2, AddStep
  <2> QED
    BY <2>6, <2>7
<1>2. CASE S!FillExtra(f)
  <2>1. PICK extra \in {"thanks", "whatsapp"} :
          /\ filler' = [filler EXCEPT ![f].extras = @ \ {extra}]
          /\ \/ S!Add(extra, S!NextOccurrence(S!ExtraSlot(extra).day, S!ExtraSlot(extra).hour,
                                              filler[f].hour), FALSE)
             \/ UNCHANGED posts
    BY <1>2 DEF S!FillExtra
  <2>2. filler' \in [Fillers -> FillerStates]
    BY <1>0, <2>1 DEF FillerStates
  <2>3. S!ExtraSlot(extra).day \in Nat
    BY DEF S!ExtraSlot
  <2>4. UNCHANGED <<today, published, slipped, tick, owner>>
    BY <1>2 DEF S!FillExtra
  <2>5. CASE UNCHANGED posts
    <3>1. today' \in FirstDay..LastDay
      BY <2>4 DEF SocialInv, PostTypes
    <3> QED
      BY <2>2, <2>4, <2>5, <3>1, FillerOnly
  <2>6. CASE ~UNCHANGED posts
    <3>1. PICK day \in S!Days : S!Add(extra, day, FALSE)
      BY <2>1, <2>3, <2>6, NextDay
    <3>2. extra \in S!PostKinds /\ extra # "owner"
      BY DEF S!PostKinds
    <3> QED
      BY <2>2, <2>4, <3>1, <3>2, AddStep
  <2> QED
    BY <2>5, <2>6
<1> QED
  BY <1>1, <1>2

LEMMA CancelStep ==
  ASSUME S!SocialAssumption, SocialInv,
         S!CancelRow \/ \E p \in DOMAIN posts : S!CancelAtVendor(p)
  PROVE  SocialInv'
<1>0. posts \in Seq(PostStates) /\ DOMAIN posts = 1..Len(posts)
  BY DEF SocialInv, PostTypes
<1>1. ASSUME NEW p \in 1..Len(posts), S!CancelAtVendor(p) PROVE SocialInv'
  <2>1. posts[p] \in PostStates /\ p \in S!PostIds
    BY <1>0, RowIds
  <2>2. PICK atVendor \in BOOLEAN :
          /\ posts' = [posts EXCEPT ![p] = [posts[p] EXCEPT !.atVendor = atVendor]]
          /\ atVendor => posts[p].atVendor
    <3>1. CASE posts' = posts
      <4>1. posts' = [posts EXCEPT ![p] = [posts[p] EXCEPT !.atVendor = posts[p].atVendor]]
        BY <1>0, <2>1, <3>1 DEF PostStates
      <4> QED
        BY <2>1, <4>1 DEF PostStates
    <3>2. CASE posts' = [posts EXCEPT ![p].atVendor = FALSE]
      BY <3>2
    <3> QED
      BY <1>1, <3>1, <3>2 DEF S!CancelAtVendor
  <2> DEFINE g == [posts[p] EXCEPT !.atVendor = atVendor]
  <2>3. g \in PostStates /\ Rewrites(p, g)
    BY <2>1, <2>2 DEF PostStates, Rewrites
  <2> HIDE DEF g
  <2>4. /\ owner' = p
        /\ UNCHANGED <<today, published, slipped, filler, tick>>
    BY <1>1 DEF S!CancelAtVendor
  <2> QED
    BY <2>1, <2>3, <2>4, RowOnly
<1>2. CASE S!CancelRow
  <2>1. PICK p \in 1..Len(posts) : p = owner
    BY <1>2 DEF S!CancelRow, SocialInv, PostHands
  <2> DEFINE g == [posts[p] EXCEPT !.status = "canceled"]
  <2>2. posts[p] \in PostStates
    BY <1>0
  <2>3. posts' = [posts EXCEPT ![p] = g]
    BY <1>2, <2>1 DEF S!CancelRow, S!SetStatus
  <2>4. g \in PostStates /\ Rewrites(p, g)
    BY <2>2, <2>3 DEF PostStates, S!PostStatuses, Rewrites
  <2> HIDE DEF g
  <2>5. owner' = 0 /\ UNCHANGED <<today, published, slipped, filler, tick>>
    BY <1>2 DEF S!CancelRow
  <2>6. 0 \in 0..Len(posts)
    BY <1>0
  <2> QED
    BY <2>4, <2>5, <2>6, RowOnly
<1> QED
  BY <1>0, <1>1, <1>2

LEMMA SocialStep ==
  ASSUME S!SocialAssumption PROVE SocialInv /\ [S!Next]_S!socialVars => SocialInv'
<1> SUFFICES ASSUME SocialInv, [S!Next]_S!socialVars PROVE SocialInv'
  OBVIOUS
<1>0. /\ filler \in [Fillers -> FillerStates] /\ today \in FirstDay..LastDay
      /\ DOMAIN posts = 1..Len(posts)
  BY DEF SocialInv, PostTypes
<1>1. CASE S!DayPasses
  <2>1. today' \in FirstDay..LastDay
    BY <1>0, <1>1 DEF S!DayPasses, S!SocialAssumption
  <2> QED
    BY <1>0, <1>1, <2>1, FillerOnly DEF S!DayPasses
<1>2. ASSUME NEW f \in Fillers, S!FillReads(f) \/ S!FillEnds(f) PROVE SocialInv'
  <2>1. filler' \in [Fillers -> FillerStates]
    BY <1>0, <1>2 DEF S!FillReads, S!FillEnds, FillerStates
  <2> QED
    BY <1>0, <1>2, <2>1, FillerOnly DEF S!FillReads, S!FillEnds
<1>3. CASE S!OwnerSchedules
  <2>1. PICK day \in S!Days, atVendor \in BOOLEAN : S!Add("owner", day, atVendor)
    <3>1. \A day \in today..LastDay : day \in S!Days
      BY <1>0 DEF S!Days, S!SocialAssumption
    <3> QED
      BY <1>3, <3>1 DEF S!OwnerSchedules
  <2>2. "owner" \in S!PostKinds
    BY DEF S!PostKinds
  <2> QED
    BY <1>0, <1>3, <2>1, <2>2, AddStep DEF S!OwnerSchedules
<1>4. ASSUME NEW t \in PostTicks,
             \/ S!TickLists(t) \/ S!TickTakes(t) \/ S!TickPublishes(t)
             \/ S!TickRecords(t) \/ S!TickFails(t) \/ S!TickDies(t)
      PROVE  SocialInv'
  BY <1>4, ListsStep, TakesStep, PublishesStep, RecordsStep, DiesStep
<1>5. CASE UNCHANGED S!socialVars
  BY <1>5 DEF S!socialVars, SocialInv, PostTypes, PostHands, Once, Unslipped, At, S!Held
<1>6. CASE S!Next
  BY <1>0, <1>1, <1>2, <1>3, <1>4, <1>6, FillStep, CancelStep, VendorStep DEF S!Next
<1> QED
  BY <1>5, <1>6

THEOREM SpecSocialInv == ASSUME S!SocialAssumption PROVE S!Spec => []SocialInv
<1>1. S!Init => SocialInv
  BY SocialInit
<1>2. SocialInv /\ [S!Next]_S!socialVars => SocialInv'
  BY SocialStep
<1> QED
  BY <1>1, <1>2, PTL DEF S!Spec

(* However the agent's runs, the owner, the vendor and the runs of          *)
(* api/cron/social-dispatch interleave: a post of the agent goes out twice  *)
(* only if two runs of the cron held it at once, or one died between        *)
(* publishing it and writing that down.                                     *)
THEOREM RepublishedOnlyBySlip == S!Spec => []RepublishedBySlip
<1>1. SocialInv => RepublishedBySlip
  <2> SUFFICES ASSUME SocialInv, NEW p \in 1..Len(posts), posts[p].kind # "owner",
                      p \notin slipped
               PROVE  ~(published[p] > 1)
    BY DEF RepublishedBySlip, S!RepublishedBySlip, SocialInv, PostTypes
  <2>1. published[p] \in Nat /\ published[p] <= 1
    <3>1. p \in S!PostIds
      BY RowIds, PortfolioAssumption
    <3> QED
      BY <3>1 DEF SocialInv, PostTypes, Unslipped, Once
  <2> QED
    BY <2>1
<1>2. S!SocialAssumption
  BY PortfolioAssumption
<1> QED
  BY <1>1, <1>2, SpecSocialInv, PTL

(***************************************************************************)
(* The LLM router.  What a call has in hand passed its own gate, wherever  *)
(* the text came from; the types need that a provider is asked for a       *)
(* candidate only, and that a key which is stored anew left its old place. *)
(***************************************************************************)
Gated ==
  \A c \in Calls :
    /\ call[c].at \in {"meter", "done"} => \/ call[c].text = "empty"
                                           \/ L!PassesQuality(call[c].gate, call[c].text)
    /\ call[c].at = "complete" => call[c].model <= L!CandidateModels(call[c].cheap)

CallStates == [at : {"idle", "credits", "look", "complete", "meter", "done", "denied", "threw"},
               prompt : Prompts, gate : L!Gates, cheap : BOOLEAN,
               model : 1..(OwnModels + NextModels + 1),
               text : L!Qualities \cup {"none", "empty"}]

LlmInv == L!TypeOK /\ Gated

(* An entry fewer, or none of that key.                                     *)
LEMMA WithoutKey ==
  ASSUME L!TypeOK, NEW k
  PROVE  /\ L!Without(k) \in Seq(L!Entries)
         /\ Len(L!Without(k)) <= Len(cache)
         /\ L!Places(k) # {} => Len(L!Without(k)) = Len(cache) - 1
<1>1. cache \in Seq(L!Entries)
  BY DEF L!TypeOK
<1>2. CASE L!Places(k) = {}
  BY <1>1, <1>2 DEF L!Without
<1>3. CASE L!Places(k) # {}
  <2> DEFINE i == CHOOSE j \in L!Places(k) : TRUE
  <2>1. i \in 1..Len(cache)
    BY <1>1, <1>3 DEF L!Places
  <2> HIDE DEF i
  <2> DEFINE front == SubSeq(cache, 1, i - 1)
             back == SubSeq(cache, i + 1, Len(cache))
  <2>2. /\ front \in Seq(L!Entries) /\ Len(front) = i - 1
        /\ back \in Seq(L!Entries) /\ Len(back) = Len(cache) - i
    BY <1>1, <2>1
  <2>3. L!Without(k) = front \o back
    BY <1>3 DEF L!Without, L!RemoveAt, i
  <2> HIDE DEF front, back
  <2>4. L!Without(k) \in Seq(L!Entries) /\ Len(L!Without(k)) = Len(cache) - 1
    <3>1. front \o back \in Seq(L!Entries) /\ Len(front \o back) = Len(front) + Len(back)
      BY <2>2, ConcatProperties
    <3>2. Len(cache) \in Nat
      BY <1>1
    <3> QED
      BY <2>1, <2>2, <2>3, <3>1, <3>2
  <2> QED
    BY <1>1, <2>4
<1> QED
  BY <1>2, <1>3

LEMMA RefreshedOK ==
  ASSUME L!TypeOK, NEW k \in L!CacheKeys
  PROVE  L!Refreshed(k) \in Seq(L!Entries) /\ Len(L!Refreshed(k)) <= MaxEntries
<1>1. cache \in Seq(L!Entries) /\ Len(cache) <= MaxEntries
  BY DEF L!TypeOK
<1>2. CASE L!Cached(k) = {}
  BY <1>1, <1>2 DEF L!Refreshed
<1>3. CASE L!Cached(k) # {}
  <2> DEFINE text == CHOOSE t \in L!Cached(k) : TRUE
             entry == [key |-> k, text |-> text]
  <2>1. text \in L!Qualities /\ L!Contains(cache, entry)
    BY <1>3 DEF L!Cached
  <2>2. entry \in L!Entries /\ entry.key = k
    BY <2>1 DEF L!Entries
  <2>3. L!Places(k) # {}
    BY <1>1, <2>1, <2>2 DEF L!Places, L!Contains
  <2>4. L!Refreshed(k) = Append(L!Without(k), entry)
    BY <1>3 DEF L!Refreshed
  <2>5. L!Without(k) \in Seq(L!Entries) /\ Len(L!Without(k)) = Len(cache) - 1
    BY <2>3, WithoutKey
  <2> HIDE DEF entry
  <2> QED
    BY <1>1, <2>2, <2>4, <2>5
<1> QED
  BY <1>2, <1>3

LEMMA StoredOK ==
  ASSUME L!LlmAssumption, L!TypeOK, NEW k \in L!CacheKeys, NEW text \in L!Qualities
  PROVE  L!Stored(k, text) \in Seq(L!Entries) /\ Len(L!Stored(k, text)) <= MaxEntries
<1> DEFINE entry == [key |-> k, text |-> text]
           entries == Append(L!Without(k), entry)
           extra == IF Len(entries) > MaxEntries THEN Len(entries) - MaxEntries ELSE 0
<1>1. entry \in L!Entries
  BY DEF L!Entries
<1>2. L!Without(k) \in Seq(L!Entries)
  BY WithoutKey
<1> HIDE DEF entry
<1>3. entries \in Seq(L!Entries)
  BY <1>1, <1>2
<1>4. L!Stored(k, text) = SubSeq(entries, extra + 1, Len(entries))
  BY DEF L!Stored, entry
<1> HIDE DEF entries
<1>5. extra \in Nat /\ extra <= Len(entries) /\ Len(entries) - extra <= MaxEntries
  BY <1>3 DEF L!LlmAssumption
<1> HIDE DEF extra
<1> QED
  BY <1>3, <1>4, <1>5

LEMMA LlmInit == ASSUME L!LlmAssumption PROVE L!Init => LlmInv
<1> SUFFICES ASSUME L!Init PROVE LlmInv
  OBVIOUS
<1>1. cache \in Seq(L!Entries) /\ Len(cache) <= MaxEntries
  BY DEF L!Init, L!LlmAssumption
<1>2. call \in [Calls -> CallStates] /\ \A c \in Calls : call[c].at = "idle"
  BY DEF L!Init, CallStates, L!LlmAssumption
<1> QED
  BY <1>1, <1>2 DEF LlmInv, L!TypeOK, Gated, CallStates

(* A call goes on, and has in hand what passes its gate.                    *)
LEMMA CallGoesOn ==
  ASSUME LlmInv, NEW c \in Calls, NEW f \in CallStates,
         call' = [call EXCEPT ![c] = f],
         f.at \in {"meter", "done"} => f.text = "empty" \/ L!PassesQuality(f.gate, f.text),
         f.at = "complete" => f.model <= L!CandidateModels(f.cheap),
         cache' \in Seq(L!Entries), Len(cache') <= MaxEntries
  PROVE  LlmInv'
<1>1. call \in [Calls -> CallStates]
  BY DEF LlmInv, L!TypeOK, CallStates
<1>2. /\ call' \in [Calls -> CallStates]
      /\ call'[c] = f
      /\ \A d \in Calls : d # c => call'[d] = call[d]
  BY <1>1
<1>3. L!TypeOK'
  BY <1>2 DEF L!TypeOK, CallStates
<1>4. Gated'
  BY <1>2 DEF LlmInv, Gated
<1> QED
  BY <1>3, <1>4 DEF LlmInv

LEMMA AuditStep ==
  ASSUME LlmInv, NEW c \in Calls, NEW text \in L!Qualities \cup {"empty"}, L!Audited(c, text),
         text = "empty" \/ L!PassesQuality(call[c].gate, text),
         cache' \in Seq(L!Entries), Len(cache') <= MaxEntries
  PROVE  LlmInv'
<1> DEFINE done == [call[c] EXCEPT !.at = "done", !.text = text]
           threw == [call[c] EXCEPT !.at = "threw", !.text = "none"]
<1>0. call[c] \in CallStates
  BY DEF LlmInv, L!TypeOK, CallStates
<1>1. /\ done \in CallStates /\ done.at = "done" /\ done.text = text
      /\ done.gate = call[c].gate
      /\ threw \in CallStates /\ threw.at = "threw"
  BY <1>0 DEF CallStates
<1>2. call' = [call EXCEPT ![c] = done] \/ call' = [call EXCEPT ![c] = threw]
  BY DEF L!Audited
<1> HIDE DEF done, threw
<1> QED
  BY <1>1, <1>2, CallGoesOn

LEMMA LlmStep == ASSUME L!LlmAssumption PROVE LlmInv /\ [L!Next]_L!llmVars => LlmInv'
<1> SUFFICES ASSUME LlmInv, [L!Next]_L!llmVars PROVE LlmInv'
  OBVIOUS
<1>c. /\ cache \in Seq(L!Entries) /\ Len(cache) <= MaxEntries
      /\ call \in [Calls -> CallStates]
      /\ \A c \in Calls : call[c] \in CallStates
  BY DEF LlmInv, L!TypeOK, CallStates
<1>k. \A c \in Calls : call[c].at = "complete" \/ call[c].model <= L!CandidateModels(call[c].cheap)
        => /\ call[c].model <= OwnModels + NextModels
           /\ L!Key(c) \in L!CacheKeys
  BY <1>c DEF LlmInv, Gated, L!CandidateModels, L!Key, L!CacheKeys, L!Models, CallStates,
             L!LlmAssumption
<1>1. ASSUME NEW c \in Calls, NEW label \in {"credits", "look", "denied"}, L!Goto(c, label),
             UNCHANGED cache
      PROVE  LlmInv'
  <2> DEFINE f == [call[c] EXCEPT !.at = label]
  <2>1. f \in CallStates /\ f.at = label
    BY <1>c DEF CallStates
  <2>2. call' = [call EXCEPT ![c] = f]
    BY <1>1 DEF L!Goto
  <2> HIDE DEF f
  <2> QED
    BY <1>1, <1>c, <2>1, <2>2, CallGoesOn
<1>2. ASSUME NEW c \in Calls, L!LookInCache(c) PROVE LlmInv'
  <2>1. /\ call[c].model <= L!CandidateModels(call[c].cheap)
        /\ cache' = L!Refreshed(L!Key(c))
    BY <1>2 DEF L!LookInCache
  <2>2. cache' \in Seq(L!Entries) /\ Len(cache') <= MaxEntries
    BY <1>k, <2>1, RefreshedOK DEF LlmInv
  <2>3. ASSUME NEW text \in L!Hit(c), L!Audited(c, text) PROVE LlmInv'
    BY <2>2, <2>3, AuditStep DEF L!Hit, L!Cached
  <2>4. CASE L!Goto(c, "complete")
    <3> DEFINE f == [call[c] EXCEPT !.at = "complete"]
    <3>1. f \in CallStates /\ f.at = "complete" /\ f.model = call[c].model /\ f.cheap = call[c].cheap
      BY <1>c DEF CallStates
    <3>2. call' = [call EXCEPT ![c] = f]
      BY <2>4 DEF L!Goto
    <3> HIDE DEF f
    <3> QED
      BY <2>1, <2>2, <3>1, <3>2, CallGoesOn
  <2> QED
    BY <1>2, <2>3, <2>4 DEF L!LookInCache
<1>3. ASSUME NEW c \in Calls, call[c].at = "complete", L!NextModel(c), UNCHANGED cache
      PROVE  LlmInv'
  <2>1. PICK m \in 1..(OwnModels + NextModels + 1) :
          call' = [call EXCEPT ![c].at = "look", ![c].model = m]
    <3>1. call[c].model + 1 \in 1..(OwnModels + NextModels + 1)
      BY <1>3, <1>c, <1>k DEF CallStates, L!LlmAssumption
    <3> QED
      BY <1>3, <3>1 DEF L!NextModel
  <2> DEFINE f == [call[c] EXCEPT !.at = "look", !.model = m]
  <2>2. f \in CallStates /\ f.at = "look"
    BY <1>c DEF CallStates
  <2>3. call' = [call EXCEPT ![c] = f]
    BY <2>1
  <2> HIDE DEF f
  <2> QED
    BY <1>3, <1>c, <2>2, <2>3, CallGoesOn
<1>4. ASSUME NEW c \in Calls, NEW text \in L!Qualities, L!ProviderAnswers(c, text)
      PROVE  LlmInv'
  <2>1. CASE L!PassesQuality(call[c].gate, text)
    <3> DEFINE f == [call[c] EXCEPT !.at = "meter", !.text = text]
    <3>1. /\ cache' = L!Stored(L!Key(c), text) /\ call' = [call EXCEPT ![c] = f]
          /\ call[c].at = "complete"
      BY <1>4, <2>1 DEF L!ProviderAnswers
    <3>2. f \in CallStates /\ f.at = "meter" /\ f.text = text /\ f.gate = call[c].gate
      BY <1>c DEF CallStates
    <3>3. cache' \in Seq(L!Entries) /\ Len(cache') <= MaxEntries
      BY <1>k, <3>1, StoredOK DEF LlmInv
    <3> HIDE DEF f
    <3> QED
      BY <2>1, <3>1, <3>2, <3>3, CallGoesOn
  <2>2. CASE ~L!PassesQuality(call[c].gate, text)
    BY <1>3, <1>4, <2>2 DEF L!ProviderAnswers
  <2> QED
    BY <2>1, <2>2
<1>5. ASSUME NEW c \in Calls, L!Meter(c) PROVE LlmInv'
  <2>1. /\ L!Audited(c, call[c].text) /\ UNCHANGED cache
        /\ call[c].text = "empty" \/ L!PassesQuality(call[c].gate, call[c].text)
    BY <1>5 DEF L!Meter, LlmInv, Gated
  <2>2. PICK text \in L!Qualities \cup {"none", "empty"} : text = call[c].text
    BY <1>c DEF CallStates
  <2>3. CASE text # "none"
    BY <1>c, <2>1, <2>2, <2>3, AuditStep
  <2>4. CASE text = "none"
    <3> DEFINE done == [call[c] EXCEPT !.at = "done", !.text = text]
               threw == [call[c] EXCEPT !.at = "threw", !.text = "none"]
    <3>1. /\ done \in CallStates /\ done.at = "done" /\ done.text = text
          /\ done.gate = call[c].gate
          /\ threw \in CallStates /\ threw.at = "threw"
      BY <1>c DEF CallStates
    <3>2. call' = [call EXCEPT ![c] = done] \/ call' = [call EXCEPT ![c] = threw]
      BY <2>1, <2>2 DEF L!Audited
    <3> HIDE DEF done, threw
    <3> QED
      BY <1>c, <2>1, <2>2, <3>1, <3>2, CallGoesOn
  <2> QED
    BY <2>3, <2>4
<1>6. ASSUME NEW c \in Calls, L!Degrade(c) PROVE LlmInv'
  BY <1>6, <1>c, AuditStep DEF L!Degrade
<1>7. CASE L!Restart
  <2> DEFINE f(c) == IF call[c].at \in {"idle", "done", "denied"} THEN call[c]
                     ELSE [call[c] EXCEPT !.at = "threw", !.text = "none"]
  <2>1. call' = [c \in Calls |-> f(c)] /\ cache' = <<>>
    BY <1>7 DEF L!Restart
  <2>2. ASSUME NEW c \in Calls
        PROVE  f(c) \in CallStates /\ (f(c) = call[c] \/ f(c).at = "threw")
    BY <1>c DEF CallStates
  <2> HIDE DEF f
  <2>3. /\ call' \in [Calls -> CallStates]
        /\ \A c \in Calls : call'[c] = call[c] \/ call'[c].at = "threw"
    BY <2>1, <2>2
  <2>4. L!TypeOK'
    BY <2>1, <2>3 DEF L!TypeOK, CallStates, L!LlmAssumption
  <2>5. Gated'
    BY <2>3 DEF LlmInv, Gated
  <2> QED
    BY <2>4, <2>5 DEF LlmInv
<1>8. CASE UNCHANGED L!llmVars
  BY <1>8 DEF L!llmVars, LlmInv, L!TypeOK, Gated
<1>9. CASE L!Next
  BY <1>1, <1>2, <1>3, <1>4, <1>5, <1>6, <1>7, <1>9
     DEF L!Next, L!Begin, L!Preflight, L!ProviderThrows
<1> QED
  BY <1>8, <1>9

THEOREM SpecLlmInv == ASSUME L!LlmAssumption PROVE L!Spec => []LlmInv
<1>1. L!Init => LlmInv
  BY LlmInit
<1>2. LlmInv /\ [L!Next]_L!llmVars => LlmInv'
  BY LlmStep
<1> QED
  BY <1>1, <1>2, PTL DEF L!Spec

(* Whoever filled the cache of llm/cache.ts, at whatever gate, and whatever *)
(* it was full of: a text that reaches a caller of routeLlm passes the gate *)
(* of that caller, or is empty and says it is degraded.                     *)
THEOREM OwnGate == L!Spec => []AnswerPassesItsGate
<1>1. LlmInv => AnswerPassesItsGate
  BY DEF AnswerPassesItsGate, L!AnswerPassesItsGate, LlmInv, Gated
<1>2. L!LlmAssumption
  BY PortfolioAssumption
<1> QED
  BY <1>1, <1>2, SpecLlmInv, PTL

-----------------------------------------------------------------------------
(***************************************************************************)
(* The conductor.  A run has spent no more than the resets since it began  *)
(* have given away, and what the counter holds now.                        *)
(***************************************************************************)
(* The limits that the resets since the run began have given away.          *)
Share(r) == Limit * (begun - run[r].began)

Within(r) ==
  /\ run[r].began <= begun
  /\ run[r].began = 0 => run[r].at = "idle" /\ run[r].spent = 0
  /\ run[r].at = "job" => run[r].stage < 3
  /\ run[r].spent <= Share(r) + count

(* TypeOK but for the bound on what is spent, which is a consequence.       *)
RunFields == [at : {"idle", "list", "first", "context", "agent", "second", "agent2",
                    "platform", "job"},
              kind : K!RunKinds, todo : SUBSET Tenants, stage : 0..3, spent : Nat,
              began : 0..MaxRuns]

RunTypes ==
  /\ count \in 0..Limit
  /\ begun \in 0..MaxRuns
  /\ run \in [Runs -> RunFields]

ConductorInv == RunTypes /\ \A r \in Runs : Within(r)

-----------------------------------------------------------------------------
(* A limit more for one reset more.                                         *)
LEMMA OneResetMore ==
  ASSUME NEW l \in Nat, NEW b \in Nat, NEW a \in Nat
  PROVE  l * ((b + 1) - a) = l * (b - a) + l
<1>1. (b + 1) - a = (b - a) + 1
  OBVIOUS
<1>2. \A x \in Int : l * (x + 1) = l * x + l
  OBVIOUS
<1> QED
  BY <1>1, <1>2

LEMMA LimitGrows ==
  ASSUME NEW l \in Nat, NEW a \in Nat, NEW b \in Nat, a <= b
  PROVE  l * a <= l * b
OBVIOUS

LEMMA ConductorInit == ASSUME K!ConductorAssumption PROVE K!Init => ConductorInv
<1> SUFFICES ASSUME K!Init PROVE ConductorInv
  OBVIOUS
<1>1. Limit * (0 - 0) = 0
  BY DEF K!ConductorAssumption
<1> QED
  BY <1>1 DEF K!ConductorAssumption, K!Init, ConductorInv, RunTypes, RunFields, Within, Share,
              K!NoRun, K!RunKinds

(* A step by which a run only moves on leaves what it has dispatched.       *)
LEMMA MovesOn ==
  ASSUME K!ConductorAssumption, ConductorInv, NEW r \in Runs, NEW f \in RunFields,
         f.spent = run[r].spent, f.began = run[r].began, f.began # 0,
         f.at = "job" => f.stage < 3,
         run' = [run EXCEPT ![r] = f], UNCHANGED <<count, begun>>
  PROVE  ConductorInv'
<1>1. RunTypes'
  BY DEF ConductorInv, RunTypes
<1>2. ASSUME NEW q \in Runs PROVE Within(q)'
  <2>1. /\ run[q] \in RunFields /\ run'[q] = (IF q = r THEN f ELSE run[q])
        /\ Within(q) /\ begun' = begun /\ count' = count
    BY DEF ConductorInv, RunTypes
  <2>2. Share(q)' = Share(q)
    BY <2>1 DEF Share
  <2> QED
    BY <2>1, <2>2 DEF Within
<1> QED
  BY <1>1, <1>2 DEF ConductorInv

(* A dispatch is counted in the run and in the counter alike.               *)
LEMMA SpendStep ==
  ASSUME K!ConductorAssumption, ConductorInv, NEW r \in Runs, run[r].began # 0,
         NEW granted \in {"context", "agent2", "job"},
         granted = "job" => run[r].stage < 3,
         NEW otherwise \in RunFields, otherwise.spent = run[r].spent,
         otherwise.began = run[r].began, otherwise.at # "job",
         K!Spend(r, granted, otherwise)
  PROVE  ConductorInv'
<1>1. CASE K!CheckBudget
  <2>0. run[r] \in RunFields /\ count + 1 \in 0..Limit
    BY <1>1 DEF K!CheckBudget, ConductorInv, RunTypes, K!ConductorAssumption
  <2>n. PICK n \in Nat : /\ n = run[r].spent + 1
                         /\ run' = [run EXCEPT ![r].at = granted, ![r].spent = n]
    <3>1. run[r].spent + 1 \in Nat
      BY <2>0 DEF RunFields
    <3> QED
      BY <1>1, <3>1 DEF K!Spend
  <2> DEFINE f == [run[r] EXCEPT !.at = granted, !.spent = n]
  <2>1. begun' = begun /\ count' = count + 1 /\ run' = [run EXCEPT ![r] = f]
    BY <1>1, <2>n DEF K!Spend, K!Counted
  <2>2. /\ f \in RunFields
        /\ f.spent = n /\ f.began = run[r].began
        /\ f.at = granted /\ f.stage = run[r].stage
    BY <2>0 DEF RunFields
  <2>3. RunTypes'
    BY <2>0, <2>1, <2>2 DEF ConductorInv, RunTypes
  <2>4. ASSUME NEW q \in Runs PROVE Within(q)'
    <3>1. run[q] \in RunFields /\ Within(q) /\ count \in Nat /\ begun \in Nat
      BY DEF ConductorInv, RunTypes
    <3>2. run'[q] = IF q = r THEN f ELSE run[q]
      BY <2>1 DEF ConductorInv, RunTypes
    <3>3. Share(q)' = Share(q) /\ Share(q) \in Int
      BY <2>1, <2>2, <3>1, <3>2 DEF Share, RunFields, K!ConductorAssumption
    <3>4. run[q].spent \in Nat
      BY <3>1 DEF RunFields
    <3>5. CASE q = r
      <4>1. run'[q].spent = run[q].spent + 1 /\ run'[q].began = run[q].began
        BY <2>2, <2>n, <3>2, <3>5
      <4>2. run'[q].at = granted /\ run'[q].stage = run[q].stage
        BY <2>2, <3>2, <3>5
      <4> QED
        BY <2>1, <3>1, <3>3, <3>4, <3>5, <4>1, <4>2 DEF Within
    <3>6. CASE q # r
      <4>1. /\ run'[q].spent = run[q].spent /\ run'[q].began = run[q].began
            /\ run'[q].at = run[q].at /\ run'[q].stage = run[q].stage
        BY <3>2, <3>6
      <4> QED
        BY <2>1, <3>1, <3>3, <3>4, <4>1 DEF Within
    <3> QED
      BY <3>5, <3>6
  <2> QED
    BY <2>3, <2>4 DEF ConductorInv
<1>2. CASE ~K!CheckBudget
  BY <1>2, MovesOn DEF K!Spend
<1> QED
  BY <1>1, <1>2

(* A reset: everybody else's share grows by a limit, and the counter, which *)
(* did not exceed it, is lost.                                              *)
LEMMA BeginStep ==
  ASSUME K!ConductorAssumption, ConductorInv, NEW r \in Runs, NEW kind \in K!RunKinds,
         K!Begin(r, kind)
  PROVE  ConductorInv'
<1>b. PICK b \in 1..MaxRuns :
        /\ b = begun + 1
        /\ run' = [run EXCEPT ![r] =
             [K!NoRun EXCEPT !.at = "list", !.kind = kind, !.began = b]]
  <2>1. begun + 1 \in 1..MaxRuns
    BY DEF K!Begin, ConductorInv, RunTypes, K!ConductorAssumption
  <2> QED
    BY <2>1 DEF K!Begin
<1> DEFINE f == [K!NoRun EXCEPT !.at = "list", !.kind = kind, !.began = b]
<1>1. /\ begun \in Nat /\ begun + 1 \in 1..MaxRuns
      /\ begun' = begun + 1 /\ count' = 0
      /\ run' = [run EXCEPT ![r] = f]
  BY <1>b DEF K!Begin, ConductorInv, RunTypes, K!ConductorAssumption
<1>2. /\ f \in RunFields
      /\ f.at = "list" /\ f.spent = 0 /\ f.began = b
  <2>1. K!NoRun \in RunFields /\ K!NoRun.spent = 0
    BY DEF K!NoRun, RunFields, K!RunKinds, K!ConductorAssumption
  <2>2. ASSUME NEW x \in RunFields, NEW y \in 0..MaxRuns
        PROVE  LET g == [x EXCEPT !.at = "list", !.kind = kind, !.began = y]
               IN  g \in RunFields /\ g.at = "list" /\ g.spent = x.spent /\ g.began = y
    BY DEF RunFields
  <2>3. b \in 0..MaxRuns
    BY <1>b DEF K!ConductorAssumption
  <2> QED
    BY <2>1, <2>2, <2>3
<1>3. RunTypes'
  BY <1>1, <1>2 DEF ConductorInv, RunTypes, K!ConductorAssumption
<1>4. ASSUME NEW q \in Runs PROVE Within(q)'
  <2>1. CASE q = r
    <3>1. run'[q] = f
      BY <1>1, <2>1 DEF ConductorInv, RunTypes
    <3>2. begun' - run'[q].began = 0 /\ Limit * 0 = 0
      <4>1. run'[q].began = begun + 1
        BY <1>2, <1>b, <3>1
      <4> QED
        BY <1>1, <4>1 DEF K!ConductorAssumption
    <3>3. Share(q)' = 0
      BY <3>2 DEF Share
    <3>4. run'[q].spent = 0 /\ run'[q].began = b /\ run'[q].at = "list"
      BY <1>2, <3>1
    <3> QED
      BY <1>1, <1>b, <3>3, <3>4 DEF Within
  <2>2. CASE q # r
    <3>1. run'[q] = run[q] /\ Within(q) /\ run[q] \in RunFields /\ count \in 0..Limit
      BY <1>1, <2>2 DEF ConductorInv, RunTypes
    <3>2. Limit * ((begun + 1) - run[q].began) = Limit * (begun - run[q].began) + Limit
      <4>1. run[q].began \in Nat /\ Limit \in Nat
        BY <3>1 DEF RunFields, K!ConductorAssumption
      <4> QED
        BY <1>1, <4>1, OneResetMore
    <3>3. Share(q)' = Share(q) + Limit
      BY <1>1, <3>1, <3>2 DEF Share
    <3>4. Share(q) \in Int /\ run[q].spent \in Nat /\ run[q].began \in Nat
      BY <1>1, <3>1 DEF Share, RunFields, K!ConductorAssumption
    <3>5. /\ run'[q].spent = run[q].spent /\ run'[q].began = run[q].began
          /\ run'[q].at = run[q].at /\ run'[q].stage = run[q].stage
      BY <3>1
    <3> QED
      BY <1>1, <3>1, <3>3, <3>4, <3>5 DEF Within, K!ConductorAssumption
  <2> QED
    BY <2>1, <2>2
<1> QED
  BY <1>3, <1>4 DEF ConductorInv

-----------------------------------------------------------------------------
(* A run that is not idle has begun.                                        *)
LEMMA HasBegun ==
  ASSUME ConductorInv, NEW r \in Runs, run[r].at # "idle"
  PROVE  run[r] \in RunFields /\ run[r].began # 0
BY DEF ConductorInv, RunTypes, Within

LEMMA ConductorStep ==
  ASSUME K!ConductorAssumption
  PROVE  ConductorInv /\ [K!Next]_K!conductorVars => ConductorInv'
<1> SUFFICES ASSUME ConductorInv, [K!Next]_K!conductorVars PROVE ConductorInv'
  OBVIOUS
<1>1. ASSUME NEW r \in Runs, NEW kind \in K!RunKinds, K!Begin(r, kind) PROVE ConductorInv'
  BY <1>1, BeginStep
<1>2. ASSUME NEW r \in Runs, K!List(r) PROVE ConductorInv'
  <2>1. PICK todo \in SUBSET Tenants :
          run' = [run EXCEPT ![r].at = "first", ![r].todo = todo]
    BY <1>2 DEF K!List
  <2> DEFINE f == [run[r] EXCEPT !.at = "first", !.todo = todo]
  <2>2. run[r] \in RunFields /\ run[r].began # 0
    BY <1>2, HasBegun DEF K!List
  <2>3. f \in RunFields /\ f.spent = run[r].spent /\ f.began = run[r].began /\ f.at = "first"
    BY <2>2 DEF RunFields
  <2>4. run' = [run EXCEPT ![r] = f]
    BY <2>1
  <2> QED
    BY <1>2, <2>2, <2>3, <2>4, MovesOn DEF K!List
<1>3. ASSUME NEW r \in Runs, NEW label \in {"platform", "second", "first", "idle"},
             run[r].at # "idle", K!Goto(r, label), UNCHANGED <<count, begun>>
      PROVE  ConductorInv'
  <2> DEFINE f == [run[r] EXCEPT !.at = label]
  <2>1. run[r] \in RunFields /\ run[r].began # 0
    BY <1>3, HasBegun
  <2>2. f \in RunFields /\ f.spent = run[r].spent /\ f.began = run[r].began /\ f.at = label
    BY <2>1 DEF RunFields
  <2>3. run' = [run EXCEPT ![r] = f]
    BY <1>3 DEF K!Goto
  <2> QED
    BY <1>3, <2>1, <2>2, <2>3, MovesOn
<1>4. ASSUME NEW r \in Runs, K!CheckFirst(r) \/ K!CheckSecond(r) PROVE ConductorInv'
  <2>1. run[r] \in RunFields /\ run[r].began # 0
    BY <1>4, HasBegun DEF K!CheckFirst, K!CheckSecond
  <2>2. /\ K!LeavesLoop(r) \in RunFields /\ K!LeavesLoop(r).spent = run[r].spent
        /\ K!LeavesLoop(r).began = run[r].began /\ K!LeavesLoop(r).at = "platform"
    BY <2>1 DEF K!LeavesLoop, RunFields
  <2> QED
    BY <1>4, <2>1, <2>2, SpendStep DEF K!CheckFirst, K!CheckSecond
<1>5. ASSUME NEW r \in Runs, K!Context(r) PROVE ConductorInv'
  <2>1. PICK t \in run[r].todo, label \in {"agent", "first"} :
          run' = [run EXCEPT ![r].at = label, ![r].todo = @ \ {t}]
    BY <1>5 DEF K!Context
  <2> DEFINE f == [run[r] EXCEPT !.at = label, !.todo = @ \ {t}]
  <2>2. run[r] \in RunFields /\ run[r].began # 0
    BY <1>5, HasBegun DEF K!Context
  <2>3. f \in RunFields /\ f.spent = run[r].spent /\ f.began = run[r].began /\ f.at = label
    BY <2>2 DEF RunFields
  <2>4. run' = [run EXCEPT ![r] = f]
    BY <2>1
  <2> QED
    BY <1>5, <2>2, <2>3, <2>4, MovesOn DEF K!Context
<1>6. ASSUME NEW r \in Runs, K!CheckPlatform(r) PROVE ConductorInv'
  <2>1. run[r] \in RunFields /\ run[r].began # 0
    BY <1>6, HasBegun DEF K!CheckPlatform
  <2>2. CASE K!Spend(r, "job", K!WithoutStage(r))
    <3>1. run[r].stage < 3
      BY <1>6, <2>1 DEF K!CheckPlatform, K!PlatformStages, RunFields, K!RunKinds
    <3>2. /\ K!WithoutStage(r) \in RunFields /\ K!WithoutStage(r).spent = run[r].spent
          /\ K!WithoutStage(r).began = run[r].began /\ K!WithoutStage(r).at # "job"
      BY <1>6, <2>1 DEF K!CheckPlatform, K!WithoutStage, RunFields
    <3> QED
      BY <2>1, <2>2, <3>1, <3>2, SpendStep
  <2>3. CASE K!Goto(r, "idle") /\ UNCHANGED <<count, begun>>
    BY <1>3, <1>6, <2>3 DEF K!CheckPlatform
  <2> QED
    BY <1>6, <2>2, <2>3 DEF K!CheckPlatform
<1>7. ASSUME NEW r \in Runs, K!PlatformJob(r) PROVE ConductorInv'
  <2>1. run[r] \in RunFields /\ run[r].began # 0 /\ run[r].stage < 3
    BY <1>7, HasBegun DEF K!PlatformJob, ConductorInv, Within
  <2>n. PICK n \in 0..3 : run' = [run EXCEPT ![r].at = "platform", ![r].stage = n]
    <3>1. run[r].stage + 1 \in 0..3
      BY <2>1 DEF RunFields
    <3> QED
      BY <1>7, <3>1 DEF K!PlatformJob
  <2> DEFINE f == [run[r] EXCEPT !.at = "platform", !.stage = n]
  <2>2. f \in RunFields /\ f.spent = run[r].spent /\ f.began = run[r].began /\ f.at = "platform"
    BY <2>1 DEF RunFields
  <2>3. run' = [run EXCEPT ![r] = f]
    BY <2>n
  <2> QED
    BY <1>7, <2>1, <2>2, <2>3, MovesOn DEF K!PlatformJob
<1>8. CASE UNCHANGED K!conductorVars
  BY <1>8 DEF K!conductorVars, ConductorInv, RunTypes, Within, Share
<1> QED
  BY <1>1, <1>2, <1>3, <1>4, <1>5, <1>6, <1>7, <1>8
     DEF K!Next, K!TenantsDone, K!FirstAgent, K!SecondAgent, K!RunEnds, K!RunThrows

(* The strengthened invariant, in every reachable state.                    *)
THEOREM SpecConductorInv == ASSUME K!ConductorAssumption PROVE K!Spec => []ConductorInv
<1>1. K!Init => ConductorInv
  BY ConductorInit
<1>2. ConductorInv /\ [K!Next]_K!conductorVars => ConductorInv'
  BY ConductorStep
<1> QED
  BY <1>1, <1>2, PTL DEF K!Spec

(* The limit holds from one reset to the next, however many runs share the  *)
(* counter: a run dispatches at most the limit, and as much again for each  *)
(* run that began, and set the counter to zero, while it was under way      *)
(* (checkLlmBudget, marketing/conductor.ts).                                *)
THEOREM ShareIsBounded == K!Spec => []BudgetPerReset
<1>1. ConductorInv => BudgetPerReset
  <2> SUFFICES ASSUME ConductorInv, NEW r \in Runs
               PROVE  run[r].spent <= Limit * (1 + begun - run[r].began)
    BY DEF BudgetPerReset, K!BudgetPerReset
  <2>1. run[r] \in RunFields /\ begun \in Nat /\ count \in 0..Limit /\ Within(r)
    BY DEF ConductorInv, RunTypes
  <2>2. Limit * ((begun + 1) - run[r].began) = Limit * (begun - run[r].began) + Limit
    <3>1. run[r].began \in Nat /\ Limit \in Nat
      BY <2>1, PortfolioAssumption DEF RunFields, K!ConductorAssumption
    <3> QED
      BY <2>1, <3>1, OneResetMore
  <2>3. (begun + 1) - run[r].began = 1 + begun - run[r].began
    BY <2>1 DEF RunFields
  <2>4. Limit * (1 + begun - run[r].began) = Share(r) + Limit
    BY <2>2, <2>3 DEF Share
  <2>5. Share(r) \in Int /\ run[r].spent \in Nat
    BY <2>1, PortfolioAssumption DEF Share, RunFields, K!ConductorAssumption
  <2> QED
    BY <2>1, <2>4, <2>5, PortfolioAssumption DEF Within, K!ConductorAssumption
<1>2. K!ConductorAssumption
  BY PortfolioAssumption
<1> QED
  BY <1>1, <1>2, SpecConductorInv, PTL

(* In particular no run dispatches more than the limit once for each run    *)
(* there may be.                                                            *)
LEMMA ConductorTypeOK == ASSUME K!ConductorAssumption PROVE K!Spec => []K!TypeOK
<1>1. ConductorInv => K!TypeOK
  <2> SUFFICES ASSUME ConductorInv PROVE K!TypeOK
    OBVIOUS
  <2>1. ASSUME NEW r \in Runs PROVE run[r].spent \in 0..(Limit * MaxRuns)
    <3>1. run[r] \in RunFields /\ begun \in 0..MaxRuns /\ count \in 0..Limit /\ Within(r)
      BY DEF ConductorInv, RunTypes
    <3>2. Limit * MaxRuns \in Nat
      BY DEF K!ConductorAssumption
    <3>3. CASE run[r].began = 0
      BY <3>1, <3>2, <3>3 DEF Within
    <3>4. CASE run[r].began # 0
      <4>1. Limit * ((begun + 1) - run[r].began) = Limit * (begun - run[r].began) + Limit
        <5>1. run[r].began \in Nat /\ Limit \in Nat /\ begun \in Nat
          BY <3>1 DEF RunFields, K!ConductorAssumption
        <5> QED
          BY <5>1, OneResetMore
      <4>2. (begun + 1) - run[r].began \in Nat /\ (begun + 1) - run[r].began <= MaxRuns
        BY <3>1, <3>4 DEF Within, RunFields, K!ConductorAssumption
      <4>3. Limit * ((begun + 1) - run[r].began) <= Limit * MaxRuns
        BY <4>2, LimitGrows DEF K!ConductorAssumption
      <4>4. Share(r) \in Int /\ run[r].spent \in Nat /\ Share(r) + Limit <= Limit * MaxRuns
        BY <3>1, <4>1, <4>3 DEF Share, RunFields, K!ConductorAssumption
      <4> QED
        BY <3>1, <3>2, <4>4 DEF Within, K!ConductorAssumption
    <3> QED
      BY <3>3, <3>4
  <2> QED
    BY <2>1 DEF ConductorInv, RunTypes, RunFields, K!TypeOK
<1> QED
  BY <1>1, SpecConductorInv, PTL

-----------------------------------------------------------------------------
(***************************************************************************)
(* Opt-outs.  The contact the list begins with is the only one there is    *)
(* when OptOutKept speaks, so it must carry the tag.                       *)
(***************************************************************************)
LEMMA SameFinite == \A T : O!IsFiniteSet(T) <=> IsFiniteSet(T)
BY DEF O!IsFiniteSet, IsFiniteSet

LEMMA SameCardinality == \A T : O!Cardinality(T) = Cardinality(T)
BY DEF O!Cardinality, Cardinality

(* The list begins with a contact as soon as there is one.                  *)
Latest == O!Existing # {} => newestContact \in O!Existing
ListedExists == newestContact # NoRow => newestContact \in O!Existing

(* What an upsert or a STOP found is still there when it writes.            *)
OptOutHands ==
  /\ \A w \in ContactWriters : upsert[w].at = "write" /\ upsert[w].row # NoRow
                          => upsert[w].row \in O!Existing
  /\ \A s \in Stops : stop[s].at = "write" => stop[s].row \in O!Existing

Only == \A r, q \in O!Existing : r = q

(* OptOutKept without the cardinality.                                      *)
TagStands ==
  tagged /\ ~retagged /\ Only => newestContact \in O!Existing /\ contact[newestContact].tagged

OptOutInv == O!TypeOK /\ Latest /\ ListedExists /\ OptOutHands /\ TagStands

-----------------------------------------------------------------------------
LEMMA OptOutInit == ASSUME O!OptOutAssumption PROVE O!Init => OptOutInv
<1> SUFFICES ASSUME O!Init PROVE OptOutInv
  OBVIOUS
<1>1. O!TypeOK
  <2>1. upsert \in [ContactWriters -> O!UpsertStates]
    BY DEF O!Init, O!UpsertStates, O!UpsertKinds
  <2> QED
    BY <2>1 DEF O!Init, O!TypeOK, O!ContactStates, O!StopStates, O!StoreKeys
<1>2. O!Existing = {} /\ newestContact = NoRow /\ ~tagged
  BY DEF O!Init, O!Existing
<1>3. OptOutHands
  <2>1. \A w \in ContactWriters : upsert[w].at = "idle"
    BY DEF O!Init
  <2>2. \A s \in Stops : stop[s].at = "idle"
    BY DEF O!Init
  <2> QED
    BY <2>1, <2>2 DEF OptOutHands
<1> QED
  BY <1>1, <1>2, <1>3 DEF OptOutInv, Latest, ListedExists, TagStands

(* Whatever leaves the contacts, the list and the history alone: only what  *)
(* is in hand may change.                                                   *)
LEMMA CrmStands ==
  ASSUME OptOutInv, O!TypeOK', OptOutHands', UNCHANGED <<O!crm, O!history>>
  PROVE  OptOutInv'
BY DEF OptOutInv, Latest, ListedExists, TagStands, Only, O!Existing, O!crm, O!history

(* A row is written, and comes first in the list.                           *)
LEMMA Written ==
  ASSUME O!OptOutAssumption, OptOutInv, NEW r \in Rows, NEW tags \in BOOLEAN,
         O!WriteRow(r, tags)
  PROVE  /\ contact' \in [Rows -> O!ContactStates]
         /\ newestContact' = r /\ r # NoRow
         /\ O!Existing' = O!Existing \cup {r}
         /\ contact'[r].tagged = tags
         /\ Latest' /\ ListedExists'
<1>1. /\ contact' = [contact EXCEPT ![r] = [exists |-> TRUE, tagged |-> tags]]
      /\ newestContact' = r
  BY DEF O!WriteRow
<1>2. contact \in [Rows -> O!ContactStates]
  BY DEF OptOutInv, O!TypeOK
<1>3. /\ contact' \in [Rows -> O!ContactStates]
      /\ contact'[r].exists /\ contact'[r].tagged = tags
      /\ \A q \in Rows : q # r => contact'[q] = contact[q]
  BY <1>1, <1>2 DEF O!ContactStates
<1>4. O!Existing' = O!Existing \cup {r}
  BY <1>2, <1>3 DEF O!Existing
<1> QED
  BY <1>1, <1>3, <1>4 DEF Latest, ListedExists, O!OptOutAssumption

LEMMA UpsertStep ==
  ASSUME O!OptOutAssumption, OptOutInv, NEW w \in ContactWriters, O!UpsertWrites(w)
  PROVE  OptOutInv'
<1> DEFINE found == upsert[w].row
           kind == upsert[w].kind
<1>1. /\ upsert[w].at = "write" /\ found \in Rows \cup {NoRow}
      /\ kind \in O!UpsertKinds
      /\ found # NoRow => found \in O!Existing /\ found \in Rows
  BY DEF O!UpsertWrites, OptOutInv, O!TypeOK, OptOutHands, O!UpsertStates
<1>2. /\ upsert' \in [ContactWriters -> O!UpsertStates]
      /\ upsert'[w].at = "done"
      /\ \A v \in ContactWriters : v # w => upsert'[v] = upsert[v]
  BY DEF O!UpsertWrites, OptOutInv, O!TypeOK, O!UpsertStates
<1>3. PICK r \in Rows, tags \in BOOLEAN :
        /\ O!WriteRow(r, tags)
        /\ found # NoRow => r = found /\ tags = O!TagsAfter(kind, contact[found].tagged)
        /\ found = NoRow => r \notin O!Existing
  <2>1. CASE found # NoRow
    <3>1. O!WriteRow(found, O!TagsAfter(kind, contact[found].tagged))
      BY <2>1 DEF O!UpsertWrites
    <3>2. O!TagsAfter(kind, contact[found].tagged) \in BOOLEAN
      BY DEF O!TagsAfter
    <3> QED
      BY <1>1, <2>1, <3>1, <3>2
  <2>2. CASE found = NoRow
    <3>1. PICK r \in Rows \ O!Existing : O!WriteRow(r, FALSE)
      BY <2>2 DEF O!UpsertWrites
    <3> QED
      BY <2>2, <3>1
  <2> QED
    BY <2>1, <2>2
<1>4. /\ contact' \in [Rows -> O!ContactStates]
      /\ newestContact' = r /\ r # NoRow
      /\ O!Existing' = O!Existing \cup {r}
      /\ contact'[r].tagged = tags
      /\ Latest' /\ ListedExists'
  BY <1>3, Written
<1>5. O!TypeOK'
  BY <1>2, <1>4 DEF O!UpsertWrites, OptOutInv, O!TypeOK, O!history
<1>6. OptOutHands'
  BY <1>2, <1>4 DEF O!UpsertWrites, OptOutInv, OptOutHands
<1>7. ASSUME tagged', ~retagged', Only'
      PROVE  newestContact' \in O!Existing' /\ contact'[newestContact'].tagged
  <2>1. tagged /\ ~retagged /\ ~(kind = "owner" /\ found # NoRow)
    BY <1>7 DEF O!UpsertWrites
  <2>2. Only
    BY <1>4, <1>7 DEF Only
  <2>3. newestContact \in O!Existing /\ contact[newestContact].tagged
    BY <2>1, <2>2 DEF OptOutInv, TagStands
  <2>4. found # NoRow
    BY <1>3, <1>4, <1>7, <2>3 DEF Only
  <2>5. newestContact = found /\ r = found
    BY <1>1, <1>3, <2>2, <2>3, <2>4 DEF Only
  <2>6. tags
    BY <1>3, <2>1, <2>3, <2>4, <2>5 DEF O!TagsAfter
  <2> QED
    BY <1>4, <2>6
<1> QED
  BY <1>4, <1>5, <1>6, <1>7 DEF OptOutInv, TagStands

LEMMA TagStep ==
  ASSUME O!OptOutAssumption, OptOutInv, NEW s \in Stops, O!StopTags(s)
  PROVE  OptOutInv'
<1> DEFINE r == stop[s].row
<1>1. r \in O!Existing /\ r \in Rows
  BY DEF O!StopTags, OptOutInv, OptOutHands, O!Existing
<1>2. /\ contact' \in [Rows -> O!ContactStates]
      /\ newestContact' = r /\ r # NoRow
      /\ O!Existing' = O!Existing \cup {r}
      /\ contact'[r].tagged = TRUE
      /\ Latest' /\ ListedExists'
  BY <1>1, Written DEF O!StopTags
<1>3. /\ stop' \in [Stops -> O!StopStates]
      /\ stop'[s].at = "done"
      /\ \A q \in Stops : q # s => stop'[q] = stop[q]
  BY DEF O!StopTags, OptOutInv, O!TypeOK, O!StopStates
<1>4. O!TypeOK'
  BY <1>1, <1>2, <1>3 DEF O!StopTags, OptOutInv, O!TypeOK
<1>5. OptOutHands'
  BY <1>2, <1>3 DEF O!StopTags, OptOutInv, OptOutHands
<1>6. TagStands'
  BY <1>2 DEF TagStands
<1> QED
  BY <1>2, <1>4, <1>5, <1>6 DEF OptOutInv

-----------------------------------------------------------------------------
LEMMA OptOutStep ==
  ASSUME O!OptOutAssumption
  PROVE  OptOutInv /\ [O!Next]_O!optOutVars => OptOutInv'
<1> SUFFICES ASSUME OptOutInv, [O!Next]_O!optOutVars PROVE OptOutInv'
  OBVIOUS
<1>t. O!TypeOK /\ OptOutHands
  BY DEF OptOutInv
<1>1. ASSUME NEW w \in ContactWriters, O!UpsertFinds(w) PROVE OptOutInv'
  <2>1. PICK r \in Rows \cup {NoRow} :
          O!Found(r) /\ upsert' = [upsert EXCEPT ![w].at = "write", ![w].row = r]
    BY <1>1 DEF O!UpsertFinds
  <2>2. r # NoRow => r \in O!Existing
    BY <2>1 DEF O!Found
  <2>3. O!TypeOK'
    <3>1. upsert' \in [ContactWriters -> O!UpsertStates]
      <4>1. upsert \in [ContactWriters -> O!UpsertStates]
        BY <1>t DEF O!TypeOK
      <4> QED
        BY <2>1, <4>1 DEF O!UpsertStates
    <3> QED
      BY <1>1, <1>t, <3>1 DEF O!UpsertFinds, O!TypeOK, O!crm, O!history
  <2>4. /\ upsert'[w].row = r
        /\ \A v \in ContactWriters : v # w => upsert'[v] = upsert[v]
        /\ O!Existing' = O!Existing /\ stop' = stop
    BY <1>1, <1>t, <2>1 DEF O!UpsertFinds, O!TypeOK, O!Existing, O!crm, O!UpsertStates
  <2>5. OptOutHands'
    BY <1>t, <2>2, <2>4 DEF OptOutHands
  <2> QED
    BY <1>1, <2>3, <2>5, CrmStands DEF O!UpsertFinds
<1>2. ASSUME NEW s \in Stops, NEW n \in Nodes, O!StopArrives(s, n) PROVE OptOutInv'
  <2>1. O!TypeOK'
    <3>1. stop' \in [Stops -> O!StopStates]
      <4>1. /\ stop' = [stop EXCEPT ![s].at = "list", ![s].node = n]
            /\ stop \in [Stops -> O!StopStates]
        BY <1>2, <1>t DEF O!StopArrives, O!TypeOK
      <4> QED
        BY <4>1 DEF O!StopStates
    <3>2. memory' \in [Nodes -> SUBSET O!StoreKeys]
      BY <1>2, <1>t DEF O!StopArrives, O!TypeOK, O!KeyOfStop, O!StoreKeys
    <3> QED
      BY <1>2, <1>t, <3>1, <3>2 DEF O!StopArrives, O!TypeOK, O!crm, O!history
  <2>2. OptOutHands'
    BY <1>2, <1>t DEF O!StopArrives, O!TypeOK, OptOutHands, O!Existing, O!crm
  <2> QED
    BY <1>2, <2>1, <2>2, CrmStands DEF O!StopArrives
<1>3. ASSUME NEW s \in Stops, O!StopLists(s) \/ O!StopGivesUp(s) PROVE OptOutInv'
  <2>1. O!TypeOK'
    <3>1. PICK label \in {"find", "done"} : stop' = [stop EXCEPT ![s].at = label]
      BY <1>3 DEF O!StopLists, O!StopGivesUp
    <3>2. stop' \in [Stops -> O!StopStates]
      BY <1>t, <3>1 DEF O!TypeOK, O!StopStates
    <3> QED
      BY <1>3, <1>t, <3>2 DEF O!StopLists, O!StopGivesUp, O!TypeOK, O!crm, O!history
  <2>2. OptOutHands'
    BY <1>3, <1>t DEF O!StopLists, O!StopGivesUp, O!TypeOK, OptOutHands, O!Existing, O!crm, O!StopStates
  <2> QED
    BY <1>3, <2>1, <2>2, CrmStands DEF O!StopLists, O!StopGivesUp
<1>4. ASSUME NEW s \in Stops, O!StopFinds(s) PROVE OptOutInv'
  <2>1. PICK r \in Rows \cup {NoRow} :
          r \in O!Existing /\ stop' = [stop EXCEPT ![s].at = "write", ![s].row = r]
    BY <1>4 DEF O!StopFinds, O!Existing
  <2>2. O!TypeOK'
    <3>1. stop' \in [Stops -> O!StopStates]
      <4>1. /\ stop' = [stop EXCEPT ![s].at = "write", ![s].row = r]
            /\ stop \in [Stops -> O!StopStates]
        BY <1>t, <2>1 DEF O!TypeOK
      <4> QED
        BY <4>1 DEF O!StopStates
    <3> QED
      BY <1>4, <1>t, <3>1 DEF O!StopFinds, O!TypeOK, O!crm, O!history
  <2>3. OptOutHands'
    BY <1>4, <1>t, <2>1 DEF O!StopFinds, O!TypeOK, OptOutHands, O!Existing, O!crm
  <2> QED
    BY <1>4, <2>2, <2>3, CrmStands DEF O!StopFinds
<1>5. ASSUME NEW n \in Nodes, O!Restart(n) PROVE OptOutInv'
  <2>1. O!TypeOK'
    BY <1>5, <1>t DEF O!Restart, O!TypeOK, O!crm, O!history
  <2>2. OptOutHands'
    BY <1>5, <1>t DEF O!Restart, OptOutHands, O!Existing, O!crm
  <2> QED
    BY <1>5, <2>1, <2>2, CrmStands DEF O!Restart
<1>6. ASSUME NEW m \in Sends, NEW n \in Nodes, O!Check(m, n) PROVE OptOutInv'
  <2>1. O!TypeOK'
    BY <1>6, <1>t DEF O!Check, O!TypeOK, O!StoreKeys, O!crm, O!history
  <2>2. OptOutHands'
    BY <1>6, <1>t DEF O!Check, OptOutHands, O!Existing, O!crm
  <2> QED
    BY <1>6, <2>1, <2>2, CrmStands DEF O!Check
<1>7. CASE UNCHANGED O!optOutVars
  <2>1. O!TypeOK' /\ OptOutHands'
    BY <1>7, <1>t DEF O!optOutVars, O!TypeOK, OptOutHands, O!Existing, O!crm, O!history
  <2> QED
    BY <1>7, <2>1, CrmStands DEF O!optOutVars
<1> QED
  BY <1>1, <1>2, <1>3, <1>4, <1>5, <1>6, <1>7, UpsertStep, TagStep DEF O!Next

THEOREM SpecOptOutInv == ASSUME O!OptOutAssumption PROVE O!Spec => []OptOutInv
<1>1. O!Init => OptOutInv
  BY OptOutInit
<1>2. OptOutInv /\ [O!Next]_O!optOutVars => OptOutInv'
  BY OptOutStep
<1> QED
  BY <1>1, <1>2, PTL DEF O!Spec

(* Once the tag of a STOP (lib/smsOptOut.ts) is on the only contact with    *)
(* the number, the number stays blocked in every process, whatever leads,   *)
(* bookings, further STOPs and restarts follow, until the owner saves that  *)
(* contact with her own form.                                               *)
THEOREM TagIsKept == O!Spec => []OptOutKept
<1>0. O!OptOutAssumption
  BY PortfolioAssumption
<1>1. OptOutInv => OptOutKept
  <2> SUFFICES ASSUME OptOutInv, tagged, ~retagged, Cardinality(O!Existing) = 1,
                      NEW n \in Nodes
               PROVE  O!IsOptedOut(n)
    BY SameCardinality DEF OptOutKept, O!OptOutKept
  <2>1. IsFiniteSet(O!Existing)
    <3>1. IsFiniteSet(Rows)
      BY <1>0, SameFinite DEF O!OptOutAssumption
    <3> QED
      BY <3>1, FS_Subset DEF O!Existing
  <2>2. Only
    BY <2>1, FS_Singleton DEF Only
  <2>3. newestContact \in O!Existing /\ contact[newestContact].tagged
    BY <2>2 DEF OptOutInv, TagStands
  <2> QED
    BY <1>0, <2>3 DEF O!IsOptedOut, O!Tagged, O!Existing, O!OptOutAssumption
<1> QED
  BY <1>0, <1>1, SpecOptOutInv, PTL

-----------------------------------------------------------------------------
(* Bookings: the types are inductive.                                       *)
THEOREM BookingTypes == B!Spec => []B!TypeOK
<1>1. B!Init => B!TypeOK
  BY DEF B!Init, B!TypeOK, B!BookingStatuses
<1>2. B!TypeOK /\ [B!Next]_B!bookingVars => B!TypeOK'
  <2> SUFFICES ASSUME B!TypeOK, [B!Next]_B!bookingVars PROVE B!TypeOK'
    OBVIOUS
  <2>1. ASSUME NEW v \in Visitors, NEW s \in BookingSlots, B!Look(v, s) PROVE B!TypeOK'
    BY <2>1 DEF B!Look, B!TypeOK
  <2>2. ASSUME NEW v \in Visitors, B!Insert(v) \/ B!Confirm(v) \/ B!Dies(v) PROVE B!TypeOK'
    BY <2>2 DEF B!Insert, B!Confirm, B!Dies, B!TypeOK, B!BookingStatuses
  <2>3. ASSUME NEW v \in Visitors, B!SetStatus(v) PROVE B!TypeOK'
    BY <2>3 DEF B!SetStatus, B!TypeOK, B!BookingStatuses
  <2>4. CASE UNCHANGED B!bookingVars
    BY <2>4 DEF B!bookingVars, B!TypeOK
  <2> QED
    BY <2>1, <2>2, <2>3, <2>4 DEF B!Next
<1> QED
  BY <1>1, <1>2, PTL DEF B!Spec

-----------------------------------------------------------------------------
(***************************************************************************)
(* The parts side by side.  A step of the whole is a step of one part and  *)
(* leaves the others where they are, so a behaviour of the whole is a      *)
(* behaviour of every part.                                                *)
(***************************************************************************)
LEMMA PartsStep ==
  ASSUME [PortfolioNext]_all
  PROVE  /\ [Next]_publishVars
         /\ [C!Next]_C!campaignVars /\ [O!Next]_O!optOutVars /\ [L!Next]_L!llmVars
         /\ [K!Next]_K!conductorVars /\ [S!Next]_S!socialVars /\ [B!Next]_B!bookingVars
<1> DEFINE Stands(mine) ==
      /\ mine # "publishing" => UNCHANGED publishVars
      /\ mine # "campaigns" => UNCHANGED C!campaignVars
      /\ mine # "optouts" => UNCHANGED O!optOutVars
      /\ mine # "llm" => UNCHANGED L!llmVars
      /\ mine # "conductor" => UNCHANGED K!conductorVars
      /\ mine # "posts" => UNCHANGED S!socialVars
      /\ mine # "bookings" => UNCHANGED B!bookingVars
<1>1. ASSUME NEW mine, Others(mine) PROVE Stands(mine)
  BY <1>1 DEF Others, campaignVars, optOutVars, llmVars, conductorVars, socialVars, bookingVars,
              C!campaignVars, O!optOutVars, O!crm, O!history, L!llmVars, K!conductorVars,
              S!socialVars, B!bookingVars
<1>2. CASE UNCHANGED all
  <2>1. Stands("none")
    BY <1>2 DEF all, campaignVars, optOutVars, llmVars, conductorVars, socialVars, bookingVars,
                C!campaignVars, O!optOutVars, O!crm, O!history, L!llmVars, K!conductorVars,
                S!socialVars, B!bookingVars
  <2> QED
    BY <2>1
<1> HIDE DEF Stands
<1>3. CASE PortfolioNext
  <2>1. PICK mine \in Parts :
          /\ Stands(mine)
          /\ mine = "publishing" => Next
          /\ mine = "campaigns" => C!Next
          /\ mine = "optouts" => O!Next
          /\ mine = "llm" => L!Next
          /\ mine = "conductor" => K!Next
          /\ mine = "posts" => S!Next
          /\ mine = "bookings" => B!Next
    BY <1>1, <1>3 DEF PortfolioNext, Parts
  <2> QED
    BY <2>1 DEF Stands
<1> QED
  BY <1>2, <1>3

LEMMA PartsBehave ==
  PortfolioSpec => Spec /\ C!Spec /\ O!Spec /\ L!Spec /\ K!Spec /\ S!Spec /\ B!Spec
<1>1. PortfolioInit => Init /\ C!Init /\ O!Init /\ L!Init /\ K!Init /\ S!Init /\ B!Init
  BY DEF PortfolioInit
<1>2. [PortfolioNext]_all =>
        /\ [Next]_publishVars
        /\ [C!Next]_C!campaignVars /\ [O!Next]_O!optOutVars /\ [L!Next]_L!llmVars
        /\ [K!Next]_K!conductorVars /\ [S!Next]_S!socialVars /\ [B!Next]_B!bookingVars
  BY PartsStep
<1> QED
  BY <1>1, <1>2, PTL
     DEF PortfolioSpec, Spec, C!Spec, O!Spec, L!Spec, K!Spec, S!Spec, B!Spec

(* Every component stays within the types of its state, whichever of them   *)
(* is at work: no counter, list, cache or hand of a process ever holds what *)
(* the code could not store there (the assistant's dispatchers and editors, *)
(* the SMS webhook, llm/router.ts, marketing/conductor.ts, the social cron, *)
(* bookings and publishing).                                                *)
THEOREM TypesStand == PortfolioSpec => []AllTypesOK
<1>1. /\ PublishAssumption /\ C!CampaignAssumption /\ O!OptOutAssumption
      /\ L!LlmAssumption /\ K!ConductorAssumption /\ S!SocialAssumption
  BY PortfolioAssumption
<1>2. SocialInv => S!TypeOK
  <2> SUFFICES ASSUME PostTypes PROVE S!TypeOK
    BY DEF SocialInv
  <2>1. \A p \in DOMAIN posts : posts[p] \in PostStates
    BY DEF PostTypes
  <2> QED
    BY <2>1 DEF PostTypes, PostStates, FillerStates, TickStates, S!TypeOK
<1>3. IInv /\ CampaignInv /\ OptOutInv /\ LlmInv /\ K!TypeOK /\ S!TypeOK /\ B!TypeOK => AllTypesOK
  BY DEF IInv, CampaignInv, OptOutInv, LlmInv, AllTypesOK
<1> QED
  BY <1>1, <1>2, <1>3, PartsBehave, SpecIInv, SpecCampaignInv, SpecOptOutInv, SpecLlmInv,
     ConductorTypeOK, SpecSocialInv, BookingTypes, PTL

(* And each of them keeps what it promises while the others are there.      *)
THEOREM PromisesStand ==
  PortfolioSpec =>
    /\ ImplementsHistory
    /\ [](/\ RowFollowsOperation /\ ResentOnlyBySlip /\ OptOutKept
          /\ AnswerPassesItsGate /\ BudgetPerReset /\ RepublishedBySlip)
<1>1. PublishAssumption
  BY PortfolioAssumption
<1> QED
  BY <1>1, PartsBehave, PublishImplementsHistory, RowFollows, ResentBySlip, TagIsKept, OwnGate,
     ShareIsBounded, RepublishedOnlyBySlip, PTL
=============================================================================
