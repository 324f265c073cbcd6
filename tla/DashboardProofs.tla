-------------------------- MODULE DashboardProofs --------------------------
(***************************************************************************)
(* What the owner's dashboards, forms, pills, feed and console show, proved *)
(* of each component's steps on top of the invariants of StorefrontProofs,  *)
(* and that every component stays within its types.                         *)
(***************************************************************************)
EXTENDS StorefrontProofs

LEMMA FeedCardinality == \A T : F!Cardinality(T) = Cardinality(T)
BY DEF F!Cardinality, Cardinality


PollsAssumption == MaxSites \in Nat \ {0} /\ MaxPresses \in Nat

(* Behind a call for a site that is no longer the latest a read is due.     *)
Reads(q, s) ==
  \A i \in 1..Len(q) : q[i].verb # "read" /\ q[i].site # s =>
    \E j \in (i + 1)..Len(q) : q[j].verb = "read"

PollsTyped ==
  /\ step \in H!Steps
  /\ pillRow \in [H!Sites -> H!View]
  /\ slug \in {0} \cup H!Sites
  /\ pill \in H!View
  /\ timer \in BOOLEAN /\ pressed \in BOOLEAN /\ behind \in BOOLEAN
  /\ requests \in Seq(H!Request)
  /\ presses \in 0..MaxPresses

PollsInv ==
  /\ PollsTyped
  /\ Reads(requests, slug)
  /\ timer \/ requests # <<>> => slug # 0
  /\ H!PillIsCurrent

LEMMA OnReply ==
  ASSUME NEW T, NEW q \in Seq(T), q # <<>>, NEW x \in T
  PROVE  /\ <<x>> \o Tail(q) \in Seq(T) /\ <<x>> \o Tail(q) # <<>>
         /\ Len(<<x>> \o Tail(q)) = Len(q) /\ (<<x>> \o Tail(q))[1] = x
         /\ \A i \in 2..Len(q) : (<<x>> \o Tail(q))[i] = q[i]
<1>1. Tail(q) \in Seq(T) /\ Len(Tail(q)) = Len(q) - 1 /\ Len(q) \in Nat \ {0}
      /\ \A i \in 1..Len(q) - 1 : Tail(q)[i] = q[i + 1]
  BY OnTail
<1>2. PICK t \in Seq(T) : t = Tail(q)
  BY <1>1
<1>3. /\ <<x>> \in Seq(T) /\ Len(<<x>>) = 1 /\ <<x>>[1] = x
      /\ \A i \in 1..Len(q) - 1 : t[i] = q[i + 1]
      /\ Len(t) = Len(q) - 1
  BY <1>1, <1>2
<1>4. <<x>> \o t \in Seq(T) /\ Len(<<x>> \o t) = Len(q)
      /\ \A i \in 1..Len(q) : (<<x>> \o t)[i] = IF i <= 1 THEN <<x>>[i] ELSE t[i - 1]
  <2>1. PICK a \in Seq(T) : a = <<x>> /\ Len(a) = 1
    BY <1>3
  <2>2. a \o t \in Seq(T) /\ Len(a \o t) = Len(a) + Len(t)
        /\ \A i \in 1..Len(a) + Len(t) : (a \o t)[i] = IF i <= Len(a) THEN a[i] ELSE t[i - Len(a)]
    BY ConcatProperties
  <2>3. \A i \in 1..Len(q) : i \in 1..Len(a) + Len(t)
    BY <1>1, <1>3, <2>1
  <2>4. Len(a) + Len(t) = Len(q)
    BY <1>1, <1>3, <2>1
  <2> QED
    BY <2>1, <2>2, <2>4
<1>5. \A i \in 2..Len(q) : (<<x>> \o t)[i] = q[i]
  <2>1. ASSUME NEW i \in 2..Len(q) PROVE (<<x>> \o t)[i] = q[i]
    <3>1. i - 1 \in 1..Len(q) - 1 /\ (i - 1) + 1 = i /\ ~ (i <= 1) /\ i \in 1..Len(q)
      BY <1>1
    <3> QED
      BY <1>3, <1>4, <3>1
  <2> QED
    BY <2>1
<1>6. (<<x>> \o t)[1] = x /\ <<x>> \o t # <<>>
  BY <1>1, <1>3, <1>4, EmptySeq
<1> QED
  BY <1>2, <1>4, <1>5, <1>6

LEMMA ReadsReply ==
  ASSUME NEW s, NEW q \in Seq(H!Request), q # <<>>, Reads(q, s), NEW x \in H!Request,
         x.verb = Head(q).verb, x.site = Head(q).site
  PROVE  Reads(<<x>> \o Tail(q), s)
<1>1. PICK t \in Seq(H!Request) : t = <<x>> \o Tail(q)
  BY OnReply
<1>2. Len(t) = Len(q) /\ Len(q) \in Nat \ {0} /\ t[1] = x /\ \A i \in 2..Len(q) : t[i] = q[i]
  BY <1>1, OnReply, OnTail
<1>3. \A i \in 1..Len(q) : t[i].verb = q[i].verb /\ t[i].site = q[i].site
  <2>1. q[1].verb = x.verb /\ q[1].site = x.site
    BY OnTail
  <2>2. \A i \in 1..Len(q) : i = 1 \/ i \in 2..Len(q)
    BY <1>2
  <2> QED
    BY <1>2, <2>1, <2>2
<1>4. ASSUME NEW i \in 1..Len(t), t[i].verb # "read", t[i].site # s
      PROVE  \E j \in (i + 1)..Len(t) : t[j].verb = "read"
  <2>1. PICK j \in (i + 1)..Len(q) : q[j].verb = "read"
    BY <1>2, <1>3, <1>4 DEF Reads
  <2>2. j \in 1..Len(q)
    BY <1>2, <1>4
  <2> QED
    BY <1>2, <1>3, <2>1, <2>2
<1> QED
  BY <1>1, <1>4 DEF Reads

LEMMA ReadsAppend ==
  ASSUME NEW s, NEW q \in Seq(H!Request), NEW x \in H!Request,
         x.verb = "read" \/ (Reads(q, s) /\ x.site = s)
  PROVE  Reads(Append(q, x), s)
<1>1. PICK t \in Seq(H!Request) : t = Append(q, x)
  BY OnAppend
<1>2. Len(t) = Len(q) + 1 /\ Len(q) \in Nat /\ t[Len(q) + 1] = x /\ \A i \in 1..Len(q) : t[i] = q[i]
  BY <1>1, OnAppend
<1>3. ASSUME NEW i \in 1..Len(t), t[i].verb # "read", t[i].site # s
      PROVE  \E j \in (i + 1)..Len(t) : t[j].verb = "read"
  <2>1. i \in 1..Len(q) \/ i = Len(q) + 1
    BY <1>2
  <2>2. i # Len(q) + 1
    BY <1>2, <1>3
  <2>3. CASE x.verb = "read"
    <3>1. Len(q) + 1 \in (i + 1)..Len(t)
      BY <1>2, <2>1, <2>2
    <3> QED
      BY <1>2, <2>3, <3>1
  <2>4. CASE x.verb # "read"
    <3>1. PICK j \in (i + 1)..Len(q) : q[j].verb = "read"
      BY <1>2, <1>3, <2>1, <2>2, <2>4 DEF Reads
    <3>2. j \in 1..Len(q) /\ j \in (i + 1)..Len(t)
      BY <1>2, <2>1, <2>2
    <3> QED
      BY <1>2, <3>1, <3>2
  <2> QED
    BY <2>3, <2>4
<1> QED
  BY <1>1, <1>3 DEF Reads

LEMMA ReadsTail ==
  ASSUME NEW s, NEW q \in Seq(H!Request), q # <<>>, Reads(q, s)
  PROVE  /\ Reads(Tail(q), s)
         /\ Head(q).verb # "read" /\ Head(q).site # s => Tail(q) # <<>>
<1>1. PICK t \in Seq(H!Request) : t = Tail(q)
  BY OnTail
<1>2. /\ Len(t) = Len(q) - 1 /\ Len(q) \in Nat \ {0} /\ Head(q) = q[1]
      /\ \A i \in 1..Len(q) - 1 : t[i] = q[i + 1]
  BY <1>1, OnTail
<1>3. ASSUME NEW i \in 1..Len(t), t[i].verb # "read", t[i].site # s
      PROVE  \E j \in (i + 1)..Len(t) : t[j].verb = "read"
  <2>1. i + 1 \in 1..Len(q) /\ t[i] = q[i + 1]
    BY <1>2
  <2>2. PICK j \in ((i + 1) + 1)..Len(q) : q[j].verb = "read"
    BY <1>3, <2>1 DEF Reads
  <2>3. j - 1 \in (i + 1)..Len(t) /\ j - 1 \in 1..Len(q) - 1 /\ (j - 1) + 1 = j
    BY <1>2, <2>1
  <2> QED
    BY <1>2, <2>2, <2>3
<1>4. ASSUME Head(q).verb # "read", Head(q).site # s PROVE t # <<>>
  <2>1. PICK j \in (1 + 1)..Len(q) : q[j].verb = "read"
    BY <1>2, <1>4 DEF Reads
  <2> QED
    BY <1>2, <2>1, EmptySeq
<1> QED
  BY <1>1, <1>3, <1>4 DEF Reads

LEMMA AskIsRequest ==
  ASSUME NEW verb \in {"read", "provision", "kill"}, NEW s \in H!Sites, NEW on \in BOOLEAN
  PROVE  H!Ask(verb, s, on) \in H!Request /\ H!Ask(verb, s, on).verb = verb /\ H!Ask(verb, s, on).site = s
         /\ H!Unknown \in H!View
BY DEF H!Ask, H!Request, H!Unknown, H!View, H!Statuses

LEMMA ReadIsRequest ==
  ASSUME NEW s \in H!Sites
  PROVE  H!Ask("read", s, FALSE) \in H!Request /\ H!Ask("read", s, FALSE).verb = "read"
BY DEF H!Ask, H!Request, H!Unknown, H!View, H!Statuses

LEMMA PollsStart == PollsAssumption /\ H!Init => PollsInv
<1> SUFFICES ASSUME PollsAssumption, H!Init PROVE PollsInv
  OBVIOUS
<1>1. 1 \in H!Sites /\ 0 \notin H!Sites
  BY DEF PollsAssumption, H!Sites
<1>2. H!Unknown \in H!View
  BY <1>1, AskIsRequest
<1>3. pillRow \in [H!Sites -> H!View]
  <2>1. PICK status \in H!Statuses :
          pillRow = [s \in H!Sites |-> [H!Unknown EXCEPT !.status = IF s = 1 THEN status ELSE "none"]]
    BY DEF H!Init, H!Statuses
  <2>2. \A s \in H!Statuses : [H!Unknown EXCEPT !.status = s] \in H!View
    BY <1>2 DEF H!View
  <2>3. "none" \in H!Statuses
    BY DEF H!Statuses
  <2> QED
    BY <2>1, <2>2, <2>3
<1>4. requests \in Seq(H!Request) /\ Reads(requests, slug) /\ (requests # <<>> => slug # 0)
  <2>1. CASE requests = <<>>
    BY <2>1 DEF Reads
  <2>2. CASE slug = 1 /\ requests = <<H!Ask("read", 1, FALSE)>>
    <3>1. PICK x : x = H!Ask("read", 1, FALSE)
      OBVIOUS
    <3>2. x \in H!Request /\ x = H!Ask("read", 1, FALSE) /\ x.verb = "read"
      BY ONLY <1>1, <3>1, ReadIsRequest
    <3>3. x \in H!Request
      BY <3>2
    <3>4. <<x>> \in Seq(H!Request) /\ Len(<<x>>) = 1 /\ <<x>>[1] = x
      BY ONLY <3>3
    <3>5. requests = <<x>>
      BY <2>2, <3>2
    <3>6. requests \in Seq(H!Request) /\ Len(requests) = 1 /\ requests[1] = x
      BY <3>4, <3>5
    <3>7. Reads(requests, slug)
      <4>1. \A i \in 1..Len(requests) : requests[i].verb = "read"
        <5>1. \A i \in 1..1 : i = 1
          OBVIOUS
        <5> QED
          BY <3>2, <3>6, <5>1
      <4> QED
        BY <4>1 DEF Reads
    <3>8. slug # 0
      BY <2>2
    <3> QED
      BY <3>6, <3>7, <3>8
  <2> QED
    BY <2>1, <2>2 DEF H!Init
<1>5. PollsTyped
  <2>1. presses \in 0..MaxPresses /\ slug \in {0} \cup H!Sites
    <3>1. presses = 0 /\ (slug = 0 \/ slug = 1)
      BY DEF H!Init
    <3> QED
      BY <1>1, <3>1 DEF PollsAssumption
  <2> QED
    BY <1>2, <1>3, <1>4, <2>1 DEF H!Init, PollsTyped
<1>6. slug # 0 => requests # <<>>
  <2>1. slug = 0 \/ (slug = 1 /\ requests = <<H!Ask("read", 1, FALSE)>>)
    BY DEF H!Init
  <2>2. <<H!Ask("read", 1, FALSE)>> # <<>>
    OBVIOUS
  <2> QED
    BY <2>1, <2>2
<1> QED
  BY <1>4, <1>5, <1>6 DEF PollsInv, H!PillIsCurrent, H!Init

PollsStep(A) == PollsAssumption /\ PollsInv /\ A => PollsInv'

(* What is known of the first request.                                      *)
LEMMA FirstIs ==
  ASSUME PollsAssumption, PollsInv, requests # <<>>
  PROVE  /\ Head(requests) \in H!Request /\ Head(requests).site \in H!Sites /\ slug \in H!Sites
         /\ Head(requests).view \in H!View /\ Head(requests).on \in BOOLEAN
         /\ requests \in Seq(H!Request) /\ pillRow \in [H!Sites -> H!View] /\ pill \in H!View
         /\ Tail(requests) \in Seq(H!Request) /\ Reads(Tail(requests), slug)
         /\ Head(requests).verb # "read" /\ Head(requests).site # slug => Tail(requests) # <<>>
<1>1. PICK q \in Seq(H!Request), s \in {0} \cup H!Sites : q = requests /\ s = slug /\ Reads(q, s)
  BY DEF PollsInv, PollsTyped
<1>2. /\ Head(q) \in H!Request /\ Tail(q) \in Seq(H!Request) /\ Reads(Tail(q), s)
      /\ Head(q).verb # "read" /\ Head(q).site # s => Tail(q) # <<>>
  BY <1>1, OnTail, ReadsTail
<1>3. Head(q).site \in H!Sites /\ Head(q).view \in H!View /\ Head(q).on \in BOOLEAN
  BY <1>2 DEF H!Request
<1>4. pillRow \in [H!Sites -> H!View] /\ pill \in H!View /\ slug \in H!Sites
  BY DEF PollsInv, PollsTyped
<1> QED
  BY <1>1, <1>2, <1>3, <1>4

LEMMA PollsRows == PollsStep(\E s \in H!Sites : H!Advance(s) \/ H!Suspend(s))
<1> SUFFICES ASSUME PollsAssumption, PollsInv, NEW s \in H!Sites, H!Advance(s) \/ H!Suspend(s)
             PROVE  PollsInv'
  BY DEF PollsStep
<1>1. PICK next \in H!Statuses : pillRow' = [pillRow EXCEPT ![s].status = next]
  BY DEF H!Advance, H!Suspend, H!Statuses
<1>2. behind' = H!Moved(s) /\ UNCHANGED <<step, slug, pill, timer, pressed, requests, presses>>
  BY DEF H!Advance, H!Suspend
<1>3. pillRow' \in [H!Sites -> H!View] /\ \A t \in H!Sites \ {s} : pillRow'[t] = pillRow[t]
  BY <1>1 DEF PollsInv, PollsTyped, H!View
<1>4. behind' \in BOOLEAN /\ (~behind' => ~behind /\ (s = slug => H!Due))
  BY <1>2 DEF H!Moved, PollsInv, PollsTyped
<1>5. requests = <<>> /\ ~timer => ~H!Due
  BY DEF H!Due
<1>6. PollsTyped'
  BY <1>2, <1>3, <1>4 DEF PollsInv, PollsTyped
<1>7. H!PillIsCurrent'
  BY <1>2, <1>3, <1>4, <1>5 DEF PollsInv, H!PillIsCurrent, PollsTyped
<1> QED
  BY <1>2, <1>6, <1>7 DEF PollsInv

(* The first request is answered.                                           *)
LEMMA PollsReply ==
  ASSUME PollsAssumption, PollsInv, requests # <<>>, NEW q \in H!Request, H!Reply(q),
         q.verb = Head(requests).verb, q.site = Head(requests).site,
         pillRow' \in [H!Sites -> H!View], UNCHANGED <<step, slug, pill, timer, pressed, presses, behind>>
  PROVE  PollsInv'
<1>1. requests' \in Seq(H!Request) /\ requests' # <<>> /\ Reads(requests', slug)
  BY FirstIs, OnReply, ReadsReply DEF H!Reply, PollsInv
<1>2. slug # 0
  BY DEF PollsInv
<1>3. PollsTyped'
  BY <1>1 DEF PollsInv, PollsTyped
<1> QED
  BY <1>1, <1>2, <1>3 DEF PollsInv, H!PillIsCurrent

LEMMA PollsServed == PollsStep(H!ServeRead \/ H!ServeProvision \/ H!ServeKill \/ H!Lost)
<1> SUFFICES ASSUME PollsAssumption, PollsInv, H!ServeRead \/ H!ServeProvision \/ H!ServeKill \/ H!Lost
             PROVE  PollsInv'
  BY DEF PollsStep
<1>0. requests # <<>> /\ UNCHANGED <<step, slug, pill, timer, pressed, presses, behind>>
  BY DEF H!ServeRead, H!ServeProvision, H!ServeKill, H!Lost, H!First
<1>1. PICK q \in H!Request : q = Head(requests)
  BY <1>0, FirstIs
<1>2. q.site \in H!Sites /\ pillRow \in [H!Sites -> H!View] /\ pillRow[q.site] \in H!View /\ q.on \in BOOLEAN
  BY <1>0, <1>1, FirstIs
<1>3. CASE H!ServeRead
  <2>1. PICK now \in {pillRow[q.site].status} \cup {"settled"} :
          /\ pillRow' = [pillRow EXCEPT ![q.site].status = now]
          /\ H!Reply([q EXCEPT !.at = "ok", !.view = [pillRow[q.site] EXCEPT !.status = now]])
    BY <1>1, <1>3 DEF H!ServeRead
  <2>2. now \in H!Statuses
    BY <1>2, <2>1 DEF H!View, H!Statuses
  <2>3. pillRow' \in [H!Sites -> H!View] /\ [pillRow[q.site] EXCEPT !.status = now] \in H!View
    BY <1>2, <2>1, <2>2 DEF H!View
  <2>4. PICK x : x = [q EXCEPT !.at = "ok", !.view = [pillRow[q.site] EXCEPT !.status = now]]
    OBVIOUS
  <2>5. x \in H!Request /\ x.verb = q.verb /\ x.site = q.site
    BY <2>3, <2>4 DEF H!Request
  <2> QED
    BY <1>0, <1>1, <2>1, <2>3, <2>4, <2>5, PollsReply
<1>4. CASE H!ServeProvision
  <2>1. H!Reply([q EXCEPT !.at = "ok"])
    BY <1>1, <1>4 DEF H!ServeProvision
  <2>2. pillRow' \in [H!Sites -> H!View]
    BY <1>1, <1>2, <1>4 DEF H!ServeProvision, H!View, H!Statuses
  <2>3. PICK x : x = [q EXCEPT !.at = "ok"]
    OBVIOUS
  <2>4. x \in H!Request /\ x.verb = q.verb /\ x.site = q.site
    BY <2>3 DEF H!Request
  <2> QED
    BY <1>0, <1>1, <2>1, <2>2, <2>3, <2>4, PollsReply
<1>5. CASE H!ServeKill
  <2>1. PICK at \in {"ok", "no"} : H!Reply([q EXCEPT !.at = at])
    BY <1>1, <1>5 DEF H!ServeKill
  <2>2. pillRow' \in [H!Sites -> H!View]
    <3>1. pillRow' = pillRow \/ \E next \in H!Statuses : pillRow' = [pillRow EXCEPT ![q.site] = [status |-> next, kill |-> q.on]]
      BY <1>1, <1>2, <1>5 DEF H!ServeKill, H!View, H!Statuses
    <3>2. \A next \in H!Statuses : [status |-> next, kill |-> q.on] \in H!View
      BY <1>2 DEF H!View
    <3> QED
      BY <1>2, <3>1, <3>2
  <2>3. PICK x : x = [q EXCEPT !.at = at]
    OBVIOUS
  <2>4. x \in H!Request /\ x.verb = q.verb /\ x.site = q.site
    BY <2>1, <2>3 DEF H!Request
  <2> QED
    BY <1>0, <1>1, <2>1, <2>2, <2>3, <2>4, PollsReply
<1>6. CASE H!Lost
  <2>1. H!Reply([q EXCEPT !.at = "no"]) /\ pillRow' = pillRow
    BY <1>1, <1>6 DEF H!Lost
  <2>3. PICK x : x = [q EXCEPT !.at = "no"]
    OBVIOUS
  <2>4. x \in H!Request /\ x.verb = q.verb /\ x.site = q.site
    BY <2>3 DEF H!Request
  <2> QED
    BY <1>0, <1>1, <1>2, <2>1, <2>3, <2>4, PollsReply
<1> QED
  BY <1>3, <1>4, <1>5, <1>6

LEMMA PollsTakes == PollsStep(H!TakeRead \/ H!TakeProvision \/ H!TakeKill)
<1> SUFFICES ASSUME PollsAssumption, PollsInv, H!TakeRead \/ H!TakeProvision \/ H!TakeKill
             PROVE  PollsInv'
  BY DEF PollsStep
<1>0. requests # <<>> /\ UNCHANGED <<step, pillRow, slug, presses>>
  BY DEF H!TakeRead, H!TakeProvision, H!TakeKill, H!First
<1>1. PICK q \in H!Request : q = Head(requests)
  BY <1>0, FirstIs
<1>2. /\ q.site \in H!Sites /\ q.view \in H!View /\ q.on \in BOOLEAN /\ slug \in H!Sites /\ slug # 0
      /\ pillRow \in [H!Sites -> H!View] /\ pill \in H!View
      /\ Tail(requests) \in Seq(H!Request) /\ Reads(Tail(requests), slug)
      /\ q.verb # "read" /\ q.site # slug => Tail(requests) # <<>>
  BY <1>0, <1>1, FirstIs DEF PollsInv
<1>3. timer \in BOOLEAN /\ behind \in BOOLEAN /\ pressed \in BOOLEAN
  BY DEF PollsInv, PollsTyped
<1>4. CASE H!TakeRead
  <2>1. /\ requests' = Tail(requests) /\ pressed' = pressed
        /\ pill' = IF q.at = "ok" THEN q.view ELSE pill
        /\ timer' = IF q.at = "ok" THEN H!Armed(q.view, slug) ELSE timer
        /\ behind' = \/ q.at # "ok" \/ q.site # slug
                     \/ q.view.status = "passing" /\ pill.status = "passing" /\ ~timer
                     \/ q.view.status # pillRow[q.site].status /\ q.view.status # "passing"
    BY <1>1, <1>4 DEF H!TakeRead
  <2>2. pill' \in H!View /\ timer' \in BOOLEAN /\ behind' \in BOOLEAN
    BY <1>2, <1>3, <2>1 DEF H!Armed
  <2>3. PollsTyped'
    BY <1>0, <1>2, <2>1, <2>2 DEF PollsInv, PollsTyped
  <2>4. ~behind' /\ ~timer' => pill'.status = pillRow'[slug'].status
    BY <1>0, <1>3, <2>1 DEF H!Armed
  <2> QED
    BY <1>0, <1>2, <2>1, <2>3, <2>4 DEF PollsInv, H!PillIsCurrent
<1>5. CASE H!TakeProvision
  <2> DEFINE sight == [pill EXCEPT !.status = "passing"]
  <2>1. /\ requests' = Tail(requests) /\ pressed' = FALSE /\ q.verb = "provision"
        /\ pill' = IF q.at = "ok" THEN sight ELSE pill
        /\ timer' = IF q.at = "ok" THEN H!Armed(sight, slug) ELSE timer
        /\ behind' = (behind \/ pillRow[q.site] # pill)
    BY <1>1, <1>5 DEF H!TakeProvision, H!First
  <2>2. sight \in H!View /\ sight.status = "passing"
    BY <1>2 DEF H!View, H!Statuses
  <2> HIDE DEF sight
  <2>3. pill' \in H!View /\ timer' \in BOOLEAN /\ behind' \in BOOLEAN
    BY <1>2, <1>3, <2>1, <2>2 DEF H!Armed
  <2>4. PollsTyped'
    BY <1>0, <1>2, <2>1, <2>3 DEF PollsInv, PollsTyped
  <2>5. requests' = <<>> /\ ~behind' /\ ~timer' => pill'.status = pillRow'[slug'].status
    BY <1>0, <1>2, <1>3, <2>1, <2>2 DEF H!Armed
  <2> QED
    BY <1>0, <1>2, <2>1, <2>4, <2>5 DEF PollsInv, H!PillIsCurrent
<1>6. CASE H!TakeKill
  <2>1. /\ pressed' = FALSE /\ UNCHANGED timer
        /\ pill' = IF q.at = "ok" THEN [pill EXCEPT !.kill = q.on] ELSE pill
        /\ requests' = IF q.at = "ok" THEN Append(Tail(requests), H!Ask("read", q.site, FALSE))
                       ELSE Tail(requests)
        /\ behind' = (behind \/ q.at # "ok")
    BY <1>1, <1>6 DEF H!TakeKill
  <2>2. PICK x \in H!Request : x = H!Ask("read", q.site, FALSE) /\ x.verb = "read"
    BY <1>2, ReadIsRequest
  <2>3. /\ Append(Tail(requests), x) \in Seq(H!Request) /\ Append(Tail(requests), x) # <<>>
        /\ Reads(Append(Tail(requests), x), slug)
    <3>1. PICK t \in Seq(H!Request), s \in H!Sites : t = Tail(requests) /\ s = slug
      BY <1>2
    <3>2. Append(t, x) \in Seq(H!Request) /\ Append(t, x) # <<>>
      BY OnAppend
    <3>3. Reads(Append(t, x), s)
      BY <2>2, ReadsAppend
    <3> QED
      BY <3>1, <3>2, <3>3
  <2>4. requests' \in Seq(H!Request) /\ Reads(requests', slug)
        /\ (~behind' => requests' # <<>>) /\ behind' \in BOOLEAN
    BY <1>2, <1>3, <2>1, <2>2, <2>3
  <2>5. pill' \in H!View
    BY <1>2, <2>1 DEF H!View
  <2>6. PollsTyped'
    BY <1>0, <2>1, <2>4, <2>5 DEF PollsInv, PollsTyped
  <2> QED
    BY <1>0, <1>2, <2>4, <2>6 DEF PollsInv, H!PillIsCurrent
<1> QED
  BY <1>4, <1>5, <1>6

(* She, or the timer, asks for something of the latest site, or of another  *)
(* that is the latest now, which is read.                                   *)
LEMMA PollsAsks ==
  ASSUME PollsAssumption, PollsInv, NEW x \in H!Request, requests' = Append(requests, x),
         slug' \in H!Sites, x.verb = "read" \/ (x.site = slug /\ slug' = slug),
         pillRow' \in [H!Sites -> H!View], timer' \in BOOLEAN, behind' \in BOOLEAN, pressed' \in BOOLEAN,
         presses' \in 0..MaxPresses, UNCHANGED <<step, pill>>
  PROVE  PollsInv'
<1>1. requests' \in Seq(H!Request) /\ requests' # <<>> /\ Reads(requests', slug')
  <2>1. PICK q \in Seq(H!Request), s \in H!Sites :
          q = requests /\ s = slug' /\ (slug' = slug => Reads(q, s))
    BY DEF PollsInv, PollsTyped
  <2>2. x.verb = "read" \/ (Reads(q, s) /\ x.site = s)
    BY <2>1
  <2>3. Reads(Append(q, x), s)
    BY <2>2, ReadsAppend
  <2>4. Append(q, x) \in Seq(H!Request) /\ Append(q, x) # <<>>
    BY OnAppend
  <2> QED
    BY <2>1, <2>3, <2>4
<1>2. slug' # 0
  BY DEF H!Sites
<1>3. PollsTyped'
  BY <1>1 DEF PollsInv, PollsTyped
<1> QED
  BY <1>1, <1>2, <1>3 DEF PollsInv, H!PillIsCurrent

LEMMA PollsPresses == PollsStep(H!Fire \/ H!Refresh \/ H!Provision \/ H!ToggleKill)
<1> SUFFICES ASSUME PollsAssumption, PollsInv, H!Fire \/ H!Refresh \/ H!Provision \/ H!ToggleKill
             PROVE  PollsInv'
  BY DEF PollsStep
<1>0. /\ UNCHANGED <<step, pillRow, slug, pill, behind>> /\ timer' \in BOOLEAN /\ pressed' \in BOOLEAN
      /\ behind \in BOOLEAN /\ pillRow \in [H!Sites -> H!View] /\ slug \in H!Sites
  BY DEF H!Fire, H!Refresh, H!Provision, H!ToggleKill, H!Press, PollsInv, PollsTyped
<1>3. presses' \in 0..MaxPresses
  <2>1. presses' = presses \/ (presses < MaxPresses /\ presses' = presses + 1)
    BY DEF H!Fire, H!Refresh, H!Provision, H!ToggleKill, H!Press
  <2> QED
    BY <2>1 DEF PollsInv, PollsTyped, PollsAssumption
<1>1. PICK verb \in {"read", "provision", "kill"}, on \in BOOLEAN :
        requests' = Append(requests, H!Ask(verb, slug, on))
  <2>1. CASE H!Fire \/ H!Refresh
    BY <2>1 DEF H!Fire, H!Refresh, H!Press
  <2>2. CASE H!Provision
    BY <2>2 DEF H!Provision, H!Press
  <2>3. CASE H!ToggleKill
    <3>1. requests' = Append(requests, H!Ask("kill", slug, ~pill.kill))
      BY <2>3 DEF H!ToggleKill, H!Press
    <3>2. PICK on \in BOOLEAN : on = ~pill.kill
      OBVIOUS
    <3> QED
      BY <3>1, <3>2
  <2> QED
    BY <2>1, <2>2, <2>3
<1>2. PICK x \in H!Request : x = H!Ask(verb, slug, on) /\ x.site = slug
  BY <1>0, AskIsRequest
<1> QED
  BY <1>0, <1>1, <1>2, <1>3, PollsAsks

LEMMA PollsPublish == PollsStep(H!Publish)
<1> SUFFICES ASSUME PollsAssumption, PollsInv, H!Publish PROVE PollsInv'
  BY DEF PollsStep
<1>1. PICK s \in H!Sites :
        /\ slug' = s
        /\ pillRow' = IF step = "deploy" THEN [pillRow EXCEPT ![s].status = "passing"] ELSE pillRow
        /\ requests' = IF s = slug THEN requests ELSE Append(requests, H!Ask("read", s, FALSE))
        /\ timer' = H!Armed(pill, s)
        /\ behind' = (s = slug /\ (behind \/ (step = "deploy" /\ ~H!Due)))
        /\ presses < MaxPresses /\ presses' = presses + 1
        /\ UNCHANGED <<step, pill, pressed>>
  BY DEF H!Publish
<1>2. pillRow' \in [H!Sites -> H!View] /\ timer' \in BOOLEAN /\ behind' \in BOOLEAN /\ pressed' \in BOOLEAN
      /\ presses' \in 0..MaxPresses
  <2>1. pillRow' \in [H!Sites -> H!View]
    BY <1>1 DEF PollsInv, PollsTyped, H!View, H!Statuses
  <2>2. timer' \in BOOLEAN /\ pressed' \in BOOLEAN
    BY <1>1 DEF PollsInv, PollsTyped, H!Armed
  <2>3. behind' \in BOOLEAN
    BY <1>1, Zenon
  <2>4. presses' \in 0..MaxPresses
    BY <1>1 DEF PollsInv, PollsTyped, PollsAssumption
  <2> QED
    BY <2>1, <2>2, <2>3, <2>4
<1>3. CASE s # slug
  <2>0. PICK x : x = H!Ask("read", s, FALSE)
    OBVIOUS
  <2>1. x \in H!Request /\ x = H!Ask("read", s, FALSE) /\ x.verb = "read"
    BY ONLY <2>0, ReadIsRequest
  <2> QED
    BY <1>1, <1>2, <1>3, <2>1, PollsAsks
<1>4. CASE s = slug
  <2>1. timer' = timer /\ requests' = requests /\ slug' = slug
    BY <1>1, <1>4 DEF H!Armed, PollsInv, PollsTyped
  <2>2. requests = <<>> /\ ~timer => ~H!Due
    BY DEF H!Due
  <2>3. PollsTyped'
    BY <1>1, <1>2, <2>1 DEF PollsInv, PollsTyped
  <2>4. H!PillIsCurrent'
    <3>1. SUFFICES ASSUME requests = <<>>, ~timer, ~behind', slug # 0
                   PROVE  pill.status = pillRow'[slug].status
      BY <1>1, <2>1 DEF H!PillIsCurrent
    <3>2. ~behind /\ step # "deploy"
      BY <1>1, <1>4, <2>2, <3>1
    <3> QED
      BY <1>1, <3>1, <3>2 DEF PollsInv, H!PillIsCurrent
  <2> QED
    BY <2>1, <2>3, <2>4 DEF PollsInv
<1> QED
  BY <1>3, <1>4

LEMMA PollsTypes == PollsInv => H!TypeOK
<1> SUFFICES ASSUME PollsInv PROVE H!TypeOK
  OBVIOUS
<1>1. \A i \in DOMAIN requests : requests[i] \in H!Request
  BY ElementOfSeq, LenProperties DEF PollsInv, PollsTyped
<1> QED
  BY <1>1 DEF PollsInv, PollsTyped, H!TypeOK

LEMMA PollsKept == PollsAssumption /\ PollsInv /\ [H!Next]_H!vars => PollsInv'
<1>1. PollsInv /\ UNCHANGED H!vars => PollsInv'
  BY DEF H!vars, PollsInv, PollsTyped, H!PillIsCurrent, Reads
<1> QED
  BY <1>1, PollsRows, PollsServed, PollsTakes, PollsPresses, PollsPublish DEF PollsStep, H!Next

-----------------------------------------------------------------------------
(* Of a page's calls, given its profile and what it shows: the answer to    *)
(* an effect it listens to is of the profile, and so is that of the one     *)
(* listing it is making, unless the profile changed meanwhile; and what it  *)
(* shows is the profile, or an effect is to tell it.                        *)
PageStands(s, nap, making, unsure, seen) ==
  /\ \A i \in 1..Len(s) :
       /\ s[i].by = "effect" /\ s[i].active => s[i].nap = nap
       /\ s[i].by # "effect" => making /\ (unsure \/ s[i].nap = nap)
  /\ \A i, j \in 1..Len(s) : s[i].by # "effect" /\ s[j].by # "effect" => i = j
  /\ \/ unsure \/ seen = nap
     \/ \E i \in 1..Len(s) : s[i].by = "effect" /\ s[i].active

PagesTyped ==
  /\ listed \in [Tabs -> [nap : G!Naps, status : G!Listed \cup {"none", "unread"}]]
  /\ listing \in [Tabs -> BOOLEAN]
  /\ stale \subseteq Tabs
  /\ changes \in 0..MaxEdits

PagesInv ==
  /\ PagesTyped
  /\ \A t \in Tabs : PageStands(actions[t], profile[t], listing[t], t \in stale, listed[t].nap)

LEMMA Asked ==
  ASSUME NEW by \in {"effect", "list", "refresh"}, NEW nap \in G!Naps
  PROVE  \E q \in G!Call : q = G!Ask(by, nap) /\ q.by = by /\ q.nap = nap /\ q.active = TRUE
<1>1. PICK q : q = G!Ask(by, nap)
  OBVIOUS
<1>2. q = [by |-> by, nap |-> nap, active |-> TRUE, at |-> "asked", row |-> 0,
           op |-> G!NoOperation, status |-> "none"]
  BY <1>1 DEF G!Ask
<1>3. q \in G!Call
  BY <1>2 DEF G!Call
<1> QED
  BY <1>1, <1>2, <1>3

LEMMA PageGoesOn ==
  ASSUME NEW nap, NEW making, NEW unsure, NEW seen, NEW s \in Seq(G!Call), s # <<>>,
         PageStands(s, nap, making, unsure, seen),
         NEW q \in G!Call, q.by = s[1].by, q.active = s[1].active, q.nap = s[1].nap
  PROVE  PageStands([s EXCEPT ![1] = q], nap, making, unsure, seen)
<1>1. Len(s) \in Nat \ {0}
  BY EmptySeq
<1>2. PICK u : u = [s EXCEPT ![1] = q]
  OBVIOUS
<1>a. 1 \in 1..Len(s)
  BY <1>1
<1>b. u \in Seq(G!Call) /\ Len(u) = Len(s) /\ \A i \in 1..Len(s) : u[i] = IF i = 1 THEN q ELSE s[i]
  BY <1>2, <1>a, ExceptSeq
<1>3. \A i \in 1..Len(s) : u[i].by = s[i].by /\ u[i].active = s[i].active /\ u[i].nap = s[i].nap
  <2>1. ASSUME NEW i \in 1..Len(s) PROVE u[i] = IF i = 1 THEN q ELSE s[i]
    BY <1>b
  <2> QED
    BY <2>1
<1> QED
  BY <1>2, <1>b, <1>3 DEF PageStands

(* The first call has been heard: an effect's.                              *)
LEMMA EffectHeard ==
  ASSUME NEW nap, NEW making, NEW unsure, NEW seen, NEW s \in Seq(G!Call), s # <<>>,
         PageStands(s, nap, making, unsure, seen), s[1].by = "effect",
         NEW unsureNow, NEW seenNow,
         unsure => unsureNow,
         s[1].active => unsureNow \/ seenNow = s[1].nap,
         ~s[1].active => seenNow = seen
  PROVE  PageStands(Tail(s), nap, making, unsureNow, seenNow)
<1>1. Len(s) \in Nat \ {0}
  BY EmptySeq
<1>a. Tail(s) \in Seq(G!Call) /\ Len(Tail(s)) = Len(s) - 1 /\ \A i \in 1..Len(s) - 1 : Tail(s)[i] = s[i + 1]
  BY OnTail
<1>2. PICK u : /\ u = Tail(s) /\ u \in Seq(G!Call) /\ Len(u) = Len(s) - 1
               /\ \A i \in 1..Len(s) - 1 : u[i] = s[i + 1]
  BY <1>a
<1>3. \A i \in 1..Len(u) : i + 1 \in 1..Len(s) /\ u[i] = s[i + 1]
  BY <1>1, <1>2
<1>4. \A i \in 1..Len(s) : i = 1 \/ (i - 1 \in 1..Len(u) /\ u[i - 1] = s[i])
  BY <1>1, <1>2
<1>5. \A i \in 1..Len(u) :
        /\ u[i].by = "effect" /\ u[i].active => u[i].nap = nap
        /\ u[i].by # "effect" => making /\ (unsureNow \/ u[i].nap = nap)
  BY <1>3 DEF PageStands
<1>6. ASSUME NEW i \in 1..Len(u), NEW j \in 1..Len(u), u[i].by # "effect", u[j].by # "effect"
      PROVE  i = j
  <2>1. i + 1 \in 1..Len(s) /\ j + 1 \in 1..Len(s) /\ s[i + 1].by # "effect" /\ s[j + 1].by # "effect"
    BY <1>3, <1>6
  <2>2. \A k, l \in 1..Len(s) : s[k].by # "effect" /\ s[l].by # "effect" => k = l
    BY DEF PageStands
  <2>3. i + 1 = j + 1
    BY <2>1, <2>2
  <2> QED
    BY <2>3, <1>2, <1>1
<1>7. unsureNow \/ seenNow = nap \/ \E i \in 1..Len(u) : u[i].by = "effect" /\ u[i].active
  <2>1. CASE s[1].active
    BY <1>1, <2>1 DEF PageStands
  <2>2. CASE ~s[1].active
    BY <1>1, <1>4, <2>2 DEF PageStands
  <2> QED
    BY <2>1, <2>2
<1> QED
  BY <1>2, <1>5, <1>6, <1>7 DEF PageStands

(* It was the listing's, of which the page makes one at a time.             *)
LEMMA ListingHeard ==
  ASSUME NEW nap, NEW making, NEW unsure, NEW seen, NEW s \in Seq(G!Call), s # <<>>,
         PageStands(s, nap, making, unsure, seen), s[1].by # "effect",
         NEW seenNow, seenNow \in {seen, s[1].nap}, NEW makingNow
  PROVE  PageStands(Tail(s), nap, makingNow, unsure, seenNow)
<1>1. Len(s) \in Nat \ {0}
  BY EmptySeq
<1>a. Tail(s) \in Seq(G!Call) /\ Len(Tail(s)) = Len(s) - 1 /\ \A i \in 1..Len(s) - 1 : Tail(s)[i] = s[i + 1]
  BY OnTail
<1>2. PICK u : /\ u = Tail(s) /\ u \in Seq(G!Call) /\ Len(u) = Len(s) - 1
               /\ \A i \in 1..Len(s) - 1 : u[i] = s[i + 1]
  BY <1>a
<1>3. \A i \in 1..Len(u) : i + 1 \in 1..Len(s) /\ i + 1 # 1 /\ u[i] = s[i + 1]
  BY <1>1, <1>2
<1>4. \A i \in 1..Len(s) : i = 1 \/ (i - 1 \in 1..Len(u) /\ u[i - 1] = s[i])
  BY <1>1, <1>2
<1>5. \A i \in 1..Len(u) : u[i].by = "effect" /\ (u[i].active => u[i].nap = nap)
  BY <1>1, <1>3 DEF PageStands
<1>6. unsure \/ seenNow = nap \/ \E i \in 1..Len(u) : u[i].by = "effect" /\ u[i].active
  BY <1>1, <1>4 DEF PageStands
<1> QED
  BY <1>2, <1>5, <1>6 DEF PageStands

LEMMA PageAppends ==
  ASSUME NEW nap, NEW unsure, NEW seen, NEW s \in Seq(G!Call),
         PageStands(s, nap, FALSE, unsure, seen),
         NEW q \in G!Call, q.by # "effect", unsure \/ q.nap = nap
  PROVE  PageStands(Append(s, q), nap, TRUE, unsure, seen)
<1>a. /\ Append(s, q) \in Seq(G!Call) /\ Len(Append(s, q)) = Len(s) + 1
      /\ Append(s, q)[Len(Append(s, q))] = q /\ \A i \in 1..Len(s) : Append(s, q)[i] = s[i]
  BY OnAppend
<1>1. PICK u : /\ u = Append(s, q) /\ u \in Seq(G!Call) /\ Len(u) = Len(s) + 1
               /\ u[Len(s) + 1] = q /\ \A i \in 1..Len(s) : u[i] = s[i]
  BY <1>a
<1>2. Len(s) \in Nat
  OBVIOUS
<1>3. \A i \in 1..Len(u) : i = Len(s) + 1 \/ i \in 1..Len(s)
  BY <1>1, <1>2
<1>4. \A i \in 1..Len(s) : i \in 1..Len(u)
  BY <1>1, <1>2
<1>5. \A i \in 1..Len(s) : u[i].by = "effect"
  BY <1>1 DEF PageStands
<1>6. \A i \in 1..Len(u) :
        /\ u[i].by = "effect" /\ u[i].active => u[i].nap = nap
        /\ u[i].by # "effect" => unsure \/ u[i].nap = nap
  BY <1>1, <1>3 DEF PageStands
<1>7. \A i, j \in 1..Len(u) : u[i].by # "effect" /\ u[j].by # "effect" => i = j
  BY <1>3, <1>5
<1>8. unsure \/ seen = nap \/ \E i \in 1..Len(u) : u[i].by = "effect" /\ u[i].active
  BY <1>1, <1>4 DEF PageStands
<1> QED
  BY <1>1, <1>6, <1>7, <1>8 DEF PageStands

LEMMA PageRereads ==
  ASSUME NEW was, NEW nap \in G!Naps, NEW making, NEW unsure, NEW seen, NEW s \in Seq(G!Call),
         PageStands(s, was, making, unsure, seen)
  PROVE  PageStands(Append([i \in DOMAIN s |-> G!Unheard(s[i])], G!Ask("effect", nap)),
                    nap, making, making, seen)
<1>1. PICK m \in Seq(G!Call) : m = [i \in DOMAIN s |-> G!Unheard(s[i])]
  <2>1. \A q \in G!Call : G!Unheard(q) \in G!Call
    BY DEF G!Unheard, G!Call
  <2>2. Len(s) \in Nat /\ DOMAIN s = 1..Len(s) /\ \A i \in 1..Len(s) : s[i] \in G!Call
    BY LenProperties, ElementOfSeq
  <2>3. PICK m : m = [i \in DOMAIN s |-> G!Unheard(s[i])]
    OBVIOUS
  <2>4. m \in [1..Len(s) -> G!Call]
    BY <2>1, <2>2, <2>3
  <2> QED
    BY <2>2, <2>3, <2>4
<1>2. Len(m) = Len(s) /\ Len(s) \in Nat /\ \A i \in 1..Len(s) : s[i] \in G!Call /\ m[i] = G!Unheard(s[i])
  BY <1>1, LenProperties, ElementOfSeq
<1>3. \A q \in G!Call : G!Unheard(q).by = q.by /\ (q.by = "effect" => G!Unheard(q).active = FALSE)
  BY DEF G!Unheard, G!Call
<1>4. PICK q : q = G!Ask("effect", nap) /\ q \in G!Call /\ q.by = "effect" /\ q.active = TRUE /\ q.nap = nap
  <2>1. "effect" \in {"effect", "list", "refresh"}
    OBVIOUS
  <2>2. \E q \in G!Call : q = G!Ask("effect", nap) /\ q.by = "effect" /\ q.nap = nap /\ q.active = TRUE
    BY <2>1, Asked
  <2> QED
    BY <2>2
<1>a. /\ Append(m, q) \in Seq(G!Call) /\ Len(Append(m, q)) = Len(m) + 1
      /\ Append(m, q)[Len(Append(m, q))] = q /\ \A i \in 1..Len(m) : Append(m, q)[i] = m[i]
  BY <1>4, OnAppend
<1>5. PICK u : /\ u = Append(m, q) /\ u \in Seq(G!Call) /\ Len(u) = Len(m) + 1
               /\ u[Len(m) + 1] = q /\ \A i \in 1..Len(m) : u[i] = m[i]
  BY <1>a
<1>6. \A i \in 1..Len(u) : i = Len(s) + 1 \/ (i \in 1..Len(s) /\ u[i] = G!Unheard(s[i]))
  BY <1>2, <1>5
<1>7. Len(s) + 1 \in 1..Len(u) /\ u[Len(s) + 1] = q
  BY <1>2, <1>5
<1>8. \A i \in 1..Len(u) :
        /\ u[i].by = "effect" /\ u[i].active => u[i].nap = nap
        /\ u[i].by # "effect" => making
  BY <1>2, <1>3, <1>4, <1>6, <1>7 DEF PageStands
<1>9. \A i, j \in 1..Len(u) : u[i].by # "effect" /\ u[j].by # "effect" => i = j
  <2>1. \A i \in 1..Len(u) : u[i].by # "effect" => i \in 1..Len(s) /\ s[i].by # "effect"
    BY <1>2, <1>3, <1>4, <1>6, <1>7
  <2> QED
    BY <2>1 DEF PageStands
<1> QED
  BY <1>1, <1>4, <1>5, <1>7, <1>8, <1>9 DEF PageStands

LEMMA PagesStart == MaxEdits \in Nat /\ ListingTyped /\ G!Init => PagesInv
<1> SUFFICES ASSUME MaxEdits \in Nat, ListingTyped, G!Init PROVE PagesInv
  OBVIOUS
<1>1. PICK nap \in G!Naps : profile = [t \in Tabs |-> nap] /\ actions = [t \in Tabs |-> <<G!Ask("effect", nap)>>]
  BY DEF G!Init
<1>2. PagesTyped
  <2>1. listed \in [Tabs -> [nap : G!Naps, status : G!Listed \cup {"none", "unread"}]]
    BY DEF G!Init, G!Naps
  <2>2. changes = 0 /\ stale = {} /\ listing \in [Tabs -> BOOLEAN]
    BY DEF G!Init
  <2> QED
    BY <2>1, <2>2 DEF PagesTyped
<1>3. PICK q : q = G!Ask("effect", nap)
  OBVIOUS
<1>4. q.by = "effect" /\ q.active /\ q.nap = nap
  BY <1>3 DEF G!Ask
<1>5. Len(<<q>>) = 1 /\ <<q>>[1] = q
  OBVIOUS
<1>6. ASSUME NEW t \in Tabs PROVE PageStands(actions[t], profile[t], listing[t], t \in stale, listed[t].nap)
  <2>1. PICK s : s = actions[t] /\ s = <<q>> /\ Len(s) = 1 /\ s[1] = q
    BY <1>1, <1>3, <1>5
  <2>2. profile[t] = nap
    BY <1>1
  <2>3. \A i \in 1..Len(s) : i = 1
    BY <2>1
  <2>4. 1 \in 1..Len(s)
    BY <2>1
  <2> QED
    BY <1>4, <2>1, <2>2, <2>3, <2>4 DEF PageStands
<1> QED
  BY <1>2, <1>6 DEF PagesInv

PagesStep(A) == ListingTyped /\ ListingTyped' /\ PagesInv /\ A => PagesInv'

(* One page's calls become others; the rest stand.                          *)
LEMMA PagesMove ==
  ASSUME ListingTyped, ListingTyped', PagesInv, PagesTyped', NEW t \in Tabs,
         \A u \in Tabs \ {t} :
            /\ actions'[u] = actions[u] /\ profile'[u] = profile[u] /\ listing'[u] = listing[u]
            /\ listed'[u] = listed[u] /\ (u \in stale' <=> u \in stale),
         PageStands(actions'[t], profile'[t], listing'[t], t \in stale', listed'[t].nap)
  PROVE  PagesInv'
<1>1. ASSUME NEW u \in Tabs
      PROVE  PageStands(actions'[u], profile'[u], listing'[u], u \in stale', listed'[u].nap)
  <2>1. CASE u = t
    BY <2>1
  <2>2. CASE u # t
    <3>1. PageStands(actions[u], profile[u], listing[u], u \in stale, listed[u].nap)
      BY DEF PagesInv
    <3> QED
      BY <2>2, <3>1 DEF PageStands
  <2> QED
    BY <2>1, <2>2
<1> QED
  BY <1>1 DEF PagesInv

LEMMA PagesGoto ==
  ASSUME ListingTyped, ListingTyped', PagesInv, NEW t \in Tabs, G!Running(t), NEW q, G!Goto(t, q),
         q.by = Head(actions[t]).by, q.active = Head(actions[t]).active, q.nap = Head(actions[t]).nap,
         changes' \in 0..MaxEdits, UNCHANGED <<profile, listed, listing, stale>>
  PROVE  PagesInv'
<1>1. PICK s \in Seq(G!Call) : s = actions[t] /\ s # <<>> /\ Head(s) = s[1] /\ Len(s) \in Nat \ {0}
  BY OnTail DEF ListingTyped, G!Running
<1>2. actions'[t] = [s EXCEPT ![1] = q] /\ \A u \in Tabs \ {t} : actions'[u] = actions[u]
  BY <1>1 DEF G!Goto, ListingTyped
<1>3. q \in G!Call
  <2>1. PICK u \in Seq(G!Call) : u = [s EXCEPT ![1] = q]
    BY <1>2 DEF ListingTyped
  <2>2. Len(u) = Len(s) /\ u[1] = q
    <3>1. DOMAIN u = DOMAIN s /\ DOMAIN s = 1..Len(s) /\ DOMAIN u = 1..Len(u)
      BY <2>1, LenProperties
    <3>2. Len(u) \in Nat /\ Len(s) \in 1..Len(s) /\ 1 \in 1..Len(s)
      BY <1>1, <2>1, LenProperties
    <3> QED
      BY <2>1, <3>1, <3>2
  <2> QED
    BY <1>1, <2>1, <2>2, ElementOfSeq
<1>4. PICK p, b, n, v : p = profile[t] /\ b = listing[t] /\ n = (t \in stale) /\ v = listed[t].nap
  OBVIOUS
<1>5. PageStands(s, p, b, n, v)
  BY <1>1, <1>4 DEF PagesInv
<1>6. PageStands([s EXCEPT ![1] = q], p, b, n, v)
  BY <1>1, <1>3, <1>5, PageGoesOn
<1>7. PageStands(actions'[t], profile'[t], listing'[t], t \in stale', listed'[t].nap)
  BY <1>2, <1>4, <1>6
<1>8. PagesTyped'
  BY DEF PagesTyped, PagesInv
<1> QED
  BY <1>2, <1>7, <1>8, PagesMove

LEMMA PagesServed ==
  PagesStep(\E t \in Tabs : \/ G!Accept(t) \/ G!Look(t) \/ G!Upsert(t) \/ G!Read(t) \/ G!ReadOperation(t)
                            \/ G!FindBound(t) \/ G!Settle(t) \/ G!Fail(t))
<1> SUFFICES ASSUME ListingTyped, ListingTyped', PagesInv, NEW t \in Tabs,
                    \/ G!Accept(t) \/ G!Look(t) \/ G!Upsert(t) \/ G!Read(t) \/ G!ReadOperation(t)
                    \/ G!FindBound(t) \/ G!Settle(t) \/ G!Fail(t)
             PROVE  PagesInv'
  BY DEF PagesStep
<1>1. G!Running(t)
  BY DEF G!Accept, G!Look, G!Upsert, G!Read, G!ReadOperation, G!FindBound, G!Settle, G!Fail
<1>2. PICK h \in G!Call : h = Head(actions[t])
  BY <1>1, OnTail DEF ListingTyped, G!Running
<1>3. \E q : /\ G!Goto(t, q) /\ q.by = h.by /\ q.active = h.active /\ q.nap = h.nap
             /\ UNCHANGED <<profile, listed, listing, stale>>
  <2>1. \A at, mine, op, status :
          LET q == [h EXCEPT !.at = at, !.row = mine, !.op = op, !.status = status]
          IN q.by = h.by /\ q.active = h.active /\ q.nap = h.nap
    BY DEF G!Call
  <2>2. CASE G!Accept(t)
    BY <1>2, <2>2 DEF G!Accept, G!Answer, G!Call
  <2>3. CASE G!Look(t) \/ G!Upsert(t)
    BY <1>2, <2>3 DEF G!Look, G!Upsert, G!Answer, G!Call
  <2>4. CASE G!Read(t)
    BY <1>2, <2>4 DEF G!Read, G!Answer, G!Call
  <2>5. CASE G!ReadOperation(t)
    BY <1>2, <2>5 DEF G!ReadOperation, G!Answer, G!Call
  <2>6. CASE G!FindBound(t)
    BY <1>2, <2>6 DEF G!FindBound, G!Answer, G!Call
  <2>7. CASE G!Settle(t) \/ G!Fail(t)
    BY <1>2, <2>7 DEF G!Settle, G!Fail, G!Answer, G!Call
  <2> QED
    BY <2>2, <2>3, <2>4, <2>5, <2>6, <2>7
<1>4. changes' \in 0..MaxEdits
  BY DEF G!Accept, G!Look, G!Upsert, G!Read, G!ReadOperation, G!FindBound, G!Settle, G!Fail, PagesInv, PagesTyped
<1> QED
  BY <1>1, <1>2, <1>3, <1>4, PagesGoto

(* A page hears of an effect, of the making of a listing and of its reading *)
(* again.                                                                   *)
LEMMA PagesHear ==
  PagesStep(\E t \in Tabs : G!TakeEffect(t) \/ G!TakeList(t) \/ G!TakeRefresh(t))
<1> SUFFICES ASSUME ListingTyped, ListingTyped', PagesInv, NEW t \in Tabs,
                    G!TakeEffect(t) \/ G!TakeList(t) \/ G!TakeRefresh(t)
             PROVE  PagesInv'
  BY DEF PagesStep
<1>1. PICK s : s = actions[t] /\ s \in Seq(G!Call) /\ s # <<>>
  BY DEF ListingTyped, G!TakeEffect, G!TakeList, G!TakeRefresh, G!Running
<1>2. Head(s) = s[1] /\ s[1] \in G!Call
  BY <1>1, OnTail
<1>3. PICK h : h = s[1] /\ h \in G!Call /\ h = Head(actions[t])
  BY <1>1, <1>2
<1>4. PICK p, b, n, v : p = profile[t] /\ b = listing[t] /\ n = (t \in stale) /\ v = listed[t].nap
  OBVIOUS
<1>5. PageStands(s, p, b, n, v)
  BY <1>1, <1>4 DEF PagesInv
<1>6. \A u \in Tabs \ {t} :
        /\ actions'[u] = actions[u] /\ profile'[u] = profile[u] /\ listing'[u] = listing[u]
        /\ listed'[u] = listed[u] /\ (u \in stale' <=> u \in stale)
  BY DEF G!TakeEffect, G!TakeList, G!TakeRefresh, PagesInv, PagesTyped, ListingTyped
<1>7. h.nap \in G!Naps /\ h.status \in G!Listed \cup {"none"} /\ h.by \in {"effect", "list", "refresh"}
  BY <1>3 DEF G!Call
<1>8. PICK r : r = [nap |-> h.nap, status |-> h.status]
  OBVIOUS
<1>9. r \in [nap : G!Naps, status : G!Listed \cup {"none", "unread"}] /\ r.nap = h.nap
  BY <1>7, <1>8
<1>10. CASE G!TakeEffect(t)
  <2>1. h.by = "effect" /\ actions'[t] = Tail(s)
    BY <1>1, <1>3, <1>10 DEF G!TakeEffect, ListingTyped
  <2>2. listed' = IF h.active /\ h.at = "ok" THEN [listed EXCEPT ![t] = r] ELSE listed
    BY <1>3, <1>8, <1>10 DEF G!TakeEffect
  <2>3. h.at \in {"ok", "failed"} /\ stale' = IF h.active /\ h.at = "failed" THEN stale \cup {t} ELSE stale
    BY <1>3, <1>10 DEF G!TakeEffect
  <2>4. profile' = profile /\ listing' = listing /\ changes' = changes
    BY <1>10 DEF G!TakeEffect
  <2>5. PagesTyped'
    BY <1>9, <2>2, <2>3, <2>4 DEF PagesInv, PagesTyped
  <2>6. PICK m, w : m = (t \in stale') /\ w = listed'[t].nap
    OBVIOUS
  <2>7. n => m
    BY <1>4, <2>3, <2>6
  <2>8. h.active => m \/ w = h.nap
    <3>1. CASE h.at = "ok"
      BY <3>1, <1>9, <2>2, <2>6 DEF PagesInv, PagesTyped
    <3>2. CASE h.at = "failed"
      BY <3>2, <2>3, <2>6
    <3> QED
      BY <2>3, <3>1, <3>2
  <2>9. ~h.active => w = v
    BY <1>4, <2>2, <2>6
  <2>10. PageStands(Tail(s), p, b, m, w)
    BY <1>1, <1>3, <1>5, <2>1, <2>7, <2>8, <2>9, EffectHeard
  <2>11. PageStands(actions'[t], profile'[t], listing'[t], t \in stale', listed'[t].nap)
    BY <1>4, <2>1, <2>4, <2>6, <2>10
  <2> QED
    BY <1>6, <2>5, <2>11, PagesMove
<1>11. CASE G!TakeList(t)
  <2>1. h.by = "list" /\ listed' = listed /\ stale' = stale /\ profile' = profile /\ changes' = changes
    BY <1>3, <1>11 DEF G!TakeList
  <2>2. PICK c : c = (h.at = "ok")
    OBVIOUS
  <2>3. listing' = [listing EXCEPT ![t] = c]
    BY <1>3, <2>2, <1>11 DEF G!TakeList
  <2>4. PICK q : q = G!Ask("refresh", h.nap) /\ q \in G!Call /\ q.by = "refresh" /\ q.nap = h.nap
    <3>1. "refresh" \in {"effect", "list", "refresh"} /\ h.nap \in G!Naps
      BY <1>7
    <3>2. \E q \in G!Call : q = G!Ask("refresh", h.nap) /\ q.by = "refresh" /\ q.nap = h.nap /\ q.active = TRUE
      BY <3>1, Asked
    <3> QED
      BY <3>2
  <2>5. actions'[t] = IF c THEN Append(Tail(s), q) ELSE Tail(s)
    BY <1>1, <1>3, <2>2, <2>4, <1>11 DEF G!TakeList, ListingTyped
  <2>6. c \in BOOLEAN
    BY <2>2
  <2>7. PagesTyped'
    BY <2>1, <2>3, <2>6 DEF PagesInv, PagesTyped
  <2>8. listing'[t] = c
    BY <2>3 DEF PagesInv, PagesTyped
  <2>9. PageStands(Tail(s), p, FALSE, n, v)
    BY <1>1, <1>3, <1>5, <2>1, ListingHeard
  <2>10. PICK k : k = Tail(s) /\ k \in Seq(G!Call)
    BY <1>1, OnTail
  <2>11. n \/ q.nap = p
    <3>1. 1 \in 1..Len(s)
      BY <1>1, OnTail
    <3> QED
      BY <1>3, <1>5, <2>1, <2>4, <3>1 DEF PageStands
  <2>12. PageStands(Append(k, q), p, TRUE, n, v)
    BY <2>4, <2>9, <2>10, <2>11, PageAppends
  <2>13. PageStands(actions'[t], p, c, n, v)
    BY <2>5, <2>6, <2>9, <2>10, <2>12
  <2>14. PageStands(actions'[t], profile'[t], listing'[t], t \in stale', listed'[t].nap)
    BY <1>4, <2>1, <2>8, <2>13
  <2> QED
    BY <1>6, <2>7, <2>14, PagesMove
<1>12. CASE G!TakeRefresh(t)
  <2>1. h.by = "refresh" /\ actions'[t] = Tail(s)
    BY <1>1, <1>3, <1>12 DEF G!TakeRefresh, ListingTyped
  <2>2. listed' = IF h.at = "ok" THEN [listed EXCEPT ![t] = r] ELSE listed
    BY <1>3, <1>8, <1>12 DEF G!TakeRefresh
  <2>3. profile' = profile /\ stale' = stale /\ changes' = changes /\ listing' = [listing EXCEPT ![t] = FALSE]
    BY <1>12 DEF G!TakeRefresh
  <2>4. PagesTyped'
    BY <1>9, <2>2, <2>3 DEF PagesInv, PagesTyped
  <2>5. PICK w : w = listed'[t].nap
    OBVIOUS
  <2>6. w \in {v, h.nap}
    BY <1>4, <1>9, <2>2, <2>5 DEF PagesInv, PagesTyped
  <2>7. PageStands(Tail(s), p, FALSE, n, w)
    BY <1>1, <1>3, <1>5, <2>1, <2>6, ListingHeard
  <2>8. listing'[t] = FALSE
    BY <2>3 DEF PagesInv, PagesTyped
  <2>9. PageStands(actions'[t], profile'[t], listing'[t], t \in stale', listed'[t].nap)
    BY <1>4, <2>1, <2>3, <2>5, <2>7, <2>8
  <2> QED
    BY <1>6, <2>4, <2>9, PagesMove
<1> QED
  BY <1>10, <1>11, <1>12

(* Her profile changes, or she makes a listing.                             *)
LEMMA PagesOwned == MaxEdits \in Nat => PagesStep(\E t \in Tabs : G!Edit(t) \/ G!List(t))
<1> SUFFICES ASSUME MaxEdits \in Nat, ListingTyped, ListingTyped', PagesInv, NEW t \in Tabs,
                    G!Edit(t) \/ G!List(t)
             PROVE  PagesInv'
  BY DEF PagesStep
<1>1. PICK s : s = actions[t] /\ s \in Seq(G!Call)
  BY DEF ListingTyped
<1>2. PICK p, b, n, v : p = profile[t] /\ b = listing[t] /\ n = (t \in stale) /\ v = listed[t].nap
  OBVIOUS
<1>3. PageStands(s, p, b, n, v)
  BY <1>1, <1>2 DEF PagesInv
<1>4. \A u \in Tabs \ {t} :
        /\ actions'[u] = actions[u] /\ profile'[u] = profile[u] /\ listing'[u] = listing[u]
        /\ listed'[u] = listed[u] /\ (u \in stale' <=> u \in stale)
  BY DEF G!Edit, G!List, PagesInv, PagesTyped, ListingTyped
<1>5. CASE G!Edit(t)
  <2>1. PICK now : now = 1 - p
    OBVIOUS
  <2>2. p \in G!Naps /\ now \in G!Naps /\ profile'[t] = now
    BY <1>2, <2>1, <1>5 DEF G!Edit, ListingTyped, G!Naps
  <2>3. actions'[t] = Append([i \in DOMAIN s |-> G!Unheard(s[i])], G!Ask("effect", now))
    BY <1>1, <1>2, <2>1, <1>5 DEF G!Edit, G!Reread, ListingTyped
  <2>4. listed' = listed /\ listing' = listing /\ changes' = changes + 1 /\ changes < MaxEdits
        /\ stale' = IF listing[t] THEN stale \cup {t} ELSE stale \ {t}
    BY <1>5 DEF G!Edit
  <2>5. PagesTyped'
    BY <2>4 DEF PagesInv, PagesTyped
  <2>6. (t \in stale') = b
    BY <1>2, <2>4 DEF PagesInv, PagesTyped
  <2>7. PageStands(actions'[t], now, b, b, v)
    BY <1>1, <1>3, <2>2, <2>3, PageRereads
  <2>8. PageStands(actions'[t], profile'[t], listing'[t], t \in stale', listed'[t].nap)
    BY <1>2, <2>2, <2>4, <2>6, <2>7
  <2> QED
    BY <1>4, <2>5, <2>8, PagesMove
<1>6. CASE G!List(t)
  <2>1. listed' = listed /\ stale' = stale /\ profile' = profile /\ changes' = changes
        /\ listing' = [listing EXCEPT ![t] = TRUE]
    BY <1>6 DEF G!List
  <2>2. b = FALSE
    BY <1>2, <1>6 DEF G!List, G!Offered, PagesInv, PagesTyped
  <2>3. p \in G!Naps
    BY <1>2 DEF ListingTyped
  <2>4. PICK q : q = G!Ask("list", p) /\ q \in G!Call /\ q.by = "list" /\ q.nap = p
    BY <2>3, Asked
  <2>5. actions'[t] = Append(s, q)
    BY <1>1, <1>2, <2>4, <1>6 DEF G!List, ListingTyped
  <2>6. PagesTyped'
    BY <2>1 DEF PagesInv, PagesTyped
  <2>7. listing'[t] = TRUE
    BY <2>1 DEF PagesInv, PagesTyped
  <2>8. PageStands(s, p, FALSE, n, v)
    BY <1>3, <2>2
  <2>9. PageStands(actions'[t], p, TRUE, n, v)
    BY <1>1, <2>4, <2>5, <2>8, PageAppends
  <2>10. PageStands(actions'[t], profile'[t], listing'[t], t \in stale', listed'[t].nap)
    BY <1>2, <2>1, <2>7, <2>9
  <2> QED
    BY <1>4, <2>6, <2>10, PagesMove
<1> QED
  BY <1>5, <1>6

LEMMA PagesKept ==
  MaxEdits \in Nat /\ ListingTyped /\ ListingTyped' /\ PagesInv /\ [G!Next]_G!vars => PagesInv'
<1> SUFFICES ASSUME MaxEdits \in Nat, ListingTyped, ListingTyped', PagesInv, [G!Next]_G!vars
             PROVE  PagesInv'
  OBVIOUS
<1>1. CASE UNCHANGED G!vars
  BY <1>1 DEF G!vars, PagesInv, PagesTyped, PageStands
<1>2. CASE \E o \in G!Ops : G!Verify(o)
  BY <1>2 DEF G!Verify, PagesInv, PagesTyped, PageStands
<1>3. CASE \E t \in Tabs : G!Edit(t) \/ G!List(t)
  BY <1>3, PagesOwned DEF PagesStep
<1>4. CASE \E t \in Tabs : \/ G!Accept(t) \/ G!Look(t) \/ G!Upsert(t) \/ G!Read(t) \/ G!ReadOperation(t)
                           \/ G!FindBound(t) \/ G!Settle(t) \/ G!Fail(t)
  BY <1>4, PagesServed DEF PagesStep
<1>5. CASE \E t \in Tabs : G!TakeEffect(t) \/ G!TakeList(t) \/ G!TakeRefresh(t)
  BY <1>5, PagesHear DEF PagesStep
<1> QED
  BY <1>1, <1>2, <1>3, <1>4, <1>5 DEF G!Next

LEMMA PagesPromise == ListingTyped /\ PagesInv => G!ProfileIsShown
<1> SUFFICES ASSUME ListingTyped, PagesInv, NEW t \in Tabs \ stale, actions[t] = <<>>
             PROVE  listed[t].nap = profile[t]
  BY DEF G!ProfileIsShown
<1>1. PageStands(actions[t], profile[t], listing[t], t \in stale, listed[t].nap)
  BY DEF PagesInv
<1>2. \A i \in 1..Len(actions[t]) : FALSE
  OBVIOUS
<1> QED
  BY <1>1, <1>2 DEF PageStands

LEMMA PagesTypes == ListingTyped /\ PagesInv => G!TypeOK
<1> SUFFICES ASSUME ListingTyped, PagesInv PROVE G!TypeOK
  OBVIOUS
<1>1. \A i \in DOMAIN listings : listings[i] \in [nap : G!Naps \ {0}, status : G!Listed, op : G!Ops]
  <2>1. PICK T : T = ListingRow
    OBVIOUS
  <2>2. listings \in Seq(T) /\ DOMAIN listings = 1..Len(listings)
    BY <2>1, LenProperties DEF ListingTyped
  <2>3. \A i \in 1..Len(listings) : listings[i] \in T
    BY <2>2, ElementOfSeq
  <2> QED
    BY <2>1, <2>2, <2>3 DEF ListingRow
<1>2. overtaken \subseteq DOMAIN listings
  BY LenProperties DEF ListingTyped
<1>3. \A t \in Tabs : \A i \in DOMAIN actions[t] : actions[t][i] \in G!Call
  BY ElementOfSeq, LenProperties DEF ListingTyped
<1> QED
  BY <1>1, <1>2, <1>3 DEF G!TypeOK, PagesInv, PagesTyped, ListingTyped

-----------------------------------------------------------------------------
(* What the agent described and she has in her list so is there so, in the  *)
(* list and in the editor too.                                              *)
GivenStands(p) ==
  /\ sitePage[p].there /\ sitePage[p].desc = "agents"
  /\ pageList[p].desc = "agents"
  /\ editor.on = p => editor.desc = "agents"
GivenInv == \A p \in given : GivenStands(p)

LEMMA GivenStart == E!Init => GivenInv
BY DEF E!Init, GivenInv

LEMMA GivenPromise == GivenInv => E!AgentsDescKept
BY DEF GivenInv, GivenStands, E!AgentsDescKept

LEMMA GivenKept == SearchAssumption /\ SearchInv /\ GivenInv /\ [E!Next]_E!vars => GivenInv'
<1> SUFFICES ASSUME SearchAssumption, SearchInv, GivenInv, [E!Next]_E!vars PROVE GivenInv'
  OBVIOUS
<1>0. /\ sitePage \in [Pages -> E!Rows] /\ pageList \in [Pages -> E!Rows] /\ given \subseteq Pages
      /\ editor \in [on : Pages \cup {None}, desc : E!Descs, published : BOOLEAN]
  BY DEF SearchInv, E!TypeOK
<1>1. CASE UNCHANGED <<sitePage, pageList, editor, given>>
  BY <1>1 DEF GivenInv, GivenStands
<1>2. CASE UNCHANGED E!vars
  BY <1>1, <1>2 DEF E!vars
<1>3. ASSUME NEW r \in Runs,
             \/ E!Begin(r) \/ E!MapSite(r) \/ E!ListPages(r) \/ E!WriteFails(r) \/ E!PagesDone(r)
             \/ E!Keywords(r) \/ E!RunFails(r) \/ \E p \in Pages : E!Describe(r, p)
      PROVE  GivenInv'
  <2>1. UNCHANGED <<sitePage, pageList, editor, given>>
    BY <1>3 DEF E!Begin, E!MapSite, E!ListPages, E!WriteFails, E!PagesDone, E!Keywords, E!RunFails, E!Describe, E!Rest
  <2> QED
    BY <1>1, <2>1
<1>4. ASSUME NEW r \in Runs, E!WriteDesc(r) PROVE GivenInv'
  <2>1. PICK w : w = seoRun[r].now /\ sitePage' = [sitePage EXCEPT ![w].desc = "agents"]
    BY <1>4 DEF E!WriteDesc
  <2>2. \A p \in given : sitePage'[p].there = sitePage[p].there
                         /\ sitePage'[p].desc = IF p = w THEN "agents" ELSE sitePage[p].desc
    BY <1>0, <2>1 DEF E!Rows
  <2>3. UNCHANGED <<pageList, editor, given>>
    BY <1>4 DEF E!WriteDesc
  <2> QED
    BY <2>2, <2>3 DEF GivenInv, GivenStands
<1>5. CASE E!LoadPages
  <2>1. pageList' = sitePage /\ sitePage' = sitePage /\ editor' = editor /\ editor.on = None
        /\ given' = {p \in Pages : sitePage[p].there /\ sitePage[p].desc = "agents"}
    BY <1>5 DEF E!LoadPages
  <2> QED
    BY <2>1 DEF GivenInv, GivenStands, SearchAssumption
<1>6. CASE E!WriteInEditor
  <2>1. /\ UNCHANGED <<sitePage, pageList>> /\ given' = given \ {editor.on} /\ editor'.on = editor.on
    BY <1>0, <1>6 DEF E!WriteInEditor
  <2> QED
    BY <2>1 DEF GivenInv, GivenStands
<1>7. CASE E!CloseEditor
  <2>1. UNCHANGED <<sitePage, pageList, given>> /\ editor'.on = None
    BY <1>7 DEF E!CloseEditor, E!Shut
  <2> QED
    BY <1>0, <2>1 DEF GivenInv, GivenStands, SearchAssumption
<1>8. CASE E!SaveEditor
  <2>1. PICK e \in Pages : e = editor.on
    BY <1>0, <1>8 DEF E!SaveEditor
  <2>2. given' = given
    BY <1>8 DEF E!SaveEditor
  <2>3. CASE UNCHANGED <<sitePage, pageList, editor, described>>
    BY <1>1, <2>2, <2>3
  <2>4. ASSUME sitePage[e].there, editor' = E!Shut, pageList' = [pageList EXCEPT ![e] = sitePage'[e]],
               NEW published \in BOOLEAN,
               sitePage' = [sitePage EXCEPT ![e].desc = E!SavedDesc, ![e].published = published]
        PROVE  GivenInv'
    <3>1. \A p \in Pages : p # e => sitePage'[p] = sitePage[p] /\ pageList'[p] = pageList[p]
      BY <1>0, <2>4
    <3>2. sitePage'[e].desc = editor.desc /\ sitePage'[e].there = sitePage[e].there /\ pageList'[e] = sitePage'[e]
      BY <1>0, <2>4 DEF E!SavedDesc, E!Rows
    <3>3. editor'.on = None
      BY <2>4 DEF E!Shut
    <3> QED
      BY <1>0, <2>1, <2>2, <3>1, <3>2, <3>3 DEF GivenInv, GivenStands, SearchAssumption
  <2> QED
    BY <1>8, <2>1, <2>3, <2>4 DEF E!SaveEditor
<1>9. ASSUME NEW p \in Pages, E!OpenEditor(p) PROVE GivenInv'
  <2>1. UNCHANGED <<sitePage, pageList, given>> /\ editor'.on = p /\ editor'.desc = pageList[p].desc
    BY <1>9 DEF E!OpenEditor
  <2> QED
    BY <2>1 DEF GivenInv, GivenStands
<1>10. ASSUME NEW p \in Pages, E!TogglePublish(p) PROVE GivenInv'
  <2>1. PICK line : line = [sitePage[p] EXCEPT !.published = ~pageList[p].published]
    OBVIOUS
  <2>2. line.there = sitePage[p].there /\ line.desc = sitePage[p].desc
    BY <1>0, <2>1 DEF E!Rows
  <2>3. /\ sitePage' = [sitePage EXCEPT ![p] = line] /\ pageList' = [pageList EXCEPT ![p] = line]
        /\ UNCHANGED <<editor, given>>
    BY <2>1, <1>10 DEF E!TogglePublish, E!Saved
  <2> QED
    BY <1>0, <2>2, <2>3 DEF GivenInv, GivenStands
<1>11. ASSUME NEW p \in Pages, E!Delete(p) PROVE GivenInv'
  <2>1. PICK line : /\ sitePage' = [sitePage EXCEPT ![p] = line] /\ pageList' = [pageList EXCEPT ![p] = line]
                    /\ editor' = editor /\ given' = given \ {p}
    BY <1>11 DEF E!Delete, E!Saved
  <2> QED
    BY <1>0, <2>1 DEF GivenInv, GivenStands
<1> QED
  BY <1>2, <1>3, <1>4, <1>5, <1>6, <1>7, <1>8, <1>9, <1>10, <1>11 DEF E!Next

-----------------------------------------------------------------------------
(* Of rows told apart by their times, those with fewer than n later ones    *)
(* are n, when there are as many.                                           *)
Later(lines, at) == {s \in lines : s.at > at}
Latest(lines, n) == {r \in lines : Cardinality(Later(lines, r.at)) < n}

LEMMA LaterFewer ==
  ASSUME NEW lines, IsFiniteSet(lines), \A r \in lines : r.at \in Nat,
         NEW r \in lines, NEW at \in Nat, at < r.at
  PROVE  /\ Cardinality(Later(lines, at)) \in Nat /\ Cardinality(Later(lines, r.at)) \in Nat
         /\ Cardinality(Later(lines, r.at)) < Cardinality(Later(lines, at))
<1>1. PICK A, B : A = Later(lines, r.at) /\ B = Later(lines, at)
  OBVIOUS
<1>2. IsFiniteSet(B)
  BY <1>1, FS_Subset DEF Later
<1>3. A \in SUBSET B /\ A # B
  <2>1. r \in B /\ r \notin A
    BY <1>1 DEF Later
  <2>2. \A s \in A : s \in B
    BY <1>1 DEF Later
  <2> QED
    BY <2>1, <2>2
<1>4. IsFiniteSet(A) /\ Cardinality(A) <= Cardinality(B) /\ Cardinality(A) # Cardinality(B)
  BY <1>2, <1>3, FS_Subset
<1>5. Cardinality(A) \in Nat /\ Cardinality(B) \in Nat
  BY <1>2, <1>4, FS_CardinalityType
<1> QED
  BY <1>1, <1>4, <1>5

LEMMA LatestAreEnough ==
  ASSUME NEW lines, IsFiniteSet(lines), \A r \in lines : r.at \in Nat,
         \A r, s \in lines : r.at = s.at => r = s,
         NEW n \in Nat, n <= Cardinality(lines)
  PROVE  Cardinality(Latest(lines, n)) = n
<1>1. PICK m : m = Cardinality(lines) /\ m \in Nat
  BY FS_CardinalityType
<1>2. PICK f : f = [r \in lines |-> Cardinality(Later(lines, r.at))]
  OBVIOUS
<1>3. \A r \in lines : f[r] \in 0..m - 1
  <2>1. TAKE r \in lines
  <2>2. PICK A : A = Later(lines, r.at)
    OBVIOUS
  <2>3. A \in SUBSET lines /\ r \notin A
    BY <2>2 DEF Later
  <2>4. IsFiniteSet(A) /\ Cardinality(A) <= m /\ Cardinality(A) # m
    BY <1>1, <2>3, FS_Subset
  <2>5. Cardinality(A) \in Nat
    BY <2>4, FS_CardinalityType
  <2> QED
    BY <1>1, <1>2, <2>2, <2>4, <2>5
<1>4. \A r, s \in lines : f[r] = f[s] => r = s
  <2>1. SUFFICES ASSUME NEW r \in lines, NEW s \in lines, f[r] = f[s] PROVE r.at = s.at
    OBVIOUS
  <2>2. r.at \in Nat /\ s.at \in Nat
    OBVIOUS
  <2>3. ~(r.at < s.at)
    <3>1. SUFFICES ASSUME r.at < s.at PROVE FALSE
      OBVIOUS
    <3>2. Cardinality(Later(lines, s.at)) < Cardinality(Later(lines, r.at))
          /\ Cardinality(Later(lines, s.at)) \in Nat
      BY <2>2, <3>1, LaterFewer
    <3> QED
      BY <1>2, <2>1, <3>2
  <2>4. ~(s.at < r.at)
    <3>1. SUFFICES ASSUME s.at < r.at PROVE FALSE
      OBVIOUS
    <3>2. Cardinality(Later(lines, r.at)) < Cardinality(Later(lines, s.at))
          /\ Cardinality(Later(lines, r.at)) \in Nat
      BY <2>2, <3>1, LaterFewer
    <3> QED
      BY <1>2, <2>1, <3>2
  <2> QED
    BY <2>2, <2>3, <2>4
<1>5. f \in Injection(lines, 0..m - 1)
  BY <1>2, <1>3, <1>4 DEF Injection, IsInjective
<1>6. IsFiniteSet(0..m - 1) /\ Cardinality(0..m - 1) = m
  <2>1. m \in Nat
    BY <1>1
  <2> QED
    BY <2>1, FS_Interval
<1>7. f \in Surjection(lines, 0..m - 1)
  BY <1>1, <1>5, <1>6, FS_Injection
<1>8. \A k \in 0..m - 1 : \E r \in lines : f[r] = k
  BY <1>7 DEF Surjection
<1>9. PICK Newer : Newer = Latest(lines, n) /\ Newer \subseteq lines
  BY DEF Latest
<1>10. \A r \in lines : r \in Newer <=> f[r] < n
  BY <1>2, <1>9 DEF Latest
<1>11. PICK g : g = [r \in Newer |-> f[r]]
  OBVIOUS
<1>12. \A r \in Newer : g[r] \in 0..n - 1
  BY <1>3, <1>9, <1>10, <1>11
<1>13. g \in Injection(Newer, 0..n - 1)
  BY <1>4, <1>9, <1>11, <1>12 DEF Injection, IsInjective
<1>14. \A k \in 0..n - 1 : \E r \in Newer : g[r] = k
  <2>1. TAKE k \in 0..n - 1
  <2>2. k \in 0..m - 1
    BY <1>1
  <2>3. PICK r \in lines : f[r] = k
    BY <1>8, <2>2
  <2> QED
    BY <1>9, <1>10, <1>11, <2>3
<1>15. g \in Surjection(Newer, 0..n - 1)
  BY <1>11, <1>12, <1>14 DEF Surjection
<1>16. IsFiniteSet(0..n - 1) /\ Cardinality(0..n - 1) = n
  BY FS_Interval
<1>17. Cardinality(Newer) = Cardinality(0..n - 1)
  BY <1>13, <1>15, <1>16, FS_Injection
<1> QED
  BY <1>9, <1>16, <1>17

(* So a row is among the latest, or as many later ones are.                 *)
LEMMA LatestTell ==
  ASSUME NEW lines, IsFiniteSet(lines), \A r \in lines : r.at \in Nat,
         \A r, s \in lines : r.at = s.at => r = s,
         NEW n \in Nat, NEW r \in lines
  PROVE  r \in Latest(lines, n) \/ Cardinality(Later(Latest(lines, n), r.at)) = n
<1>1. SUFFICES ASSUME r \notin Latest(lines, n) PROVE Cardinality(Later(Latest(lines, n), r.at)) = n
  OBVIOUS
<1>2. PICK A : A = Later(lines, r.at) /\ A \in SUBSET lines
  BY DEF Later
<1>3. IsFiniteSet(A) /\ Cardinality(A) <= Cardinality(lines)
  BY <1>2, FS_Subset
<1>4. Cardinality(A) \in Nat /\ Cardinality(lines) \in Nat
  BY <1>3, FS_CardinalityType
<1>5. n <= Cardinality(A)
  BY <1>1, <1>2, <1>4 DEF Latest
<1>6. Cardinality(Latest(lines, n)) = n
  BY <1>3, <1>4, <1>5, LatestAreEnough
<1>7. \A s \in Latest(lines, n) : s.at > r.at
  <2>1. SUFFICES ASSUME NEW s \in lines, ~(s.at > r.at) PROVE s \notin Latest(lines, n)
    BY DEF Latest
  <2>2. s.at \in Nat /\ r.at \in Nat
    OBVIOUS
  <2>3. CASE s.at = r.at
    BY <1>1, <2>3
  <2>4. CASE s.at < r.at
    <3>1. Cardinality(Later(lines, s.at)) \in Nat /\ Cardinality(A) < Cardinality(Later(lines, s.at))
      BY <1>2, <2>2, <2>4, LaterFewer
    <3>2. ~(Cardinality(Later(lines, s.at)) < n)
      BY <1>4, <1>5, <3>1
    <3> QED
      BY <3>2 DEF Latest
  <2> QED
    BY <2>1, <2>2, <2>3, <2>4
<1>8. Later(Latest(lines, n), r.at) = Latest(lines, n)
  BY <1>7 DEF Later
<1> QED
  BY <1>6, <1>8
-----------------------------------------------------------------------------
FeedAssumption == MaxRows \in Nat /\ MaxFetches \in Nat /\ Limit \in Nat
Working == {"working", "ending"}
CallSet == [at : {"idle", "asked", "working", "ending", "served", "refused"},
            op : {"read", "trigger"}, agent : F!Agents, mount : 0..MaxFetches,
            run : F!Times \cup 0..MaxFetches, done : BOOLEAN, rows : SUBSET F!Rows]
Card == [says : {"nothing", "running", "completed", "failed", "error"}, run : F!Times]

FeedTyped ==
  /\ log \subseteq F!Rows /\ IsFiniteSet(log) /\ clock \in F!Times
  /\ opened \in 0..MaxFetches /\ reads \in 0..MaxFetches
  /\ feed \subseteq F!Rows /\ loading \in BOOLEAN
  /\ card \in [F!Agents -> Card] /\ reading \in [ServerCalls -> CallSet]
  /\ heard \in 0..MaxFetches /\ told \subseteq F!Times /\ mute \subseteq F!Times

(* A row, or a run, that is in the log, and how it ended.                   *)
IsLogged(run) == \E r \in log : r.at = run
LoggedSo(agent, run, done) == \E r \in log : r.agent = agent /\ r.at = run /\ r.done = done
Tells(lines, run) == \/ \E r \in lines : r.at = run
                     \/ Cardinality({r \in lines : r.at > run}) = Limit

(* Rows and runs that are under way are told apart by their numbers.        *)
Numbered ==
  /\ \A r, s \in log : r.at = s.at => r = s
  /\ \A r \in log : r.at \in 1..clock
  /\ \A c \in ServerCalls : reading[c].at \in Working =>
       reading[c].run \in 1..clock /\ ~IsLogged(reading[c].run)
  /\ \A c, d \in ServerCalls : reading[c].at \in Working /\ reading[d].at \in Working
                           /\ reading[c].run = reading[d].run => c = d

(* What a call knows of its run: an asked one has none, a served one is     *)
(* logged as it says, or never ran, and a refused one was not logged.       *)
RunKnown(q) ==
  /\ q.at \in Working => q.op = "trigger"
  /\ q.op = "trigger" =>
       /\ q.run \in 0..MaxRows
       /\ q.at \in {"idle", "asked"} => q.run = 0 /\ q.done = FALSE
       /\ q.at = "served" => \/ q.run = 0 /\ q.done = FALSE
                             \/ LoggedSo(q.agent, q.run, q.done)
       /\ q.at = "refused" => q.run = 0 \/ q.run \in mute

ReadKnown(q) ==
  q.op = "read" =>
    /\ q.run <= reads
    /\ q.at = "served" /\ q.run = reads => \A run \in told \ {0} : Tells(q.rows, run)

CardKnown(a) ==
  /\ card[a].says = "completed" => LoggedSo(a, card[a].run, TRUE)
  /\ card[a].says = "failed" => card[a].run = 0 \/ LoggedSo(a, card[a].run, FALSE)
  /\ card[a].says = "error" => card[a].run = 0 \/ card[a].run \in mute

FeedInv ==
  /\ FeedTyped /\ Numbered
  /\ \A c \in ServerCalls : RunKnown(reading[c]) /\ ReadKnown(reading[c])
  /\ \A a \in F!Agents : CardKnown(a)
  /\ \A run \in told \ {0} : IsLogged(run)
  /\ heard <= reads
  /\ opened # 0 /\ heard = reads => \A run \in told \ {0} : Tells(feed, run)

LEMMA FeedStart == FeedAssumption /\ F!Init => FeedInv
<1> SUFFICES ASSUME FeedAssumption, F!Init PROVE FeedInv
  OBVIOUS
<1>1. F!Nothing \in Card /\ F!Idle \in CallSet
  BY DEF FeedAssumption, F!Nothing, F!Idle, Card, CallSet, F!Times, F!Agents
<1>2. FeedTyped
  <2>1. IsFiniteSet(log)
    BY FS_EmptySet DEF F!Init
  <2>2. card \in [F!Agents -> Card] /\ reading \in [ServerCalls -> CallSet]
    BY <1>1 DEF F!Init
  <2>3. clock \in F!Times /\ opened \in 0..MaxFetches /\ reads \in 0..MaxFetches /\ heard \in 0..MaxFetches
    BY DEF F!Init, FeedAssumption, F!Times
  <2>4. log \subseteq F!Rows /\ feed \subseteq F!Rows /\ loading \in BOOLEAN /\ told \subseteq F!Times
        /\ mute \subseteq F!Times
    BY DEF F!Init
  <2> QED
    BY <2>1, <2>2, <2>3, <2>4 DEF FeedTyped
<1>3. \A c \in ServerCalls : reading[c] = F!Idle
  BY DEF F!Init
<1>4. \A c \in ServerCalls : reading[c].at = "idle" /\ reading[c].op = "read" /\ reading[c].run = 0
  BY <1>3 DEF F!Idle
<1>5. \A a \in F!Agents : card[a].says = "nothing"
  BY DEF F!Init, F!Nothing
<1>6. Numbered
  BY <1>4 DEF Numbered, F!Init, Working
<1>7. \A c \in ServerCalls : RunKnown(reading[c]) /\ ReadKnown(reading[c])
  BY <1>4 DEF RunKnown, ReadKnown, F!Init, Working
<1>8. told = {} /\ heard = 0 /\ reads = 0
  BY DEF F!Init
<1>9. \A a \in F!Agents : CardKnown(a)
  BY <1>5 DEF CardKnown
<1> QED
  BY <1>2, <1>6, <1>7, <1>8, <1>9 DEF FeedInv

LEMMA FeedTypes == FeedInv => F!TypeOK
BY DEF FeedInv, FeedTyped, F!TypeOK, Card, CallSet

LEMMA FeedTells == FeedInv => F!FeedHasWhatIsTold
BY FeedCardinality DEF FeedInv, F!FeedHasWhatIsTold, Tells

LEMMA CardsTell == FeedInv => F!CardIsTrue
<1> SUFFICES ASSUME FeedInv, NEW a \in F!Agents,
                    NEW logged, logged = {r \in log : r.agent = a /\ r.at = card[a].run}
             PROVE  /\ card[a].says = "completed" => \E r \in logged : r.done
                    /\ card[a].says = "failed" => \A r \in logged : ~r.done
                    /\ card[a].says = "error" => card[a].run = 0 \/ card[a].run \in mute
  BY DEF F!CardIsTrue
<1>1. CardKnown(a)
  BY DEF FeedInv
<1>2. ASSUME card[a].says = "failed", NEW r \in logged PROVE ~r.done
  <2>1. r \in log /\ r.at = card[a].run
    BY <1>2
  <2>2. r.at # 0
    BY <2>1 DEF FeedInv, Numbered
  <2>3. LoggedSo(a, card[a].run, FALSE)
    BY <1>1, <1>2, <2>1, <2>2 DEF CardKnown
  <2> QED
    BY <2>1, <2>3 DEF LoggedSo, FeedInv, Numbered
<1> QED
  BY <1>1, <1>2 DEF CardKnown, LoggedSo

FeedStep(A) == FeedAssumption /\ FeedInv /\ A => FeedInv'

(* A call that tells nothing new is put in place of another.                *)
LEMMA FeedPuts ==
  ASSUME FeedAssumption, FeedInv, FeedTyped', NEW c \in ServerCalls, NEW q \in CallSet,
         reading' = [reading EXCEPT ![c] = q], UNCHANGED <<log, clock, told, reads, heard>>,
         RunKnown(q)', ReadKnown(q), \A a \in F!Agents : CardKnown(a)',
         q.at \in Working => reading[c].at \in Working /\ q.run = reading[c].run,
         mute \subseteq mute',
         opened' # 0 /\ heard' = reads' => \A run \in told' \ {0} : Tells(feed', run)
  PROVE  FeedInv'
<1>1. reading \in [ServerCalls -> CallSet]
  BY DEF FeedInv, FeedTyped
<1>2. \A d \in ServerCalls : reading'[d] = IF d = c THEN q ELSE reading[d]
  BY <1>1
<1>3. Numbered'
  BY <1>2 DEF FeedInv, Numbered, IsLogged
<1>4. ASSUME NEW d \in ServerCalls PROVE (RunKnown(reading[d]) /\ ReadKnown(reading[d]))'
  <2>1. CASE d = c
    <3>1. reading'[d] = q
      BY <1>2, <2>1
    <3>2. RunKnown(reading[d])'
      BY <3>1 DEF RunKnown, LoggedSo
    <3>3. ReadKnown(reading[d])'
      BY <3>1 DEF ReadKnown, Tells
    <3> QED
      BY <3>2, <3>3
  <2>2. CASE d # c
    <3>1. PICK k : k = reading[d] /\ RunKnown(k) /\ ReadKnown(k) /\ reading'[d] = k
      BY <1>2, <2>2 DEF FeedInv
    <3>2. RunKnown(reading[d])'
      BY <3>1 DEF RunKnown, LoggedSo
    <3>3. ReadKnown(reading[d])'
      BY <3>1 DEF ReadKnown, Tells
    <3> QED
      BY <3>2, <3>3
  <2> QED
    BY <2>1, <2>2
<1>5. \A run \in told' \ {0} : IsLogged(run)'
  BY DEF FeedInv, IsLogged
<1>6. heard' <= reads'
  BY DEF FeedInv
<1> QED
  BY <1>3, <1>4, <1>5, <1>6 DEF FeedInv

(* A row is logged; the call that logged it, if one did, has been served.   *)
LEMMA FeedLogs ==
  ASSUME FeedAssumption, FeedInv, FeedTyped', NEW line \in F!Rows, log' = log \cup {line},
         clock' >= clock, line.at \in 1..clock', ~IsLogged(line.at),
         UNCHANGED <<opened, feed, card, reads, heard, told, mute>>,
         \A c \in ServerCalls :
           /\ reading'[c].at \in Working =>
                reading[c].at \in Working /\ reading'[c].run = reading[c].run /\ reading'[c].run # line.at
           /\ RunKnown(reading[c])' /\ (reading'[c] = reading[c] \/ reading'[c].op # "read")
  PROVE  FeedInv'
<1>0. clock \in Nat /\ clock' \in Nat
  BY DEF FeedInv, FeedTyped, FeedAssumption, F!Times
<1>1. Numbered'
  <2>1. \A r, s \in log' : r.at = s.at => r = s
    BY DEF FeedInv, Numbered, IsLogged
  <2>2. \A r \in log' : r.at \in 1..clock'
    BY <1>0 DEF FeedInv, Numbered
  <2>3. \A c \in ServerCalls : reading'[c].at \in Working => reading'[c].run \in 1..clock' /\ ~IsLogged(reading'[c].run)
    BY <1>0 DEF FeedInv, Numbered, IsLogged
  <2>4. \A c \in ServerCalls : reading'[c].at \in Working => ~IsLogged(reading[c].run)'
    BY <2>3 DEF IsLogged
  <2>5. \A c, d \in ServerCalls : reading'[c].at \in Working /\ reading'[d].at \in Working
                           /\ reading'[c].run = reading'[d].run => c = d
    BY DEF FeedInv, Numbered
  <2> QED
    BY <2>1, <2>2, <2>3, <2>4, <2>5 DEF Numbered
<1>2. ASSUME NEW c \in ServerCalls PROVE (RunKnown(reading[c]) /\ ReadKnown(reading[c]))'
  <2>1. PICK k, l : k = reading[c] /\ ReadKnown(k) /\ l = reading'[c] /\ (l = k \/ l.op # "read")
    BY DEF FeedInv
  <2>2. ReadKnown(reading[c])'
    BY <2>1 DEF ReadKnown, Tells
  <2> QED
    BY <2>2
<1>3. \A a \in F!Agents : CardKnown(a)'
  BY DEF FeedInv, CardKnown, LoggedSo
<1>4. \A run \in told' \ {0} : IsLogged(run)'
  BY DEF FeedInv, IsLogged
<1>5. /\ heard' <= reads'
      /\ opened' # 0 /\ heard' = reads' => \A run \in told' \ {0} : Tells(feed, run)'
  BY DEF FeedInv, Tells
<1> QED
  BY <1>1, <1>2, <1>3, <1>4, <1>5 DEF FeedInv

LEMMA FeedFinite ==
  ASSUME FeedInv, NEW line \in F!Rows, log' = log \cup {line}
  PROVE  log' \subseteq F!Rows /\ IsFiniteSet(log)'
<1>1. IsFiniteSet(log \cup {line})
  BY FS_AddElement DEF FeedInv, FeedTyped
<1> QED
  BY <1>1 DEF FeedInv, FeedTyped

LEMMA FeedRows ==
  FeedStep((\E a \in F!Agents : F!Cron(a)) \/ \E c \in ServerCalls : F!KeepOwnRow(c) \/ F!LogRun(c))
<1> SUFFICES ASSUME FeedAssumption, FeedInv,
                    (\E a \in F!Agents : F!Cron(a)) \/ \E c \in ServerCalls : F!KeepOwnRow(c) \/ F!LogRun(c)
             PROVE  FeedInv'
  BY DEF FeedStep
<1>0. clock \in Nat /\ reading \in [ServerCalls -> CallSet]
  BY DEF FeedInv, FeedTyped, FeedAssumption, F!Times
<1>1. ASSUME clock < MaxRows, clock' = clock + 1, NEW a \in F!Agents, NEW done \in BOOLEAN,
             log' = log \cup {[at |-> clock + 1, agent |-> a, done |-> done]},
             UNCHANGED <<opened, feed, loading, card, reads, heard, told, mute, reading>>
      PROVE  FeedInv'
  <2>1. PICK line : line = [at |-> clock + 1, agent |-> a, done |-> done]
    OBVIOUS
  <2>2. line \in F!Rows /\ line.at = clock + 1 /\ log' = log \cup {line}
    BY <1>0, <1>1, <2>1 DEF F!Rows, F!Times, FeedAssumption
  <2>3. clock' \in F!Times /\ log' \subseteq F!Rows /\ IsFiniteSet(log)'
    BY <1>0, <1>1, <2>2, FeedFinite DEF F!Times, FeedAssumption
  <2>4. FeedTyped'
    BY <1>1, <2>3 DEF FeedInv, FeedTyped
  <2>5. ~IsLogged(line.at)
    BY <1>0, <2>2 DEF IsLogged, FeedInv, Numbered
  <2>6. \A c \in ServerCalls : reading[c].at \in Working => reading[c].run # line.at
    BY <1>0, <2>2 DEF FeedInv, Numbered
  <2>7. \A c \in ServerCalls : RunKnown(reading[c])'
    BY <1>1, <2>2 DEF FeedInv, RunKnown, LoggedSo
  <2>8. clock' >= clock /\ line.at \in 1..clock'
    BY <1>0, <1>1, <2>2
  <2> QED
    BY <1>1, <2>2, <2>4, <2>5, <2>6, <2>7, <2>8, FeedLogs
<1>2. ASSUME NEW a \in F!Agents, F!Cron(a) PROVE FeedInv'
  BY <1>1, <1>2 DEF F!Cron, F!ServerSide
<1>3. ASSUME NEW c \in ServerCalls, F!KeepOwnRow(c) PROVE FeedInv'
  <2>1. "seo" \in F!Agents /\ TRUE \in BOOLEAN
    BY DEF F!Agents
  <2> QED
    BY <1>1, <1>3, <2>1 DEF F!KeepOwnRow, F!ServerSide
<1>4. ASSUME NEW c \in ServerCalls, F!LogRun(c) PROVE FeedInv'
  <2>1. PICK q : q = reading[c] /\ q \in CallSet /\ q.at = "ending"
    BY <1>0, <1>4 DEF F!LogRun
  <2>2. q.run \in 1..clock /\ ~IsLogged(q.run) /\ q.op = "trigger" /\ q.run \in 0..MaxRows
    BY <2>1 DEF FeedInv, Numbered, Working, RunKnown
  <2>3. PICK line : line = [at |-> q.run, agent |-> q.agent, done |-> q.done]
    OBVIOUS
  <2>4. line \in F!Rows /\ line.at = q.run /\ line.agent = q.agent /\ line.done = q.done
    BY <2>1, <2>2, <2>3 DEF F!Rows, F!Times, CallSet
  <2>5. PICK k : k = [q EXCEPT !.at = "served"]
    OBVIOUS
  <2>6. k \in CallSet /\ k.at = "served" /\ k.op = q.op /\ k.run = q.run /\ k.agent = q.agent /\ k.done = q.done
    BY <2>1, <2>5 DEF CallSet
  <2>7. /\ log' = log \cup {line} /\ reading' = [reading EXCEPT ![c] = k]
        /\ UNCHANGED <<clock, opened, feed, loading, card, reads, heard, told, mute>>
    BY <1>4, <2>1, <2>3, <2>5 DEF F!LogRun, F!Step, F!ServerSide
  <2>8. log' \subseteq F!Rows /\ IsFiniteSet(log)'
    BY <2>4, <2>7, FeedFinite
  <2>9. FeedTyped'
    BY <1>0, <2>6, <2>7, <2>8 DEF FeedInv, FeedTyped
  <2>10. \A d \in ServerCalls : reading'[d] = IF d = c THEN k ELSE reading[d]
    BY <1>0, <2>7
  <2>11. ASSUME NEW d \in ServerCalls
         PROVE  /\ reading'[d].at \in Working => reading[d].at \in Working /\ reading'[d].run = reading[d].run
                                                /\ reading'[d].run # line.at
                /\ RunKnown(reading[d])' /\ (reading'[d] = reading[d] \/ reading'[d].op # "read")
    <3>1. CASE d = c
      <4>1. reading'[d] = k
        BY <2>10, <3>1
      <4>2. LoggedSo(k.agent, k.run, k.done)'
        BY <2>4, <2>6, <2>7 DEF LoggedSo
      <4>3. k.at = "served" /\ k.op = "trigger" /\ k.run \in 0..MaxRows
        BY <2>2, <2>6
      <4>4. RunKnown(reading[d])'
        BY <4>1, <4>2, <4>3 DEF RunKnown, Working, LoggedSo
      <4>5. reading'[d].at \notin Working /\ reading'[d].op # "read"
        BY <4>1, <4>3 DEF Working
      <4> QED
        BY <4>4, <4>5
    <3>2. CASE d # c
      <4>1. PICK l : l = reading[d] /\ reading'[d] = l /\ RunKnown(l)
        BY <2>10, <3>2 DEF FeedInv
      <4>2. l.at \in Working => l.run # line.at
        BY <2>1, <2>4, <3>2, <4>1 DEF FeedInv, Numbered, Working
      <4>3. RunKnown(reading[d])'
        BY <2>7, <4>1 DEF RunKnown, LoggedSo
      <4> QED
        BY <4>1, <4>2, <4>3
    <3> QED
      BY <3>1, <3>2
  <2>12. clock' >= clock /\ line.at \in 1..clock' /\ ~IsLogged(line.at)
    BY <1>0, <2>2, <2>4, <2>7
  <2> QED
    BY <2>4, <2>7, <2>9, <2>11, <2>12, FeedLogs
<1> QED
  BY <1>2, <1>3, <1>4

(* The page reads the feed: what it shows is then of an earlier read.       *)
LEMMA FeedReads ==
  ASSUME FeedAssumption, FeedInv, NEW c \in ServerCalls, F!Fetch(c), opened' \in 0..MaxFetches,
         UNCHANGED <<log, clock, feed, heard, mute>>,
         card' \in [F!Agents -> Card], \A a \in F!Agents : CardKnown(a)',
         told' \subseteq F!Times, \A run \in told' \ {0} : IsLogged(run)
  PROVE  FeedInv'
<1>1. reads' = reads + 1 /\ reads' \in 0..MaxFetches /\ reads \in Nat /\ heard \in Nat /\ heard <= reads
  BY DEF F!Fetch, FeedInv, FeedTyped, FeedAssumption
<1>2. PICK q : q = [F!Idle EXCEPT !.at = "asked", !.mount = opened', !.run = reads']
  OBVIOUS
<1>3. q \in CallSet
  BY <1>1, <1>2 DEF F!Idle, CallSet, F!Agents
<1>4. q.at = "asked" /\ q.op = "read" /\ q.run = reads'
  BY <1>2 DEF F!Idle
<1>5. reading \in [ServerCalls -> CallSet] /\ reading' = [reading EXCEPT ![c] = q]
  BY <1>2 DEF FeedInv, FeedTyped, F!Fetch
<1>6. \A d \in ServerCalls : reading'[d] = IF d = c THEN q ELSE reading[d]
  BY <1>5
<1>7. FeedTyped'
  <2>1. reading' \in [ServerCalls -> CallSet] /\ loading' = TRUE
    BY <1>3, <1>5 DEF F!Fetch
  <2> QED
    BY <1>1, <2>1 DEF FeedInv, FeedTyped
<1>8. Numbered'
  BY <1>4, <1>6 DEF FeedInv, Numbered, IsLogged, Working
<1>9. ASSUME NEW d \in ServerCalls PROVE (RunKnown(reading[d]) /\ ReadKnown(reading[d]))'
  <2>1. CASE d = c
    BY <1>4, <1>6, <1>1, <2>1 DEF RunKnown, ReadKnown, Working
  <2>2. CASE d # c
    <3>1. PICK k : k = reading[d] /\ RunKnown(k) /\ ReadKnown(k) /\ reading'[d] = k /\ k \in CallSet
      BY <1>6, <1>5, <2>2 DEF FeedInv
    <3>2. RunKnown(reading[d])'
      BY <3>1 DEF RunKnown, LoggedSo
    <3>3. k.op = "read" => k.run < reads'
      <4>1. k.run \in Nat
        BY <3>1 DEF CallSet, F!Times
      <4> QED
        BY <1>1, <3>1, <4>1 DEF ReadKnown
    <3>4. k.op = "read" => k.run <= reads' /\ k.run # reads'
      BY <1>1, <3>1, <3>3 DEF CallSet, F!Times
    <3>5. ReadKnown(reading[d])'
      BY <3>1, <3>4 DEF ReadKnown
    <3> QED
      BY <3>2, <3>5
  <2> QED
    BY <2>1, <2>2
<1>10. \A run \in told' \ {0} : IsLogged(run)'
  BY DEF IsLogged
<1>11. heard' <= reads' /\ heard' # reads'
  BY <1>1
<1> QED
  BY <1>7, <1>8, <1>9, <1>10, <1>11 DEF FeedInv

LEMMA FeedOpened == FeedStep(\E c \in ServerCalls : F!Open(c) \/ F!Refresh(c) \/ F!TakeTrigger(c))
<1> SUFFICES ASSUME FeedAssumption, FeedInv, NEW c \in ServerCalls, F!Open(c) \/ F!Refresh(c) \/ F!TakeTrigger(c)
             PROVE  FeedInv'
  BY DEF FeedStep
<1>0. /\ card \in [F!Agents -> Card] /\ reading \in [ServerCalls -> CallSet]
      /\ opened \in 0..MaxFetches /\ reads \in 0..MaxFetches /\ told \subseteq F!Times
  BY DEF FeedInv, FeedTyped
<1>1. CASE F!Open(c) \/ F!Refresh(c)
  <2>1. /\ F!Fetch(c) /\ UNCHANGED <<log, clock, feed, card, runs, heard, told, mute>>
        /\ opened' = reads + 1 \/ opened' = opened
    BY <1>1 DEF F!Open, F!Refresh
  <2>2. opened' \in 0..MaxFetches
    BY <1>0, <2>1 DEF F!Fetch, FeedAssumption
  <2>3. \A a \in F!Agents : CardKnown(a)'
    BY <2>1 DEF FeedInv, CardKnown, LoggedSo
  <2>4. \A run \in told' \ {0} : IsLogged(run)
    BY <2>1 DEF FeedInv
  <2> QED
    BY <1>0, <2>1, <2>2, <2>3, <2>4, FeedReads
<1>2. CASE F!TakeTrigger(c)
  <2>1. PICK q : q = reading[c] /\ q \in CallSet /\ RunKnown(q) /\ q.op = "trigger" /\ q.at = "served"
    BY <1>0, <1>2 DEF F!TakeTrigger, FeedInv
  <2>2. q.run \in F!Times /\ ((q.run = 0 /\ q.done = FALSE) \/ LoggedSo(q.agent, q.run, q.done))
        /\ q.agent \in F!Agents /\ q.done \in BOOLEAN
    BY <2>1 DEF RunKnown, CallSet, F!Times
  <2>a. PICK k : k = [says |-> F!Outcome(q), run |-> q.run]
    OBVIOUS
  <2>3. k = [says |-> F!Outcome(q), run |-> q.run] /\ k \in Card /\ k.says = F!Outcome(q) /\ k.run = q.run
    BY <2>2, <2>a DEF F!Outcome, Card
  <2>4. /\ F!Fetch(c) /\ UNCHANGED <<log, clock, feed, runs, heard, mute>> /\ opened' = opened
        /\ told' = told \cup {q.run} /\ card' = [card EXCEPT ![q.agent] = k]
    BY <1>2, <2>1, <2>3 DEF F!TakeTrigger, F!Shown
  <2>5. ASSUME NEW a \in F!Agents PROVE CardKnown(a)'
    <3>1. CASE a = q.agent
      <4>1. card'[a] = k
        BY <1>0, <2>4, <3>1
      <4>2. CASE q.done = TRUE
        <5>1. k.says = "completed" /\ LoggedSo(a, k.run, TRUE)
          BY <2>2, <2>3, <3>1, <4>2 DEF F!Outcome
        <5> QED
          BY <2>4, <4>1, <5>1 DEF CardKnown, LoggedSo
      <4>3. CASE q.done = FALSE
        <5>1. k.says = "failed" /\ (k.run = 0 \/ LoggedSo(a, k.run, FALSE))
          BY <2>2, <2>3, <3>1, <4>3 DEF F!Outcome
        <5> QED
          BY <2>4, <4>1, <5>1 DEF CardKnown, LoggedSo
      <4> QED
        BY <2>2, <4>2, <4>3
    <3>2. CASE a # q.agent
      <4>1. card'[a] = card[a]
        BY <1>0, <2>4, <3>2
      <4> QED
        BY <2>4, <4>1 DEF FeedInv, CardKnown, LoggedSo
    <3> QED
      BY <3>1, <3>2
  <2>6. \A run \in told' \ {0} : IsLogged(run)
    BY <2>2, <2>4 DEF FeedInv, IsLogged, LoggedSo
  <2>7. card' \in [F!Agents -> Card] /\ told' \subseteq F!Times /\ opened' \in 0..MaxFetches
    BY <1>0, <2>2, <2>3, <2>4
  <2> QED
    BY <2>4, <2>5, <2>6, <2>7, FeedReads
<1> QED
  BY <1>1, <1>2

LEMMA FeedLeft == FeedStep(F!Leave)
<1> SUFFICES ASSUME FeedAssumption, FeedInv, F!Leave PROVE FeedInv'
  BY DEF FeedStep
<1>0. /\ reading \in [ServerCalls -> CallSet] /\ reads \in Nat
  BY DEF FeedInv, FeedTyped, FeedAssumption
<1>1. /\ opened' = 0 /\ feed' = {} /\ loading' = FALSE /\ card' = [a \in F!Agents |-> F!Nothing]
      /\ heard' = 0 /\ told' = {} /\ UNCHANGED <<log, clock, runs, reads, mute>>
      /\ reading' = [c \in ServerCalls |-> IF reading[c].op = "read" THEN F!Idle ELSE reading[c]]
  BY DEF F!Leave
<1>2. F!Idle \in CallSet /\ F!Nothing \in Card
  BY DEF F!Idle, CallSet, F!Nothing, Card, F!Times, FeedAssumption, F!Agents
<1>3. reading' \in [ServerCalls -> CallSet] /\ card' \in [F!Agents -> Card]
  BY <1>0, <1>1, <1>2
<1>4. FeedTyped'
  <2>1. 0 \in 0..MaxFetches /\ {} \subseteq F!Times
    BY DEF FeedAssumption
  <2> QED
    BY <1>1, <1>3, <2>1 DEF FeedTyped, FeedInv
<1>5. \A c \in ServerCalls : \/ reading'[c] = reading[c] /\ reading[c].op # "read"
                             \/ reading'[c].at = "idle" /\ reading'[c].op = "read" /\ reading'[c].run = 0
  BY <1>1 DEF F!Idle
<1>6. Numbered'
  BY <1>1, <1>5 DEF Numbered, FeedInv, IsLogged, Working
<1>7. ASSUME NEW c \in ServerCalls PROVE (RunKnown(reading[c]) /\ ReadKnown(reading[c]))'
  <2>1. CASE reading'[c] = reading[c] /\ reading[c].op # "read"
    <3>1. PICK k : k = reading[c] /\ reading'[c] = k /\ RunKnown(k) /\ k.op # "read"
      BY <2>1 DEF FeedInv
    <3> QED
      BY <1>1, <3>1 DEF RunKnown, ReadKnown, LoggedSo
  <2>2. CASE reading'[c].at = "idle" /\ reading'[c].op = "read" /\ reading'[c].run = 0
    BY <1>0, <1>1, <2>2 DEF RunKnown, ReadKnown, Working
  <2> QED
    BY <1>5, <2>1, <2>2
<1>8. \A a \in F!Agents : card'[a].says = "nothing"
  BY <1>1 DEF F!Nothing
<1>9. \A a \in F!Agents : CardKnown(a)'
  BY <1>8 DEF CardKnown
<1> QED
  BY <1>0, <1>1, <1>4, <1>6, <1>7, <1>9 DEF FeedInv

LEMMA FeedStarts == FeedStep(\E c \in ServerCalls : F!Start(c))
<1> SUFFICES ASSUME FeedAssumption, FeedInv, NEW c \in ServerCalls, F!Start(c) PROVE FeedInv'
  BY DEF FeedStep
<1>0. reading \in [ServerCalls -> CallSet] /\ clock \in Nat /\ clock' = clock + 1 /\ clock' \in F!Times
  BY DEF FeedInv, FeedTyped, FeedAssumption, F!Times, F!Start
<1>1. PICK q : q = reading[c] /\ q \in CallSet /\ q.op = "trigger" /\ q.at = "asked" /\ RunKnown(q)
  BY <1>0 DEF F!Start, FeedInv
<1>2. PICK k : k = [q EXCEPT !.at = "working", !.run = clock + 1]
  OBVIOUS
<1>3. k \in CallSet /\ k.at = "working" /\ k.op = "trigger" /\ k.run = clock + 1
  BY <1>0, <1>1, <1>2 DEF CallSet
<1>4. /\ reading' = [reading EXCEPT ![c] = k]
      /\ UNCHANGED <<opened, feed, loading, card, reads, heard, told, log, runs, mute>>
  BY <1>0, <1>1, <1>2 DEF F!Start, F!Step, F!ServerSide
<1>5. FeedTyped'
  BY <1>0, <1>3, <1>4 DEF FeedInv, FeedTyped
<1>6. \A d \in ServerCalls : reading'[d] = IF d = c THEN k ELSE reading[d]
  BY <1>0, <1>4
<1>7. ~IsLogged(clock + 1)
  BY <1>0 DEF FeedInv, Numbered, IsLogged
<1>8. Numbered'
  <2>1. \A r, s \in log' : r.at = s.at => r = s
    BY <1>4 DEF FeedInv, Numbered
  <2>2. \A r \in log' : r.at \in 1..clock'
    BY <1>0, <1>4 DEF FeedInv, Numbered
  <2>3. ASSUME NEW d \in ServerCalls, reading'[d].at \in Working
        PROVE  reading'[d].run \in 1..clock' /\ IsLogged(reading[d].run)' = FALSE
    <3>1. CASE d = c
      BY <1>0, <1>3, <1>4, <1>6, <1>7, <3>1 DEF IsLogged
    <3>2. CASE d # c
      BY <1>0, <1>4, <1>6, <2>3, <3>2 DEF IsLogged, FeedInv, Numbered
    <3> QED
      BY <3>1, <3>2
  <2>4. ASSUME NEW d \in ServerCalls, NEW e \in ServerCalls, reading'[d].at \in Working, reading'[e].at \in Working,
               reading'[d].run = reading'[e].run
        PROVE  d = e
    <3>1. \A b \in ServerCalls : reading[b].at \in Working => reading[b].run \in 1..clock
      BY DEF FeedInv, Numbered
    <3>2. \A b \in ServerCalls : b # c /\ reading'[b].at \in Working => reading'[b].run # clock + 1
      BY <1>0, <1>6, <3>1
    <3>3. CASE d = c \/ e = c
      BY <1>3, <1>6, <2>4, <3>2, <3>3
    <3>4. CASE d # c /\ e # c
      BY <1>6, <2>4, <3>4 DEF FeedInv, Numbered
    <3> QED
      BY <3>3, <3>4
  <2> QED
    BY <2>1, <2>2, <2>3, <2>4 DEF Numbered
<1>9. ASSUME NEW d \in ServerCalls PROVE (RunKnown(reading[d]) /\ ReadKnown(reading[d]))'
  <2>1. CASE d = c
    <3>1. reading'[d] = k /\ k.run \in 0..MaxRows
      BY <1>0, <1>3, <1>6, <2>1 DEF F!Times
    <3> QED
      BY <1>3, <3>1 DEF RunKnown, ReadKnown, Working
  <2>2. CASE d # c
    <3>1. PICK l : l = reading[d] /\ reading'[d] = l /\ RunKnown(l) /\ ReadKnown(l)
      BY <1>6, <2>2 DEF FeedInv
    <3>2. RunKnown(reading[d])'
      BY <1>4, <3>1 DEF RunKnown, LoggedSo
    <3>3. ReadKnown(reading[d])'
      BY <1>4, <3>1 DEF ReadKnown, Tells
    <3> QED
      BY <3>2, <3>3
  <2> QED
    BY <2>1, <2>2
<1>10. \A a \in F!Agents : CardKnown(a)'
  BY <1>4 DEF FeedInv, CardKnown, LoggedSo
<1>11. /\ \A run \in told' \ {0} : IsLogged(run)'
       /\ heard' <= reads'
       /\ opened' # 0 /\ heard' = reads' => \A run \in told' \ {0} : Tells(feed, run)'
  BY <1>4 DEF FeedInv, IsLogged, Tells
<1> QED
  BY <1>5, <1>8, <1>9, <1>10, <1>11 DEF FeedInv

(* A call is over.                                                          *)
LEMMA FeedIdles ==
  ASSUME FeedAssumption, FeedInv, NEW c \in ServerCalls, reading' = [reading EXCEPT ![c] = F!Idle],
         UNCHANGED <<log, clock, opened, reads, told>>,
         feed' \subseteq F!Rows, loading' \in BOOLEAN, heard' \in 0..reads,
         card' \in [F!Agents -> Card], \A a \in F!Agents : CardKnown(a)',
         mute \subseteq mute', mute' \subseteq F!Times,
         opened # 0 /\ heard' = reads => \A run \in told \ {0} : Tells(feed', run)
  PROVE  FeedInv'
<1>0. PICK q : q = F!Idle
  OBVIOUS
<1>1. q = F!Idle /\ q \in CallSet /\ q.at = "idle" /\ q.op = "read" /\ q.run = 0
  BY <1>0 DEF F!Idle, CallSet, F!Agents, F!Times, FeedAssumption
<1>2. reading \in [ServerCalls -> CallSet] /\ reading' = [reading EXCEPT ![c] = q]
      /\ \A d \in ServerCalls : reading'[d] = IF d = c THEN q ELSE reading[d]
  BY <1>1 DEF FeedInv, FeedTyped
<1>3. FeedTyped'
  BY <1>1, <1>2 DEF FeedInv, FeedTyped, FeedAssumption
<1>4. Numbered'
  BY <1>1, <1>2 DEF FeedInv, Numbered, IsLogged, Working
<1>5. ASSUME NEW d \in ServerCalls PROVE (RunKnown(reading[d]) /\ ReadKnown(reading[d]))'
  <2>1. CASE d = c
    BY <1>1, <1>2, <2>1 DEF RunKnown, ReadKnown, Working, FeedInv, FeedTyped
  <2>2. CASE d # c
    <3>1. PICK k : k = reading[d] /\ RunKnown(k) /\ ReadKnown(k) /\ reading'[d] = k
      BY <1>2, <2>2 DEF FeedInv
    <3>2. RunKnown(reading[d])'
      BY <3>1 DEF RunKnown, LoggedSo
    <3>3. ReadKnown(reading[d])'
      BY <3>1 DEF ReadKnown, Tells
    <3> QED
      BY <3>2, <3>3
  <2> QED
    BY <2>1, <2>2
<1>6. \A run \in told' \ {0} : IsLogged(run)'
  BY DEF FeedInv, IsLogged
<1>7. heard' <= reads' /\ (opened' # 0 /\ heard' = reads' => \A run \in told' \ {0} : Tells(feed, run)')
  BY DEF Tells, FeedInv, FeedTyped
<1> QED
  BY <1>3, <1>4, <1>5, <1>6, <1>7 DEF FeedInv

LEMMA FeedHeard ==
  FeedStep(\E c \in ServerCalls : F!TakeError(c) \/ F!TakeRead(c) \/ F!TakeNoRead(c) \/ F!Unheard(c))
<1> SUFFICES ASSUME FeedAssumption, FeedInv, NEW c \in ServerCalls,
                    F!TakeError(c) \/ F!TakeRead(c) \/ F!TakeNoRead(c) \/ F!Unheard(c)
             PROVE  FeedInv'
  BY DEF FeedStep
<1>0. /\ reading \in [ServerCalls -> CallSet] /\ reads \in Nat /\ heard \in 0..reads
      /\ feed \subseteq F!Rows /\ loading \in BOOLEAN
      /\ card \in [F!Agents -> Card] /\ mute \subseteq F!Times
  BY DEF FeedInv, FeedTyped, FeedAssumption
<1>1. PICK q : q = reading[c] /\ q \in CallSet /\ RunKnown(q) /\ ReadKnown(q)
  BY <1>0 DEF FeedInv
<1>2. reading' = [reading EXCEPT ![c] = F!Idle] /\ UNCHANGED <<log, clock, opened, reads, told>>
  BY DEF F!TakeError, F!TakeRead, F!TakeNoRead, F!Unheard
<1>3. ASSUME UNCHANGED <<log, card>>, mute \subseteq mute' PROVE \A a \in F!Agents : CardKnown(a)'
  BY <1>3 DEF FeedInv, CardKnown, LoggedSo
<1>4. CASE F!TakeError(c)
  <2>1. PICK k : k = [says |-> "error", run |-> q.run]
    OBVIOUS
  <2>2. q.op = "trigger" /\ q.run \in F!Times /\ q.agent \in F!Agents /\ (q.at = "served" \/ q.at = "refused")
    BY <1>1, <1>4 DEF F!TakeError, RunKnown, F!Times, CallSet
  <2>3. k \in Card /\ k.says = "error" /\ k.run = q.run
    BY <2>1, <2>2 DEF Card
  <2>4. card' = [card EXCEPT ![q.agent] = k] /\ UNCHANGED <<feed, loading, heard>>
        /\ mute' = IF q.at = "served" THEN mute \cup {q.run} ELSE mute
    BY <1>1, <1>4, <2>1 DEF F!TakeError, F!Shown
  <2>5. card' \in [F!Agents -> Card] /\ mute \subseteq mute' /\ mute' \subseteq F!Times
    BY <1>0, <2>2, <2>3, <2>4
  <2>6. q.run = 0 \/ q.run \in mute'
    BY <1>1, <2>2, <2>4 DEF RunKnown
  <2>7. ASSUME NEW a \in F!Agents PROVE CardKnown(a)'
    <3>1. CASE a = q.agent
      BY <1>0, <2>3, <2>4, <2>6, <3>1 DEF CardKnown
    <3>2. CASE a # q.agent
      <4>1. card'[a] = card[a]
        BY <1>0, <2>4, <3>2
      <4> QED
        BY <1>2, <2>5, <4>1 DEF FeedInv, CardKnown, LoggedSo
    <3> QED
      BY <3>1, <3>2
  <2>8. opened # 0 /\ heard' = reads => \A run \in told \ {0} : Tells(feed', run)
    BY <2>4 DEF FeedInv
  <2> QED
    BY <1>0, <1>2, <2>4, <2>5, <2>7, <2>8, FeedIdles
<1>5. CASE F!TakeRead(c)
  <2>1. q.op = "read" /\ q.at = "served" /\ feed' = q.rows /\ heard' = q.run /\ loading' = FALSE
        /\ UNCHANGED <<card, mute>>
    BY <1>1, <1>5 DEF F!TakeRead
  <2>2. feed' \subseteq F!Rows /\ heard' \in 0..reads
    BY <1>0, <1>1, <2>1 DEF CallSet, ReadKnown, F!Times
  <2>3. heard' = reads => \A run \in told \ {0} : Tells(feed', run)
    BY <1>1, <2>1 DEF ReadKnown
  <2>4. \A a \in F!Agents : CardKnown(a)'
    BY <1>2, <1>3, <2>1
  <2> QED
    BY <1>0, <1>2, <2>1, <2>2, <2>3, <2>4, FeedIdles
<1>6. CASE F!TakeNoRead(c) \/ F!Unheard(c)
  <2>1. UNCHANGED <<card, mute, feed, heard>> /\ loading' \in BOOLEAN
    BY <1>0, <1>6 DEF F!TakeNoRead, F!Unheard
  <2>2. \A a \in F!Agents : CardKnown(a)'
    BY <1>2, <1>3, <2>1
  <2>3. opened # 0 /\ heard' = reads => \A run \in told \ {0} : Tells(feed', run)
    BY <2>1 DEF FeedInv
  <2> QED
    BY <1>0, <1>2, <2>1, <2>2, <2>3, FeedIdles
<1> QED
  BY <1>4, <1>5, <1>6

(* The server's steps of a run that log nothing, and the start of one.      *)
LEMMA FeedServed ==
  FeedStep(\E c \in ServerCalls : \/ F!Refuse(c) \/ F!NoContext(c) \/ F!Finish(c) \/ F!LogFails(c) \/ F!ServeRead(c)
                                  \/ \E a \in F!Agents : F!Trigger(c, a))
<1> SUFFICES ASSUME FeedAssumption, FeedInv, NEW c \in ServerCalls,
                    \/ F!Refuse(c) \/ F!NoContext(c) \/ F!Finish(c) \/ F!LogFails(c) \/ F!ServeRead(c)
                    \/ \E a \in F!Agents : F!Trigger(c, a)
             PROVE  FeedInv'
  BY DEF FeedStep
<1>0. /\ reading \in [ServerCalls -> CallSet] /\ card \in [F!Agents -> Card] /\ mute \subseteq F!Times
      /\ log \subseteq F!Rows /\ IsFiniteSet(log) /\ opened \in 0..MaxFetches
  BY DEF FeedInv, FeedTyped
<1>1. PICK q : q = reading[c] /\ q \in CallSet /\ RunKnown(q) /\ ReadKnown(q)
  BY <1>0 DEF FeedInv
<1>2. /\ UNCHANGED <<log, clock, told, reads, heard, opened, feed, loading>> /\ mute \subseteq mute'
  BY DEF F!Refuse, F!NoContext, F!Finish, F!LogFails, F!ServeRead, F!Trigger, F!ServerSide
<1>3. opened' # 0 /\ heard' = reads' => \A run \in told' \ {0} : Tells(feed', run)
  BY <1>2 DEF FeedInv
<1>4. ASSUME card' = card PROVE \A a \in F!Agents : CardKnown(a)'
  BY <1>2, <1>4 DEF FeedInv, CardKnown, LoggedSo
<1>5. ASSUME NEW k \in CallSet, reading' = [reading EXCEPT ![c] = k], card' = card, mute' \subseteq F!Times,
             RunKnown(k)', ReadKnown(k), k.at \in Working => q.at \in Working /\ k.run = q.run
      PROVE  FeedInv'
  <2>1. reading' \in [ServerCalls -> CallSet]
    BY <1>0, <1>5
  <2>2. FeedTyped'
    BY <1>2, <1>5, <2>1 DEF FeedInv, FeedTyped
  <2> QED
    BY <1>1, <1>2, <1>3, <1>4, <1>5, <2>2, FeedPuts
<1>6. CASE F!Refuse(c)
  <2>1. PICK k : k = [q EXCEPT !.at = "refused"]
    OBVIOUS
  <2>2. /\ k \in CallSet /\ k.at = "refused" /\ k.op = q.op /\ k.run = q.run /\ k.agent = q.agent
    BY <1>1, <2>1 DEF CallSet
  <2>3. q.at = "asked" /\ reading' = [reading EXCEPT ![c] = k] /\ card' = card /\ mute' = mute
    BY <1>1, <2>1, <1>6 DEF F!Refuse, F!Step, F!ServerSide
  <2>4. RunKnown(k)' /\ ReadKnown(k)
    BY <1>1, <2>2, <2>3 DEF RunKnown, ReadKnown, Working
  <2> QED
    BY <1>0, <1>5, <2>2, <2>3, <2>4 DEF Working
<1>7. CASE F!NoContext(c)
  <2>1. PICK k : k = [q EXCEPT !.at = "served"]
    OBVIOUS
  <2>2. /\ k \in CallSet /\ k.at = "served" /\ k.op = q.op /\ k.run = q.run /\ k.done = q.done
    BY <1>1, <2>1 DEF CallSet
  <2>3. q.at = "asked" /\ q.op = "trigger" /\ reading' = [reading EXCEPT ![c] = k] /\ card' = card /\ mute' = mute
    BY <1>1, <2>1, <1>7 DEF F!NoContext, F!Step, F!ServerSide
  <2>4. RunKnown(k)' /\ ReadKnown(k)
    BY <1>1, <2>2, <2>3 DEF RunKnown, ReadKnown, Working
  <2> QED
    BY <1>0, <1>5, <2>2, <2>3, <2>4 DEF Working
<1>8. CASE F!Finish(c)
  <2>1. PICK done \in BOOLEAN : reading' = [reading EXCEPT ![c] = [q EXCEPT !.at = "ending", !.done = done]]
    BY <1>1, <1>8 DEF F!Finish, F!Step
  <2>2. PICK k : k = [q EXCEPT !.at = "ending", !.done = done]
    OBVIOUS
  <2>3. /\ k \in CallSet /\ k.at = "ending" /\ k.op = q.op /\ k.run = q.run
    BY <1>1, <2>2 DEF CallSet
  <2>4. q.at = "working" /\ reading' = [reading EXCEPT ![c] = k] /\ card' = card /\ mute' = mute
    BY <1>1, <2>1, <2>2, <1>8 DEF F!Finish, F!ServerSide
  <2>5. q.op = "trigger" /\ q.run \in 0..MaxRows
    BY <1>1, <2>4 DEF RunKnown, Working
  <2>6. RunKnown(k)' /\ ReadKnown(k)
    BY <2>3, <2>5 DEF RunKnown, ReadKnown, Working
  <2> QED
    BY <1>0, <1>5, <2>3, <2>4, <2>6 DEF Working
<1>9. CASE F!LogFails(c)
  <2>1. PICK k : k = [q EXCEPT !.at = "refused"]
    OBVIOUS
  <2>2. /\ k \in CallSet /\ k.at = "refused" /\ k.op = q.op /\ k.run = q.run /\ k.agent = q.agent
    BY <1>1, <2>1 DEF CallSet
  <2>3. q.at = "ending" /\ reading' = [reading EXCEPT ![c] = k] /\ card' = card /\ mute' = mute \cup {q.run}
    BY <1>1, <2>1, <1>9 DEF F!LogFails, F!Step, F!ServerSide
  <2>4. q.op = "trigger" /\ q.run \in 0..MaxRows
    BY <1>1, <2>3 DEF RunKnown, Working
  <2>5. RunKnown(k)' /\ ReadKnown(k)
    BY <2>2, <2>3, <2>4 DEF RunKnown, ReadKnown, Working
  <2>6. mute' \subseteq F!Times
    BY <1>0, <2>3, <2>4 DEF F!Times
  <2> QED
    BY <1>5, <2>2, <2>3, <2>5, <2>6 DEF Working
<1>10. CASE F!ServeRead(c)
  <2>1. PICK R : R = F!Recent
    OBVIOUS
  <2>2. R = Latest(log, Limit) /\ R \subseteq F!Rows
    BY <1>0, <2>1, FeedCardinality DEF F!Recent, Latest, Later
  <2>3. \A run \in told \ {0} : Tells(R, run)
    <3>1. TAKE run \in told \ {0}
    <3>2. PICK r \in log : r.at = run
      BY DEF FeedInv, IsLogged
    <3>3. PICK lines, n : lines = log /\ n = Limit /\ n \in Nat
      BY DEF FeedAssumption
    <3>4. /\ \A s \in lines : s.at \in Nat
          /\ \A s, t \in lines : s.at = t.at => s = t
      BY <3>3 DEF FeedInv, Numbered
    <3>5. r \in Latest(lines, n) \/ Cardinality(Later(Latest(lines, n), r.at)) = n
      BY <1>0, <3>2, <3>3, <3>4, LatestTell
    <3>6. r \in R \/ Cardinality(Later(R, run)) = Limit
      BY <2>2, <3>2, <3>3, <3>5
    <3> QED
      BY <3>2, <3>6 DEF Tells, Later
  <2>4. PICK k : k = [q EXCEPT !.at = "served", !.rows = R]
    OBVIOUS
  <2>5. /\ k \in CallSet /\ k.at = "served" /\ k.op = q.op /\ k.run = q.run /\ k.rows = R
    BY <1>1, <2>2, <2>4 DEF CallSet
  <2>6. q.at = "asked" /\ q.op = "read" /\ reading' = [reading EXCEPT ![c] = k] /\ card' = card /\ mute' = mute
    BY <1>1, <2>1, <2>4, <1>10 DEF F!ServeRead, F!Step, F!ServerSide
  <2>7. RunKnown(k)' /\ ReadKnown(k)
    BY <1>1, <2>3, <2>5, <2>6 DEF RunKnown, ReadKnown, Working
  <2> QED
    BY <1>0, <1>5, <2>5, <2>6, <2>7 DEF Working
<1>11. ASSUME NEW a \in F!Agents, F!Trigger(c, a) PROVE FeedInv'
  <2>1. PICK k : k = [F!Idle EXCEPT !.at = "asked", !.op = "trigger", !.agent = a, !.mount = opened]
    OBVIOUS
  <2>a. k = [at |-> "asked", op |-> "trigger", agent |-> a, mount |-> opened, run |-> 0,
             done |-> FALSE, rows |-> {}]
    BY <2>1 DEF F!Idle
  <2>b. 0 \in F!Times \cup 0..MaxFetches /\ 0 \in F!Times
    BY DEF F!Times, FeedAssumption
  <2>2. /\ k \in CallSet /\ k.at = "asked" /\ k.op = "trigger" /\ k.run = 0 /\ k.done = FALSE
    BY <1>0, <2>a, <2>b DEF CallSet
  <2>3. /\ reading' = [reading EXCEPT ![c] = k] /\ mute' = mute
        /\ card' = [card EXCEPT ![a] = [says |-> "running", run |-> 0]]
    BY <2>1, <1>11 DEF F!Trigger
  <2>c. PICK w : w = [says |-> "running", run |-> 0]
    OBVIOUS
  <2>4. w = [says |-> "running", run |-> 0] /\ w \in Card /\ w.says = "running"
    BY <2>b, <2>c DEF Card
  <2>5. reading' \in [ServerCalls -> CallSet] /\ card' \in [F!Agents -> Card]
    BY <1>0, <2>2, <2>3, <2>4
  <2>6. FeedTyped'
    BY <1>2, <2>3, <2>5 DEF FeedInv, FeedTyped
  <2>7. ASSUME NEW b \in F!Agents PROVE CardKnown(b)'
    <3>1. CASE b = a
      <4>1. card'[b] = w
        BY <1>0, <2>3, <2>4, <3>1
      <4> QED
        BY <2>4, <4>1 DEF CardKnown
    <3>2. CASE b # a
      <4>1. card'[b] = card[b]
        BY <1>0, <2>3, <3>2
      <4> QED
        BY <1>2, <4>1 DEF FeedInv, CardKnown, LoggedSo
    <3> QED
      BY <3>1, <3>2
  <2>8. RunKnown(k)' /\ ReadKnown(k)
    BY <2>2 DEF RunKnown, ReadKnown, Working, FeedAssumption
  <2> QED
    BY <1>2, <1>3, <2>2, <2>3, <2>6, <2>7, <2>8, FeedPuts DEF Working
<1> QED
  BY <1>6, <1>7, <1>8, <1>9, <1>10, <1>11

LEMMA FeedKept == FeedAssumption /\ FeedInv /\ [F!Next]_F!vars => FeedInv'
<1> SUFFICES ASSUME FeedAssumption, FeedInv, [F!Next]_F!vars PROVE FeedInv'
  OBVIOUS
<1>1. CASE UNCHANGED F!vars
  <2>1. UNCHANGED <<log, clock, opened, feed, loading, card, reading, runs, reads, heard, told, mute>>
    BY <1>1 DEF F!vars
  <2>2. FeedTyped' /\ Numbered'
    BY <2>1 DEF FeedInv, FeedTyped, Numbered, IsLogged
  <2>3. \A c \in ServerCalls : (RunKnown(reading[c]) /\ ReadKnown(reading[c]))'
    <3>1. TAKE c \in ServerCalls
    <3>2. PICK k : k = reading[c] /\ reading'[c] = k /\ RunKnown(k) /\ ReadKnown(k)
      BY <2>1 DEF FeedInv
    <3>3. RunKnown(reading[c])'
      BY <2>1, <3>2 DEF RunKnown, LoggedSo
    <3>4. ReadKnown(reading[c])'
      BY <2>1, <3>2 DEF ReadKnown, Tells
    <3> QED
      BY <3>3, <3>4
  <2>4. \A a \in F!Agents : CardKnown(a)'
    BY <2>1 DEF FeedInv, CardKnown, LoggedSo
  <2> QED
    BY <2>1, <2>2, <2>3, <2>4 DEF FeedInv, IsLogged, Tells
<1>2. CASE F!Leave
  BY <1>2, FeedLeft DEF FeedStep
<1>3. CASE (\E a \in F!Agents : F!Cron(a)) \/ \E c \in ServerCalls : F!KeepOwnRow(c) \/ F!LogRun(c)
  BY <1>3, FeedRows DEF FeedStep
<1>4. CASE \E c \in ServerCalls : F!Open(c) \/ F!Refresh(c) \/ F!TakeTrigger(c)
  BY <1>4, FeedOpened DEF FeedStep
<1>5. CASE \E c \in ServerCalls : F!Start(c)
  BY <1>5, FeedStarts DEF FeedStep
<1>6. CASE \E c \in ServerCalls : F!TakeError(c) \/ F!TakeRead(c) \/ F!TakeNoRead(c) \/ F!Unheard(c)
  BY <1>6, FeedHeard DEF FeedStep
<1>7. CASE \E c \in ServerCalls : \/ F!Refuse(c) \/ F!NoContext(c) \/ F!Finish(c) \/ F!LogFails(c) \/ F!ServeRead(c)
                                  \/ \E a \in F!Agents : F!Trigger(c, a)
  BY <1>7, FeedServed DEF FeedStep
<1> QED
  BY <1>1, <1>2, <1>3, <1>4, <1>5, <1>6, <1>7 DEF F!Next

-----------------------------------------------------------------------------
Unbubbled(lines, f, i) ==
  IF i = 0 THEN <<>> ELSE IF lines[i].from = "pending" THEN f[i - 1] ELSE Append(f[i - 1], lines[i])

LEMMA FirstOfSome ==
  ASSUME NEW some \in SUBSET Nat, some # {}
  PROVE  \E k \in some : \A j \in some : k <= j
<1> DEFINE R == OpToRel(<, Nat)
<1>1. IsWellFoundedOn(R, Nat)
  BY NatLessThanWellFounded
<1>3. \A x, y \in Nat : x < y => <<x, y>> \in R
  BY DEF OpToRel
<1> HIDE DEF R
<1>4. PICK k \in some : \A h \in some : <<h, k>> \notin R
  BY <1>1, WFMin
<1>5. ASSUME NEW j \in some PROVE k <= j
  <2>1. j \in Nat /\ k \in Nat /\ ~(j < k)
    BY <1>3, <1>4
  <2> QED
    BY <2>1
<1> QED
  BY <1>5

LEMMA KeptIs ==
  ASSUME NEW T, NEW lines \in Seq(T), NEW g,
         g = [i \in 0..Len(lines) |-> Unbubbled(lines, g, i)]
  PROVE  P!Kept(lines) = g[Len(lines)]
<1> DEFINE f == CHOOSE f : f = [i \in 0..Len(lines) |-> Unbubbled(lines, f, i)]
<1>0. Len(lines) \in Nat
  OBVIOUS
<1>1. f = [i \in 0..Len(lines) |-> Unbubbled(lines, f, i)]
  OBVIOUS
<1>2. P!Kept(lines) = f[Len(lines)]
  BY DEF P!Kept, Unbubbled
<1> HIDE DEF f
<1>3. \A i \in 0..Len(lines) : f[i] = g[i]
  <2>1. SUFFICES ASSUME NEW n \in 0..Len(lines), f[n] # g[n] PROVE FALSE
    OBVIOUS
  <2>a. PICK some : some = {i \in 0..Len(lines) : f[i] # g[i]}
    OBVIOUS
  <2>2. some = {i \in 0..Len(lines) : f[i] # g[i]} /\ some \in SUBSET Nat /\ some # {}
    BY <2>1, <2>a
  <2>3. PICK k \in some : \A j \in some : k <= j
    BY <2>2, FirstOfSome
  <2>4. k \in 0..Len(lines) /\ f[k] # g[k]
    BY <2>2, <2>3
  <2>5. f[k] = Unbubbled(lines, f, k) /\ g[k] = Unbubbled(lines, g, k)
    BY <1>1, <2>4
  <2>6. CASE k = 0
    BY <2>4, <2>5, <2>6 DEF Unbubbled
  <2>7. CASE k # 0
    <3>1. k - 1 \in 0..Len(lines) /\ k - 1 \notin some
      BY <1>0, <2>4, <2>3, <2>7
    <3>2. f[k - 1] = g[k - 1]
      BY <2>2, <3>1
    <3> QED
      BY <2>4, <2>5, <3>2 DEF Unbubbled
  <2> QED
    BY <2>6, <2>7
<1> QED
  BY <1>0, <1>2, <1>3

Begins(h, n) == [j \in 1..n |-> h[j]]

LEMMA BeginsGrows ==
  ASSUME NEW T, NEW m \in Nat, NEW h \in [1..m -> T], NEW n \in Nat, n + 1 <= m
  PROVE  Begins(h, n + 1) = Append(Begins(h, n), h[n + 1])
<1>1. PICK a, b : a = Begins(h, n) /\ b = Begins(h, n + 1)
  OBVIOUS
<1>2. a \in [1..n -> T] /\ b \in [1..n + 1 -> T] /\ h[n + 1] \in T
  BY <1>1 DEF Begins
<1>3. a \in Seq(T) /\ b \in Seq(T) /\ Len(a) = n /\ Len(b) = n + 1
  BY <1>2
<1>4. \A i \in 1..n : a[i] = h[i]
  BY <1>1 DEF Begins
<1>5. \A i \in 1..n + 1 : b[i] = h[i]
  BY <1>1 DEF Begins
<1>6. PICK c : c = Append(a, h[n + 1])
  OBVIOUS
<1>7. c \in Seq(T) /\ Len(c) = n + 1 /\ c[n + 1] = h[n + 1] /\ \A i \in 1..n : c[i] = a[i]
  BY <1>2, <1>3, <1>6
<1>8. \A i \in 1..Len(b) : b[i] = c[i]
  <2>1. TAKE i \in 1..Len(b)
  <2>2. i = n + 1 \/ i \in 1..n
    BY <1>3
  <2> QED
    BY <1>3, <1>4, <1>5, <1>7, <2>2
<1>9. b = c
  BY <1>3, <1>7, <1>8, SeqEqual
<1> QED
  BY <1>1, <1>6, <1>9

(* Kept of a log with one bubble, or with none: p is then after its end.    *)
LEMMA KeptButOne ==
  ASSUME NEW T, NEW lines \in Seq(T), NEW p \in 1..Len(lines) + 1,
         \A i \in 1..Len(lines) : lines[i].from = "pending" <=> i = p
  PROVE  /\ P!Kept(lines) \in Seq(T)
         /\ Len(P!Kept(lines)) = IF p \in 1..Len(lines) THEN Len(lines) - 1 ELSE Len(lines)
         /\ \A i \in 1..Len(P!Kept(lines)) : P!Kept(lines)[i] = IF i < p THEN lines[i] ELSE lines[i + 1]
<1>1. PICK m : m = Len(lines) /\ m \in Nat /\ p \in 1..m + 1
  OBVIOUS
<1>2. \A i \in 1..m : lines[i] \in T
  BY <1>1, ElementOfSeq
<1>3. PICK h : h = [j \in 1..m |-> IF j < p THEN lines[j] ELSE IF j < m THEN lines[j + 1] ELSE lines[j]]
  OBVIOUS
<1>4. h \in [1..m -> T]
  BY <1>1, <1>2, <1>3
<1>5. PICK g : g = [i \in 0..m |-> Begins(h, IF i < p THEN i ELSE i - 1)]
  OBVIOUS
<1>6. \A i \in 0..m : g[i] = Unbubbled(lines, g, i)
  <2>1. TAKE i \in 0..m
  <2>2. CASE i = 0
    <3>1. g[0] = Begins(h, 0)
      BY <1>1, <1>5
    <3>2. Begins(h, 0) = <<>>
      BY DEF Begins
    <3> QED
      BY <2>2, <3>1, <3>2 DEF Unbubbled
  <2>3. CASE i # 0
    <3>0. i \in 1..m /\ i - 1 \in 0..m /\ i \in Nat /\ i - 1 \in Nat
      BY <1>1, <2>3
    <3>1. CASE i < p
      <4>1. g[i] = Begins(h, i) /\ g[i - 1] = Begins(h, i - 1) /\ h[i] = lines[i]
        BY <1>1, <1>3, <1>5, <3>0, <3>1
      <4>2. i - 1 + 1 = i
        BY <3>0
      <4>3. Begins(h, i) = Append(Begins(h, i - 1), h[i])
        <5>1. PICK n \in Nat : n = i - 1
          BY <3>0
        <5>2. n + 1 = i /\ n + 1 <= m
          BY <3>0, <5>1
        <5> QED
          BY <1>1, <1>4, <5>1, <5>2, BeginsGrows
      <4>4. lines[i].from # "pending"
        BY <1>1, <3>0, <3>1
      <4> QED
        BY <2>3, <4>1, <4>3, <4>4 DEF Unbubbled
    <3>2. CASE i = p
      <4>1. g[i] = Begins(h, i - 1) /\ g[i - 1] = Begins(h, i - 1)
        BY <1>1, <1>5, <3>0, <3>2
      <4>2. lines[i].from = "pending"
        BY <1>1, <3>0, <3>2
      <4> QED
        BY <2>3, <4>1, <4>2 DEF Unbubbled
    <3>3. CASE i > p
      <4>1. PICK n \in Nat : n = i - 2
        BY <1>1, <3>0, <3>3
      <4>2. n + 1 = i - 1 /\ n + 1 <= m
        BY <3>0, <4>1
      <4>3. g[i] = Begins(h, n + 1) /\ g[i - 1] = Begins(h, n) /\ h[n + 1] = lines[i]
        BY <1>1, <1>3, <1>5, <3>0, <3>3, <4>1, <4>2
      <4>4. Begins(h, n + 1) = Append(Begins(h, n), h[n + 1])
        BY <1>1, <1>4, <4>2, BeginsGrows
      <4>5. lines[i].from # "pending"
        BY <1>1, <3>0, <3>3
      <4> QED
        BY <2>3, <4>3, <4>4, <4>5 DEF Unbubbled
    <3> QED
      BY <1>1, <3>0, <3>1, <3>2, <3>3
  <2> QED
    BY <2>2, <2>3
<1>7. g = [i \in 0..Len(lines) |-> Unbubbled(lines, g, i)]
  BY <1>1, <1>5, <1>6
<1>8. P!Kept(lines) = g[Len(lines)]
  BY <1>7, KeptIs
<1>9. PICK k : k = IF p \in 1..Len(lines) THEN m - 1 ELSE m
  OBVIOUS
<1>10. k \in Nat /\ k <= m /\ P!Kept(lines) = Begins(h, k)
  BY <1>1, <1>5, <1>8, <1>9
<1>11. Begins(h, k) \in [1..k -> T]
  BY <1>1, <1>4, <1>10 DEF Begins
<1>12. P!Kept(lines) \in Seq(T) /\ Len(P!Kept(lines)) = k
  BY <1>10, <1>11
<1>13. ASSUME NEW i \in 1..k PROVE P!Kept(lines)[i] = IF i < p THEN lines[i] ELSE lines[i + 1]
  <2>1. i \in 1..m /\ Begins(h, k)[i] = h[i]
    BY <1>1, <1>10 DEF Begins
  <2>2. i < p \/ i < m
    BY <1>1, <1>9
  <2> QED
    BY <1>3, <1>10, <2>1, <2>2
<1> QED
  BY <1>1, <1>9, <1>12, <1>13

-----------------------------------------------------------------------------
(* Of a log of messages: a prompt that is not gone has its reply or its     *)
(* bubble next; a bubble is of a prompt that is awaited, and there is one   *)
(* at most; there is none; every prompt up to the n-th is there.            *)
Fits(lines, gone) ==
  \A i \in 1..Len(lines) : lines[i].from = "owner" /\ lines[i].prompt \notin gone =>
    /\ i + 1 \in 1..Len(lines) /\ lines[i + 1].prompt = lines[i].prompt /\ lines[i + 1].from # "owner"
Bubbles(lines, awaited) ==
  /\ \A i \in 1..Len(lines) : lines[i].from = "pending" =>
       /\ lines[i].card = "none" /\ lines[i].prompt \in awaited
       /\ \E j \in 1..Len(lines) : lines[j].from # "pending" /\ lines[j].prompt = lines[i].prompt
  /\ \A i, j \in 1..Len(lines) : lines[i].from = "pending" /\ lines[j].from = "pending" => i = j
Unbroken(lines) == \A i \in 1..Len(lines) : lines[i].from # "pending"
Whole(lines, n) == \A p \in 1..n : \E i \in 1..Len(lines) : lines[i].prompt = p

LEMMA LogKept ==
  ASSUME NEW lines \in Seq(P!Messages), NEW gone, NEW awaited, Fits(lines, gone), Bubbles(lines, awaited)
  PROVE  /\ P!Kept(lines) \in Seq(P!Messages) /\ Unbroken(P!Kept(lines))
         /\ \A more : (\A i \in 1..Len(lines) : lines[i].from = "pending" => lines[i].prompt \in more)
                        => Fits(P!Kept(lines), gone \cup more)
         /\ \A n : Whole(lines, n) => Whole(P!Kept(lines), n)
<1>0. Len(lines) \in Nat
  OBVIOUS
<1>1. PICK p \in 1..Len(lines) + 1 : \A i \in 1..Len(lines) : lines[i].from = "pending" <=> i = p
  <2>1. CASE \E i \in 1..Len(lines) : lines[i].from = "pending"
    <3>1. PICK i \in 1..Len(lines) : lines[i].from = "pending"
      BY <2>1
    <3>2. i \in 1..Len(lines) + 1
      BY <1>0
    <3>3. \A j \in 1..Len(lines) : lines[j].from = "pending" <=> j = i
      BY <3>1 DEF Bubbles
    <3> QED
      BY <3>2, <3>3
  <2>2. CASE ~\E i \in 1..Len(lines) : lines[i].from = "pending"
    <3>1. Len(lines) + 1 \in 1..Len(lines) + 1 /\ \A i \in 1..Len(lines) : i # Len(lines) + 1
      BY <1>0
    <3> QED
      BY <2>2, <3>1
  <2> QED
    BY <2>1, <2>2
<1>2. PICK k : k = P!Kept(lines)
  OBVIOUS
<1>3. /\ k \in Seq(P!Messages)
      /\ Len(k) = IF p \in 1..Len(lines) THEN Len(lines) - 1 ELSE Len(lines)
      /\ \A i \in 1..Len(k) : k[i] = IF i < p THEN lines[i] ELSE lines[i + 1]
  BY <1>1, <1>2, KeptButOne
<1>4. \A i \in 1..Len(k) : \/ i < p /\ i \in 1..Len(lines) /\ k[i] = lines[i]
                           \/ i >= p /\ p \in 1..Len(lines) /\ i + 1 \in 1..Len(lines) /\ k[i] = lines[i + 1]
  <2>1. PICK n, m : n = Len(lines) /\ m = Len(k)
    OBVIOUS
  <2>2. n \in Nat /\ p \in 1..n + 1 /\ m = IF p \in 1..n THEN n - 1 ELSE n
    BY <1>0, <1>3, <2>1
  <2>3. SUFFICES ASSUME NEW i \in 1..m
                 PROVE  \/ i < p /\ i \in 1..n /\ k[i] = lines[i]
                        \/ i >= p /\ p \in 1..n /\ i + 1 \in 1..n /\ k[i] = lines[i + 1]
    BY <2>1
  <2>4. k[i] = IF i < p THEN lines[i] ELSE lines[i + 1]
    BY <1>3, <2>1
  <2>5. (i < p /\ i \in 1..n) \/ (i >= p /\ p \in 1..n /\ i + 1 \in 1..n)
    BY ONLY <2>2, <2>3
  <2>6. ~(i < p) <=> i >= p
    BY <2>2
  <2> QED
    BY <2>4, <2>5, <2>6
<1>5. Unbroken(k)
  BY <1>0, <1>1, <1>4 DEF Unbroken
<1>6. ASSUME NEW more, \A i \in 1..Len(lines) : lines[i].from = "pending" => lines[i].prompt \in more
      PROVE  Fits(k, gone \cup more)
  <2>1. SUFFICES ASSUME NEW i \in 1..Len(k), k[i].from = "owner", k[i].prompt \notin gone \cup more
                 PROVE  i + 1 \in 1..Len(k) /\ k[i + 1].prompt = k[i].prompt /\ k[i + 1].from # "owner"
    BY DEF Fits
  <2>2. CASE i < p
    <3>1. i \in 1..Len(lines) /\ k[i] = lines[i]
      BY <1>4, <2>2
    <3>2. i + 1 \in 1..Len(lines) /\ lines[i + 1].prompt = lines[i].prompt /\ lines[i + 1].from # "owner"
      BY <2>1, <3>1 DEF Fits
    <3>3. i + 1 # p
      BY <1>1, <1>6, <2>1, <3>1, <3>2
    <3>4. i + 1 < p
      BY <2>2, <3>3, <1>0
    <3>5. i + 1 \in 1..Len(k) /\ k[i + 1] = lines[i + 1]
      BY <1>0, <1>3, <3>2, <3>4
    <3> QED
      BY <3>1, <3>2, <3>5
  <2>3. CASE ~(i < p)
    <3>1. p \in 1..Len(lines) /\ i + 1 \in 1..Len(lines) /\ k[i] = lines[i + 1]
      BY <1>0, <1>4, <2>3
    <3>2. i + 1 + 1 \in 1..Len(lines) /\ lines[i + 1 + 1].prompt = lines[i + 1].prompt /\ lines[i + 1 + 1].from # "owner"
      BY <2>1, <3>1 DEF Fits
    <3>3. i + 1 \in 1..Len(k) /\ k[i + 1] = lines[i + 1 + 1]
      BY <1>0, <1>3, <2>3, <3>1, <3>2
    <3> QED
      BY <3>1, <3>2, <3>3
  <2> QED
    BY <2>2, <2>3
<1>7. ASSUME NEW n, Whole(lines, n) PROVE Whole(k, n)
  <2>1. SUFFICES ASSUME NEW q \in 1..n PROVE \E i \in 1..Len(k) : k[i].prompt = q
    BY DEF Whole
  <2>2. PICK j \in 1..Len(lines) : lines[j].prompt = q
    BY <1>7 DEF Whole
  <2>3. PICK l \in 1..Len(lines) : lines[l].prompt = q /\ lines[l].from # "pending"
    BY <2>2 DEF Bubbles
  <2>4. l # p
    BY <1>1, <2>3
  <2>5. CASE l < p
    <3>1. l \in 1..Len(k) /\ k[l] = lines[l]
      BY <1>0, <1>3, <2>5
    <3> QED
      BY <2>3, <3>1
  <2>6. CASE l > p
    <3>1. l - 1 \in 1..Len(k) /\ k[l - 1] = lines[l]
      BY <1>0, <1>3, <2>6
    <3> QED
      BY <2>3, <3>1
  <2> QED
    BY <1>0, <2>4, <2>5, <2>6
<1> QED
  BY <1>2, <1>3, <1>5, <1>6, <1>7

(* A prompt and what follows it, a bubble or a reply.                       *)
LEMMA LogAsked ==
  ASSUME NEW lines \in Seq(P!Messages), NEW gone, Fits(lines, gone), Bubbles(lines, {}),
         NEW p, P!Owner(p) \in P!Messages, NEW m \in P!Messages, m.prompt = p, m.from # "owner",
         m.from = "pending" => m.card = "none"
  PROVE  /\ lines \o <<P!Owner(p), m>> \in Seq(P!Messages) /\ Fits(lines \o <<P!Owner(p), m>>, gone)
         /\ Bubbles(lines \o <<P!Owner(p), m>>, IF m.from = "pending" THEN {p} ELSE {})
         /\ \A n \in Nat : p = n + 1 /\ Whole(lines, n) => Whole(lines \o <<P!Owner(p), m>>, p)
<1>1. PICK o : o = P!Owner(p) /\ o \in P!Messages
  OBVIOUS
<1>2. o.from = "owner" /\ o.prompt = p
  BY <1>1 DEF P!Owner
<1>3. PICK t : t = <<o, m>>
  OBVIOUS
<1>4. t \in Seq(P!Messages) /\ Len(t) = 2 /\ t[1] = o /\ t[2] = m
  BY <1>1, <1>3
<1>5. PICK u : u = lines \o t
  OBVIOUS
<1>6. PICK l : l = Len(lines) /\ l \in Nat
  OBVIOUS
<1>7. /\ u \in Seq(P!Messages) /\ Len(u) = l + 2
      /\ \A i \in 1..Len(u) : u[i] = IF i <= l THEN lines[i] ELSE t[i - l]
  <2>1. lines \o t \in Seq(P!Messages) /\ Len(lines \o t) = Len(lines) + Len(t)
        /\ \A i \in 1..Len(lines) + Len(t) : (lines \o t)[i] = IF i <= Len(lines) THEN lines[i] ELSE t[i - Len(lines)]
    BY <1>4, ConcatProperties
  <2> QED
    BY <1>4, <1>5, <1>6, <2>1
<1>8. \A i \in 1..l : i \in 1..Len(u) /\ u[i] = lines[i]
  BY <1>6, <1>7
<1>9. l + 1 \in 1..Len(u) /\ l + 2 \in 1..Len(u) /\ u[l + 1] = o /\ u[l + 2] = m
  BY <1>4, <1>6, <1>7
<1>10. \A i \in 1..Len(u) : i \in 1..l \/ i = l + 1 \/ i = l + 2
  BY <1>6, <1>7
<1>11. Fits(u, gone)
  <2>1. SUFFICES ASSUME NEW i \in 1..Len(u), u[i].from = "owner", u[i].prompt \notin gone
                 PROVE  i + 1 \in 1..Len(u) /\ u[i + 1].prompt = u[i].prompt /\ u[i + 1].from # "owner"
    BY DEF Fits
  <2>2. CASE i \in 1..l
    <3>1. i + 1 \in 1..l /\ lines[i + 1].prompt = lines[i].prompt /\ lines[i + 1].from # "owner"
      BY <1>6, <1>8, <2>1, <2>2 DEF Fits
    <3> QED
      BY <1>8, <2>2, <3>1
  <2>3. CASE i = l + 1
    <3>1. i + 1 = l + 2
      BY <1>6, <2>3
    <3> QED
      BY <1>2, <1>9, <2>3, <3>1
  <2>4. CASE i = l + 2
    BY <1>9, <2>1, <2>4
  <2> QED
    BY <1>10, <2>2, <2>3, <2>4
<1>12. \A i \in 1..l : lines[i].from # "pending"
  BY <1>6 DEF Bubbles
<1>13. \A i \in 1..Len(u) : u[i].from = "pending" => i = l + 2 /\ m.from = "pending"
  BY <1>2, <1>8, <1>9, <1>10, <1>12
<1>14. Bubbles(u, IF m.from = "pending" THEN {p} ELSE {})
  BY <1>2, <1>9, <1>13 DEF Bubbles
<1>15. ASSUME NEW n \in Nat, p = n + 1, Whole(lines, n) PROVE Whole(u, p)
  <2>1. SUFFICES ASSUME NEW q \in 1..p PROVE \E i \in 1..Len(u) : u[i].prompt = q
    BY DEF Whole
  <2>2. CASE q = p
    BY <1>2, <1>9, <2>2
  <2>3. CASE q # p
    <3>1. q \in 1..n
      BY <1>15, <2>3
    <3> QED
      BY <1>6, <1>8, <1>15, <3>1 DEF Whole
  <2> QED
    BY <2>2, <2>3
<1> QED
  BY <1>1, <1>3, <1>5, <1>7, <1>11, <1>14, <1>15

(* The reply takes the place of the bubble.                                 *)
LEMMA LogReplied ==
  ASSUME NEW lines \in Seq(P!Messages), NEW gone, NEW p, Fits(lines, gone), Bubbles(lines, {p}),
         NEW m \in P!Messages, m.prompt = p, m.from = "assistant", NEW new,
         new = [i \in DOMAIN lines |-> IF lines[i] = P!Pending(p) THEN m ELSE lines[i]]
  PROVE  /\ new \in Seq(P!Messages) /\ Fits(new, gone) /\ Bubbles(new, {})
         /\ \A n : Whole(lines, n) => Whole(new, n)
<1>1. Len(lines) \in Nat /\ DOMAIN lines = 1..Len(lines) /\ \A i \in 1..Len(lines) : lines[i] \in P!Messages
  BY LenProperties, ElementOfSeq
<1>2. \A i \in 1..Len(lines) : lines[i].from = "pending" <=> lines[i] = P!Pending(p)
  <2>1. TAKE i \in 1..Len(lines)
  <2>2. lines[i] \in P!Messages /\ (lines[i].from = "pending" => lines[i].card = "none" /\ lines[i].prompt = p)
    BY <1>1 DEF Bubbles
  <2> QED
    BY <2>2 DEF P!Messages, P!Pending
<1>3. new \in Seq(P!Messages) /\ Len(new) = Len(lines)
  <2>1. new \in [1..Len(lines) -> P!Messages]
    BY <1>1
  <2> QED
    BY <1>1, <2>1
<1>4. \A i \in 1..Len(lines) : new[i] = IF lines[i].from = "pending" THEN m ELSE lines[i]
  BY <1>1, <1>2
<1>5. \A i \in 1..Len(lines) : /\ new[i].prompt = lines[i].prompt
                               /\ new[i].from = IF lines[i].from = "pending" THEN "assistant" ELSE lines[i].from
  <2>1. TAKE i \in 1..Len(lines)
  <2>2. lines[i].from = "pending" => lines[i].prompt = p
    BY DEF Bubbles
  <2>3. CASE lines[i].from = "pending"
    BY <1>4, <2>2, <2>3
  <2>4. CASE lines[i].from # "pending"
    <3>1. new[i] = lines[i]
      BY <1>4, <2>4
    <3> QED
      BY <2>4, <3>1
  <2> QED
    BY <2>3, <2>4
<1>6. Fits(new, gone)
  <2>1. SUFFICES ASSUME NEW i \in 1..Len(lines), new[i].from = "owner", new[i].prompt \notin gone
                 PROVE  i + 1 \in 1..Len(lines) /\ new[i + 1].prompt = new[i].prompt /\ new[i + 1].from # "owner"
    BY <1>3 DEF Fits
  <2>2. lines[i].from = "owner" /\ lines[i].prompt \notin gone
    BY <1>5, <2>1
  <2>3. i + 1 \in 1..Len(lines) /\ lines[i + 1].prompt = lines[i].prompt /\ lines[i + 1].from # "owner"
    BY <2>2 DEF Fits
  <2> QED
    BY <1>5, <2>3
<1>a. \A i \in 1..Len(new) : new[i].from # "pending"
  BY <1>3, <1>5
<1>7. Bubbles(new, {})
  BY <1>a DEF Bubbles
<1>8. \A n : Whole(lines, n) => Whole(new, n)
  BY <1>3, <1>5 DEF Whole
<1> QED
  BY <1>3, <1>6, <1>7, <1>8

(* A word of the assistant's of no prompt.                                  *)
LEMMA LogSaid ==
  ASSUME NEW lines \in Seq(P!Messages), NEW gone, NEW awaited, Fits(lines, gone), Bubbles(lines, awaited),
         NEW m \in P!Messages, m.from = "assistant"
  PROVE  /\ Append(lines, m) \in Seq(P!Messages) /\ Fits(Append(lines, m), gone)
         /\ Bubbles(Append(lines, m), awaited) /\ \A n : Whole(lines, n) => Whole(Append(lines, m), n)
<1>1. PICK u : u = Append(lines, m)
  OBVIOUS
<1>2. PICK l : l = Len(lines) /\ l \in Nat
  OBVIOUS
<1>3. u \in Seq(P!Messages) /\ Len(u) = l + 1 /\ u[l + 1] = m /\ \A i \in 1..l : u[i] = lines[i]
  BY <1>1, <1>2
<1>4. \A i \in 1..Len(u) : i \in 1..l \/ i = l + 1
  BY <1>2, <1>3
<1>5. \A i \in 1..l : i \in 1..Len(u)
  BY <1>2, <1>3
<1>6. Fits(u, gone)
  <2>1. SUFFICES ASSUME NEW i \in 1..Len(u), u[i].from = "owner", u[i].prompt \notin gone
                 PROVE  i + 1 \in 1..Len(u) /\ u[i + 1].prompt = u[i].prompt /\ u[i + 1].from # "owner"
    BY DEF Fits
  <2>2. i \in 1..l
    BY <1>3, <1>4, <2>1
  <2>3. i + 1 \in 1..l /\ lines[i + 1].prompt = lines[i].prompt /\ lines[i + 1].from # "owner"
    BY <1>2, <1>3, <2>1, <2>2 DEF Fits
  <2> QED
    BY <1>3, <1>5, <2>2, <2>3
<1>7. Bubbles(u, awaited)
  <2>1. \A i \in 1..Len(u) : u[i].from = "pending" => i \in 1..l /\ u[i] = lines[i]
    BY <1>3, <1>4
  <2> QED
    BY <1>2, <1>3, <1>5, <2>1 DEF Bubbles
<1>8. ASSUME NEW n, Whole(lines, n) PROVE Whole(u, n)
  BY <1>2, <1>3, <1>5, <1>8 DEF Whole
<1> QED
  BY <1>1, <1>3, <1>6, <1>7, <1>8

-----------------------------------------------------------------------------
ChatAssumption == MaxPrompts \in Nat /\ MaxMounts \in Nat \ {0}
Logs == Seq(P!Messages)

(* The prompts the console that is mounted awaits an answer to.             *)
Asks(c) == asking[c].at # "idle" /\ asking[c].kind \in {"onboarding", "team"} /\ asking[c].mount = visit
Awaited == {asking[c].prompt : c \in {d \in ServerCalls : Asks(d)}}
Console == {"restoring", "console"}

ChatTyped ==
  /\ studio \in BOOLEAN /\ team \in BOOLEAN
  /\ place \in {"restoring", "console", "wizard", "away"}
  /\ visit \in 0..MaxMounts /\ prompts \in 0..MaxPrompts
  /\ business \in [P!Fields -> {"seed", "empty", "hers", "draft"}]
  /\ thread \in Logs /\ stored \in Logs /\ restored \in Logs
  /\ waiting \in BOOLEAN /\ quick \in {"form", "progress", "done", "hidden"}
  /\ wizard \in [phase : {"describe", "review"}, draft : {"none", "draft", "hers"}]
  /\ wizard.phase = "review" => wizard.draft # "none"
  /\ asking \in [ServerCalls -> [at : {"idle", "asked", "served", "refused"}, kind : P!Kinds,
                         mount : 0..MaxMounts, prompt : 0..MaxPrompts]]
  /\ cut \subseteq 1..MaxPrompts /\ erased \in BOOLEAN

(* The console's calls: none is of a mounting to come, and of the one there *)
(* is at most one is out, and then it is busy.                              *)
ChatCalls ==
  /\ \A c \in ServerCalls : asking[c].mount <= visit
  /\ \A c \in ServerCalls : asking[c].kind \in {"onboarding", "team"} /\ asking[c].at # "idle" => asking[c].prompt \in 1..MaxPrompts
  /\ place \in Console => \A c, d \in ServerCalls : Asks(c) /\ Asks(d) => c = d
  /\ place \in Console => \A c \in ServerCalls : Asks(c) => place = "console" /\ waiting

(* The log is on the screen, or it is kept: in the storage, or read from    *)
(* it and not shown yet.                                                    *)
ChatOnScreen ==
  /\ stored = P!Kept(thread) /\ restored = <<>>
  /\ Fits(thread, cut) /\ Bubbles(thread, Awaited)
  /\ ~erased => Whole(thread, prompts)
ChatKept(lines) ==
  /\ Fits(lines, cut) /\ Unbroken(lines)
  /\ ~erased => Whole(lines, prompts)

ChatLogs ==
  /\ place = "console" => ChatOnScreen
  /\ place = "restoring" => thread = <<>> /\ stored = <<>> /\ ChatKept(restored)
  /\ place \in {"away", "wizard"} =>
       /\ thread = <<>> /\ restored = <<>>
       /\ Fits(stored, cut) /\ Unbroken(stored)
       /\ studio /\ ~erased => Whole(stored, prompts)

ChatInv == ChatTyped /\ ChatCalls /\ ChatLogs

LEMMA EmptyLog ==
  /\ <<>> \in Logs
  /\ \A gone : Fits(<<>>, gone)
  /\ Unbroken(<<>>)
  /\ \A awaited : Bubbles(<<>>, awaited)
<1>1. <<>> \in Logs /\ \A i \in 1..Len(<<>>) : FALSE
  BY DEF Logs
<1> QED
  BY <1>1 DEF Fits, Unbroken, Bubbles

LEMMA UnbrokenLog == \A lines, awaited : Unbroken(lines) => Bubbles(lines, awaited)
BY DEF Unbroken, Bubbles

LEMMA FitsMore == \A lines, gone, more : Fits(lines, gone) /\ gone \subseteq more => Fits(lines, more)
BY DEF Fits

LEMMA ChatStart == ChatAssumption /\ P!Init => ChatInv
<1> SUFFICES ASSUME ChatAssumption, P!Init PROVE ChatInv
  OBVIOUS
<1>1. thread = <<>> /\ stored = <<>> /\ restored = <<>> /\ prompts = 0 /\ cut = {} /\ erased = FALSE
      /\ place \in {"restoring", "away"}
  BY DEF P!Init
<1>2. PICK q : q = P!Idle
  OBVIOUS
<1>3. q.at = "idle" /\ q.mount = 0 /\ q \in [at : {"idle", "asked", "served", "refused"}, kind : P!Kinds,
                         mount : 0..MaxMounts, prompt : 0..MaxPrompts]
  BY <1>2 DEF P!Idle, P!Kinds, ChatAssumption
<1>4. asking = [c \in ServerCalls |-> q]
  BY <1>2 DEF P!Init
<1>5. visit \in 0..MaxMounts /\ visit >= 0
  BY DEF P!Init, ChatAssumption
<1>6. ChatTyped
  <2>a. team \in (IF studio THEN BOOLEAN ELSE {FALSE})
    BY DEF P!Init
  <2>b. team \in BOOLEAN
    BY <2>a
  <2>1. prompts \in 0..MaxPrompts /\ waiting \in BOOLEAN /\ studio \in BOOLEAN /\ team \in BOOLEAN
    <3>1. waiting = FALSE /\ studio \in BOOLEAN
      BY DEF P!Init
    <3>2. prompts \in 0..MaxPrompts
      BY <1>1 DEF ChatAssumption
    <3> QED
      BY <2>b, <3>1, <3>2
  <2>2. business \in [P!Fields -> {"seed", "empty", "hers", "draft"}]
    BY DEF P!Init
  <2>3. wizard \in [phase : {"describe", "review"}, draft : {"none", "draft", "hers"}] /\ quick = "form"
        /\ wizard.phase = "describe"
    BY DEF P!Init, P!Closed
  <2>4. asking \in [ServerCalls -> [at : {"idle", "asked", "served", "refused"}, kind : P!Kinds,
                         mount : 0..MaxMounts, prompt : 0..MaxPrompts]]
    BY <1>3, <1>4
  <2> QED
    BY <1>1, <1>5, <2>1, <2>2, <2>3, <2>4, EmptyLog DEF ChatTyped
<1>7. ChatCalls
  BY <1>1, <1>3, <1>4, <1>5 DEF ChatCalls, Asks
<1>8. Whole(<<>>, 0)
  BY DEF Whole
<1>9. ChatLogs
  BY <1>1, <1>8, EmptyLog DEF ChatLogs, ChatKept
<1> QED
  BY <1>6, <1>7, <1>9 DEF ChatInv

ChatStep(A) == ChatAssumption /\ DraftInv /\ DraftInv' /\ ChatInv /\ A => ChatInv'

(* What a console that was left had kept, or that there was to restore.     *)
LEMMA ChatLeft ==
  ASSUME ChatAssumption, ChatInv, studio, place # "wizard", P!Leaving
  PROVE  /\ cut \subseteq cut' /\ cut' \subseteq 1..MaxPrompts /\ erased' \in BOOLEAN
         /\ Fits(stored, cut') /\ Unbroken(stored)
         /\ ~erased' => Whole(stored, prompts)
<1>1. PICK gone : gone = {thread[i].prompt : i \in {j \in DOMAIN thread : thread[j].from = "pending"}}
  OBVIOUS
<1>2. cut' = cut \cup gone /\ erased' = (erased \/ (place = "restoring" /\ restored # <<>>))
  BY <1>1 DEF P!Leaving
<1>3. erased' \in BOOLEAN /\ (~erased' => ~erased)
  BY <1>2
<1>4. CASE place = "console"
  <2>1. PICK s : s = thread /\ s \in Seq(P!Messages) /\ DOMAIN s = 1..Len(s)
    BY LenProperties DEF ChatInv, ChatTyped, Logs
  <2>2. stored = P!Kept(s) /\ Fits(s, cut) /\ Bubbles(s, Awaited) /\ (~erased => Whole(s, prompts))
    BY <1>4, <2>1 DEF ChatInv, ChatLogs, ChatOnScreen
  <2>3. Awaited \subseteq 1..MaxPrompts
    BY DEF ChatInv, ChatCalls, Awaited, Asks
  <2>4. gone \subseteq 1..MaxPrompts
    BY <1>1, <2>1, <2>2, <2>3 DEF Bubbles
  <2>5. \A i \in 1..Len(s) : s[i].from = "pending" => s[i].prompt \in gone
    BY <1>1, <2>1
  <2>6. PICK g, a, n : g = cut /\ a = Awaited /\ n = prompts
    OBVIOUS
  <2>7. Unbroken(P!Kept(s)) /\ Fits(P!Kept(s), g \cup gone) /\ (Whole(s, n) => Whole(P!Kept(s), n))
    BY <2>1, <2>2, <2>5, <2>6, LogKept
  <2> QED
    BY <1>2, <1>3, <2>2, <2>4, <2>6, <2>7 DEF ChatInv, ChatTyped
<1>5. CASE place # "console"
  <2>1. thread = <<>>
    BY <1>5 DEF ChatInv, ChatLogs, ChatTyped
  <2>2. gone = {}
    BY <1>1, <2>1
  <2>3. cut' = cut
    BY <1>2, <2>2
  <2>4. CASE place = "restoring"
    BY <1>2, <1>3, <2>3, <2>4, EmptyLog DEF ChatInv, ChatLogs, ChatTyped, ChatKept
  <2>5. CASE place = "away"
    BY <1>3, <2>3, <2>5 DEF ChatInv, ChatLogs, ChatTyped
  <2> QED
    BY <1>5, <2>4, <2>5 DEF ChatInv, ChatTyped
<1> QED
  BY <1>4, <1>5

(* The console is mounted: it awaits nothing yet.                           *)
LEMMA ChatMounts ==
  ASSUME ChatAssumption, ChatInv, studio, P!Mounting, UNCHANGED <<studio, team, business, wizard, prompts>>,
         asking' = asking \/ asking' = [c \in ServerCalls |-> P!Idle],
         cut' \subseteq 1..MaxPrompts, erased' \in BOOLEAN,
         Fits(stored, cut'), Unbroken(stored), ~erased' => Whole(stored, prompts)
  PROVE  ChatInv'
<1>1. /\ visit' = visit + 1 /\ visit' \in 0..MaxMounts /\ visit \in Nat /\ place' = "restoring"
      /\ restored' = stored /\ stored' = <<>> /\ thread' = <<>> /\ waiting' = FALSE /\ quick' = "form"
  BY DEF P!Mounting, ChatInv, ChatTyped, ChatAssumption
<1>2. PICK q : q = P!Idle
  OBVIOUS
<1>3. q.at = "idle" /\ q.mount = 0 /\ q \in [at : {"idle", "asked", "served", "refused"}, kind : P!Kinds,
                         mount : 0..MaxMounts, prompt : 0..MaxPrompts]
  BY <1>2 DEF P!Idle, P!Kinds, ChatAssumption
<1>4. \A c \in ServerCalls : asking'[c] = asking[c] \/ asking'[c] = q
  BY <1>2
<1>5. asking' \in [ServerCalls -> [at : {"idle", "asked", "served", "refused"}, kind : P!Kinds,
                         mount : 0..MaxMounts, prompt : 0..MaxPrompts]]
  BY <1>2, <1>3 DEF ChatInv, ChatTyped
<1>6. ChatTyped'
  BY <1>1, <1>5, EmptyLog DEF ChatInv, ChatTyped
<1>7. ASSUME NEW c \in ServerCalls
      PROVE  /\ asking'[c].mount <= visit' /\ asking'[c].mount # visit'
             /\ asking'[c].kind \in {"onboarding", "team"} /\ asking'[c].at # "idle" => asking'[c].prompt \in 1..MaxPrompts
  <2>1. asking[c].mount <= visit /\ asking[c].mount \in Nat
    BY DEF ChatInv, ChatCalls, ChatTyped
  <2> QED
    BY <1>1, <1>3, <1>4, <2>1 DEF ChatInv, ChatCalls
<1>8. ChatCalls'
  BY <1>7 DEF ChatCalls, Asks
<1>9. ChatLogs'
  BY <1>1 DEF ChatLogs, ChatKept
<1> QED
  BY <1>6, <1>8, <1>9 DEF ChatInv

LEMMA ChatOpened == ChatStep(P!OpenConsole \/ P!Reload \/ P!Restore \/ P!LeaveConsole)
<1> SUFFICES ASSUME ChatAssumption, DraftInv, ChatInv, P!OpenConsole \/ P!Reload \/ P!Restore \/ P!LeaveConsole
             PROVE  ChatInv'
  BY DEF ChatStep
<1>1. CASE P!OpenConsole
  <2>1. place = "away" /\ studio /\ UNCHANGED <<cut, erased, asking, studio, team, business, wizard, prompts>> /\ P!Mounting
    BY <1>1 DEF P!OpenConsole
  <2>2. Fits(stored, cut) /\ Unbroken(stored) /\ (~erased => Whole(stored, prompts))
        /\ cut \subseteq 1..MaxPrompts /\ erased \in BOOLEAN
    BY <2>1 DEF ChatInv, ChatLogs, ChatTyped
  <2> QED
    BY <2>1, <2>2, ChatMounts
<1>2. CASE P!Reload
  <2>1. studio /\ P!Leaving /\ P!Mounting /\ asking' = [c \in ServerCalls |-> P!Idle]
        /\ UNCHANGED <<studio, team, business, wizard, prompts>>
    BY <1>2 DEF P!Reload
  <2>2. place # "wizard"
    BY <2>1 DEF DraftInv, Screen
  <2> QED
    BY <2>1, <2>2, ChatLeft, ChatMounts
<1>3. CASE P!Restore
  <2>1. /\ place = "restoring" /\ place' = "console" /\ restored' = <<>>
        /\ thread' = restored /\ stored' = P!Kept(restored)
        /\ UNCHANGED <<studio, team, visit, business, waiting, quick, wizard, asking, prompts, cut, erased>>
    BY <1>3 DEF P!Restore, P!Shows
  <2>2. PICK s : s = restored /\ s \in Seq(P!Messages) /\ Unbroken(s) /\ Fits(s, cut) /\ (~erased => Whole(s, prompts))
    BY <2>1 DEF ChatInv, ChatLogs, ChatKept, ChatTyped, Logs
  <2>3. \A awaited : Bubbles(s, awaited)
    BY <2>2, UnbrokenLog
  <2>4. PICK g : g = cut
    OBVIOUS
  <2>5. P!Kept(s) \in Seq(P!Messages)
    BY <2>2, <2>3, <2>4, LogKept
  <2>6. ChatTyped'
    BY <2>1, <2>2, <2>5, EmptyLog DEF ChatInv, ChatTyped, Logs
  <2>7. ChatCalls'
    BY <2>1 DEF ChatInv, ChatCalls, Asks, Console
  <2>8. ChatOnScreen'
    BY <2>1, <2>2, <2>3 DEF ChatOnScreen
  <2> QED
    BY <2>1, <2>6, <2>7, <2>8 DEF ChatInv, ChatLogs
<1>4. CASE P!LeaveConsole
  <2>1. /\ place \in {"restoring", "console"} /\ P!Leaving /\ place' = "away" /\ thread' = <<>> /\ restored' = <<>> /\ waiting' = FALSE
        /\ UNCHANGED <<studio, team, visit, business, stored, quick, wizard, asking, prompts>>
    BY <1>4 DEF P!LeaveConsole
  <2>2. studio /\ place # "wizard"
    BY <2>1 DEF DraftInv, Screen
  <2>3. /\ cut' \subseteq 1..MaxPrompts /\ erased' \in BOOLEAN /\ Fits(stored, cut') /\ Unbroken(stored)
        /\ ~erased' => Whole(stored, prompts)
    BY <2>1, <2>2, ChatLeft
  <2>4. ChatTyped'
    BY <2>1, <2>3, EmptyLog DEF ChatInv, ChatTyped
  <2>5. ChatCalls'
    BY <2>1 DEF ChatInv, ChatCalls, Asks, Console
  <2>6. ChatLogs'
    BY <2>1, <2>3 DEF ChatLogs
  <2> QED
    BY <2>4, <2>5, <2>6 DEF ChatInv
<1> QED
  BY <1>1, <1>2, <1>3, <1>4

(* The thread goes on in the console.                                       *)
LEMMA ChatGoesOn ==
  ASSUME ChatAssumption, ChatInv, place = "console", NEW lines \in Seq(P!Messages), P!Shows(lines),
         UNCHANGED <<studio, team, place, visit, restored, quick, wizard, cut, erased>>,
         business' \in [P!Fields -> {"seed", "empty", "hers", "draft"}], waiting' \in BOOLEAN,
         prompts' \in 0..MaxPrompts,
         asking' \in [ServerCalls -> [at : {"idle", "asked", "served", "refused"}, kind : P!Kinds,
                         mount : 0..MaxMounts, prompt : 0..MaxPrompts]],
         ChatCalls', NEW awaited, awaited = Awaited',
         Fits(lines, cut), Bubbles(lines, awaited), ~erased => Whole(lines, prompts')
  PROVE  ChatInv'
<1>1. thread' = lines /\ stored' = P!Kept(lines)
  BY DEF P!Shows
<1>2. P!Kept(lines) \in Seq(P!Messages)
  <2>1. PICK g : g = cut
    OBVIOUS
  <2> QED
    BY <2>1, LogKept
<1>3. ChatTyped'
  BY <1>1, <1>2 DEF ChatInv, ChatTyped, Logs
<1>4. restored = <<>>
  BY DEF ChatInv, ChatLogs, ChatOnScreen
<1>5. ChatOnScreen'
  BY <1>1, <1>4 DEF ChatOnScreen
<1>6. ChatLogs'
  BY <1>5 DEF ChatLogs
<1> QED
  BY <1>3, <1>6 DEF ChatInv

LEMMA ChatGuided == ChatStep(P!Guided \/ \E i \in DOMAIN thread : P!UseDraft(i))
<1> SUFFICES ASSUME ChatAssumption, DraftInv', ChatInv, P!Guided \/ \E i \in DOMAIN thread : P!UseDraft(i)
             PROVE  ChatInv'
  BY DEF ChatStep
<1>0. place = "console" /\ UNCHANGED <<studio, team, place, visit, restored, waiting, quick, wizard, asking, cut, erased>>
  BY DEF P!Guided, P!UseDraft
<1>1. PICK s, g, n : s = thread /\ g = cut /\ n = prompts
  OBVIOUS
<1>2. s \in Seq(P!Messages) /\ Fits(s, g) /\ Bubbles(s, Awaited) /\ (~erased => Whole(s, n)) /\ n \in 0..MaxPrompts
  BY <1>0, <1>1 DEF ChatInv, ChatLogs, ChatOnScreen, ChatTyped, Logs
<1>3. ChatCalls' /\ Awaited' = Awaited
  BY <1>0 DEF ChatInv, ChatCalls, Asks, Awaited, Console
<1>t. /\ asking' \in [ServerCalls -> [at : {"idle", "asked", "served", "refused"}, kind : P!Kinds,
                         mount : 0..MaxMounts, prompt : 0..MaxPrompts]]
      /\ waiting' \in BOOLEAN
  BY <1>0 DEF ChatInv, ChatTyped
<1>4. CASE P!Guided
  <2>1. PICK slot \in {"none", "preview"} : P!Shows(thread \o <<P!Owner(prompts'), P!Says(prompts', slot)>>)
    BY <1>4 DEF P!Guided
  <2>2. prompts' = prompts + 1 /\ prompts < MaxPrompts /\ business' = business /\ ~waiting
    BY <1>4 DEF P!Guided
  <2>3. PICK p : p = n + 1 /\ p \in 0..MaxPrompts /\ prompts' = p /\ n \in Nat
    BY <1>1, <1>2, <2>2 DEF ChatAssumption
  <2>4. Awaited = {}
    BY <1>0, <2>2 DEF ChatInv, ChatCalls, Awaited, Console
  <2>5. PICK m : m = P!Says(p, slot)
    OBVIOUS
  <2>6. m \in P!Messages /\ m.prompt = p /\ m.from = "assistant"
    BY <2>3, <2>5 DEF P!Says, P!Messages, P!Cards
  <2>7. P!Owner(p) \in P!Messages
    BY <2>3 DEF P!Owner, P!Messages, P!Cards
  <2>8. PICK u : u = s \o <<P!Owner(p), m>>
    OBVIOUS
  <2>9. /\ u \in Seq(P!Messages) /\ Fits(u, g) /\ Bubbles(u, {}) /\ (Whole(s, n) => Whole(u, p))
    <3>1. Bubbles(s, {})
      BY <1>2, <2>4
    <3> QED
      BY <1>2, <2>3, <2>6, <2>7, <2>8, <3>1, LogAsked
  <2>10. P!Shows(u)
    BY <1>1, <2>1, <2>3, <2>5, <2>8
  <2>11. business' \in [P!Fields -> {"seed", "empty", "hers", "draft"}]
    BY <2>2 DEF ChatInv, ChatTyped
  <2> QED
    BY <1>0, <1>1, <1>2, <1>3, <1>t, <2>3, <2>4, <2>9, <2>10, <2>11, ChatGoesOn
<1>5. ASSUME NEW i \in DOMAIN thread, P!UseDraft(i) PROVE ChatInv'
  <2>1. business' = P!Drafted /\ P!Shows(Append(thread, P!Says(0, "preview"))) /\ prompts' = prompts
    BY <1>5 DEF P!UseDraft
  <2>2. PICK m : m = P!Says(0, "preview")
    OBVIOUS
  <2>3. m \in P!Messages /\ m.from = "assistant"
    BY <2>2 DEF P!Says, P!Messages, P!Cards, ChatAssumption
  <2>4. PICK u, a : u = Append(s, m) /\ a = Awaited
    OBVIOUS
  <2>5. /\ u \in Seq(P!Messages) /\ Fits(u, g) /\ Bubbles(u, a) /\ (Whole(s, n) => Whole(u, n))
    BY <1>2, <2>3, <2>4, LogSaid
  <2>6. business' \in [P!Fields -> {"seed", "empty", "hers", "draft"}]
    <3>1. business' = [f \in P!Fields |-> business'[f]]
      BY DEF DraftInv, OwnWords
    <3>2. \A f \in P!Fields : business'[f] \in {"empty", "draft"}
      BY <2>1 DEF P!Drafted, P!Fields
    <3> QED
      BY <3>1, <3>2
  <2>7. P!Shows(u)
    BY <1>1, <2>1, <2>2, <2>4
  <2> QED
    BY <1>0, <1>1, <1>2, <1>3, <1>t, <2>1, <2>4, <2>5, <2>6, <2>7, ChatGoesOn
<1> QED
  BY <1>4, <1>5

LEMMA ChatSubmits == ChatStep(\E c \in ServerCalls : P!Submit(c))
<1> SUFFICES ASSUME ChatAssumption, DraftInv', ChatInv, NEW c \in ServerCalls, P!Submit(c)
             PROVE  ChatInv'
  BY DEF ChatStep
<1>0. /\ place = "console" /\ UNCHANGED <<studio, team, place, visit, business, restored, quick, wizard, cut, erased>>
      /\ prompts' = prompts + 1 /\ prompts < MaxPrompts /\ ~waiting /\ waiting' = TRUE
      /\ asking[c].at = "idle" /\ P!Route \in {"onboarding", "team"}
  BY DEF P!Submit, P!Route
<1>1. PICK s, g, n : s = thread /\ g = cut /\ n = prompts
  OBVIOUS
<1>2. s \in Seq(P!Messages) /\ Fits(s, g) /\ Bubbles(s, Awaited) /\ (~erased => Whole(s, n)) /\ n \in 0..MaxPrompts
  BY <1>0, <1>1 DEF ChatInv, ChatLogs, ChatOnScreen, ChatTyped, Logs
<1>3. \A d \in ServerCalls : ~Asks(d)
  BY <1>0 DEF ChatInv, ChatCalls, Console
<1>4. Awaited = {}
  BY <1>3 DEF Awaited
<1>5. PICK p : p = n + 1 /\ p \in 1..MaxPrompts /\ prompts' = p /\ n \in Nat
  BY <1>0, <1>1, <1>2 DEF ChatAssumption
<1>6. PICK q : q = [at |-> "asked", kind |-> P!Route, mount |-> visit, prompt |-> p]
  OBVIOUS
<1>7. asking' = [asking EXCEPT ![c] = q] /\ P!Shows(thread \o <<P!Owner(p), P!Pending(p)>>)
  BY <1>5, <1>6 DEF P!Submit
<1>8. q \in [at : {"idle", "asked", "served", "refused"}, kind : P!Kinds,
                         mount : 0..MaxMounts, prompt : 0..MaxPrompts]
      /\ q.at = "asked" /\ q.kind \in {"onboarding", "team"} /\ q.mount = visit /\ q.prompt = p
  BY <1>0, <1>5, <1>6 DEF ChatInv, ChatTyped, P!Kinds
<1>9. asking' \in [ServerCalls -> [at : {"idle", "asked", "served", "refused"}, kind : P!Kinds,
                         mount : 0..MaxMounts, prompt : 0..MaxPrompts]]
  BY <1>7, <1>8 DEF ChatInv, ChatTyped
<1>10. \A d \in ServerCalls : asking'[d] = IF d = c THEN q ELSE asking[d]
  BY <1>7 DEF ChatInv, ChatTyped
<1>11. \A d \in ServerCalls : Asks(d)' <=> d = c
  BY <1>0, <1>3, <1>8, <1>10 DEF Asks
<1>12. ChatCalls'
  <2>1. \A d \in ServerCalls : asking'[d].mount <= visit'
    BY <1>0, <1>8, <1>10 DEF ChatInv, ChatCalls, ChatTyped
  <2>2. \A d \in ServerCalls : asking'[d].kind \in {"onboarding", "team"} /\ asking'[d].at # "idle" => asking'[d].prompt \in 1..MaxPrompts
    BY <1>5, <1>8, <1>10 DEF ChatInv, ChatCalls
  <2> QED
    BY <1>0, <1>11, <2>1, <2>2 DEF ChatCalls
<1>13. Awaited' = {p}
  BY <1>8, <1>10, <1>11 DEF Awaited
<1>14. PICK m : m = P!Pending(p)
  OBVIOUS
<1>15. m \in P!Messages /\ m.prompt = p /\ m.from = "pending" /\ m.card = "none" /\ P!Owner(p) \in P!Messages
  BY <1>5, <1>14 DEF P!Pending, P!Owner, P!Messages, P!Cards
<1>16. PICK u : u = s \o <<P!Owner(p), m>>
  OBVIOUS
<1>17. u \in Seq(P!Messages) /\ Fits(u, g) /\ Bubbles(u, {p}) /\ (Whole(s, n) => Whole(u, p))
  <2>1. Bubbles(s, {})
    BY <1>2, <1>4
  <2> QED
    BY <1>2, <1>5, <1>15, <1>16, <2>1, LogAsked
<1>18. P!Shows(u)
  BY <1>1, <1>7, <1>14, <1>16
<1>19. business' \in [P!Fields -> {"seed", "empty", "hers", "draft"}] /\ prompts' \in 0..MaxPrompts
  BY <1>0, <1>5 DEF ChatInv, ChatTyped
<1> QED
  BY <1>0, <1>1, <1>2, <1>5, <1>9, <1>12, <1>13, <1>17, <1>18, <1>19, ChatGoesOn

LEMMA ChatReplies == ChatStep(\E c \in ServerCalls : P!TakeReply(c) /\ P!Here(asking[c]))
<1> SUFFICES ASSUME ChatAssumption, ChatInv, NEW c \in ServerCalls, P!TakeReply(c), P!Here(asking[c])
             PROVE  ChatInv'
  BY DEF ChatStep
<1>0. /\ place = "console" /\ asking[c].mount = visit
      /\ asking[c].kind \in {"onboarding", "team"} /\ asking[c].at \in {"served", "refused"}
      /\ UNCHANGED <<studio, team, place, visit, business, restored, quick, wizard, prompts, cut, erased>>
      /\ asking' = [asking EXCEPT ![c] = P!Idle] /\ waiting' = FALSE
  BY DEF P!TakeReply, P!Here
<1>1. PICK s, g, n : s = thread /\ g = cut /\ n = prompts
  OBVIOUS
<1>2. s \in Seq(P!Messages) /\ Fits(s, g) /\ Bubbles(s, Awaited) /\ (~erased => Whole(s, n))
  BY <1>0, <1>1 DEF ChatInv, ChatLogs, ChatOnScreen, ChatTyped, Logs
<1>3. PICK p : p = asking[c].prompt /\ p \in 1..MaxPrompts
  BY <1>0 DEF ChatInv, ChatCalls
<1>4. Asks(c) /\ \A d \in ServerCalls : Asks(d) => d = c
  BY <1>0 DEF ChatInv, ChatCalls, Asks, Console
<1>5. Awaited = {p}
  BY <1>3, <1>4 DEF Awaited
<1>6. PICK q : q = P!Idle
  OBVIOUS
<1>7. q \in [at : {"idle", "asked", "served", "refused"}, kind : P!Kinds,
                         mount : 0..MaxMounts, prompt : 0..MaxPrompts]
      /\ q.at = "idle" /\ q.mount = 0
  BY <1>6 DEF P!Idle, P!Kinds, ChatAssumption
<1>8. asking' \in [ServerCalls -> [at : {"idle", "asked", "served", "refused"}, kind : P!Kinds,
                         mount : 0..MaxMounts, prompt : 0..MaxPrompts]]
      /\ \A d \in ServerCalls : asking'[d] = IF d = c THEN q ELSE asking[d]
  BY <1>0, <1>6, <1>7 DEF ChatInv, ChatTyped
<1>9. \A d \in ServerCalls : ~Asks(d)'
  BY <1>0, <1>4, <1>7, <1>8 DEF Asks
<1>10. ChatCalls'
  <2>1. \A d \in ServerCalls : asking'[d].mount <= visit'
    BY <1>0, <1>7, <1>8 DEF ChatInv, ChatCalls, ChatTyped
  <2>2. \A d \in ServerCalls : asking'[d].kind \in {"onboarding", "team"} /\ asking'[d].at # "idle" => asking'[d].prompt \in 1..MaxPrompts
    BY <1>7, <1>8 DEF ChatInv, ChatCalls
  <2> QED
    BY <1>9, <2>1, <2>2 DEF ChatCalls
<1>11. Awaited' = {}
  BY <1>9 DEF Awaited
<1>12. PICK slot \in P!Cards : P!Shows(P!Replied(p, P!Says(p, slot)))
  BY <1>0, <1>3 DEF P!TakeReply, P!Here, P!Cards
<1>13. PICK m : m = P!Says(p, slot)
  OBVIOUS
<1>14. m \in P!Messages /\ m.prompt = p /\ m.from = "assistant"
  BY <1>3, <1>13 DEF P!Says, P!Messages
<1>15. PICK u : u = [i \in DOMAIN s |-> IF s[i] = P!Pending(p) THEN m ELSE s[i]]
  OBVIOUS
<1>16. u \in Seq(P!Messages) /\ Fits(u, g) /\ Bubbles(u, {}) /\ (Whole(s, n) => Whole(u, n))
  <2>1. Bubbles(s, {p})
    BY <1>2, <1>5
  <2> QED
    BY <1>2, <1>14, <1>15, <2>1, LogReplied
<1>17. P!Shows(u)
  BY <1>1, <1>12, <1>13, <1>15 DEF P!Replied
<1>18. business' \in [P!Fields -> {"seed", "empty", "hers", "draft"}] /\ prompts' \in 0..MaxPrompts /\ prompts' = n
  BY <1>0, <1>1 DEF ChatInv, ChatTyped
<1> QED
  BY <1>0, <1>1, <1>2, <1>8, <1>10, <1>11, <1>16, <1>17, <1>18, ChatGoesOn

(* What does not touch the talk: in the console its calls stay.             *)
ChatCall == [at : {"idle", "asked", "served", "refused"}, kind : P!Kinds,
             mount : 0..MaxMounts, prompt : 0..MaxPrompts]
LEMMA ChatQuiet ==
  ASSUME ChatAssumption, ChatInv,
         UNCHANGED <<studio, team, thread, stored, restored, prompts, cut, erased>>,
         place' = place \/ (place \in {"away", "wizard"} /\ place' \in {"away", "wizard"}),
         visit' = visit \/ (visit' = visit + 1 /\ visit < MaxMounts /\ place' = "wizard"),
         place \in Console /\ waiting => waiting', waiting' \in BOOLEAN,
         business' \in [P!Fields -> {"seed", "empty", "hers", "draft"}],
         quick' \in {"form", "progress", "done", "hidden"},
         wizard' \in [phase : {"describe", "review"}, draft : {"none", "draft", "hers"}],
         wizard'.phase = "review" => wizard'.draft # "none",
         asking' \in [ServerCalls -> ChatCall],
         \A c \in ServerCalls : /\ asking'[c].mount <= visit'
                                /\ \/ asking'[c].kind \notin {"onboarding", "team"} \/ asking'[c].at = "idle"
                                   \/ asking'[c].prompt \in 1..MaxPrompts,
         place \in Console => \A c \in ServerCalls : /\ Asks(c)' <=> Asks(c)
                                                     /\ Asks(c) => asking'[c].prompt = asking[c].prompt
  PROVE  ChatInv'
<1>0. place \in {"restoring", "console", "wizard", "away"} /\ visit \in 0..MaxMounts
  BY DEF ChatInv, ChatTyped
<1>1. place' \in {"restoring", "console", "wizard", "away"}
  BY <1>0
<1>2. visit' \in 0..MaxMounts
  BY <1>0 DEF ChatAssumption
<1>3. ChatTyped'
  BY <1>1, <1>2 DEF ChatInv, ChatTyped, ChatCall
<1>4. place' \in Console => place' = place
  BY DEF Console
<1>5. ChatCalls'
  <2>1. ASSUME place' \in Console
        PROVE  (\A c, d \in ServerCalls : (Asks(c) /\ Asks(d))' => c = d)
               /\ \A c \in ServerCalls : Asks(c)' => place' = "console" /\ waiting'
    BY <1>4, <2>1 DEF ChatInv, ChatCalls
  <2>2. \A c \in ServerCalls : asking'[c].mount <= visit'
    OBVIOUS
  <2>3. \A c \in ServerCalls : asking'[c].kind \in {"onboarding", "team"} /\ asking'[c].at # "idle" => asking'[c].prompt \in 1..MaxPrompts
    OBVIOUS
  <2> QED
    BY <2>1, <2>2, <2>3 DEF ChatCalls
<1>6. CASE place' = "console"
  <2>1. place = "console" /\ place \in Console
    BY <1>4, <1>6 DEF Console
  <2>2. Awaited' = Awaited
    BY <2>1 DEF Awaited
  <2>3. ChatOnScreen
    BY <2>1 DEF ChatInv, ChatLogs
  <2>4. ChatOnScreen'
    BY <2>2, <2>3 DEF ChatOnScreen
  <2> QED
    BY <1>3, <1>5, <1>6, <2>4 DEF ChatInv, ChatLogs
<1>7. CASE place' = "restoring"
  <2>1. place = "restoring"
    BY <1>4, <1>7 DEF Console
  <2> QED
    BY <1>3, <1>5, <1>7, <2>1 DEF ChatInv, ChatLogs, ChatKept
<1>8. CASE place' \in {"away", "wizard"}
  <2>1. place \in {"away", "wizard"}
    BY <1>0, <1>8
  <2> QED
    BY <1>3, <1>5, <1>8, <2>1 DEF ChatInv, ChatLogs
<1> QED
  BY <1>1, <1>6, <1>7, <1>8

LEMMA ChatElsewhere ==
  ChatStep(P!Skip \/ P!Review \/ P!ApplyDraft \/ P!CloseWizard \/ P!OpenWizard \/ \E f \in P!Fields : P!Write(f))
<1> SUFFICES ASSUME ChatAssumption, DraftInv, DraftInv', ChatInv,
                      P!Skip \/ P!Review \/ P!ApplyDraft \/ P!CloseWizard \/ P!OpenWizard \/ \E f \in P!Fields : P!Write(f)
             PROVE  ChatInv'
  BY DEF ChatStep
<1>1. UNCHANGED <<studio, team, thread, stored, restored, prompts, cut, erased, asking>>
  BY DEF P!Skip, P!Review, P!ApplyDraft, P!CloseWizard, P!OpenWizard, P!Write
<1>2. /\ asking \in [ServerCalls -> ChatCall] /\ place \in {"restoring", "console", "wizard", "away"}
      /\ visit \in 0..MaxMounts /\ business \in [P!Fields -> {"seed", "empty", "hers", "draft"}]
      /\ quick \in {"form", "progress", "done", "hidden"} /\ waiting \in BOOLEAN
      /\ wizard \in [phase : {"describe", "review"}, draft : {"none", "draft", "hers"}]
      /\ wizard.phase = "review" => wizard.draft # "none"
      /\ \A c \in ServerCalls : asking[c].mount \in 0..MaxMounts
  BY DEF ChatInv, ChatTyped, ChatCall
<1>3. \A c \in ServerCalls : /\ asking[c].mount <= visit
                             /\ \/ asking[c].kind \notin {"onboarding", "team"} \/ asking[c].at = "idle"
                                \/ asking[c].prompt \in 1..MaxPrompts
  BY DEF ChatInv, ChatCalls
<1>4. CASE P!Skip \/ P!Review \/ P!CloseWizard \/ \E f \in P!Fields : P!Write(f)
  <2>1. /\ UNCHANGED <<visit, waiting>>
        /\ place' = place \/ (place = "wizard" /\ place' = "away")
    BY <1>4 DEF P!Skip, P!Review, P!CloseWizard, P!Write
  <2>2. business' \in [P!Fields -> {"seed", "empty", "hers", "draft"}]
    BY <1>2, <1>4 DEF P!Skip, P!Review, P!CloseWizard, P!Write
  <2>3. /\ quick' \in {"form", "progress", "done", "hidden"}
        /\ wizard' \in [phase : {"describe", "review"}, draft : {"none", "draft", "hers"}]
        /\ wizard'.phase = "review" => wizard'.draft # "none"
    BY <1>2, <1>4 DEF P!Skip, P!Review, P!CloseWizard, P!Write
  <2>4. \A c \in ServerCalls : Asks(c)' <=> Asks(c)
    BY <1>1, <2>1 DEF Asks
  <2>5. /\ asking' \in [ServerCalls -> ChatCall] /\ waiting' \in BOOLEAN /\ (place \in Console /\ waiting => waiting')
        /\ place' = place \/ (place \in {"away", "wizard"} /\ place' \in {"away", "wizard"})
    BY <1>1, <1>2, <2>1
  <2>6. \A c \in ServerCalls : /\ asking'[c].mount <= visit'
                               /\ \/ asking'[c].kind \notin {"onboarding", "team"} \/ asking'[c].at = "idle"
                                  \/ asking'[c].prompt \in 1..MaxPrompts
    BY <1>1, <1>3, <2>1
  <2>7. place \in Console => \A c \in ServerCalls : /\ Asks(c)' <=> Asks(c)
                                                    /\ Asks(c) => asking'[c].prompt = asking[c].prompt
    BY <1>1, <2>4
  <2>8. place \in Console /\ waiting => waiting'
    BY <2>5
  <2>9. asking' \in [ServerCalls -> ChatCall] /\ waiting' \in BOOLEAN
    BY <2>5
  <2>10. /\ place' = place \/ (place \in {"away", "wizard"} /\ place' \in {"away", "wizard"})
         /\ visit' = visit
    BY <2>1, <2>5
  <2> QED
    BY <1>1, <1>2, <1>3, <2>1, <2>2, <2>3, <2>7, <2>10, ChatQuiet
<1>5. CASE P!ApplyDraft
  <2>1. /\ UNCHANGED <<visit, waiting, quick, wizard>> /\ place = "wizard" /\ place' = "away"
        /\ business' = [P!Drafted EXCEPT !["desc"] = wizard.draft] /\ wizard.phase = "review"
    BY <1>5 DEF P!ApplyDraft
  <2>2. wizard.draft # "none"
    BY <2>1 DEF ChatInv, ChatTyped
  <2>3. business' \in [P!Fields -> {"seed", "empty", "hers", "draft"}]
    <3>1. business' = [f \in P!Fields |-> business'[f]]
      BY DEF DraftInv, OwnWords
    <3>2. \A f \in P!Fields : business'[f] \in {"empty", "draft", "hers"}
      BY <1>2, <2>1, <2>2 DEF P!Drafted, P!Fields
    <3> QED
      BY <3>1, <3>2
  <2>4. \A c \in ServerCalls : Asks(c)' <=> Asks(c)
    BY <1>1, <2>1 DEF Asks
  <2> QED
    BY <1>1, <1>2, <1>3, <2>1, <2>3, <2>4, ChatQuiet
<1>6. CASE P!OpenWizard
  <2>1. /\ UNCHANGED <<business, quick>> /\ place = "away" /\ place' = "wizard" /\ wizard' = P!Closed
        /\ visit' = visit + 1 /\ visit < MaxMounts /\ waiting' = FALSE
    BY <1>6 DEF P!OpenWizard
  <2>2. wizard' \in [phase : {"describe", "review"}, draft : {"none", "draft", "hers"}]
        /\ wizard'.phase # "review"
    BY <2>1 DEF P!Closed
  <2>3. \A c \in ServerCalls : asking'[c].mount <= visit'
    <3>1. TAKE c \in ServerCalls
    <3>2. asking[c].mount \in 0..MaxMounts /\ asking[c].mount <= visit
      BY <1>2, <1>3
    <3> QED
      BY <1>1, <1>2, <2>1, <3>2 DEF ChatAssumption
  <2>4. place \notin Console
    BY <2>1 DEF Console
  <2> QED
    BY <1>1, <1>2, <1>3, <2>1, <2>2, <2>3, <2>4, ChatQuiet
<1> QED
  BY <1>4, <1>5, <1>6

(* The calls of the quick launch and of the wizard, and one that is served. *)
LEMMA ChatCalled ==
  ChatStep(\E c \in ServerCalls :
             \/ P!Launch(c) \/ P!Generate(c) \/ P!TakeLaunch(c) \/ P!TakeDraft(c)
             \/ P!ServeProfile(c) \/ P!ServeQuick(c) \/ P!ServeTeam(c)
             \/ P!TakeReply(c) /\ ~P!Here(asking[c]))
<1> SUFFICES ASSUME ChatAssumption, DraftInv, DraftInv', ChatInv, NEW c \in ServerCalls,
                    \/ P!Launch(c) \/ P!Generate(c) \/ P!TakeLaunch(c) \/ P!TakeDraft(c)
                    \/ P!ServeProfile(c) \/ P!ServeQuick(c) \/ P!ServeTeam(c)
                    \/ P!TakeReply(c) /\ ~P!Here(asking[c])
             PROVE  ChatInv'
  BY DEF ChatStep
<1>1. UNCHANGED <<studio, team, place, visit, thread, stored, restored, prompts, cut, erased>>
  BY DEF P!Launch, P!Generate, P!TakeLaunch, P!TakeDraft, P!ServeProfile, P!ServeQuick, P!ServeTeam, P!Served, P!TakeReply
<1>2. /\ asking \in [ServerCalls -> ChatCall] /\ place \in {"restoring", "console", "wizard", "away"}
      /\ visit \in 0..MaxMounts /\ business \in [P!Fields -> {"seed", "empty", "hers", "draft"}]
      /\ quick \in {"form", "progress", "done", "hidden"} /\ waiting \in BOOLEAN
      /\ wizard \in [phase : {"describe", "review"}, draft : {"none", "draft", "hers"}]
      /\ wizard.phase = "review" => wizard.draft # "none"
  BY DEF ChatInv, ChatTyped, ChatCall
<1>3. \A d \in ServerCalls : /\ asking[d].mount <= visit
                             /\ \/ asking[d].kind \notin {"onboarding", "team"} \/ asking[d].at = "idle"
                                \/ asking[d].prompt \in 1..MaxPrompts
  BY DEF ChatInv, ChatCalls
<1>4. ASSUME NEW q \in ChatCall, asking' = [asking EXCEPT ![c] = q], q.mount <= visit,
             \/ q.kind \notin {"onboarding", "team"} \/ q.at = "idle"
             \/ asking[c].at # "idle" /\ q.at # "idle" /\ q.kind = asking[c].kind
                /\ q.mount = asking[c].mount /\ q.prompt = asking[c].prompt,
             q.kind \notin {"onboarding", "team"} \/ q.at = "idle" => place \notin Console \/ ~Asks(c),
             place \in Console /\ waiting => waiting', waiting' \in BOOLEAN,
             business' \in [P!Fields -> {"seed", "empty", "hers", "draft"}],
             quick' \in {"form", "progress", "done", "hidden"},
             wizard' \in [phase : {"describe", "review"}, draft : {"none", "draft", "hers"}],
             wizard'.phase = "review" => wizard'.draft # "none"
      PROVE  ChatInv'
  <2>1. \A d \in ServerCalls : asking'[d] = IF d = c THEN q ELSE asking[d]
    BY <1>2, <1>4
  <2>2. asking' \in [ServerCalls -> ChatCall]
    BY <1>2, <1>4
  <2>3. ASSUME NEW d \in ServerCalls
        PROVE  /\ asking'[d].mount <= visit'
               /\ \/ asking'[d].kind \notin {"onboarding", "team"} \/ asking'[d].at = "idle"
                  \/ asking'[d].prompt \in 1..MaxPrompts
    BY <1>1, <1>3, <1>4, <2>1
  <2>4. ASSUME place \in Console, NEW d \in ServerCalls
        PROVE  (Asks(d)' <=> Asks(d)) /\ (Asks(d) => asking'[d].prompt = asking[d].prompt)
    BY <1>1, <1>4, <2>1, <2>4 DEF Asks
  <2> QED
    BY <1>1, <1>4, <2>2, <2>3, <2>4, ChatQuiet
<1>5. CASE P!Launch(c) \/ P!Generate(c)
  <2>1. PICK sort \in {"quick", "wizard"} :
          asking' = [asking EXCEPT ![c] = [at |-> "asked", kind |-> sort, mount |-> visit, prompt |-> 0]]
    BY <1>5 DEF P!Launch, P!Generate
  <2>2. PICK q : q = [at |-> "asked", kind |-> sort, mount |-> visit, prompt |-> 0]
    OBVIOUS
  <2>3. q \in ChatCall /\ q.mount <= visit /\ q.kind \notin {"onboarding", "team"}
    BY <1>2, <2>2 DEF ChatCall, P!Kinds, ChatAssumption
  <2>4. /\ ~Asks(c) /\ UNCHANGED <<business, wizard>> /\ quick' \in {quick, "progress"}
        /\ waiting' = waiting \/ waiting' = TRUE
    BY <1>5 DEF P!Launch, P!Generate, Asks
  <2>5. /\ business' \in [P!Fields -> {"seed", "empty", "hers", "draft"}]
        /\ quick' \in {"form", "progress", "done", "hidden"}
        /\ wizard' \in [phase : {"describe", "review"}, draft : {"none", "draft", "hers"}]
        /\ wizard'.phase = "review" => wizard'.draft # "none"
    BY <1>2, <2>4
  <2>6. waiting' \in BOOLEAN /\ (place \in Console /\ waiting => waiting')
    <3>1. CASE waiting' = waiting
      BY <1>2, <3>1, Zenon
    <3>2. CASE waiting' = TRUE
      BY <3>2, Zenon
    <3> QED
      BY <2>4, <3>1, <3>2, Zenon
  <2>7. asking' = [asking EXCEPT ![c] = q]
    BY <2>1, <2>2
  <2> QED
    BY <1>4, <2>3, <2>4, <2>5, <2>6, <2>7
<1>6. PICK i : i = P!Idle
  OBVIOUS
<1>7. i \in ChatCall /\ i.mount <= visit /\ i.at = "idle"
  BY <1>2, <1>6 DEF P!Idle, ChatCall, P!Kinds, ChatAssumption
<1>8. CASE P!TakeLaunch(c)
  <2>1. asking' = [asking EXCEPT ![c] = i] /\ ~Asks(c) /\ UNCHANGED <<waiting, wizard>>
        /\ quick' \in {quick, "done", "form"}
    BY <1>6, <1>8 DEF P!TakeLaunch, Asks
  <2>2. business' \in [P!Fields -> {"seed", "empty", "hers", "draft"}]
    <3>1. business' = [f \in P!Fields |-> business'[f]]
      BY DEF DraftInv, OwnWords
    <3>2. CASE business' = business
      BY <1>2, <3>2
    <3>3. ASSUME NEW phone \in {"draft", "empty"}, business' = [P!Drafted EXCEPT !["contact"] = phone]
          PROVE  \A f \in P!Fields : business'[f] \in {"empty", "draft"}
      BY <3>3 DEF P!Drafted, P!Fields
    <3> QED
      BY <1>8, <3>1, <3>2, <3>3 DEF P!TakeLaunch
  <2> QED
    BY <1>2, <1>4, <1>7, <2>1, <2>2
<1>9. CASE P!TakeDraft(c)
  <2>1. asking' = [asking EXCEPT ![c] = i] /\ ~Asks(c) /\ UNCHANGED <<business, quick>>
    BY <1>6, <1>9 DEF P!TakeDraft, Asks
  <2>2. place \in Console => waiting' = waiting
    BY <1>9 DEF P!TakeDraft, Console
  <2>3. waiting' \in BOOLEAN /\ (wizard' = wizard \/ wizard' = [phase |-> "review", draft |-> "draft"])
    BY <1>2, <1>9 DEF P!TakeDraft
  <2>4. /\ wizard' \in [phase : {"describe", "review"}, draft : {"none", "draft", "hers"}]
        /\ wizard'.phase = "review" => wizard'.draft # "none"
    BY <1>2, <2>3
  <2> QED
    BY <1>2, <1>4, <1>7, <2>1, <2>2, <2>3, <2>4
<1>10. CASE P!TakeReply(c) /\ ~P!Here(asking[c])
  <2>1. asking' = [asking EXCEPT ![c] = i] /\ UNCHANGED <<waiting, business, quick, wizard>>
    BY <1>6, <1>10 DEF P!TakeReply
  <2>2. place \notin Console \/ ~Asks(c)
    BY <1>10 DEF P!Here, Asks, ChatInv, ChatCalls
  <2> QED
    BY <1>2, <1>4, <1>7, <2>1, <2>2
<1>11. CASE P!ServeProfile(c) \/ P!ServeQuick(c) \/ P!ServeTeam(c)
  <2>1. PICK answer \in {"served", "refused"} : asking' = [asking EXCEPT ![c].at = answer]
    BY <1>11 DEF P!ServeProfile, P!ServeQuick, P!ServeTeam, P!Served
  <2>2. asking[c].at = "asked" /\ UNCHANGED <<waiting, business, quick, wizard>>
    BY <1>11 DEF P!ServeProfile, P!ServeQuick, P!ServeTeam, P!Served
  <2>3. PICK q : q = [asking[c] EXCEPT !.at = answer]
    OBVIOUS
  <2>4. q \in ChatCall /\ q.at = answer /\ q.kind = asking[c].kind /\ q.mount = asking[c].mount
        /\ q.prompt = asking[c].prompt
    BY <1>2, <2>3 DEF ChatCall
  <2>5. asking' = [asking EXCEPT ![c] = q]
    BY <2>1, <2>3
  <2>6. q.mount <= visit
    BY <1>3, <2>4
  <2>7. q.kind \notin {"onboarding", "team"} => ~Asks(c)
    BY <2>4 DEF Asks
  <2> QED
    BY <1>2, <1>4, <2>2, <2>4, <2>5, <2>6, <2>7
<1> QED
  BY <1>5, <1>8, <1>9, <1>10, <1>11

LEMMA ChatKeeps ==
  ChatAssumption /\ DraftInv /\ DraftInv' /\ ChatInv /\ [P!Next]_P!vars => ChatInv'
<1> SUFFICES ASSUME ChatAssumption, DraftInv, DraftInv', ChatInv, [P!Next]_P!vars PROVE ChatInv'
  OBVIOUS
<1>1. CASE UNCHANGED P!vars
  <2>1. /\ UNCHANGED <<studio, team, place, visit, business, thread, stored, restored, waiting, quick, wizard>>
        /\ UNCHANGED <<asking, prompts, writes, hers, cut, erased>>
    BY <1>1 DEF P!vars
  <2>2. ChatTyped' /\ ChatCalls'
    BY <2>1 DEF ChatInv, ChatTyped, ChatCalls, Asks
  <2>3. Awaited' = Awaited
    BY <2>1 DEF Awaited, Asks
  <2>4. ChatLogs'
    BY <2>1, <2>3 DEF ChatInv, ChatLogs, ChatOnScreen, ChatKept
  <2> QED
    BY <2>2, <2>4 DEF ChatInv
<1>2. CASE P!OpenConsole \/ P!Reload \/ P!Restore \/ P!LeaveConsole
  BY <1>2, ChatOpened DEF ChatStep
<1>3. CASE P!Guided \/ \E i \in DOMAIN thread : P!UseDraft(i)
  BY <1>3, ChatGuided DEF ChatStep
<1>4. CASE \E c \in ServerCalls : P!Submit(c)
  BY <1>4, ChatSubmits DEF ChatStep
<1>5. CASE \E c \in ServerCalls : P!TakeReply(c) /\ P!Here(asking[c])
  BY <1>5, ChatReplies DEF ChatStep
<1>6. CASE P!Skip \/ P!Review \/ P!ApplyDraft \/ P!CloseWizard \/ P!OpenWizard \/ \E f \in P!Fields : P!Write(f)
  BY <1>6, ChatElsewhere DEF ChatStep
<1>7. CASE \E c \in ServerCalls :
             \/ P!Launch(c) \/ P!Generate(c) \/ P!TakeLaunch(c) \/ P!TakeDraft(c)
             \/ P!ServeProfile(c) \/ P!ServeQuick(c) \/ P!ServeTeam(c)
             \/ P!TakeReply(c) /\ ~P!Here(asking[c])
  BY <1>7, ChatCalled DEF ChatStep
<1> QED
  BY <1>1, <1>2, <1>3, <1>4, <1>5, <1>6, <1>7 DEF P!Next

LEMMA ChatTypes == DraftInv /\ ChatInv => P!TypeOK
BY DEF DraftInv, OwnWords, ChatInv, ChatTyped, P!TypeOK, Logs

LEMMA ChatAnswered == ChatInv => P!PromptsAnswered
<1> SUFFICES ASSUME ChatInv, NEW i \in DOMAIN thread, thread[i].from = "owner", thread[i].prompt \notin cut
             PROVE  /\ i + 1 \in DOMAIN thread /\ thread[i + 1].prompt = thread[i].prompt
                    /\ \/ thread[i + 1].from = "assistant"
                       \/ waiting /\ \E c \in P!Out : asking[c].mount = visit /\ asking[c].prompt = thread[i].prompt
  BY DEF P!PromptsAnswered
<1>1. PICK s : s = thread /\ s \in Seq(P!Messages) /\ DOMAIN s = 1..Len(s)
  BY LenProperties DEF ChatInv, ChatTyped, Logs
<1>2. s # <<>>
  BY <1>1
<1>3. place = "console"
  BY <1>1, <1>2 DEF ChatInv, ChatLogs, ChatTyped
<1>4. Fits(s, cut) /\ Bubbles(s, Awaited)
  BY <1>1, <1>3 DEF ChatInv, ChatLogs, ChatOnScreen
<1>5. i + 1 \in 1..Len(s) /\ s[i + 1].prompt = s[i].prompt /\ s[i + 1].from # "owner"
  BY <1>1, <1>4 DEF Fits
<1>6. s[i + 1] \in P!Messages
  BY <1>1, <1>5, ElementOfSeq
<1>7. s[i + 1].from \in {"pending", "assistant"}
  BY <1>5, <1>6 DEF P!Messages
<1>8. CASE s[i + 1].from = "pending"
  <2>1. s[i + 1].prompt \in Awaited
    BY <1>4, <1>5, <1>8 DEF Bubbles
  <2>2. PICK c \in ServerCalls : Asks(c) /\ asking[c].prompt = s[i].prompt
    BY <1>5, <2>1 DEF Awaited
  <2>3. waiting
    BY <1>3, <2>2 DEF ChatInv, ChatCalls, Console
  <2>4. c \in P!Out /\ asking[c].mount = visit
    BY <2>2 DEF Asks, P!Out
  <2> QED
    BY <1>1, <1>5, <2>2, <2>3, <2>4
<1> QED
  BY <1>1, <1>5, <1>7, <1>8

LEMMA ChatTranscript == ChatInv => P!TranscriptKept
<1> SUFFICES ASSUME ChatInv, place = "console", ~erased, NEW p \in 1..prompts
             PROVE  p \in {thread[i].prompt : i \in DOMAIN thread}
  BY DEF P!TranscriptKept
<1>1. PICK s : s = thread /\ s \in Seq(P!Messages) /\ DOMAIN s = 1..Len(s)
  BY LenProperties DEF ChatInv, ChatTyped, Logs
<1>2. Whole(s, prompts)
  BY <1>1 DEF ChatInv, ChatLogs, ChatOnScreen
<1> QED
  BY <1>1, <1>2 DEF Whole

-----------------------------------------------------------------------------
DeskAssumption ==
  /\ ComposersAssumption
  /\ MaxComposed \in Nat /\ MaxMounts \in Nat /\ IsFiniteSet(ServerCalls)

(* What the answer to a call can still do to what is owed: nothing, or what *)
(* is owed is part of what it saves, or stands where it does not write.     *)
Spares(c) ==
  composing[c].at # "idle" =>
    /\ composing[c].op = "load" => owed = {}
    /\ composing[c].op \in {"contacts", "save"} /\ kind # "brand" /\ composing[c].at # "refused" =>
         owed \subseteq C!Range(composing[c].head) \cup C!Range(composing[c].body)
    /\ /\ composing[c].op = "generate" /\ composing[c].at # "refused"
       /\ kind = "page" => composing[c].mount = form.mount
       => /\ owed \subseteq C!Range(form.head)
          /\ kind = "page" /\ composing[c].head = C!Blank => owed = {}

OwedStands ==
  /\ owed \subseteq C!Typed
  /\ C!TypedIsKept
  /\ \A c \in ServerCalls : Spares(c)

(* The sizes of what is in the form, what is saved and what is out.         *)
Sheet(f) == f.head \in C!Contents /\ f.body \in C!Contents /\ f.mount \in 0..MaxMounts

SheetsStand ==
  /\ Sheet(form) /\ text.head \in C!Contents /\ text.body \in C!Contents
  /\ \A c \in ServerCalls : Sheet(composing[c])
  /\ marked \subseteq C!Ops /\ offers \subseteq C!Fields /\ again \subseteq C!Typed

(* Every text was sent by calls that are over; those that may yet send are  *)
(* among the calls that were made.                                          *)
Unposted ==
  {c \in ServerCalls : \/ composing[c].at = "asked" /\ composing[c].op \in {"save", "contacts"}
                       \/ composing[c].at = "served" /\ composing[c].op = "contacts"}

TallyStands ==
  /\ composed \in 0..MaxComposed
  /\ \A v \in C!Typed : submitted[v] + Cardinality(Unposted) <= composed

DeskInv == OwedStands /\ SheetsStand /\ TallyStands

LEMMA ContentsAre ==
  \A s : s \in C!Contents <=> s \in Seq(C!Texts) /\ Len(s) <= 2
<1>1. ASSUME NEW s, s \in C!Contents PROVE s \in Seq(C!Texts) /\ Len(s) <= 2
  <2>1. PICK n \in 0..2 : s \in [1..n -> C!Texts]
    BY <1>1 DEF C!Contents
  <2> QED
    BY <2>1
<1>2. ASSUME NEW s \in Seq(C!Texts), Len(s) <= 2 PROVE s \in C!Contents
  <2>1. PICK n : n = Len(s)
    OBVIOUS
  <2>2. n \in Nat /\ n <= 2
    BY <1>2, <2>1
  <2>3. s \in [1..n -> C!Texts]
    BY <1>2, <2>1
  <2> QED
    BY <2>2, <2>3 DEF C!Contents
<1> QED
  BY <1>1, <1>2

LEMMA SmallContents ==
  /\ C!Blank \in C!Contents /\ <<C!Made>> \in C!Contents /\ <<C!Empty, C!Empty>> \in C!Contents
  /\ \A v \in C!Texts : <<v>> \in C!Contents
<1>1. C!Made \in C!Texts /\ C!Empty \in C!Texts
  BY DEF C!Texts
<1>2. C!Blank \in Seq(C!Texts) /\ Len(C!Blank) = 0
  BY DEF C!Blank
<1>3. ASSUME NEW v \in C!Texts PROVE <<v>> \in Seq(C!Texts) /\ Len(<<v>>) = 1
  OBVIOUS
<1>4. <<C!Empty, C!Empty>> \in Seq(C!Texts) /\ Len(<<C!Empty, C!Empty>>) = 2
  BY <1>1
<1>5. ASSUME NEW v \in C!Texts PROVE <<v>> \in C!Contents
  <2>1. PICK s : s = <<v>>
    OBVIOUS
  <2>2. s \in Seq(C!Texts) /\ Len(s) <= 2
    BY <1>3, <2>1
  <2> QED
    BY <2>1, <2>2, ContentsAre
<1>6. <<C!Empty, C!Empty>> \in C!Contents
  <2>1. PICK s : s = <<C!Empty, C!Empty>>
    OBVIOUS
  <2>2. s \in Seq(C!Texts) /\ Len(s) <= 2
    BY <1>4, <2>1
  <2> QED
    BY <2>1, <2>2, ContentsAre
<1>7. C!Blank \in C!Contents
  <2>1. PICK s : s = C!Blank
    OBVIOUS
  <2>2. s \in Seq(C!Texts) /\ Len(s) <= 2
    BY <1>2, <2>1
  <2> QED
    BY <2>1, <2>2, ContentsAre
<1> QED
  BY <1>1, <1>5, <1>6, <1>7

LEMMA DeskTypes == DeskAssumption /\ ComposersInv /\ DeskInv => C!TypeOK
<1> SUFFICES ASSUME DeskAssumption, ComposersInv, DeskInv PROVE C!TypeOK
  OBVIOUS
<1>1. kind \in C!Kinds /\ marked \subseteq C!Ops /\ offers \subseteq C!Fields
      /\ owed \subseteq C!Typed /\ again \subseteq C!Typed
  BY DEF DeskInv, OwedStands, SheetsStand, ComposersInv, FormStands
<1>2. form \in [open : BOOLEAN, doc : {"new", "row"}, head : C!Contents, body : C!Contents,
                mount : 0..MaxMounts]
  BY DEF DeskInv, SheetsStand, Sheet, ComposersInv, FormStands, Papers
<1>3. text \in [head : C!Contents, body : C!Contents]
  BY DEF DeskInv, SheetsStand, ComposersInv, FormStands
<1>4. submitted \in [C!Typed -> 0..MaxComposed]
  <2>1. Cardinality(Unposted) \in Nat
    BY FS_Subset, FS_CardinalityType DEF DeskAssumption, Unposted
  <2>2. \A v \in C!Typed : submitted[v] \in 0..MaxComposed
    BY <2>1 DEF DeskInv, TallyStands, ComposersInv, CountsStand, DeskAssumption
  <2> QED
    BY <2>2 DEF ComposersInv, CountsStand
<1>5. composing \in [ServerCalls -> [at : {"idle", "asked", "served", "refused"}, op : C!Ops,
         doc : {"new", "row"}, head : C!Contents, body : C!Contents, mount : 0..MaxMounts]]
  BY DEF DeskInv, SheetsStand, Sheet, ComposersInv, LettersStand, Letters
<1> QED
  BY <1>1, <1>2, <1>3, <1>4, <1>5 DEF C!TypeOK

LEMMA DeskPromise == DeskInv => C!TypedIsKept
BY DEF DeskInv, OwedStands

LEMMA DeskStart == DeskAssumption /\ C!Init => DeskInv
<1> SUFFICES ASSUME DeskAssumption, C!Init PROVE DeskInv
  OBVIOUS
<1>1. \A c \in ServerCalls : composing[c] \in {C!Idle, [C!Idle EXCEPT !.at = "asked"]}
  BY DEF C!Init
<1>2. owed = {} /\ composed = 0 /\ marked = {} /\ offers = {} /\ again = {}
      /\ submitted = [v \in C!Typed |-> 0]
  BY DEF C!Init
<1>3. Unposted = {}
  BY <1>1 DEF Unposted, C!Idle
<1>4. TallyStands
  BY <1>2, <1>3, FS_EmptySet DEF TallyStands, DeskAssumption
<1>5. SheetsStand
  <2>1. Sheet(form)
    BY SmallContents DEF C!Init, Sheet, DeskAssumption
  <2>2. text.head \in {C!Blank, <<C!Made>>} /\ text.body \in {C!Blank, <<C!Made>>}
    BY DEF C!Init
  <2>3. \A c \in ServerCalls : Sheet(composing[c])
    <3>1. Sheet(C!Idle) /\ Sheet([C!Idle EXCEPT !.at = "asked"])
      BY SmallContents DEF C!Idle, Sheet, DeskAssumption
    <3> QED
      BY <1>1, <3>1
  <2> QED
    BY <1>2, <2>1, <2>2, <2>3, SmallContents DEF SheetsStand
<1>6. OwedStands
  BY <1>2 DEF OwedStands, C!TypedIsKept, Spares
<1> QED
  BY <1>4, <1>5, <1>6 DEF DeskInv

(* The owner writes s in field f: what is gone from it is owed no more, and *)
(* what is new is owed if no answer to come acts on the field.              *)
WroteIn(f, s, gone, new) ==
  /\ C!Rewritten(f, s) /\ s \in C!Contents /\ offers' \subseteq C!Fields
  /\ owed' = (owed \ gone) \cup new
  /\ new = {} \/ (~C!Exposed(f) /\ new \subseteq C!Typed)
  /\ new \subseteq C!Range(s)
  /\ \A v \in owed \ gone : v \in C!Range(form[f]) => v \in C!Range(s)

LEMMA DeskWrote ==
  ASSUME ComposersInv, DeskInv, NEW f \in C!Fields, NEW s, NEW gone, NEW new, WroteIn(f, s, gone, new)
  PROVE  DeskInv'
<1>1. /\ form.open /\ form' = [form EXCEPT ![f] = s]
      /\ UNCHANGED <<kind, marked, text, submitted, composing, composed, again>>
      /\ s \in C!Contents /\ offers' \subseteq C!Fields
      /\ owed' = (owed \ gone) \cup new
      /\ new = {} \/ (~C!Exposed(f) /\ new \subseteq C!Typed)
      /\ new \subseteq C!Range(s)
      /\ \A v \in owed \ gone : v \in C!Range(form[f]) => v \in C!Range(s)
  BY DEF WroteIn, C!Rewritten
<1>2. form \in Papers
  BY DEF ComposersInv, FormStands
<1>3. /\ form'.open /\ form'.mount = form.mount
      /\ f = "head" => form'.head = s /\ form'.body = form.body /\ form[f] = form.head
      /\ f = "body" => form'.body = s /\ form'.head = form.head /\ form[f] = form.body
      /\ f \in {"head", "body"}
  BY <1>1, <1>2 DEF Papers, C!Fields
<1>4. Unposted' = Unposted
  BY <1>1 DEF Unposted
<1>5. TallyStands'
  BY <1>1, <1>4 DEF DeskInv, TallyStands
<1>6. SheetsStand'
  <2>1. Sheet(form)'
    BY <1>1, <1>3 DEF DeskInv, SheetsStand, Sheet
  <2> QED
    BY <1>1, <2>1 DEF DeskInv, SheetsStand, Sheet
<1>7. owed' \subseteq C!Typed
  BY <1>1 DEF DeskInv, OwedStands
<1>8. C!TypedIsKept'
  <2> SUFFICES ASSUME NEW v \in owed' PROVE form'.open /\ v \in C!Range(form'.head) \cup C!Range(form'.body)
    BY DEF C!TypedIsKept
  <2>1. CASE v \in new
    BY <2>1, <1>1, <1>3
  <2>2. CASE v \in owed \ gone
    <3>1. v \in C!Range(form.head) \cup C!Range(form.body)
      BY <2>2 DEF DeskInv, OwedStands, C!TypedIsKept
    <3> QED
      BY <2>2, <3>1, <1>1, <1>3
  <2> QED
    BY <2>1, <2>2, <1>1
<1>9. ASSUME NEW c \in ServerCalls PROVE Spares(c)'
  <2>0. SUFFICES ASSUME composing[c].at # "idle" PROVE Spares(c)'
    BY <1>1 DEF Spares
  <2>1. Spares(c) /\ c \in C!Out
    BY <2>0 DEF DeskInv, OwedStands, C!Out
  <2>2. CASE composing[c].op = "load"
    BY <2>0, <2>1, <2>2, <1>1 DEF Spares, C!Exposed
  <2>3. CASE composing[c].op \in {"contacts", "save"}
    BY <2>0, <2>1, <2>3, <1>1 DEF Spares, C!Exposed
  <2>4. CASE composing[c].op = "generate"
    <3> SUFFICES ASSUME composing[c].at # "refused", kind = "page" => composing[c].mount = form.mount
                 PROVE  /\ owed' \subseteq C!Range(form'.head)
                        /\ kind = "page" /\ composing[c].head = C!Blank => owed' = {}
      BY <2>4, <1>1, <1>3 DEF Spares
    <3>1. /\ owed \subseteq C!Range(form.head)
          /\ kind = "page" /\ composing[c].head = C!Blank => owed = {}
      BY <2>0, <2>1, <2>4 DEF Spares
    <3>2. CASE f = "body"
      <4>1. new = {}
        BY <2>1, <2>4, <3>2, <1>1 DEF C!Exposed
      <4> QED
        BY <3>1, <3>2, <4>1, <1>1, <1>3
    <3>3. CASE f = "head"
      <4>1. kind = "page" /\ composing[c].head = C!Blank => new = {}
        BY <2>1, <2>4, <3>3, <1>1 DEF C!Exposed
      <4> QED
        BY <3>1, <3>3, <4>1, <1>1, <1>3
    <3> QED
      BY <3>2, <3>3, <1>3
  <2>5. CASE composing[c].op = "suggest"
    BY <2>5, <1>1 DEF Spares
  <2> QED
    BY <2>2, <2>3, <2>4, <2>5, CallStands DEF Letters, C!Ops
<1> QED
  BY <1>5, <1>6, <1>7, <1>8, <1>9 DEF DeskInv, OwedStands

LEMMA DeskIs ==
  ASSUME ComposersInv, DeskInv
  PROVE  /\ form.body \in Seq(C!Texts) /\ Len(form.body) <= 2 /\ form.body \in Seq(Int)
         /\ DOMAIN form.body = 1..Len(form.body) /\ Len(form.body) \in Nat
         /\ pen \in Nat /\ offers \subseteq C!Fields
BY ContentsAre, BodyIs DEF DeskInv, SheetsStand, Sheet

LEMMA DeskTypesOne ==
  ASSUME DeskAssumption, ComposersInv, DeskInv, NEW f \in C!Fields, C!Type(f) PROVE DeskInv'
<1>1. PICK n : n = pen + 1
  OBVIOUS
<1>2. n \in C!Typed /\ n \in Int
  BY <1>1, DeskIs DEF C!Type, C!Typed, DeskAssumption, ComposersAssumption
<1>3. PICK s, gone, new : s = <<n>> /\ gone = C!Range(form[f]) /\ new = (IF C!Exposed(f) THEN {} ELSE {n})
  OBVIOUS
<1>4. s \in C!Contents /\ C!Range(s) = {n}
  BY <1>2, <1>3, SmallContents, OneText DEF C!Texts
<1>5. C!Rewritten(f, s) /\ owed' = (owed \ gone) \cup new /\ offers' = offers
  BY <1>1, <1>3 DEF C!Type
<1>6. \A v \in owed \ gone : v \in C!Range(form[f]) => v \in C!Range(s)
  BY <1>3
<1>7. WroteIn(f, s, gone, new)
  BY <1>2, <1>3, <1>4, <1>5, <1>6, DeskIs DEF WroteIn
<1> QED
  BY <1>7, DeskWrote

LEMMA DeskMade ==
  ASSUME ComposersInv, DeskInv, NEW f \in C!Fields, C!Rewritten(f, <<C!Made>>),
         owed' = owed \ C!Range(form[f]), offers' \subseteq C!Fields
  PROVE  DeskInv'
<1>1. PICK s, gone, new : s = <<C!Made>> /\ gone = C!Range(form[f]) /\ new = {}
  OBVIOUS
<1>2. WroteIn(f, s, gone, new)
  BY <1>1, SmallContents DEF WroteIn
<1> QED
  BY <1>2, DeskWrote

LEMMA DeskBlocks ==
  ASSUME DeskAssumption, ComposersInv, DeskInv,
         \/ C!AddBlock
         \/ \E i \in DOMAIN form.body :
              C!UpdateBlock(i) \/ C!RemoveBlock(i) \/ \E dir \in {-1, 1} : C!MoveBlock(i, dir)
  PROVE  DeskInv'
<1>0. PICK t : t = form.body
  OBVIOUS
<1>f. "body" \in C!Fields /\ form["body"] = t
  BY <1>0 DEF C!Fields
<1>t. /\ t \in Seq(C!Texts) /\ Len(t) <= 2 /\ t \in Seq(Int) /\ DOMAIN t = 1..Len(t)
      /\ Len(t) \in Nat /\ pen \in Nat /\ offers \subseteq C!Fields
  BY <1>0, DeskIs
<1>1. CASE C!AddBlock
  <2>1. PICK s : s = Append(t, C!Empty)
    OBVIOUS
  <2>2. C!Rewritten("body", s) /\ UNCHANGED <<owed, offers>> /\ Len(t) < 2
    BY <1>0, <1>1, <2>1 DEF C!AddBlock
  <2>3. C!Empty \in C!Texts
    BY DEF C!Texts
  <2>4. s \in Seq(C!Texts) /\ Len(s) = Len(t) + 1 /\ \A i \in 1..Len(t) : s[i] = t[i]
    BY <1>t, <2>1, <2>3, AppendProperties
  <2>5. s \in C!Contents
    BY <1>t, <2>2, <2>4, ContentsAre
  <2>6. \A v \in C!Range(t) : v \in C!Range(s)
    <3>1. DOMAIN s = 1..(Len(t) + 1)
      BY <2>4
    <3> QED
      BY <1>t, <2>4, <3>1, InBody
  <2>7. WroteIn("body", s, {}, {})
    BY <1>f, <1>t, <2>2, <2>5, <2>6 DEF WroteIn
  <2> QED
    BY <1>f, <2>7, DeskWrote
<1>2. ASSUME NEW i \in DOMAIN form.body, C!UpdateBlock(i) PROVE DeskInv'
  <2>1. PICK n, s, new : /\ n = pen + 1 /\ s = C!ReplaceAt(t, i, n)
                         /\ new = (IF C!Exposed("body") THEN {} ELSE {n})
    OBVIOUS
  <2>2. /\ C!Rewritten("body", s) /\ offers' = offers /\ pen < MaxTyped
        /\ owed' = (owed \ {t[i]}) \cup new
    BY <1>0, <1>2, <2>1 DEF C!UpdateBlock
  <2>3. n \in C!Typed /\ n \in C!Texts
    BY <1>t, <2>1, <2>2 DEF C!Typed, C!Texts, DeskAssumption, ComposersAssumption
  <2>4. s = [t EXCEPT ![i] = n] /\ i \in 1..Len(t)
    BY <1>0, <1>t, <2>1 DEF C!ReplaceAt
  <2>5. s \in Seq(C!Texts) /\ Len(s) = Len(t)
    BY <1>t, <2>3, <2>4, ExceptSeq
  <2>6. s \in C!Contents
    BY <1>t, <2>5, ContentsAre
  <2>7. DOMAIN s = DOMAIN t /\ s[i] = n /\ \A j \in DOMAIN t \ {i} : s[j] = t[j]
    BY <1>t, <2>4
  <2>8. n \in C!Range(s)
    BY <1>t, <2>4, <2>7, InBody
  <2>9. \A v \in C!Range(t) \ {t[i]} : v \in C!Range(s)
    BY <2>7, InBody
  <2>10. WroteIn("body", s, {t[i]}, new)
    BY <1>f, <1>t, <2>1, <2>2, <2>3, <2>6, <2>8, <2>9 DEF WroteIn
  <2> QED
    BY <1>f, <2>10, DeskWrote
<1>3. ASSUME NEW i \in DOMAIN form.body, C!RemoveBlock(i) PROVE DeskInv'
  <2>1. PICK s, front, back :
          /\ s = C!RemoveAt(t, i)
          /\ front = SubSeq(t, 1, i - 1) /\ back = SubSeq(t, i + 1, Len(t))
    OBVIOUS
  <2>2. C!Rewritten("body", s) /\ offers' = offers /\ owed' = owed \ {t[i]}
    BY <1>0, <1>3, <2>1 DEF C!RemoveBlock
  <2>3. s = front \o back
    BY <2>1 DEF C!RemoveAt
  <2>4. i \in 1..Len(t)
    BY <1>0, <1>t
  <2>5. front \in Seq(C!Texts) /\ Len(front) = i - 1 /\ \A j \in 1..(i - 1) : front[j] = t[j]
    <3>1. \A j \in 1..(i - 1) : t[j] \in C!Texts
      BY <1>t, <2>4
    <3>2. PICK n : n = i - 1
      OBVIOUS
    <3>0. n \in Int /\ 1 \in Int /\ n >= 0
      BY <2>1, <2>4, <3>2
    <3>3. n \in Int /\ 1 \in Int /\ n >= 0 /\ front = SubSeq(t, 1, n) /\ \A j \in 1..n : t[j] \in C!Texts
      BY ONLY <3>0, <2>1, <3>1, <3>2
    <3>4. /\ front \in Seq(C!Texts) /\ Len(front) = IF 1 <= n THEN n - 1 + 1 ELSE 0
          /\ \A j \in 1..(n - 1 + 1) : front[j] = t[1 + j - 1]
      BY <3>3, SubSeqProperties
    <3>5. Len(front) = n /\ \A j \in 1..n : front[j] = t[j]
      BY <3>3, <3>4
    <3> QED
      BY <3>2, <3>4, <3>5
  <2>6. back \in Seq(C!Texts) /\ Len(back) = Len(t) - i /\ \A j \in 1..(Len(t) - i) : back[j] = t[i + j]
    <3>1. \A j \in (i + 1)..Len(t) : t[j] \in C!Texts
      BY <1>t, <2>4
    <3>2. PICK m, n : m = i + 1 /\ n = Len(t)
      OBVIOUS
    <3>3. m \in Int /\ n \in Int /\ m <= n + 1 /\ back = SubSeq(t, m, n) /\ \A j \in m..n : t[j] \in C!Texts
      BY <1>t, <2>1, <2>4, <3>1, <3>2
    <3>4. /\ back \in Seq(C!Texts) /\ Len(back) = IF m <= n THEN n - m + 1 ELSE 0
          /\ \A j \in 1..(n - m + 1) : back[j] = t[m + j - 1]
      BY <3>3, SubSeqProperties
    <3>5. Len(back) = n - i /\ \A j \in 1..(n - i) : back[j] = t[i + j]
      <4>1. n - m + 1 = n - i /\ \A j \in Int : m + j - 1 = i + j
        BY <1>t, <2>4, <3>2
      <4>2. Len(back) = n - i
        BY <3>3, <3>4, <4>1
      <4>3. ASSUME NEW j \in 1..(n - i) PROVE back[j] = t[i + j]
        <5>1. PICK k : k = m + j - 1
          OBVIOUS
        <5>2. k = i + j
          BY <4>1, <5>1
        <5>3. back[j] = t[k]
          BY <3>4, <4>1, <5>1
        <5> QED
          BY <5>2, <5>3
      <4> QED
        BY <4>2, <4>3
    <3> QED
      BY <3>2, <3>4, <3>5
  <2>7. /\ s \in Seq(C!Texts) /\ Len(s) = Len(t) - 1
        /\ \A j \in 1..(i - 1) : s[j] = t[j]
        /\ \A j \in 1..(Len(t) - i) : s[i - 1 + j] = t[i + j]
    <3>1. s \in Seq(C!Texts) /\ Len(s) = Len(front) + Len(back)
      BY <2>3, <2>5, <2>6, ConcatProperties
    <3>2. \A j \in 1..Len(s) : s[j] = IF j <= Len(front) THEN front[j] ELSE back[j - Len(front)]
      BY <2>3, <2>5, <2>6, ConcatProperties
    <3>3. Len(s) = Len(t) - 1
      BY <1>t, <2>4, <2>5, <2>6, <3>1
    <3>4. ASSUME NEW j \in 1..(Len(t) - i) PROVE s[i - 1 + j] = t[i + j]
      <4>1. i - 1 + j \in 1..Len(s) /\ ~(i - 1 + j <= i - 1) /\ i - 1 + j - (i - 1) = j
        BY <1>t, <2>4, <3>3
      <4>2. s[i - 1 + j] = back[j]
        BY <4>1, <3>2, <2>5
      <4> QED
        BY <4>2, <2>6
    <3>5. ASSUME NEW j \in 1..(i - 1) PROVE s[j] = t[j]
      <4>1. j \in 1..Len(s) /\ j <= i - 1
        BY <1>t, <2>4, <3>3
      <4> QED
        BY <4>1, <3>2, <2>5
    <3> QED
      BY <3>1, <3>3, <3>4, <3>5
  <2>8. s \in C!Contents
    BY <1>t, <2>7, ContentsAre
  <2>9. ASSUME NEW v \in C!Range(t) \ {t[i]} PROVE v \in C!Range(s)
    <3>1. PICK j \in DOMAIN t : t[j] = v /\ j # i
      BY InBody
    <3>2. DOMAIN s = 1..(Len(t) - 1)
      BY <2>7
    <3>3. CASE j < i
      BY <1>t, <2>4, <2>7, <3>1, <3>2, <3>3, InBody
    <3>4. CASE j > i
      <4>1. j - i \in 1..(Len(t) - i) /\ i + (j - i) = j /\ i - 1 + (j - i) = j - 1 /\ j - 1 \in DOMAIN s
        BY <1>t, <2>4, <3>1, <3>2, <3>4
      <4>2. s[j - 1] = v
        BY <2>7, <3>1, <4>1
      <4> QED
        BY <4>1, <4>2, InBody
    <3> QED
      BY <1>t, <2>4, <3>1, <3>3, <3>4
  <2>10. WroteIn("body", s, {t[i]}, {})
    BY <1>f, <1>t, <2>2, <2>8, <2>9 DEF WroteIn
  <2> QED
    BY <1>f, <2>10, DeskWrote
<1>4. ASSUME NEW i \in DOMAIN form.body, NEW dir \in {-1, 1}, C!MoveBlock(i, dir) PROVE DeskInv'
  <2>1. PICK j : j = i + dir
    OBVIOUS
  <2>2. PICK s, u : s = [u EXCEPT ![j] = t[i]] /\ u = [t EXCEPT ![i] = t[j]]
    OBVIOUS
  <2>3. C!Rewritten("body", s) /\ UNCHANGED <<offers, owed>> /\ j \in DOMAIN t /\ i \in DOMAIN t
    BY <1>0, <1>4, <2>1, <2>2 DEF C!MoveBlock
  <2>4. t[i] \in C!Texts /\ t[j] \in C!Texts
    BY <1>t, <2>3
  <2>5. u \in Seq(C!Texts) /\ Len(u) = Len(t)
    BY <1>t, <2>2, <2>3, <2>4, ExceptSeq
  <2>6. s \in Seq(C!Texts) /\ Len(s) = Len(t)
    BY <1>t, <2>2, <2>3, <2>4, <2>5, ExceptSeq
  <2>7. s \in C!Contents
    BY <1>t, <2>6, ContentsAre
  <2>8. DOMAIN s = DOMAIN t /\ s[j] = t[i] /\ (i # j => s[i] = t[j])
        /\ \A k \in DOMAIN t \ {i, j} : s[k] = t[k]
    BY <2>2, <2>3
  <2>9. \A v \in C!Range(t) : v \in C!Range(s)
    <3> SUFFICES ASSUME NEW k \in DOMAIN t PROVE t[k] \in C!Range(s)
      BY InBody
    <3> QED
      BY <2>3, <2>8, InBody
  <2>10. WroteIn("body", s, {}, {})
    BY <1>f, <1>t, <2>3, <2>7, <2>9 DEF WroteIn
  <2> QED
    BY <1>f, <2>10, DeskWrote
<1> QED
  BY <1>1, <1>2, <1>3, <1>4

LEMMA DeskWrites ==
  ASSUME DeskAssumption, ComposersInv, DeskInv, C!Write PROVE DeskInv'
<1>f. "body" \in C!Fields /\ "head" \in C!Fields
  BY DEF C!Fields
<1>1. CASE C!TypeTitle \/ C!TypeKit
  BY <1>1, <1>f, DeskTypesOne DEF C!TypeTitle, C!TypeKit
<1>2. CASE \E f \in C!Fields : C!TypeCampaign(f) \/ C!TypePost(f) \/ C!TypeSms(f) \/ C!TypeBulk(f)
  BY <1>2, DeskTypesOne DEF C!TypeCampaign, C!TypePost, C!TypeSms, C!TypeBulk
<1>3. CASE C!AutoColors \/ C!ApplyTemplate
  BY <1>3, <1>f, DeskMade, DeskIs DEF C!AutoColors, C!ApplyTemplate, C!Apply
<1>4. CASE \E f \in C!Fields : C!Pick(f)
  BY <1>4, DeskMade, DeskIs DEF C!Pick
<1> QED
  BY <1>1, <1>2, <1>3, <1>4, DeskBlocks DEF C!Write

LEMMA FewerOrMore ==
  ASSUME NEW A, IsFiniteSet(A), NEW B, NEW c
  PROVE  /\ Cardinality(A) \in Nat
         /\ B \subseteq A => Cardinality(B) \in Nat /\ Cardinality(B) <= Cardinality(A)
         /\ B \subseteq A \cup {c} => Cardinality(B) \in Nat /\ Cardinality(B) <= Cardinality(A) + 1
         /\ c \in A /\ B \subseteq A \ {c} => Cardinality(B) \in Nat /\ Cardinality(B) + 1 <= Cardinality(A)
<1>1. Cardinality(A) \in Nat
  BY FS_CardinalityType
<1>2. ASSUME B \subseteq A PROVE Cardinality(B) \in Nat /\ Cardinality(B) <= Cardinality(A)
  BY <1>2, FS_Subset, FS_CardinalityType
<1>3. ASSUME B \subseteq A \cup {c} PROVE Cardinality(B) \in Nat /\ Cardinality(B) <= Cardinality(A) + 1
  <2>1. IsFiniteSet(A \cup {c}) /\ Cardinality(A \cup {c}) \in Nat /\ Cardinality(A \cup {c}) <= Cardinality(A) + 1
    BY <1>1, FS_AddElement, FS_CardinalityType
  <2>2. IsFiniteSet(B) /\ Cardinality(B) <= Cardinality(A \cup {c}) /\ Cardinality(B) \in Nat
    BY <1>3, <2>1, FS_Subset, FS_CardinalityType
  <2> QED
    BY <1>1, <2>1, <2>2
<1>4. ASSUME c \in A, B \subseteq A \ {c} PROVE Cardinality(B) \in Nat /\ Cardinality(B) + 1 <= Cardinality(A)
  <2>1. IsFiniteSet(A \ {c}) /\ Cardinality(A \ {c}) = Cardinality(A) - 1 /\ Cardinality(A \ {c}) \in Nat
    BY <1>4, FS_RemoveElement, FS_CardinalityType
  <2>2. IsFiniteSet(B) /\ Cardinality(B) <= Cardinality(A \ {c}) /\ Cardinality(B) \in Nat
    BY <1>4, <2>1, FS_Subset, FS_CardinalityType
  <2> QED
    BY <1>1, <2>1, <2>2
<1> QED
  BY <1>1, <1>2, <1>3, <1>4

LEMMA Unpost ==
  ASSUME DeskAssumption PROVE IsFiniteSet(Unposted) /\ Cardinality(Unposted) \in Nat
BY FS_Subset, FS_CardinalityType DEF Unposted, DeskAssumption

(* A call becomes q; what it leaves owed still stands.                      *)
OwedAfter(c, q) ==
  /\ composing' = [composing EXCEPT ![c] = q] /\ UNCHANGED kind /\ form'.mount = form.mount
  /\ owed' \subseteq owed /\ C!TypedIsKept' /\ Spares(c)'
  /\ \A v \in owed' : v \in C!Range(form.head) => v \in C!Range(form'.head)

LEMMA OwedGoesOn ==
  ASSUME ComposersInv, OwedStands, NEW c \in ServerCalls, NEW q, OwedAfter(c, q) PROVE OwedStands'
<1>1. \A d \in ServerCalls : d # c => composing'[d] = composing[d]
  BY DEF OwedAfter, ComposersInv, LettersStand
<1>2. owed' \subseteq owed /\ UNCHANGED kind /\ form'.mount = form.mount
      /\ \A v \in owed' : v \in C!Range(form.head) => v \in C!Range(form'.head)
  BY DEF OwedAfter
<1>3. ASSUME NEW d \in ServerCalls, d # c PROVE Spares(d)'
  <2>1. Spares(d) /\ composing'[d] = composing[d]
    BY <1>1, <1>3 DEF OwedStands
  <2> QED
    BY <1>2, <2>1 DEF Spares
<1> QED
  BY <1>2, <1>3 DEF OwedStands, OwedAfter

(* A call becomes q; what is on the screen keeps to its sizes.              *)
SheetsAfter(c, q) ==
  /\ composing' = [composing EXCEPT ![c] = q] /\ Sheet(q) /\ Sheet(form)'
  /\ text'.head \in C!Contents /\ text'.body \in C!Contents
  /\ marked' \subseteq C!Ops /\ offers' \subseteq C!Fields /\ again' \subseteq C!Typed

LEMMA SheetsGoOn ==
  ASSUME ComposersInv, SheetsStand, NEW c \in ServerCalls, NEW q, SheetsAfter(c, q) PROVE SheetsStand'
<1>1. composing' \in [ServerCalls -> {composing[d] : d \in ServerCalls} \cup {q}]
      /\ composing'[c] = q /\ \A d \in ServerCalls : d # c => composing'[d] = composing[d]
  BY DEF SheetsAfter, ComposersInv, LettersStand
<1>2. ASSUME NEW d \in ServerCalls PROVE Sheet(composing[d])'
  BY <1>1 DEF Sheet, SheetsAfter, SheetsStand
<1> QED
  BY <1>2 DEF SheetsAfter, SheetsStand

LEMMA DeskForgets ==
  ASSUME OwedStands, owed' = {}, UNCHANGED <<kind, composing>> PROVE OwedStands'
BY DEF OwedStands, C!TypedIsKept, Spares

LEMMA DeskOpened ==
  ASSUME DeskAssumption, ComposersInv, DeskInv, NEW doc, NEW head \in C!Contents, NEW body \in C!Contents,
         C!Opened(doc, head, body), again' \subseteq C!Typed
  PROVE  DeskInv'
<1>1. /\ form' = [open |-> TRUE, doc |-> doc, head |-> head, body |-> body, mount |-> form.mount + 1]
      /\ marked' \in {{}, marked} /\ offers' = {} /\ owed' = {} /\ form.mount < MaxMounts
      /\ UNCHANGED <<kind, text, submitted, composing, composed>>
  BY DEF C!Opened
<1>2. OwedStands'
  BY <1>1, DeskForgets DEF DeskInv
<1>3. SheetsStand'
  <2>1. form.mount + 1 \in 0..MaxMounts
    BY <1>1 DEF DeskInv, SheetsStand, Sheet, DeskAssumption
  <2>2. Sheet(form)'
    BY <1>1, <2>1 DEF Sheet
  <2> QED
    BY <1>1, <2>2 DEF DeskInv, SheetsStand, Sheet
<1>4. TallyStands'
  BY <1>1 DEF DeskInv, TallyStands, Unposted
<1> QED
  BY <1>2, <1>3, <1>4 DEF DeskInv

LEMMA DeskOpens ==
  ASSUME DeskAssumption, ComposersInv, DeskInv, C!OpenPage \/ C!OpenCampaign PROVE DeskInv'
<1>1. text.head \in C!Contents /\ text.body \in C!Contents /\ again \subseteq C!Typed
  BY DEF DeskInv, SheetsStand
<1>2. CASE C!Opened("new", C!Blank, C!Blank) /\ UNCHANGED again
  BY <1>1, <1>2, DeskOpened, SmallContents
<1>3. CASE C!Opened("new", C!Blank, <<C!Empty, C!Empty>>) /\ UNCHANGED again
  BY <1>1, <1>3, DeskOpened, SmallContents
<1>4. CASE C!Opened("row", text.head, text.body) /\ UNCHANGED again
  BY <1>1, <1>4, DeskOpened
<1>5. CASE C!Opened("new", <<C!Made>>, <<C!Made>>) /\ UNCHANGED again
  BY <1>1, <1>5, DeskOpened, SmallContents
<1>6. CASE C!Opened("new", text.head, text.body) /\ again' = again \cup (C!Typed \cap C!Range(text.body))
  BY <1>1, <1>6, DeskOpened
<1> QED
  BY <1>2, <1>3, <1>4, <1>5, <1>6 DEF C!OpenPage, C!OpenCampaign

LEMMA DeskCancels ==
  ASSUME ComposersInv, DeskInv, C!Cancel PROVE DeskInv'
<1>1. /\ form' = C!Emptied /\ offers' = {} /\ owed' = {}
      /\ UNCHANGED <<kind, marked, text, submitted, composing, composed, again>>
  BY DEF C!Cancel
<1>2. OwedStands'
  BY <1>1, DeskForgets DEF DeskInv
<1>3. Sheet(form)'
  BY <1>1, SmallContents DEF ComposersInv, FormStands, Papers, DeskInv, SheetsStand, Sheet, C!Emptied
<1>4. SheetsStand'
  BY <1>1, <1>3 DEF DeskInv, SheetsStand, Sheet
<1>5. TallyStands'
  BY <1>1 DEF DeskInv, TallyStands, Unposted
<1> QED
  BY <1>2, <1>4, <1>5 DEF DeskInv

LEMMA DeskAsk ==
  ASSUME DeskAssumption, ComposersInv, DeskInv, NEW c \in ServerCalls,
         NEW op \in C!Ops \ {"load"}, C!Ask(c, op)
  PROVE  DeskInv'
<1>1. PICK head, body, mount :
        /\ head = IF op = "save" \/ (op = "generate" /\ kind = "page") THEN form.head ELSE C!Blank
        /\ body = IF op \in {"save", "contacts"} THEN form.body ELSE C!Blank
        /\ mount = IF kind = "page" THEN form.mount ELSE 0
  OBVIOUS
<1>2. PICK q : q = [at |-> "asked", op |-> op, doc |-> form.doc, head |-> head, body |-> body, mount |-> mount]
  OBVIOUS
<1>3. q.at = "asked" /\ q.op = op /\ q.head = head /\ q.body = body /\ q.mount = mount
  BY <1>2
<1>4. /\ composing[c].at = "idle" /\ composed < MaxComposed /\ composed' = composed + 1
      /\ composing' = [composing EXCEPT ![c] = q]
      /\ marked' = marked \cup C!Marked(op) /\ offers' \subseteq offers
      /\ again' = again \cup
           (IF kind = "bulk" /\ C!Out # {} THEN C!Typed \cap C!Range(form.body) ELSE {})
      /\ UNCHANGED <<kind, form, text, submitted, pen>>
  BY <1>1, <1>2 DEF C!Ask
<1>5. /\ op = "generate" => owed' = owed \ C!Range(form.body)
      /\ op = "contacts" => owed' = owed \ C!Range(form.head)
      /\ op \notin {"generate", "contacts"} => owed' = owed
  BY DEF C!Ask
<1>6. owed' \subseteq owed
  BY <1>5
<1>7. \A v \in owed : form.open /\ v \in C!Range(form.head) \cup C!Range(form.body)
  BY DEF DeskInv, OwedStands, C!TypedIsKept
<1>8. composing'[c] = q
  BY <1>4 DEF ComposersInv, LettersStand
<1>9. Spares(c)'
  <2>1. CASE op = "generate"
    <3>1. owed' \subseteq C!Range(form'.head)
      BY <1>4, <1>5, <1>7, <2>1
    <3>2. kind = "page" /\ q.head = C!Blank => owed' = {}
      <4>1. C!Range(C!Blank) = {}
        BY Blankness DEF C!Range
      <4> QED
        BY <1>1, <1>3, <1>4, <2>1, <3>1, <4>1
    <3> QED
      BY <1>3, <1>4, <1>8, <2>1, <3>1, <3>2 DEF Spares
  <2>2. CASE op \in {"save", "contacts"}
    <3>1. owed' \subseteq C!Range(q.head) \cup C!Range(q.body)
      BY <1>1, <1>3, <1>5, <1>6, <1>7, <2>2
    <3> QED
      BY <1>3, <1>8, <2>2, <3>1 DEF Spares
  <2>3. CASE op = "suggest"
    BY <1>3, <1>8, <2>3 DEF Spares
  <2> QED
    BY <2>1, <2>2, <2>3 DEF C!Ops
<1>10. OwedStands'
  <2>1. C!TypedIsKept'
    BY <1>4, <1>6, <1>7 DEF C!TypedIsKept
  <2>2. OwedAfter(c, q)
    BY <1>4, <1>6, <1>9, <2>1 DEF OwedAfter
  <2> QED
    BY <2>2, OwedGoesOn DEF DeskInv
<1>11. SheetsStand'
  <2>1. Sheet(form) /\ form.mount \in 0..MaxMounts /\ 0 \in 0..MaxMounts
    BY DEF DeskInv, SheetsStand, Sheet, DeskAssumption
  <2>2. Sheet(q)
    BY <1>1, <1>3, <2>1, SmallContents DEF Sheet
  <2>3. C!Marked(op) \subseteq C!Ops
    BY DEF C!Marked
  <2>4. SheetsAfter(c, q)
    BY <1>4, <2>1, <2>2, <2>3 DEF SheetsAfter, DeskInv, SheetsStand, Sheet
  <2> QED
    BY <2>4, SheetsGoOn DEF DeskInv
<1>12. TallyStands'
  <2>1. PICK A, B : A = Unposted /\ B = Unposted'
    OBVIOUS
  <2>2. \A d \in ServerCalls : d # c => composing'[d] = composing[d]
    BY <1>4 DEF ComposersInv, LettersStand
  <2>3. B \subseteq A \cup {c}
    BY <2>1, <2>2 DEF Unposted
  <2>4. IsFiniteSet(A) /\ Cardinality(A) \in Nat
    BY <2>1, Unpost
  <2>5. Cardinality(B) \in Nat /\ Cardinality(B) <= Cardinality(A) + 1
    BY <2>3, <2>4, FewerOrMore
  <2>6. composed \in Nat /\ \A v \in C!Typed : submitted[v] \in Nat /\ submitted[v] + Cardinality(A) <= composed
    BY <2>1 DEF DeskInv, TallyStands, ComposersInv, CountsStand
  <2>7. composed' \in 0..MaxComposed
    BY <1>4, <2>6 DEF DeskAssumption
  <2>8. \A v \in C!Typed : submitted'[v] + Cardinality(B) <= composed'
    BY <1>4, <2>4, <2>5, <2>6
  <2> QED
    BY <2>1, <2>7, <2>8 DEF TallyStands
<1> QED
  BY <1>10, <1>11, <1>12 DEF DeskInv

LEMMA DeskPresses ==
  ASSUME DeskAssumption, ComposersInv, DeskInv, NEW c \in ServerCalls, C!Press(c) PROVE DeskInv'
<1>1. PICK op \in C!Ops \ {"load"} : C!Ask(c, op)
  <2>1. CASE C!GeneratePage(c) \/ C!GenerateBody(c) \/ C!GeneratePost(c) \/ C!GenerateLogos(c)
    BY <2>1 DEF C!GeneratePage, C!GenerateBody, C!GeneratePost, C!GenerateLogos, C!Ops
  <2>2. CASE C!SavePage(c) \/ C!SaveCampaign(c) \/ C!SubmitPost(c) \/ C!SaveKit(c) \/ C!QuickSend(c)
    BY <2>2 DEF C!SavePage, C!SaveCampaign, C!SubmitPost, C!SaveKit, C!QuickSend, C!Ops
  <2>3. CASE C!ImproveSubject(c) \/ C!GenerateTaglines(c) \/ C!BulkSend(c)
    BY <2>3 DEF C!ImproveSubject, C!GenerateTaglines, C!BulkSend, C!Ops
  <2> QED
    BY <2>1, <2>2, <2>3 DEF C!Press
<1> QED
  BY <1>1, DeskAsk

(* A call moves on to q and sends at most what it was to send.              *)
LEMMA TallyGoesOn ==
  ASSUME DeskAssumption, ComposersInv, TallyStands, NEW c \in ServerCalls, NEW q,
         composing' = [composing EXCEPT ![c] = q], UNCHANGED composed,
         \/ UNCHANGED submitted /\ (c \in Unposted' => c \in Unposted)
         \/ /\ \A v \in C!Typed : submitted'[v] \in {submitted[v], submitted[v] + 1}
            /\ c \in Unposted /\ c \notin Unposted'
  PROVE  TallyStands'
<1>1. PICK A, B : A = Unposted /\ B = Unposted'
  OBVIOUS
<1>2. \A d \in ServerCalls : d # c => composing'[d] = composing[d]
  BY DEF ComposersInv, LettersStand
<1>3. \A d \in ServerCalls : d # c => (d \in B <=> d \in A)
  BY <1>1, <1>2 DEF Unposted
<1>4. B \subseteq ServerCalls /\ IsFiniteSet(A) /\ Cardinality(A) \in Nat
  BY <1>1, Unpost DEF Unposted
<1>5. composed \in Nat /\ \A v \in C!Typed : submitted[v] \in Nat /\ submitted[v] + Cardinality(A) <= composed
  BY <1>1 DEF TallyStands, ComposersInv, CountsStand
<1>6. CASE UNCHANGED submitted /\ (c \in Unposted' => c \in Unposted)
  <2>1. B \subseteq A
    BY <1>1, <1>3, <1>4, <1>6
  <2>2. Cardinality(B) \in Nat /\ Cardinality(B) <= Cardinality(A)
    BY <1>4, <2>1, FewerOrMore
  <2>3. \A v \in C!Typed : submitted'[v] + Cardinality(B) <= composed'
    BY <1>4, <1>5, <1>6, <2>2
  <2> QED
    BY <1>1, <2>3 DEF TallyStands
<1>7. CASE /\ \A v \in C!Typed : submitted'[v] \in {submitted[v], submitted[v] + 1}
           /\ c \in Unposted /\ c \notin Unposted'
  <2>1. c \in A /\ B \subseteq A \ {c}
    BY <1>1, <1>3, <1>4, <1>7
  <2>2. Cardinality(B) \in Nat /\ Cardinality(B) + 1 <= Cardinality(A)
    BY <1>4, <2>1, FewerOrMore
  <2>3. \A v \in C!Typed : submitted'[v] + Cardinality(B) <= composed'
    BY <1>4, <1>5, <1>7, <2>2
  <2> QED
    BY <1>1, <2>3 DEF TallyStands
<1> QED
  BY <1>6, <1>7

(* A call is answered: the form, the buttons and what is owed stay.         *)
AnsweredTo(c, q) ==
  /\ composing[c].at = "asked" /\ composing' = [composing EXCEPT ![c] = q] /\ Sheet(q)
  /\ q.op = composing[c].op /\ q.mount = composing[c].mount /\ q.at \in {"served", "refused"}
  /\ q.at = "refused" \/ q.op = "load" \/ q.head = composing[c].head
  /\ q.at = "refused" \/ q.op \notin {"save", "contacts"} \/ q.body = composing[c].body
  /\ text'.head \in C!Contents /\ text'.body \in C!Contents
  /\ UNCHANGED <<kind, form, marked, offers, composed, owed, again>>
  /\ \/ UNCHANGED submitted
     \/ /\ q.op = "save" /\ q.at = "served"
        /\ \A v \in C!Typed : submitted'[v] \in {submitted[v], submitted[v] + 1}

LEMMA DeskAnswered ==
  ASSUME DeskAssumption, ComposersInv, DeskInv, NEW c \in ServerCalls, NEW q, AnsweredTo(c, q)
  PROVE  DeskInv'
<1>1. composing'[c] = q
  BY DEF AnsweredTo, ComposersInv, LettersStand
<1>2. Spares(c)'
  <2>1. Spares(c) /\ composing[c].at = "asked"
    BY DEF AnsweredTo, DeskInv, OwedStands
  <2>2. CASE q.op = "load"
    BY <1>1, <2>1, <2>2 DEF Spares, AnsweredTo
  <2>3. CASE q.op \in {"save", "contacts"}
    BY <1>1, <2>1, <2>3 DEF Spares, AnsweredTo
  <2>4. CASE q.op \notin {"save", "contacts", "load"}
    BY <1>1, <2>1, <2>4 DEF Spares, AnsweredTo
  <2> QED
    BY <2>2, <2>3, <2>4
<1>3. OwedStands'
  <2>1. C!TypedIsKept'
    BY DEF DeskInv, OwedStands, C!TypedIsKept, AnsweredTo
  <2>2. OwedAfter(c, q)
    BY <1>2, <2>1 DEF OwedAfter, AnsweredTo
  <2> QED
    BY <2>2, OwedGoesOn DEF DeskInv
<1>4. SheetsStand'
  <2>1. SheetsAfter(c, q)
    BY DEF SheetsAfter, AnsweredTo, DeskInv, SheetsStand, Sheet
  <2> QED
    BY <2>1, SheetsGoOn DEF DeskInv
<1>5. TallyStands'
  <2>1. c \in Unposted' => c \in Unposted
    BY <1>1 DEF Unposted, AnsweredTo
  <2>2. q.op = "save" /\ q.at = "served" => c \in Unposted /\ c \notin Unposted'
    BY <1>1 DEF Unposted, AnsweredTo
  <2> QED
    BY <2>1, <2>2, TallyGoesOn DEF AnsweredTo, DeskInv
<1> QED
  BY <1>3, <1>4, <1>5 DEF DeskInv

LEMMA CallOnDesk ==
  ASSUME ComposersInv, DeskInv, NEW c \in ServerCalls
  PROVE  /\ composing[c] \in Letters /\ Sheet(composing[c])
         /\ text.head \in C!Contents /\ text.body \in C!Contents
BY CallStands DEF DeskInv, SheetsStand

LEMMA DeskServes ==
  ASSUME DeskAssumption, ComposersInv, DeskInv, NEW c \in ServerCalls, C!Serve(c) PROVE DeskInv'
<1>0. PICK p : p = composing[c] /\ p \in Letters /\ Sheet(p)
  BY CallOnDesk
<1>t. text \in [head : Seq(Int), body : Seq(Int)] /\ text.head \in C!Contents /\ text.body \in C!Contents
  BY CallOnDesk DEF ComposersInv, FormStands
<1>1. CASE C!ServeText(c)
  <2>1. /\ p.at = "asked" /\ p.op \in {"generate", "suggest"}
        /\ UNCHANGED <<kind, form, marked, offers, submitted, composed, owed, again>>
    BY <1>0, <1>1 DEF C!ServeText
  <2>2. PICK model \in C!Models : \E w \in C!Answers(composing[c].op, model) :
          /\ C!Served(c, [composing[c] EXCEPT !.body = <<w>>])
          /\ text' = IF kind = "brand" /\ composing[c].op = "generate"
                    THEN [text EXCEPT !.body = <<w>>] ELSE text
    BY <1>1 DEF C!ServeText
  <2>3. PICK w \in C!Answers(composing[c].op, model) :
          /\ C!Served(c, [composing[c] EXCEPT !.body = <<w>>])
          /\ text' = IF kind = "brand" /\ composing[c].op = "generate"
                    THEN [text EXCEPT !.body = <<w>>] ELSE text
    BY <2>2
  <2>4. w = C!Made
    <3>1. Offered(p.op)
      BY <1>0, <2>1, CallStands DEF LetterStands
    <3>2. C!Answers(p.op, model) \subseteq {C!Made}
      BY <2>1, <3>1 DEF C!Answers, Offered, C!PageText, C!PostText, C!BodyText, C!LogoText, C!SubjectText,
           C!TaglineText, C!Parsed, C!Caught
    <3> QED
      BY <1>0, <2>3, <3>2
  <2>5. PICK q : q = [[p EXCEPT !.body = <<C!Made>>] EXCEPT !.at = "served"]
    OBVIOUS
  <2>6. /\ q.at = "served" /\ q.op = p.op /\ q.mount = p.mount /\ q.head = p.head /\ q.body = <<C!Made>>
    BY <1>0, <2>5 DEF Letters
  <2>7. composing' = [composing EXCEPT ![c] = q]
    BY <1>0, <2>3, <2>4, <2>5 DEF C!Served
  <2>8. text'.head \in C!Contents /\ text'.body \in C!Contents
    <3>1. text' = text \/ text' = [text EXCEPT !.body = <<C!Made>>]
      BY <2>3, <2>4
    <3>2. text'.head = text.head /\ text'.body \in {text.body, <<C!Made>>}
      BY <1>t, <3>1
    <3> QED
      BY <1>t, <3>2, SmallContents
  <2>9. Sheet(q)
    BY <1>0, <2>6, SmallContents DEF Sheet
  <2>10. AnsweredTo(c, q)
    BY <1>0, <2>1, <2>6, <2>7, <2>8, <2>9 DEF AnsweredTo
  <2> QED
    BY <2>10, DeskAnswered
<1>2. CASE C!ServeRead(c)
  <2>1. /\ p.at = "asked" /\ p.op \in {"load", "contacts"}
        /\ UNCHANGED <<kind, form, marked, offers, text, submitted, composed, owed, again>>
        /\ C!Served(c, IF p.op = "load" THEN [p EXCEPT !.head = text.head, !.body = text.body] ELSE p)
    BY <1>0, <1>2 DEF C!ServeRead
  <2>2. PICK r : r = IF p.op = "load" THEN [p EXCEPT !.head = text.head, !.body = text.body] ELSE p
    OBVIOUS
  <2>3. PICK q : q = [r EXCEPT !.at = "served"]
    OBVIOUS
  <2>4. /\ r.op = p.op /\ r.mount = p.mount /\ Sheet(r) /\ r \in Letters
        /\ p.op = "load" \/ (r.head = p.head /\ r.body = p.body)
    BY <1>0, <1>t, <2>2 DEF Letters, Sheet
  <2>5. q.at = "served" /\ q.op = r.op /\ q.mount = r.mount /\ q.head = r.head /\ q.body = r.body
    BY <2>3, <2>4 DEF Letters
  <2>6. composing' = [composing EXCEPT ![c] = q]
    BY <2>1, <2>2, <2>3 DEF C!Served
  <2>7. AnsweredTo(c, q)
    BY <1>0, <1>t, <2>1, <2>4, <2>5, <2>6 DEF AnsweredTo, Sheet
  <2> QED
    BY <2>7, DeskAnswered
<1>3. CASE C!Refuse(c)
  <2>1. /\ p.at = "asked"
        /\ composing' = [composing EXCEPT ![c].at = "refused", ![c].head = C!Blank, ![c].body = C!Blank]
        /\ UNCHANGED <<kind, form, marked, offers, text, submitted, composed, owed, again>>
    BY <1>0, <1>3 DEF C!Refuse
  <2>2. PICK q : q = [p EXCEPT !.at = "refused", !.head = C!Blank, !.body = C!Blank]
    OBVIOUS
  <2>3. /\ q.at = "refused" /\ q.op = p.op /\ q.mount = p.mount /\ q.head = C!Blank /\ q.body = C!Blank
    BY <1>0, <2>2 DEF Letters
  <2>4. composing' = [composing EXCEPT ![c] = q]
    BY <1>0, <2>1, <2>2 DEF ComposersInv, LettersStand
  <2>5. AnsweredTo(c, q)
    BY <1>0, <1>t, <2>1, <2>3, <2>4, SmallContents DEF AnsweredTo, Sheet
  <2> QED
    BY <2>5, DeskAnswered
<1>4. CASE C!Create(c) \/ C!Change(c)
  <2>1. /\ p.at = "asked" /\ p.op = "save" /\ C!Served(c, p)
        /\ UNCHANGED <<kind, form, marked, offers, composed, owed, again>>
    BY <1>0, <1>4 DEF C!Create, C!Change
  <2>2. \/ UNCHANGED text /\ submitted' = [v \in C!Typed |-> IF v \in C!Range(p.body)
                                                             THEN submitted[v] + 1 ELSE submitted[v]]
        \/ UNCHANGED submitted /\ text' = [head |-> p.head, body |-> p.body]
    BY <1>0, <1>4 DEF C!Create, C!Change
  <2>3. PICK q : q = [p EXCEPT !.at = "served"]
    OBVIOUS
  <2>4. q.at = "served" /\ q.op = p.op /\ q.mount = p.mount /\ q.head = p.head /\ q.body = p.body
    BY <1>0, <2>3 DEF Letters
  <2>5. composing' = [composing EXCEPT ![c] = q]
    BY <2>1, <2>3 DEF C!Served
  <2>6. text'.head \in C!Contents /\ text'.body \in C!Contents
    BY <1>0, <1>t, <2>2 DEF Sheet
  <2>7. UNCHANGED submitted \/ \A v \in C!Typed : submitted'[v] \in {submitted[v], submitted[v] + 1}
    BY <2>2
  <2>8. AnsweredTo(c, q)
    BY <1>0, <2>1, <2>4, <2>5, <2>6, <2>7 DEF AnsweredTo, Sheet
  <2> QED
    BY <2>8, DeskAnswered
<1> QED
  BY <1>1, <1>2, <1>3, <1>4 DEF C!Serve, C!CreatePage, C!ChangePage, C!CreateCampaign,
     C!ChangeCampaign, C!PublishPost, C!SendSms, C!ChangeKit

(* The page hears of a call, which is over.                                 *)
Over(c) ==
  /\ composing' = [composing EXCEPT ![c] = C!Idle] /\ marked' \subseteq marked
  /\ UNCHANGED <<kind, text, submitted, composed>> /\ form'.mount = form.mount /\ Sheet(form)'
  /\ offers' \subseteq C!Fields /\ again' \subseteq C!Typed /\ owed' \subseteq owed
  /\ C!TypedIsKept'
  /\ \A v \in owed' : v \in C!Range(form.head) => v \in C!Range(form'.head)

LEMMA DeskHears ==
  ASSUME DeskAssumption, ComposersInv, DeskInv, NEW c \in ServerCalls, Over(c) PROVE DeskInv'
<1>1. PICK q : q = C!Idle
  OBVIOUS
<1>2. q.at = "idle" /\ Sheet(q)
  BY <1>1, SmallContents DEF C!Idle, Sheet, DeskAssumption
<1>3. composing' = [composing EXCEPT ![c] = q] /\ composing'[c] = q
  BY <1>1 DEF Over, ComposersInv, LettersStand
<1>4. OwedStands'
  <2>1. OwedAfter(c, q)
    BY <1>2, <1>3 DEF Over, OwedAfter, Spares
  <2> QED
    BY <2>1, OwedGoesOn DEF DeskInv
<1>5. SheetsStand'
  <2>1. SheetsAfter(c, q)
    BY <1>2, <1>3 DEF Over, SheetsAfter, DeskInv, SheetsStand
  <2> QED
    BY <2>1, SheetsGoOn DEF DeskInv
<1>6. TallyStands'
  <2>1. c \notin Unposted'
    BY <1>2, <1>3 DEF Unposted
  <2> QED
    BY <1>3, <2>1, TallyGoesOn DEF Over, DeskInv
<1> QED
  BY <1>4, <1>5, <1>6 DEF DeskInv

LEMMA DeskTakesText ==
  ASSUME DeskAssumption, ComposersInv, DeskInv, NEW c \in ServerCalls, C!TakeText(c) PROVE DeskInv'
<1>1. PICK q : q = composing[c] /\ q \in Letters /\ Sheet(q)
  BY CallOnDesk
<1>2. /\ q.at = "served" /\ q.op \in {"generate", "suggest"}
      /\ form' = IF q.op = "generate" /\ C!Here(q) THEN C!GeneratedInto(q) ELSE form
      /\ composing' = [composing EXCEPT ![c] = C!Idle] /\ marked' \subseteq marked
      /\ UNCHANGED <<kind, text, submitted, composed, owed, again>>
  BY <1>1 DEF C!TakeText, C!Done
<1>3. offers' \subseteq offers \cup C!Fields
  BY <1>1 DEF C!TakeText, C!Fields
<1>4. form \in Papers /\ Sheet(form) /\ C!TypedIsKept /\ Spares(c)
  BY DEF ComposersInv, FormStands, DeskInv, SheetsStand, OwedStands
<1>5. CASE form' = form
  <2>1. Over(c)
    BY <1>2, <1>3, <1>4, <1>5 DEF Over, DeskInv, SheetsStand, Sheet, C!TypedIsKept
  <2> QED
    BY <2>1, DeskHears
<1>6. CASE q.op = "generate" /\ C!Here(q) /\ form' = C!GeneratedInto(q)
  <2>1. /\ form'.mount = form.mount /\ form'.open = form.open /\ form'.body = q.body
        /\ form'.head = IF kind = "page" /\ q.head = C!Blank THEN <<C!Made>> ELSE form.head
    BY <1>4, <1>6 DEF Papers, C!GeneratedInto
  <2>2. /\ owed \subseteq C!Range(form.head)
        /\ kind = "page" /\ q.head = C!Blank => owed = {}
    BY <1>1, <1>2, <1>4, <1>6 DEF Spares, C!Here
  <2>3. \A v \in owed : form'.open /\ v \in C!Range(form'.head)
    BY <1>4, <2>1, <2>2 DEF C!TypedIsKept
  <2>4. Sheet(form)'
    BY <1>1, <1>4, <2>1, SmallContents DEF Sheet
  <2>5. Over(c)
    BY <1>2, <1>3, <2>1, <2>3, <2>4 DEF Over, DeskInv, SheetsStand, C!TypedIsKept
  <2> QED
    BY <2>5, DeskHears
<1> QED
  BY <1>2, <1>5, <1>6

LEMMA DeskTakesSave ==
  ASSUME DeskAssumption, ComposersInv, DeskInv, NEW c \in ServerCalls, C!TakeSave(c) PROVE DeskInv'
<1>1. PICK q : q = composing[c] /\ q \in Letters /\ Sheet(q)
  BY CallOnDesk
<1>2. /\ q.at = "served" /\ q.op = "save"
      /\ form' = (IF kind = "brand" THEN form ELSE C!Emptied)
      /\ owed' = (IF kind = "brand" THEN owed ELSE owed \ (C!Range(q.head) \cup C!Range(q.body)))
      /\ composing' = [composing EXCEPT ![c] = C!Idle] /\ marked' \subseteq marked
      /\ UNCHANGED <<kind, offers, text, submitted, composed, again>>
  BY <1>1 DEF C!TakeSave, C!Done
<1>3. form \in Papers /\ Sheet(form) /\ C!TypedIsKept /\ Spares(c)
  BY DEF ComposersInv, FormStands, DeskInv, SheetsStand, OwedStands
<1>4. CASE kind = "brand"
  <2>1. Over(c)
    BY <1>2, <1>3, <1>4 DEF Over, DeskInv, SheetsStand, Sheet, C!TypedIsKept
  <2> QED
    BY <2>1, DeskHears
<1>5. CASE kind # "brand"
  <2>1. owed' = {}
    BY <1>1, <1>2, <1>3, <1>5 DEF Spares
  <2>2. form'.mount = form.mount /\ Sheet(form)'
    BY <1>2, <1>3, <1>5, SmallContents DEF Papers, Sheet, C!Emptied
  <2>3. Over(c)
    BY <1>2, <2>1, <2>2 DEF Over, DeskInv, SheetsStand, C!TypedIsKept
  <2> QED
    BY <2>3, DeskHears
<1> QED
  BY <1>4, <1>5

LEMMA DeskTakesLoad ==
  ASSUME DeskAssumption, ComposersInv, DeskInv, NEW c \in ServerCalls, C!TakeLoad(c) PROVE DeskInv'
<1>1. PICK q : q = composing[c] /\ q \in Letters /\ Sheet(q)
  BY CallOnDesk
<1>2. /\ q.at = "served" /\ q.op = "load"
      /\ form' = [form EXCEPT !.head = IF q.head # C!Blank THEN q.head ELSE @,
                              !.body = IF q.body # C!Blank THEN q.body ELSE @]
      /\ composing' = [composing EXCEPT ![c] = C!Idle] /\ marked' \subseteq marked
      /\ UNCHANGED <<kind, offers, text, submitted, composed, owed, again>>
  BY <1>1 DEF C!TakeLoad, C!Done
<1>3. form \in Papers /\ Sheet(form) /\ Spares(c)
  BY DEF ComposersInv, FormStands, DeskInv, SheetsStand, OwedStands
<1>4. owed = {}
  BY <1>1, <1>2, <1>3 DEF Spares
<1>5. /\ form'.mount = form.mount
      /\ form'.head = (IF q.head # C!Blank THEN q.head ELSE form.head)
      /\ form'.body = (IF q.body # C!Blank THEN q.body ELSE form.body)
  BY <1>2, <1>3 DEF Papers
<1>6. Sheet(form)'
  BY <1>1, <1>3, <1>5 DEF Sheet
<1>7. Over(c)
  BY <1>2, <1>4, <1>5, <1>6 DEF Over, DeskInv, SheetsStand, C!TypedIsKept
<1> QED
  BY <1>7, DeskHears

LEMMA DeskTakesContacts ==
  ASSUME DeskAssumption, ComposersInv, DeskInv, NEW c \in ServerCalls, C!TakeContacts(c) PROVE DeskInv'
<1>1. PICK p : p = composing[c] /\ p \in Letters /\ Sheet(p)
  BY CallOnDesk
<1>2. /\ p.at = "served" /\ p.op = "contacts"
      /\ composing' = [composing EXCEPT ![c].at = "asked", ![c].op = "save"]
      /\ marked' = marked \cup {"save"}
      /\ UNCHANGED <<kind, form, offers, text, submitted, composed, owed, again>>
  BY <1>1 DEF C!TakeContacts
<1>3. PICK q : q = [p EXCEPT !.at = "asked", !.op = "save"]
  OBVIOUS
<1>4. q.at = "asked" /\ q.op = "save" /\ q.head = p.head /\ q.body = p.body /\ q.mount = p.mount
  BY <1>1, <1>3 DEF Letters
<1>5. composing' = [composing EXCEPT ![c] = q] /\ composing'[c] = q
  BY <1>1, <1>2, <1>3 DEF ComposersInv, LettersStand
<1>6. OwedStands'
  <2>1. Spares(c)
    BY DEF DeskInv, OwedStands
  <2>2. Spares(c)'
    BY <1>1, <1>2, <1>4, <1>5, <2>1 DEF Spares
  <2>3. C!TypedIsKept'
    BY <1>2 DEF DeskInv, OwedStands, C!TypedIsKept
  <2>4. OwedAfter(c, q)
    BY <1>2, <1>5, <2>2, <2>3 DEF OwedAfter
  <2> QED
    BY <2>4, OwedGoesOn DEF DeskInv
<1>7. SheetsStand'
  <2>1. Sheet(q)
    BY <1>1, <1>4 DEF Sheet
  <2>2. marked' \subseteq C!Ops
    BY <1>2 DEF DeskInv, SheetsStand, C!Ops
  <2>3. SheetsAfter(c, q)
    BY <1>2, <1>5, <2>1, <2>2 DEF SheetsAfter, DeskInv, SheetsStand, Sheet
  <2> QED
    BY <2>3, SheetsGoOn DEF DeskInv
<1>8. TallyStands'
  <2>1. c \in Unposted
    BY <1>1, <1>2 DEF Unposted
  <2> QED
    BY <1>2, <1>5, <2>1, TallyGoesOn DEF DeskInv
<1> QED
  BY <1>6, <1>7, <1>8 DEF DeskInv

LEMMA DeskTakesFailure ==
  ASSUME DeskAssumption, ComposersInv, DeskInv, NEW c \in ServerCalls, C!TakeFailure(c) PROVE DeskInv'
<1>1. /\ composing' = [composing EXCEPT ![c] = C!Idle] /\ marked' \subseteq marked
      /\ UNCHANGED <<kind, form, offers, text, submitted, composed, owed>>
      /\ again' \subseteq again \cup C!Typed
  BY DEF C!TakeFailure, C!Done
<1>2. Over(c)
  BY <1>1 DEF Over, DeskInv, SheetsStand, Sheet, OwedStands, C!TypedIsKept
<1> QED
  BY <1>2, DeskHears

LEMMA DeskKept ==
  DeskAssumption /\ ComposersInv /\ DeskInv /\ [C!Next]_C!vars => DeskInv'
<1> SUFFICES ASSUME DeskAssumption, ComposersInv, DeskInv, [C!Next]_C!vars PROVE DeskInv'
  OBVIOUS
<1>1. ASSUME NEW c \in ServerCalls, C!Take(c) PROVE DeskInv'
  BY <1>1, DeskTakesText, DeskTakesSave, DeskTakesLoad, DeskTakesContacts, DeskTakesFailure DEF C!Take
<1>2. CASE UNCHANGED C!vars
  <2>1. OwedStands' /\ SheetsStand'
    BY <1>2 DEF C!vars, DeskInv, OwedStands, C!TypedIsKept, Spares, SheetsStand, Sheet
  <2>2. TallyStands'
    BY <1>2 DEF C!vars, DeskInv, TallyStands, Unposted
  <2> QED
    BY <2>1, <2>2 DEF DeskInv
<1> QED
  BY <1>1, <1>2, DeskOpens, DeskCancels, DeskWrites, DeskPresses, DeskServes DEF C!Next

-----------------------------------------------------------------------------
CalendarAssumption ==
  OutreachAssumption /\ LeadDays \subseteq Nat /\ LastDay \in Nat /\ MaxRuns \in Nat

(* The days of the calendar, the rows and the runs.                         *)
CalendarInv ==
  /\ today \in 0..LastDay
  /\ contact.last \in 0..LastDay \cup {None} /\ contact.created \in 0..LastDay
  /\ booking.day \in Nat \cup {None}
  /\ outreachBegun \in 0..MaxRuns /\ said \in BOOLEAN

LEMMA CalendarStart == CalendarAssumption /\ U!Init => CalendarInv
<1> SUFFICES ASSUME CalendarAssumption, U!Init PROVE CalendarInv
  OBVIOUS
<1>1. 0 \in 0..LastDay /\ 0 \in 0..MaxRuns
  BY DEF CalendarAssumption
<1>2. today = 0 /\ contact.last = None /\ contact.created = 0 /\ booking.day = None
  BY DEF U!Init
<1>3. outreachBegun = 0 /\ said = FALSE
  BY DEF U!Init
<1> QED
  BY <1>1, <1>2, <1>3 DEF CalendarInv

LEMMA CalendarKept ==
  CalendarAssumption /\ OutreachInv /\ CalendarInv /\ [U!Next]_(U!vars) => CalendarInv'
<1> SUFFICES ASSUME CalendarAssumption, OutreachInv, CalendarInv, [U!Next]_(U!vars)
             PROVE  CalendarInv'
  OBVIOUS
<1>0. /\ contact \in [stage : U!Stages, last : Int \cup {None}, created : Int]
      /\ booking \in [day : Int \cup {None}, status : {"pending", "confirmed", "cancelled"},
                      reminded : BOOLEAN]
      /\ today \in 0..LastDay /\ LastDay \in Nat
  BY DEF OutreachInv, OutreachRows, CalendarInv, CalendarAssumption
<1>1. ASSUME NEW r \in Runs, NEW agent, U!Begin(r, agent) PROVE CalendarInv'
  BY <1>1 DEF U!Begin, U!history, CalendarInv, CalendarAssumption
<1>2. ASSUME NEW r \in Runs, U!List(r) \/ U!Look(r) \/ U!Send(r) \/ U!Abort(r) PROVE CalendarInv'
  <2>1. UNCHANGED <<today, contact, booking, outreachBegun, said>>
    BY <1>2 DEF U!List, U!Look, U!Send, U!Abort, U!history
  <2> QED
    BY <2>1 DEF CalendarInv
<1>3. ASSUME NEW r \in Runs, U!Mark(r) PROVE CalendarInv'
  <2>1. UNCHANGED <<today, outreachBegun, said>>
    BY <1>3 DEF U!Mark, U!history
  <2>2. booking'.day = booking.day
    BY <1>0, <1>3 DEF U!Mark
  <2>3. contact' = U!Marked(outreachRun[r].at)
    BY <1>3 DEF U!Mark
  <2>4. contact'.created = contact.created /\ contact'.last \in {contact.last, today}
    BY <1>0, <2>3 DEF U!Marked
  <2> QED
    BY <2>1, <2>2, <2>4 DEF CalendarInv
<1>4. CASE U!OwnerWins \/ U!ReturnsAsLead
  <2>1. UNCHANGED <<today, booking, outreachBegun>>
    BY <1>4 DEF U!OwnerWins, U!ReturnsAsLead
  <2>2. contact'.last = contact.last /\ contact'.created = contact.created
    BY <1>0, <1>4 DEF U!OwnerWins, U!ReturnsAsLead
  <2>3. said' \in BOOLEAN
    <3>1. (~U!Held) \in BOOLEAN
      OBVIOUS
    <3> QED
      BY <1>4, <3>1 DEF U!OwnerWins, U!ReturnsAsLead
  <2> QED
    BY <2>1, <2>2, <2>3 DEF CalendarInv
<1>5. CASE U!Books
  <2>1. UNCHANGED <<today, outreachBegun, said>>
    BY <1>5 DEF U!Books, U!history
  <2>2. PICK n \in LeadDays : booking' = [booking EXCEPT !.day = today + n]
    BY <1>5 DEF U!Books
  <2>3. booking'.day \in Nat
    BY <1>0, <2>2 DEF CalendarAssumption
  <2>4. contact'.last = today /\ contact'.created = contact.created
    BY <1>0, <1>5 DEF U!Books
  <2> QED
    BY <2>1, <2>3, <2>4 DEF CalendarInv
<1>6. CASE U!OwnerDecides
  <2>1. UNCHANGED <<today, contact, outreachBegun, said>> /\ booking'.day = booking.day
    BY <1>0, <1>6 DEF U!OwnerDecides, U!history
  <2> QED
    BY <2>1 DEF CalendarInv
<1>7. CASE U!NextDay
  BY <1>0, <1>7 DEF U!NextDay, U!history, CalendarInv
<1>8. CASE UNCHANGED U!vars
  BY <1>8 DEF U!vars, CalendarInv
<1> QED
  BY <1>1, <1>2, <1>3, <1>4, <1>5, <1>6, <1>7, <1>8 DEF U!Next

LEMMA CalendarTypes == OutreachInv /\ CalendarInv => U!TypeOK
<1> SUFFICES ASSUME OutreachInv, CalendarInv PROVE U!TypeOK
  OBVIOUS
<1>1. contact \in [stage : U!Stages, last : 0..LastDay \cup {None}, created : 0..LastDay]
  BY DEF OutreachInv, OutreachRows, CalendarInv
<1>2. booking \in [day : Nat \cup {None}, status : {"pending", "confirmed", "cancelled"},
                   reminded : BOOLEAN]
  BY DEF OutreachInv, OutreachRows, CalendarInv
<1>3. outreachRun \in [Runs -> [at : {"idle"} \cup U!Mails \cup U!Texts,
                                step : {"list", "look", "send", "mark"}]]
  BY DEF OutreachInv, OutreachRuns, Talks, U!Idle, U!Mails
<1> QED
  BY <1>1, <1>2, <1>3 DEF OutreachInv, OutreachSent, CalendarInv, U!TypeOK

-----------------------------------------------------------------------------
ListsAssumption == MaxAsked \in Nat /\ IsFiniteSet(ListRows)

(* A call that changes the row, or may.                                     *)
Touches(q, r) == q.at # "idle" /\ q.op # "load" /\ (q.op = "now" \/ q.row = r)
Loading(q) == q.at # "idle" /\ q.op = "load"

(* A list of the page has the row once, or not at all.                      *)
OnlyOne(list, r) ==
  \E i \in DOMAIN list : list[i].id = r /\ \A j \in DOMAIN list : list[j].id = r => j = i
NotOne(list, r) == \A i \in DOMAIN list : list[i].id # r
AsKept(list, r, kept) == IF kept = TRUE THEN OnlyOne(list, r) ELSE NotOne(list, r)
StatusIs(list, r, value) == \A i \in DOMAIN list : list[i].id = r => list[i].status = value
TextsAre(list, advice, r, value) ==
  advice[r] = {} => \A i \in DOMAIN list : list[i].id = r => list[i].texts = value

AsSaved(list, advice, values, r) ==
  /\ AsKept(list, r, values[r].kept) /\ StatusIs(list, r, values[r].status)
  /\ TextsAre(list, advice, r, values[r].texts)

(* While the one change of a row is not served, or refused, the page shows  *)
(* the row as it was, or as the stage asked for.                            *)
AsAsked(list, advice, values, q) ==
  /\ AsKept(list, q.row, values[q.row].kept)
  /\ StatusIs(list, q.row, IF board = "crm" /\ q.op = "status" THEN q.status
                           ELSE values[q.row].status)
  /\ TextsAre(list, advice, q.row, values[q.row].texts)

(* When it is served its answer is the row, and what the answer does not    *)
(* tell the page has right.                                                 *)
AsServed(list, advice, values, q) ==
  /\ q.answer[q.row] = values[q.row]
  /\ q.op = "status" =>
       /\ values[q.row].kept = TRUE /\ values[q.row].status = q.status /\ OnlyOne(list, q.row)
       /\ TextsAre(list, advice, q.row, values[q.row].texts)
       /\ board = "crm" => StatusIs(list, q.row, q.status)
  /\ q.op = "text" => values[q.row].kept = TRUE /\ OnlyOne(list, q.row)
  /\ q.op = "add" => values[q.row].kept = TRUE
  /\ q.op = "suggest" => AsSaved(list, advice, values, q.row)
  /\ q.op = "delete" => values[q.row].kept = FALSE

AsChanging(list, advice, values, q) ==
  IF q.at = "served" THEN AsServed(list, advice, values, q) ELSE AsAsked(list, advice, values, q)

AskSet == [at : {"idle", "sent", "read", "served", "refused"}, op : L!Ops,
           row : ListRows \cup {None}, status : L!Status, text : SUBSET ListTexts,
           answer : [ListRows -> L!RowValues], overlap : SUBSET ListRows]

ListsTyped ==
  /\ board \in L!Boards
  /\ table \in [ListRows -> L!RowValues]
  /\ shown \in Seq(L!Entries)
  /\ view \in [loading : BOOLEAN, failed : BOOLEAN, loaded : BOOLEAN]
  /\ busy \in ListRows \cup {None}
  /\ suggestion \in [ListRows -> SUBSET ListTexts]
  /\ req \in [ServerCalls -> AskSet]
  /\ asked \in 0..MaxAsked
  /\ slipped \subseteq ListRows

(* What a dashboard asks of a row.                                          *)
Askable(q) ==
  q.at # "idle" /\ q.op # "load" =>
    /\ q.row \in ListRows
    /\ q.op = "text" => board \notin {"bookings", "invoices", "posts"}
    /\ q.op = "add" => board # "bookings"
    /\ q.op = "suggest" => board = "reviews" /\ q.text # {}
    /\ q.op = "now" => board = "posts"
    /\ q.op = "delete" => board = "pages"

(* A row of the posts stays in the table.                                   *)
PostsStay ==
  board = "posts" =>
    /\ \A i \in DOMAIN shown : table[shown[i].id].kept = TRUE
    /\ \A c \in ServerCalls :
         /\ req[c].at = "served" =>
              \A r \in ListRows : req[c].answer[r].kept = TRUE => table[r].kept = TRUE
         /\ req[c].at # "idle" /\ req[c].op = "now" => table[req[c].row].kept = TRUE

(* A load has the rows as they are, but for those that changed meanwhile.   *)
LoadsStand ==
  \A c \in ServerCalls : Loading(req[c]) =>
    /\ \A r \in ListRows, d \in ServerCalls :
         Touches(req[d], r) => r \in req[c].overlap /\ r \in slipped
    /\ req[c].at = "served" =>
         \A r \in ListRows \ req[c].overlap : req[c].answer[r] = table[r]

OneChange ==
  \A r \in ListRows \ slipped : \A c, d \in ServerCalls :
    Touches(req[c], r) /\ Touches(req[d], r) => c = d

Steady == view.loaded = TRUE /\ view.failed = FALSE /\ \A c \in ServerCalls : ~Loading(req[c])

RowIsShown(r) ==
  /\ (\A c \in ServerCalls : ~Touches(req[c], r)) => AsSaved(shown, suggestion, table, r)
  /\ \A c \in ServerCalls : Touches(req[c], r) /\ req[c].op # "now" =>
       AsChanging(shown, suggestion, table, req[c])

RowsAreShown == Steady => \A r \in ListRows \ slipped : RowIsShown(r)

ListsInv ==
  /\ ListsTyped /\ PostsStay /\ LoadsStand /\ OneChange /\ RowsAreShown
  /\ \A c \in ServerCalls : Askable(req[c])

-----------------------------------------------------------------------------
(* Lists that differ only in what they have of one row, r.                  *)
Agrees(old, new, s) ==
  /\ OnlyOne(old, s) => OnlyOne(new, s)
  /\ NotOne(old, s) => NotOne(new, s)
  /\ \A j \in DOMAIN new : new[j].id = s => \E i \in DOMAIN old : old[i] = new[j]

Edits(old, new, r) ==
  /\ DOMAIN new = DOMAIN old
  /\ \A i \in DOMAIN old : new[i].id = old[i].id /\ (old[i].id # r => new[i] = old[i])

LEMMA AgreeSaved ==
  ASSUME NEW old, NEW new, NEW s, Agrees(old, new, s), NEW advice, NEW changed,
         changed[s] = advice[s], NEW values, AsSaved(old, advice, values, s)
  PROVE  AsSaved(new, changed, values, s)
<1>1. AsKept(new, s, values[s].kept)
  BY DEF Agrees, AsSaved, AsKept
<1>2. StatusIs(new, s, values[s].status)
  BY DEF Agrees, AsSaved, StatusIs
<1>3. TextsAre(new, changed, s, values[s].texts)
  BY DEF Agrees, AsSaved, TextsAre
<1> QED
  BY <1>1, <1>2, <1>3 DEF AsSaved

LEMMA AgreeChanging ==
  ASSUME NEW old, NEW new, NEW q, Agrees(old, new, q.row), NEW advice, NEW changed,
         changed[q.row] = advice[q.row], NEW values, AsChanging(old, advice, values, q)
  PROVE  AsChanging(new, changed, values, q)
<1>1. \A v : StatusIs(old, q.row, v) => StatusIs(new, q.row, v)
  BY DEF Agrees, StatusIs
<1>2. \A v : TextsAre(old, advice, q.row, v) => TextsAre(new, changed, q.row, v)
  BY DEF Agrees, TextsAre
<1>3. \A v : AsKept(old, q.row, v) => AsKept(new, q.row, v)
  BY DEF Agrees, AsKept
<1>4. OnlyOne(old, q.row) => OnlyOne(new, q.row)
  BY DEF Agrees
<1>5. AsSaved(old, advice, values, q.row) => AsSaved(new, changed, values, q.row)
  BY <1>1, <1>2, <1>3 DEF AsSaved
<1>6. CASE q.at = "served"
  <2>1. AsServed(old, advice, values, q)
    BY <1>6 DEF AsChanging
  <2>2. AsServed(new, changed, values, q)
    BY <2>1, <1>1, <1>2, <1>4, <1>5 DEF AsServed
  <2> QED
    BY <1>6, <2>2 DEF AsChanging
<1>7. CASE q.at # "served"
  <2>1. AsAsked(old, advice, values, q)
    BY <1>7 DEF AsChanging
  <2>2. AsAsked(new, changed, values, q)
    BY <2>1, <1>1, <1>2, <1>3 DEF AsAsked
  <2> QED
    BY <1>7, <2>2 DEF AsChanging
<1> QED
  BY <1>6, <1>7

LEMMA EditsAgree ==
  ASSUME NEW old, NEW new, NEW r, Edits(old, new, r)
  PROVE  /\ \A s : s # r => Agrees(old, new, s)
         /\ OnlyOne(old, r) => OnlyOne(new, r)
         /\ NotOne(old, r) => NotOne(new, r)
<1>1. \A s : OnlyOne(old, s) => OnlyOne(new, s)
  BY DEF Edits, OnlyOne
<1>2. \A s : NotOne(old, s) => NotOne(new, s)
  BY DEF Edits, NotOne
<1>3. \A s : s # r => \A j \in DOMAIN new : new[j].id = s => \E i \in DOMAIN old : old[i] = new[j]
  BY DEF Edits
<1> QED
  BY <1>1, <1>2, <1>3 DEF Agrees

LEMMA WithEdits ==
  ASSUME NEW old \in Seq(L!Entries), NEW e \in L!Entries
  PROVE  /\ L!With(old, e) \in Seq(L!Entries) /\ Edits(old, L!With(old, e), e.id)
         /\ \A i \in DOMAIN L!With(old, e) : L!With(old, e)[i].id = e.id => L!With(old, e)[i] = e
<1>1. PICK new : new = L!With(old, e)
  OBVIOUS
<1>2. DOMAIN old = 1..Len(old) /\ Len(old) \in Nat /\ \A i \in DOMAIN old : old[i] \in L!Entries
  OBVIOUS
<1>3. DOMAIN new = 1..Len(old) /\ \A i \in DOMAIN old : new[i] = IF old[i].id = e.id THEN e ELSE old[i]
  BY <1>1, <1>2 DEF L!With
<1>4. new = [i \in 1..Len(old) |-> IF old[i].id = e.id THEN e ELSE old[i]]
  BY <1>1, <1>2 DEF L!With
<1>5. new \in Seq(L!Entries)
  BY <1>2, <1>4
<1>6. Edits(old, new, e.id)
  BY <1>2, <1>3 DEF Edits
<1>7. \A i \in DOMAIN new : new[i].id = e.id => new[i] = e
  BY <1>2, <1>3
<1> QED
  BY <1>1, <1>5, <1>6, <1>7

(* The list with an entry before it or after it.                            *)
LEMMA OneMore ==
  ASSUME NEW old \in Seq(L!Entries), NEW e \in L!Entries, NEW new,
         new = <<e>> \o old \/ new = Append(old, e)
  PROVE  /\ new \in Seq(L!Entries) /\ \A s : s # e.id => Agrees(old, new, s)
         /\ NotOne(old, e.id) =>
              OnlyOne(new, e.id) /\ \A i \in DOMAIN new : new[i].id = e.id => new[i] = e
<1>0. Len(old) \in Nat /\ DOMAIN old = 1..Len(old)
  OBVIOUS
<1>1. PICK spot \in {1, Len(old) + 1}, move \in {0, 1} :
        /\ new \in Seq(L!Entries) /\ Len(new) = Len(old) + 1 /\ new[spot] = e
        /\ move = 1 <=> new = <<e>> \o old
        /\ spot = IF move = 1 THEN 1 ELSE Len(old) + 1
        /\ \A i \in 1..Len(old) : new[i + move] = old[i]
  <2>1. CASE new = <<e>> \o old
    <3>1. PICK s : s = <<e>>
      OBVIOUS
    <3>2. s \in Seq(L!Entries) /\ Len(s) = 1 /\ s[1] = e
      BY <3>1
    <3>3. new = s \o old
      BY <2>1, <3>1
    <3>4. /\ new \in Seq(L!Entries) /\ Len(new) = Len(old) + 1 /\ new[1] = e
          /\ \A i \in 1..Len(old) : new[i + 1] = old[i]
      BY <3>2, <3>3
    <3>5. PICK p, m : p = 1 /\ m = 1
      OBVIOUS
    <3>6. p \in {1, Len(old) + 1} /\ m \in {0, 1}
      BY <3>5
    <3> QED
      BY <2>1, <3>4, <3>5, <3>6
  <2>2. CASE new # <<e>> \o old
    <3>1. new = Append(old, e)
      BY <2>2
    <3>4. /\ new \in Seq(L!Entries) /\ Len(new) = Len(old) + 1 /\ new[Len(old) + 1] = e
          /\ \A i \in 1..Len(old) : new[i] = old[i]
      BY <3>1
    <3>5. PICK p, m : p = Len(old) + 1 /\ m = 0
      OBVIOUS
    <3>6. \A i \in 1..Len(old) : new[i + m] = old[i]
      BY <3>4, <3>5
    <3>7. p \in {1, Len(old) + 1} /\ m \in {0, 1}
      BY <3>5
    <3> QED
      BY <2>2, <3>4, <3>5, <3>6, <3>7
  <2> QED
    BY <2>1, <2>2
<1>2. DOMAIN new = 1..Len(old) + 1 /\ spot \in DOMAIN new
  BY <1>0, <1>1
<1>3. \A j \in DOMAIN new : j # spot => j - move \in 1..Len(old) /\ new[j] = old[j - move]
  <2>1. TAKE j \in DOMAIN new
  <2>2. HAVE j # spot
  <2>3. j - move \in 1..Len(old) /\ (j - move) + move = j
    BY <1>0, <1>1, <1>2, <2>2
  <2> QED
    BY <1>1, <2>3
<1>4. \A i \in 1..Len(old) : i + move \in DOMAIN new /\ i + move # spot /\ new[i + move] = old[i]
  BY <1>0, <1>1, <1>2
<1>5. ASSUME NEW s, s # e.id PROVE Agrees(old, new, s)
  <2>1. \A j \in DOMAIN new : new[j].id = s => j # spot
    BY <1>1, <1>5
  <2>2. \A j \in DOMAIN new : new[j].id = s => \E i \in DOMAIN old : old[i] = new[j]
    BY <1>0, <1>3, <2>1
  <2>3. NotOne(old, s) => NotOne(new, s)
    BY <2>2 DEF NotOne
  <2>4. ASSUME OnlyOne(old, s) PROVE OnlyOne(new, s)
    <3>1. PICK i \in DOMAIN old : old[i].id = s /\ \A j \in DOMAIN old : old[j].id = s => j = i
      BY <2>4 DEF OnlyOne
    <3>2. i + move \in DOMAIN new /\ new[i + move].id = s
      BY <1>0, <1>4, <3>1
    <3>3. ASSUME NEW j \in DOMAIN new, new[j].id = s PROVE j = i + move
      <4>1. j - move \in DOMAIN old /\ old[j - move].id = s
        BY <1>0, <1>3, <2>1, <3>3
      <4>2. j - move = i
        BY <3>1, <4>1
      <4> QED
        BY <1>0, <1>1, <1>2, <4>2
    <3> QED
      BY <3>2, <3>3 DEF OnlyOne
  <2> QED
    BY <2>2, <2>3, <2>4 DEF Agrees
<1>6. ASSUME NotOne(old, e.id)
      PROVE  OnlyOne(new, e.id) /\ \A i \in DOMAIN new : new[i].id = e.id => new[i] = e
  <2>1. \A j \in DOMAIN new : new[j].id = e.id => j = spot
    BY <1>0, <1>3, <1>6 DEF NotOne
  <2> QED
    BY <1>1, <1>2, <2>1 DEF OnlyOne
<1> QED
  BY <1>1, <1>5, <1>6

-----------------------------------------------------------------------------
(* What is left of a list without a row, up to its i-th entry.              *)
Remains(list, r, f, i) ==
  IF i = 0 THEN <<>> ELSE IF list[i].id = r THEN f[i - 1] ELSE Append(f[i - 1], list[i])

RemainsOf(list, r, f, n) == f = [i \in 0..n |-> Remains(list, r, f, i)]

LEMMA RemainsExist ==
  ASSUME NEW list, NEW r, NEW m \in Nat
  PROVE  \E f : RemainsOf(list, r, f, m)
<1>1. SUFFICES ASSUME ~\E f : RemainsOf(list, r, f, m) PROVE FALSE
  OBVIOUS
<1>2. PICK some : some = {n \in Nat : ~\E f : RemainsOf(list, r, f, n)}
  OBVIOUS
<1>3. some \in SUBSET Nat /\ some # {}
  BY <1>1, <1>2
<1>4. PICK k \in some : \A j \in some : k <= j
  BY <1>3, FirstOfSome
<1>5. k \in Nat /\ ~\E f : RemainsOf(list, r, f, k)
  BY <1>2, <1>4
<1>6. CASE k = 0
  <2>1. PICK f : f = [i \in 0..0 |-> <<>>]
    OBVIOUS
  <2>2. f = [i \in 0..0 |-> Remains(list, r, f, i)]
    BY <2>1 DEF Remains
  <2> QED
    BY <1>5, <1>6, <2>2 DEF RemainsOf
<1>7. CASE k # 0
  <2>1. k - 1 \in Nat /\ k - 1 \notin some
    BY <1>4, <1>5, <1>7
  <2>2. PICK g : RemainsOf(list, r, g, k - 1)
    BY <1>2, <2>1
  <2>3. PICK f : f = [i \in 0..k |-> IF i = k THEN Remains(list, r, g, k) ELSE g[i]]
    OBVIOUS
  <2>4. \A i \in 0..k - 1 : f[i] = g[i] /\ g[i] = Remains(list, r, g, i)
    BY <1>5, <2>2, <2>3 DEF RemainsOf
  <2>5. ASSUME NEW i \in 0..k PROVE f[i] = Remains(list, r, f, i)
    <3>1. f[i] = Remains(list, r, g, i)
      <4>1. CASE i = k
        BY <1>5, <2>3, <4>1
      <4>2. CASE i # k
        <5>1. i \in 0..k - 1
          BY <1>5, <4>2
        <5> QED
          BY <2>4, <5>1
      <4> QED
        BY <4>1, <4>2
    <3>2. i # 0 => i - 1 \in 0..k - 1
      BY <1>5
    <3> QED
      BY <2>4, <3>1, <3>2 DEF Remains
  <2>6. f = [i \in 0..k |-> Remains(list, r, f, i)]
    <3>1. PICK h : h = [i \in 0..k |-> Remains(list, r, f, i)]
      OBVIOUS
    <3>2. \A i \in 0..k : h[i] = f[i]
      BY <2>5, <3>1
    <3>3. f = h
      BY <2>3, <3>1, <3>2
    <3> QED
      BY <3>1, <3>3
  <2> QED
    BY <1>5, <2>6 DEF RemainsOf
<1> QED
  BY <1>6, <1>7

(* Of the first n entries of the list, those of other rows are left.        *)
LeftOf(list, r, n, some) ==
  /\ some \in Seq(L!Entries)
  /\ \A j \in 1..Len(some) : \E i \in 1..n : list[i] = some[j] /\ list[i].id # r
  /\ \A i \in 1..n : list[i].id # r => \E j \in 1..Len(some) : some[j] = list[i]
  /\ \A j, k \in 1..Len(some) : j # k =>
       \E h, i \in 1..n : h # i /\ list[h] = some[j] /\ list[i] = some[k]

LEMMA LeftGrows ==
  ASSUME NEW list \in Seq(L!Entries), NEW r, NEW n \in Nat, n + 1 <= Len(list),
         NEW some, LeftOf(list, r, n, some), NEW more,
         more = IF list[n + 1].id = r THEN some ELSE Append(some, list[n + 1])
  PROVE  LeftOf(list, r, n + 1, more)
<1>0. n + 1 \in 1..Len(list) /\ list[n + 1] \in L!Entries /\ \A i \in 1..n : i \in 1..n + 1 /\ i # n + 1
  OBVIOUS
<1>1. CASE list[n + 1].id = r
  <2>0. more = some
    BY <1>1
  <2>1. more \in Seq(L!Entries)
    BY <2>0 DEF LeftOf
  <2>2. \A j \in 1..Len(more) : \E i \in 1..n + 1 : list[i] = more[j] /\ list[i].id # r
    BY <1>0, <2>0 DEF LeftOf
  <2>3. \A i \in 1..n + 1 : list[i].id # r => \E j \in 1..Len(more) : more[j] = list[i]
    <3>1. \A i \in 1..n + 1 : list[i].id # r => i \in 1..n
      BY <1>1
    <3> QED
      BY <3>1, <2>0 DEF LeftOf
  <2>4. \A j, k \in 1..Len(more) : j # k =>
          \E h, i \in 1..n + 1 : h # i /\ list[h] = more[j] /\ list[i] = more[k]
    BY <1>0, <2>0 DEF LeftOf
  <2> QED
    BY <2>1, <2>2, <2>3, <2>4 DEF LeftOf
<1>2. CASE list[n + 1].id # r
  <2>0. PICK m : m = Len(some)
    OBVIOUS
  <2>1. m \in Nat /\ some \in Seq(L!Entries)
    BY <2>0 DEF LeftOf
  <2>2. /\ more \in Seq(L!Entries) /\ Len(more) = m + 1 /\ more[m + 1] = list[n + 1]
        /\ \A j \in 1..m : more[j] = some[j]
    BY <1>0, <1>2, <2>0, <2>1
  <2>3. \A j \in 1..m + 1 : j # m + 1 => j \in 1..m
    BY <2>1
  <2>4. \A j \in 1..m + 1 : \E i \in 1..n + 1 : list[i] = more[j] /\ list[i].id # r
    <3>1. TAKE j \in 1..m + 1
    <3>2. CASE j = m + 1
      BY <1>0, <1>2, <2>2, <3>2
    <3>3. CASE j # m + 1
      BY <1>0, <2>0, <2>2, <2>3, <3>3 DEF LeftOf
    <3> QED
      BY <3>2, <3>3
  <2>5. \A i \in 1..n + 1 : list[i].id # r => \E j \in 1..m + 1 : more[j] = list[i]
    <3>1. TAKE i \in 1..n + 1
    <3>2. CASE i = n + 1
      <4>1. m + 1 \in 1..m + 1
        BY <2>1
      <4> QED
        BY <2>2, <3>2, <4>1
    <3>3. CASE i # n + 1
      <4>1. i \in 1..n
        BY <3>3
      <4>2. list[i].id # r => \E j \in 1..m : some[j] = list[i]
        BY <2>0, <4>1 DEF LeftOf
      <4>3. \A j \in 1..m : j \in 1..m + 1
        BY <2>1
      <4> QED
        BY <2>2, <4>2, <4>3
    <3> QED
      BY <3>2, <3>3
  <2>6. \A j, k \in 1..m + 1 : j # k =>
          \E h, i \in 1..n + 1 : h # i /\ list[h] = more[j] /\ list[i] = more[k]
    <3>0. \A j \in 1..m : \E i \in 1..n : list[i] = some[j]
      BY <2>0 DEF LeftOf
    <3>1. SUFFICES ASSUME NEW j \in 1..m + 1, NEW k \in 1..m + 1, j # k
                   PROVE  \E h, i \in 1..n + 1 : h # i /\ list[h] = more[j] /\ list[i] = more[k]
      OBVIOUS
    <3>2. CASE j = m + 1
      <4>1. k \in 1..m
        BY <2>3, <3>1, <3>2
      <4>2. PICK i \in 1..n : list[i] = some[k]
        BY <3>0, <4>1
      <4> QED
        BY <1>0, <2>2, <3>2, <4>1, <4>2
    <3>3. CASE k = m + 1
      <4>1. j \in 1..m
        BY <2>3, <3>1, <3>3
      <4>2. PICK i \in 1..n : list[i] = some[j]
        BY <3>0, <4>1
      <4> QED
        BY <1>0, <2>2, <3>3, <4>1, <4>2
    <3>4. CASE j # m + 1 /\ k # m + 1
      <4>1. j \in 1..m /\ k \in 1..m
        BY <2>3, <3>4
      <4>2. PICK h \in 1..n, i \in 1..n : h # i /\ list[h] = some[j] /\ list[i] = some[k]
        BY <2>0, <3>1, <4>1 DEF LeftOf
      <4> QED
        BY <1>0, <2>2, <4>1, <4>2
    <3> QED
      BY <3>2, <3>3, <3>4
  <2>7. PICK size : size = m + 1
    OBVIOUS
  <2>8. Len(more) = size /\ 1..m + 1 = 1..size
    BY <2>2, <2>7
  <2>9. /\ \A j \in 1..size : \E i \in 1..n + 1 : list[i] = more[j] /\ list[i].id # r
        /\ \A i \in 1..n + 1 : list[i].id # r => \E j \in 1..size : more[j] = list[i]
        /\ \A j, k \in 1..size : j # k =>
             \E h, i \in 1..n + 1 : h # i /\ list[h] = more[j] /\ list[i] = more[k]
    BY <2>4, <2>5, <2>6, <2>7
  <2> QED
    BY <2>2, <2>8, <2>9 DEF LeftOf
<1> QED
  BY <1>1, <1>2

LEMMA WithoutLeaves ==
  ASSUME NEW list \in Seq(L!Entries), NEW r
  PROVE  LeftOf(list, r, Len(list), L!Without(list, r))
<1> DEFINE f == CHOOSE f : f = [i \in 0..Len(list) |-> Remains(list, r, f, i)]
<1>0. Len(list) \in Nat
  OBVIOUS
<1>1. f = [i \in 0..Len(list) |-> Remains(list, r, f, i)]
  BY <1>0, RemainsExist DEF RemainsOf
<1>2. L!Without(list, r) = f[Len(list)]
  BY DEF L!Without, Remains
<1> HIDE DEF f
<1>3. \A i \in 0..Len(list) : LeftOf(list, r, i, f[i])
  <2>1. SUFFICES ASSUME NEW n \in 0..Len(list), ~LeftOf(list, r, n, f[n]) PROVE FALSE
    OBVIOUS
  <2>2. PICK some : some = {i \in 0..Len(list) : ~LeftOf(list, r, i, f[i])}
    OBVIOUS
  <2>3. some \in SUBSET Nat /\ some # {}
    BY <2>1, <2>2
  <2>4. PICK k \in some : \A j \in some : k <= j
    BY <2>3, FirstOfSome
  <2>5. k \in 0..Len(list) /\ ~LeftOf(list, r, k, f[k])
    BY <2>2, <2>4
  <2>6. f[k] = Remains(list, r, f, k)
    BY <1>1, <2>5
  <2>7. CASE k = 0
    <3>1. PICK e : e = f[k]
      OBVIOUS
    <3>2. e = <<>>
      BY <2>6, <2>7, <3>1 DEF Remains
    <3>3. e \in Seq(L!Entries) /\ Len(e) = 0
      BY <3>2
    <3>4. LeftOf(list, r, 0, e)
      BY <3>3 DEF LeftOf
    <3> QED
      BY <2>5, <2>7, <3>1, <3>4
  <2>8. CASE k # 0
    <3>1. PICK m : m = k - 1
      OBVIOUS
    <3>2. m \in Nat /\ m + 1 = k /\ m + 1 <= Len(list) /\ m \in 0..Len(list) /\ m \notin some
      BY <1>0, <2>4, <2>5, <2>8, <3>1
    <3>3. LeftOf(list, r, m, f[m])
      BY <2>2, <3>2
    <3>4. f[k] = IF list[m + 1].id = r THEN f[m] ELSE Append(f[m], list[m + 1])
      BY <2>6, <2>8, <3>1, <3>2 DEF Remains
    <3>5. LeftOf(list, r, m + 1, f[k])
      BY <3>2, <3>3, <3>4, LeftGrows
    <3> QED
      BY <2>5, <3>2, <3>5
  <2> QED
    BY <2>7, <2>8
<1> QED
  BY <1>0, <1>2, <1>3

LEMMA OneFewer ==
  ASSUME NEW old \in Seq(L!Entries), NEW r, NEW new, new = L!Without(old, r)
  PROVE  new \in Seq(L!Entries) /\ NotOne(new, r) /\ \A s : s # r => Agrees(old, new, s)
<1>0. Len(old) \in Nat /\ DOMAIN old = 1..Len(old) /\ LeftOf(old, r, Len(old), new)
  BY WithoutLeaves
<1>a. /\ new \in Seq(L!Entries)
      /\ \A j \in 1..Len(new) : \E i \in 1..Len(old) : old[i] = new[j] /\ old[i].id # r
      /\ \A i \in 1..Len(old) : old[i].id # r => \E j \in 1..Len(new) : new[j] = old[i]
      /\ \A j, k \in 1..Len(new) : j # k =>
           \E h, i \in 1..Len(old) : h # i /\ old[h] = new[j] /\ old[i] = new[k]
  BY <1>0, Zenon DEF LeftOf
<1>1. new \in Seq(L!Entries) /\ DOMAIN new = 1..Len(new)
  BY <1>a
<1>b. PICK there, then : there = DOMAIN new /\ then = DOMAIN old
  OBVIOUS
<1>c. there = 1..Len(new) /\ then = 1..Len(old)
  BY <1>0, <1>1, <1>b
<1>d. /\ \A j \in there : \E i \in then : old[i] = new[j] /\ old[i].id # r
      /\ \A i \in then : old[i].id # r => \E j \in there : new[j] = old[i]
      /\ \A j, k \in there : j # k => \E h, i \in then : h # i /\ old[h] = new[j] /\ old[i] = new[k]
  <2>1. \A j \in there : \E i \in then : old[i] = new[j] /\ old[i].id # r
    BY ONLY <1>a, <1>c
  <2>2. \A i \in then : old[i].id # r => \E j \in there : new[j] = old[i]
    BY ONLY <1>a, <1>c
  <2>3. \A j, k \in there : j # k => \E h, i \in then : h # i /\ old[h] = new[j] /\ old[i] = new[k]
    BY ONLY <1>a, <1>c
  <2> QED
    BY <2>1, <2>2, <2>3
<1>2. \A j \in DOMAIN new : \E i \in DOMAIN old : old[i] = new[j] /\ old[i].id # r
  BY ONLY <1>b, <1>d
<1>3. \A i \in DOMAIN old : old[i].id # r => \E j \in DOMAIN new : new[j] = old[i]
  BY ONLY <1>b, <1>d
<1>4. \A j, k \in DOMAIN new : j # k =>
        \E h, i \in DOMAIN old : h # i /\ old[h] = new[j] /\ old[i] = new[k]
  BY ONLY <1>b, <1>d
<1>5. NotOne(new, r)
  BY <1>2 DEF NotOne
<1>6. ASSUME NEW s, s # r PROVE Agrees(old, new, s)
  <2>1. NotOne(old, s) => NotOne(new, s)
    BY <1>2 DEF NotOne
  <2>2. ASSUME OnlyOne(old, s) PROVE OnlyOne(new, s)
    <3>1. PICK i \in DOMAIN old : old[i].id = s /\ \A j \in DOMAIN old : old[j].id = s => j = i
      BY <2>2 DEF OnlyOne
    <3>2. PICK j \in DOMAIN new : new[j] = old[i]
      BY <1>3, <1>6, <3>1
    <3>3. ASSUME NEW k \in DOMAIN new, new[k].id = s, k # j PROVE FALSE
      <4>1. PICK g \in DOMAIN old, h \in DOMAIN old : g # h /\ old[g] = new[j] /\ old[h] = new[k]
        BY <1>4, <3>3
      <4> QED
        BY <3>1, <3>2, <3>3, <4>1
    <3> QED
      BY <3>1, <3>2, <3>3 DEF OnlyOne
  <2> QED
    BY <1>2, <2>1, <2>2 DEF Agrees
<1> QED
  BY <1>1, <1>5, <1>6

-----------------------------------------------------------------------------
(* What the server makes of a call.                                         *)
(* The one row is written, as v.                                            *)
Rewrites(q, new, v) ==
  /\ new \in [ListRows -> L!RowValues] /\ new[q.row] = v
  /\ \A r \in ListRows : r # q.row => new[r] = table[r]

Leaves(q, new) ==
  /\ new \in [ListRows -> L!RowValues]
  /\ \A r \in ListRows : q.op # "now" /\ r # q.row => new[r] = table[r]
  /\ q.op = "status" =>
       /\ table[q.row].kept = TRUE /\ new[q.row].kept = TRUE
       /\ new[q.row].status = q.status /\ new[q.row].texts = table[q.row].texts
  /\ q.op = "text" => table[q.row].kept = TRUE /\ new[q.row].kept = TRUE
  /\ q.op = "add" => new[q.row].kept = TRUE
  /\ q.op = "suggest" => new = table
  /\ q.op = "delete" => new[q.row].kept = FALSE
  /\ board = "posts" => \A r \in ListRows : table[r].kept = TRUE => new[r].kept = TRUE

LEMMA RowIs ==
  ASSUME NEW v \in L!RowValues
  PROVE  /\ v.kept \in BOOLEAN /\ v.status \in L!Status /\ v.texts \in SUBSET ListTexts
         /\ v.kept = FALSE => v = L!Absent
         /\ v.kept = TRUE => \A s \in L!Status, x \in SUBSET ListTexts :
              /\ [v EXCEPT !.status = s] \in L!RowValues /\ [v EXCEPT !.texts = x] \in L!RowValues
              /\ [v EXCEPT !.status = s].kept = TRUE /\ [v EXCEPT !.texts = x].kept = TRUE
              /\ [v EXCEPT !.status = s].status = s /\ [v EXCEPT !.status = s].texts = v.texts
<1>1. CASE v = L!Absent
  BY <1>1 DEF L!Absent, L!Status
<1>2. CASE v \in [kept : {TRUE}, status : L!Status, texts : SUBSET ListTexts]
  BY <1>2 DEF L!RowValues
<1> QED
  BY <1>1, <1>2 DEF L!RowValues

LEMMA NewRow ==
  ASSUME NEW x \in SUBSET ListTexts, NEW v, v = [kept |-> TRUE, status |-> 0, texts |-> x]
  PROVE  v \in L!RowValues /\ v.kept = TRUE
BY DEF L!RowValues, L!Status

LEMMA StoredRow ==
  ASSUME ListsTyped, NEW q, q.row \in ListRows, NEW v \in L!RowValues, NEW new \in L!Stored(q, v)
  PROVE  Rewrites(q, new, v)
BY DEF ListsTyped, L!Stored, Rewrites

LEMMA PatchedRow ==
  ASSUME ListsTyped, NEW q \in AskSet, q.row \in ListRows, NEW new \in L!Patched(q),
         q.op \in {"status", "text"}
  PROVE  Leaves(q, new)
<1>1. table[q.row] \in L!RowValues
  BY DEF ListsTyped
<1>2. table[q.row].kept = TRUE
  BY <1>1, RowIs DEF L!Patched
<1>3. PICK v : v = IF q.op = "status" THEN [table[q.row] EXCEPT !.status = q.status]
                   ELSE [table[q.row] EXCEPT !.texts = q.text]
  OBVIOUS
<1>4. q.status \in L!Status /\ q.text \in SUBSET ListTexts
  BY DEF AskSet
<1>5. /\ v \in L!RowValues /\ v.kept = TRUE
      /\ q.op = "status" => v.status = q.status /\ v.texts = table[q.row].texts
  BY <1>1, <1>2, <1>3, <1>4, RowIs
<1>6. new \in L!Stored(q, v)
  BY <1>2, <1>3 DEF L!Patched
<1>7. Rewrites(q, new, v)
  BY <1>5, <1>6, StoredRow
<1> QED
  BY <1>2, <1>5, <1>7 DEF Leaves, Rewrites

LEMMA InsertedRow ==
  ASSUME ListsTyped, NEW q \in AskSet, q.row \in ListRows, NEW new \in L!Inserted(q), q.op = "add"
  PROVE  Leaves(q, new)
<1>1. PICK v : v = [kept |-> TRUE, status |-> 0, texts |-> q.text]
  OBVIOUS
<1>2. v \in L!RowValues /\ v.kept = TRUE
  BY <1>1, NewRow DEF AskSet
<1>3. new \in L!Stored(q, v)
  BY <1>1 DEF L!Inserted
<1>4. Rewrites(q, new, v)
  BY <1>2, <1>3, StoredRow
<1> QED
  BY <1>2, <1>4 DEF Leaves, Rewrites

LEMMA CrmLeaves ==
  ASSUME ListsTyped, NEW q \in AskSet, q.row \in ListRows, NEW new \in L!CrmStores(q),
         board = "crm", q.op \in {"status", "text", "add"}
  PROVE  Leaves(q, new)
<1>1. table[q.row] \in L!RowValues /\ q.answer[q.row] \in L!RowValues
  BY DEF ListsTyped, AskSet
<1>2. CASE q.op = "add"
  <2>1. PICK v : v = [kept |-> TRUE, status |-> 0, texts |-> table[q.row].texts]
    OBVIOUS
  <2>2. v \in L!RowValues /\ v.kept = TRUE
    <3>1. table[q.row].texts \in SUBSET ListTexts
      BY <1>1, RowIs
    <3>2. PICK x : x = table[q.row].texts
      OBVIOUS
    <3> QED
      BY <2>1, <3>1, <3>2, NewRow
  <2>3. new \in L!Stored(q, v)
    BY <1>2, <2>1 DEF L!CrmStores
  <2>4. Rewrites(q, new, v)
    BY <2>2, <2>3, StoredRow
  <2> QED
    BY <1>2, <2>2, <2>4 DEF Leaves, Rewrites
<1>3. CASE q.op = "text" /\ table[q.row].kept = TRUE
  <2>1. PICK v : v = [table[q.row] EXCEPT !.texts = q.answer[q.row].texts \cup q.text]
    OBVIOUS
  <2>2. v \in L!RowValues /\ v.kept = TRUE
    <3>1. q.answer[q.row].texts \cup q.text \in SUBSET ListTexts
      BY <1>1, RowIs DEF AskSet
    <3>2. PICK x : x = q.answer[q.row].texts \cup q.text
      OBVIOUS
    <3>3. x \in SUBSET ListTexts /\ v = [table[q.row] EXCEPT !.texts = x]
      BY <2>1, <3>1, <3>2
    <3> QED
      BY <1>1, <1>3, <3>3, RowIs
  <2>3. new \in L!Stored(q, v)
    BY <1>3, <2>1 DEF L!CrmStores
  <2>4. Rewrites(q, new, v)
    BY <2>2, <2>3, StoredRow
  <2> QED
    BY <1>3, <2>2, <2>4 DEF Leaves, Rewrites
<1>4. CASE q.op # "add" /\ ~(q.op = "text" /\ table[q.row].kept = TRUE)
  <2>1. table[q.row].kept \in BOOLEAN
    BY <1>1, RowIs
  <2>2. new \in L!Patched(q)
    BY <1>4, <2>1 DEF L!CrmStores
  <2> QED
    BY <1>4, <2>2, PatchedRow
<1> QED
  BY <1>2, <1>3, <1>4

LEMMA PagesLeave ==
  ASSUME ListsTyped, NEW q \in AskSet, q.row \in ListRows, NEW new \in L!PagesStores(q),
         board = "pages", q.op \in {"status", "text", "add", "delete"}
  PROVE  Leaves(q, new)
<1>1. CASE q.op = "add"
  <2>1. new \in L!Inserted(q)
    BY <1>1 DEF L!PagesStores
  <2> QED
    BY <1>1, <2>1, InsertedRow
<1>2. CASE q.op = "delete"
  <2>1. table[q.row].kept /\ new \in L!Stored(q, L!Absent)
    BY <1>2 DEF L!PagesStores
  <2>2. L!Absent \in L!RowValues /\ L!Absent.kept = FALSE
    BY DEF L!RowValues, L!Absent
  <2>3. Rewrites(q, new, L!Absent)
    BY <2>1, <2>2, StoredRow
  <2> QED
    BY <1>2, <2>2, <2>3 DEF Leaves, Rewrites
<1>3. CASE q.op \in {"status", "text"}
  <2>1. new \in L!Patched(q)
    BY <1>3 DEF L!PagesStores
  <2> QED
    BY <1>3, <2>1, PatchedRow
<1> QED
  BY <1>1, <1>2, <1>3

LEMMA ReviewsLeave ==
  ASSUME ListsTyped, NEW q \in AskSet, q.row \in ListRows, NEW new \in L!ReviewsStores(q),
         board = "reviews", q.op \in {"status", "text", "add", "suggest"}
  PROVE  Leaves(q, new)
<1>1. CASE q.op = "add"
  <2>1. new \in L!Inserted(q)
    BY <1>1 DEF L!ReviewsStores
  <2> QED
    BY <1>1, <2>1, InsertedRow
<1>2. CASE q.op = "suggest"
  <2>1. new = table
    BY <1>2 DEF L!ReviewsStores
  <2> QED
    BY <1>2, <2>1 DEF Leaves, ListsTyped
<1>3. CASE q.op \in {"status", "text"}
  <2>1. new \in L!Patched(q)
    BY <1>3 DEF L!ReviewsStores
  <2> QED
    BY <1>3, <2>1, PatchedRow
<1> QED
  BY <1>1, <1>2, <1>3

(* A post that is cancelled was there, and stays.                           *)
LEMMA CancelledRow ==
  ASSUME ListsTyped, NEW q \in AskSet, q.row \in ListRows, table[q.row].kept = TRUE,
         NEW new, new = L!Cancelled(q)
  PROVE  /\ new \in [ListRows -> L!RowValues]
         /\ \A r \in ListRows : table[r].kept = TRUE => new[r].kept = TRUE
<1>1. table[q.row] \in L!RowValues /\ 2 \in L!Status
  BY DEF ListsTyped, L!Status
<1>2. PICK v : v = [table[q.row] EXCEPT !.status = 2]
  OBVIOUS
<1>3. v \in L!RowValues /\ v.kept = TRUE
  BY <1>1, <1>2, RowIs
<1>4. new = [table EXCEPT ![q.row] = v]
  BY <1>2 DEF L!Cancelled
<1> QED
  BY <1>3, <1>4 DEF ListsTyped

LEMMA PostsLeave ==
  ASSUME ListsTyped, NEW q \in AskSet, q.row \in ListRows, NEW new \in L!PostsStores(q),
         board = "posts", q.op \in {"status", "add", "now"},
         q.op = "now" => table[q.row].kept = TRUE
  PROVE  Leaves(q, new)
<1>1. CASE q.op = "add"
  <2>1. new \in L!Inserted(q)
    BY <1>1 DEF L!PostsStores
  <2> QED
    BY <1>1, <2>1, InsertedRow
<1>2. CASE q.op = "now"
  <2>1. PICK extra : new = [r \in ListRows |->
                              IF r = extra THEN [kept |-> TRUE, status |-> 2, texts |-> {}]
                              ELSE L!Cancelled(q)[r]]
    BY <1>2 DEF L!PostsStores
  <2>2. PICK rest : rest = L!Cancelled(q)
    OBVIOUS
  <2>3. /\ rest \in [ListRows -> L!RowValues]
        /\ \A r \in ListRows : table[r].kept = TRUE => rest[r].kept = TRUE
    BY <1>2, <2>2, CancelledRow
  <2>4. PICK v : v = [kept |-> TRUE, status |-> 2, texts |-> {}]
    OBVIOUS
  <2>5. v \in L!RowValues /\ v.kept = TRUE
    BY <2>4 DEF L!RowValues, L!Status
  <2>6. new = [r \in ListRows |-> IF r = extra THEN v ELSE rest[r]]
    BY <2>1, <2>2, <2>4
  <2>7. new \in [ListRows -> L!RowValues]
    BY <2>3, <2>5, <2>6
  <2>8. \A r \in ListRows : table[r].kept = TRUE => new[r].kept = TRUE
    BY <2>3, <2>5, <2>6
  <2> QED
    BY <1>2, <2>7, <2>8 DEF Leaves
<1>3. CASE q.op = "status"
  <2>1. new \in L!Patched(q)
    BY <1>3 DEF L!PostsStores
  <2> QED
    BY <1>3, <2>1, PatchedRow
<1> QED
  BY <1>1, <1>2, <1>3

LEMMA StoresLeave ==
  ASSUME ListsTyped, NEW q \in AskSet, Askable(q), q.at # "idle", q.op # "load",
         q.op = "now" => table[q.row].kept = TRUE, NEW new \in L!Stores(q)
  PROVE  Leaves(q, new)
<1>0. q.row \in ListRows /\ q.op \in {"status", "text", "add", "suggest", "now", "delete"}
  BY DEF Askable, AskSet, L!Ops
<1>1. CASE board = "crm"
  <2>1. new \in L!CrmStores(q)
    BY <1>1 DEF L!Stores
  <2>2. q.op \in {"status", "text", "add"}
    BY <1>0, <1>1 DEF Askable
  <2> QED
    BY <1>0, <1>1, <2>1, <2>2, CrmLeaves
<1>2. CASE board = "bookings"
  <2>1. new \in L!Patched(q)
    BY <1>2 DEF L!Stores, L!BookingsStores
  <2>2. q.op = "status"
    BY <1>0, <1>2 DEF Askable
  <2> QED
    BY <1>0, <2>1, <2>2, PatchedRow
<1>3. CASE board = "invoices"
  <2>1. q.op \in {"status", "add"}
    BY <1>0, <1>3 DEF Askable
  <2>2. IF q.op = "add" THEN new \in L!Inserted(q) ELSE new \in L!Patched(q)
    BY <1>3 DEF L!Stores, L!InvoicesStores
  <2> QED
    BY <1>0, <2>1, <2>2, PatchedRow, InsertedRow
<1>4. CASE board = "reviews"
  <2>1. new \in L!ReviewsStores(q)
    BY <1>4 DEF L!Stores
  <2>2. q.op \in {"status", "text", "add", "suggest"}
    BY <1>0, <1>4 DEF Askable
  <2> QED
    BY <1>0, <1>4, <2>1, <2>2, ReviewsLeave
<1>5. CASE board = "posts"
  <2>1. new \in L!PostsStores(q)
    BY <1>5 DEF L!Stores
  <2>2. q.op \in {"status", "add", "now"}
    BY <1>0, <1>5 DEF Askable
  <2> QED
    BY <1>0, <1>5, <2>1, <2>2, PostsLeave
<1>6. CASE board = "campaigns"
  <2>1. q.op \in {"status", "text", "add"}
    BY <1>0, <1>6 DEF Askable
  <2>2. IF q.op = "add" THEN new \in L!Inserted(q) ELSE new \in L!Patched(q)
    BY <1>6 DEF L!Stores, L!CampaignsStores
  <2> QED
    BY <1>0, <2>1, <2>2, PatchedRow, InsertedRow
<1>7. CASE board = "pages"
  <2>1. new \in L!PagesStores(q)
    BY <1>7 DEF L!Stores
  <2>2. q.op \in {"status", "text", "add", "delete"}
    BY <1>0, <1>7 DEF Askable
  <2> QED
    BY <1>0, <1>7, <2>1, <2>2, PagesLeave
<1> QED
  BY <1>1, <1>2, <1>3, <1>4, <1>5, <1>6, <1>7 DEF ListsTyped, L!Boards

-----------------------------------------------------------------------------
LEMMA CallIs ==
  ASSUME ListsTyped, NEW c \in ServerCalls
  PROVE  req[c] \in AskSet
BY DEF ListsTyped

LEMMA ConcernedIs ==
  ASSUME NEW q, q.at # "idle", q.op # "load", NEW r \in ListRows
  PROVE  r \in L!Concerned(q.op, q.row) <=> Touches(q, r)
BY DEF L!Concerned, Touches

LEMMA ChangedIs ==
  ASSUME NEW some \in SUBSET L!InFlight, NEW r \in ListRows
  PROVE  r \in L!Changed(some) <=> \E d \in some : Touches(req[d], r)
BY DEF L!Changed, L!Concerned, L!Loads, L!InFlight, Touches

LEMMA ChangedRows ==
  ASSUME NEW some \in SUBSET L!InFlight, \A c \in ServerCalls : Askable(req[c])
  PROVE  L!Changed(some) \subseteq ListRows
BY DEF L!Changed, L!Concerned, L!Loads, L!InFlight, Askable

LEMMA LoadsAre ==
  /\ \A c : c \in L!Loads <=> c \in ServerCalls /\ Loading(req[c])
  /\ \A c : c \in L!InFlight <=> c \in ServerCalls /\ req[c].at # "idle"
BY DEF L!Loads, L!InFlight, Loading

LEMMA SameValue ==
  ASSUME NEW list, NEW advice, NEW values, NEW others, NEW q, others[q.row] = values[q.row],
         AsChanging(list, advice, values, q)
  PROVE  AsChanging(list, advice, others, q)
BY DEF AsChanging, AsServed, AsAsked, AsSaved

-----------------------------------------------------------------------------
(* The page makes the call q.                                               *)
Poses(c, q) ==
  /\ req[c].at = "idle" /\ q \in AskSet /\ q.at = "sent" /\ q.op # "load" /\ Askable(q)
  /\ q.op = "now" => table[q.row].kept = TRUE
  /\ req' = [d \in ServerCalls |->
               IF d = c THEN q
               ELSE IF Loading(req[d])
               THEN [req[d] EXCEPT !.overlap = @ \cup L!Concerned(q.op, q.row)] ELSE req[d]]
  /\ asked' \in 0..MaxAsked /\ busy' \in ListRows \cup {None}
  /\ slipped' = slipped \cup {r \in L!Concerned(q.op, q.row) :
                                \/ \E d \in ServerCalls : Loading(req[d])
                                \/ \E d \in ServerCalls : Touches(req[d], r)}
  /\ UNCHANGED <<board, table, view, suggestion>>
  /\ \/ shown' = shown /\ ~(board = "crm" /\ q.op = "status")
     \/ /\ board = "crm" /\ q.op = "status"
        /\ \E i \in DOMAIN shown :
             shown[i].id = q.row /\ shown' = L!With(shown, [shown[i] EXCEPT !.status = q.status])

LEMMA PosesShown ==
  ASSUME ListsInv, NEW c \in ServerCalls, NEW q, Poses(c, q)
  PROVE  /\ shown' \in Seq(L!Entries) /\ (board = "posts" => shown' = shown)
         /\ \A s : s # q.row => Agrees(shown, shown', s)
         /\ AsSaved(shown, suggestion, table, q.row) => AsAsked(shown', suggestion, table, q)
<1>0. shown \in Seq(L!Entries) /\ q.status \in L!Status
  BY DEF ListsInv, ListsTyped, Poses, AskSet
<1>1. CASE shown' = shown /\ ~(board = "crm" /\ q.op = "status")
  <2>1. \A s : Agrees(shown, shown', s)
    BY <1>1 DEF Agrees
  <2>2. AsSaved(shown, suggestion, table, q.row) => AsAsked(shown', suggestion, table, q)
    BY <1>1 DEF AsSaved, AsAsked
  <2> QED
    BY <1>0, <1>1, <2>1, <2>2
<1>2. CASE board = "crm" /\ q.op = "status"
  <2>1. PICK i \in DOMAIN shown :
          shown[i].id = q.row /\ shown' = L!With(shown, [shown[i] EXCEPT !.status = q.status])
    BY <1>2 DEF Poses
  <2>2. PICK e : e = [shown[i] EXCEPT !.status = q.status]
    OBVIOUS
  <2>3. e \in L!Entries /\ e.id = q.row /\ e.status = q.status /\ e.texts = shown[i].texts
    <3>1. shown[i] \in L!Entries
      BY <1>0
    <3> QED
      BY <1>0, <2>1, <2>2, <3>1 DEF L!Entries
  <2>4. PICK new : new = shown'
    OBVIOUS
  <2>5. new = L!With(shown, e)
    BY <2>1, <2>2, <2>4
  <2>6. /\ new \in Seq(L!Entries) /\ Edits(shown, new, e.id)
        /\ \A j \in DOMAIN new : new[j].id = e.id => new[j] = e
    BY <1>0, <2>3, <2>5, WithEdits
  <2>7. /\ \A s : s # q.row => Agrees(shown, new, s)
        /\ OnlyOne(shown, q.row) => OnlyOne(new, q.row)
        /\ NotOne(shown, q.row) => NotOne(new, q.row)
    BY <2>3, <2>6, EditsAgree
  <2>8. ASSUME AsSaved(shown, suggestion, table, q.row) PROVE AsAsked(new, suggestion, table, q)
    <3>1. AsKept(new, q.row, table[q.row].kept)
      BY <2>7, <2>8 DEF AsSaved, AsKept
    <3>2. StatusIs(new, q.row, q.status)
      BY <2>3, <2>6 DEF StatusIs
    <3>3. TextsAre(new, suggestion, q.row, table[q.row].texts)
      <4>1. suggestion[q.row] = {} => e.texts = table[q.row].texts
        BY <2>1, <2>3, <2>8 DEF AsSaved, TextsAre
      <4> QED
        BY <2>3, <2>6, <4>1 DEF TextsAre
    <3> QED
      BY <1>2, <3>1, <3>2, <3>3 DEF AsAsked
  <2> QED
    BY <1>2, <2>4, <2>6, <2>7, <2>8
<1> QED
  BY <1>1, <1>2 DEF Poses

LEMMA PosesKept ==
  ASSUME ListsInv, NEW c \in ServerCalls, NEW q, Poses(c, q)
  PROVE  ListsInv'
<1>1. /\ req[c] \in AskSet /\ req[c].at = "idle" /\ q \in AskSet /\ q.at = "sent" /\ q.op # "load"
      /\ Askable(q) /\ q.row \in ListRows
      /\ UNCHANGED <<board, table, view, suggestion>>
  BY CallIs DEF ListsInv, Poses, Askable
<1>2. req'[c] = q
  BY DEF Poses
<1>3. \A d \in ServerCalls \ {c} : ~Loading(req[d]) => req'[d] = req[d]
  BY DEF Poses
<1>4. \A d \in ServerCalls \ {c} : Loading(req[d]) =>
        /\ req'[d] \in AskSet /\ req'[d].at = req[d].at /\ req'[d].op = req[d].op
        /\ req'[d].row = req[d].row /\ req'[d].answer = req[d].answer
        /\ req'[d].overlap = req[d].overlap \cup L!Concerned(q.op, q.row)
  <2>1. TAKE d \in ServerCalls \ {c}
  <2>2. HAVE Loading(req[d])
  <2>3. req'[d] = [req[d] EXCEPT !.overlap = @ \cup L!Concerned(q.op, q.row)]
    BY <2>2 DEF Poses
  <2>4. req[d] \in AskSet
    BY CallIs DEF ListsInv
  <2>5. L!Concerned(q.op, q.row) \subseteq ListRows
    BY <1>1 DEF L!Concerned
  <2> QED
    BY <2>3, <2>4, <2>5 DEF AskSet
<1>5. ~Loading(q) /\ \A r \in ListRows : ~Touches(req[c], r)
  BY <1>1 DEF Loading, Touches
<1>6. \A d \in ServerCalls \ {c} :
        /\ Loading(req'[d]) <=> Loading(req[d])
        /\ \A r \in ListRows : Touches(req'[d], r) <=> Touches(req[d], r)
  BY <1>3, <1>4 DEF Loading, Touches
<1>7. \A r \in ListRows : r \in L!Concerned(q.op, q.row) <=> Touches(q, r)
  BY <1>1, ConcernedIs
<1>8. /\ slipped \subseteq slipped'
      /\ \A r \in ListRows, d \in ServerCalls :
           Touches(q, r) /\ (Loading(req[d]) \/ Touches(req[d], r)) => r \in slipped'
  BY <1>7 DEF Poses
<1>9. ListsTyped'
  <2>1. req' \in [ServerCalls -> AskSet]
    <3>1. \A d \in ServerCalls : req'[d] \in AskSet
      BY <1>1, <1>2, <1>3, <1>4, CallIs DEF ListsInv
    <3>2. req' = [d \in ServerCalls |-> req'[d]]
      BY DEF Poses
    <3> QED
      BY <3>1, <3>2
  <2>2. L!Concerned(q.op, q.row) \subseteq ListRows
    BY <1>1 DEF L!Concerned
  <2>3. slipped' \subseteq ListRows
    BY <2>2 DEF Poses, ListsInv, ListsTyped
  <2>4. shown' \in Seq(L!Entries)
    BY PosesShown
  <2> QED
    BY <1>1, <2>1, <2>3, <2>4 DEF Poses, ListsInv, ListsTyped, AskSet
<1>10. \A d \in ServerCalls : Askable(req[d])'
  <2>1. \A d \in ServerCalls : Askable(req[d])
    BY DEF ListsInv
  <2>2. \A d \in ServerCalls \ {c} : Loading(req[d]) \/ req'[d] = req[d]
    BY <1>3
  <2>3. \A d \in ServerCalls \ {c} : Loading(req[d]) => req'[d].op = "load"
    BY <1>4 DEF Loading
  <2> QED
    BY <1>1, <1>2, <2>1, <2>2, <2>3 DEF Askable
<1>11. LoadsStand'
  <2>1. SUFFICES ASSUME NEW d \in ServerCalls, Loading(req'[d])
                 PROVE  /\ \A r \in ListRows, e \in ServerCalls :
                             Touches(req'[e], r) => r \in req'[d].overlap /\ r \in slipped'
                        /\ req'[d].at = "served" =>
                             \A r \in ListRows \ req'[d].overlap : req'[d].answer[r] = table'[r]
    BY DEF LoadsStand
  <2>2. d \in ServerCalls \ {c} /\ Loading(req[d])
    BY <1>2, <1>5, <1>6, <2>1
  <2>3. /\ \A r \in ListRows, e \in ServerCalls :
             Touches(req[e], r) => r \in req[d].overlap /\ r \in slipped
        /\ req[d].at = "served" =>
             \A r \in ListRows \ req[d].overlap : req[d].answer[r] = table[r]
    BY <2>2 DEF ListsInv, LoadsStand
  <2>4. ASSUME NEW r \in ListRows, NEW e \in ServerCalls, Touches(req'[e], r)
        PROVE  r \in req'[d].overlap /\ r \in slipped'
    <3>1. CASE e = c
      BY <1>2, <1>4, <1>7, <1>8, <2>2, <2>4, <3>1
    <3>2. CASE e # c
      BY <1>4, <1>6, <1>8, <2>2, <2>3, <2>4, <3>2
    <3> QED
      BY <3>1, <3>2
  <2>5. req'[d].at = "served" => \A r \in ListRows \ req'[d].overlap : req'[d].answer[r] = table'[r]
    BY <1>1, <1>4, <2>2, <2>3
  <2> QED
    BY <2>4, <2>5
<1>12. OneChange'
  <2>1. SUFFICES ASSUME NEW r \in ListRows \ slipped', NEW d \in ServerCalls, NEW e \in ServerCalls,
                        Touches(req'[d], r), Touches(req'[e], r), d # e
                 PROVE  FALSE
    BY DEF OneChange
  <2>2. r \in ListRows \ slipped
    BY <1>8
  <2>3. CASE d = c
    BY <1>2, <1>6, <1>8, <2>1, <2>3
  <2>4. CASE e = c
    BY <1>2, <1>6, <1>8, <2>1, <2>4
  <2>5. CASE d # c /\ e # c
    BY <1>6, <2>1, <2>2, <2>5 DEF ListsInv, OneChange
  <2> QED
    BY <2>3, <2>4, <2>5
<1>13. PostsStay'
  <2>1. ASSUME board = "posts" PROVE PostsStay'
    <3>1. UNCHANGED <<shown, table>>
      BY <1>1, <2>1, PosesShown
    <3>2. \A d \in ServerCalls \ {c} : req'[d].at = req[d].at /\ req'[d].answer = req[d].answer
                                       /\ req'[d].op = req[d].op /\ req'[d].row = req[d].row
      BY <1>3, <1>4
    <3> QED
      BY <1>1, <1>2, <2>1, <3>1, <3>2 DEF ListsInv, PostsStay, Poses
  <2> QED
    BY <1>1, <2>1 DEF PostsStay
<1>14. RowsAreShown'
  <2>1. SUFFICES ASSUME Steady', NEW r \in ListRows \ slipped' PROVE RowIsShown(r)'
    BY DEF RowsAreShown
  <2>2. Steady /\ \A d \in ServerCalls : ~Loading(req[d])
    <3>1. \A d \in ServerCalls : ~Loading(req[d])
      BY <1>1, <1>6, <2>1 DEF Steady, Loading
    <3> QED
      BY <1>1, <2>1, <3>1 DEF Steady
  <2>3. r \in ListRows \ slipped /\ RowIsShown(r)
    BY <1>8, <2>1, <2>2 DEF ListsInv, RowsAreShown
  <2>4. CASE Touches(q, r)
    <3>1. \A d \in ServerCalls : ~Touches(req[d], r)
      BY <1>8, <2>1, <2>4
    <3>2. AsSaved(shown, suggestion, table, r)
      BY <2>3, <3>1 DEF RowIsShown
    <3>3. q.op # "now" => q.row = r
      BY <2>4 DEF Touches
    <3>4. q.op # "now" => AsAsked(shown', suggestion, table, q)
      BY <3>2, <3>3, PosesShown
    <3>6. q.op # "now" => AsChanging(shown, suggestion, table, req[c])'
      BY <1>1, <1>2, <3>4 DEF AsChanging, AsAsked
    <3>7. \A d \in ServerCalls \ {c} : ~Touches(req'[d], r)
      BY <1>6, <2>1, <3>1
    <3> QED
      BY <1>2, <2>4, <3>6, <3>7 DEF RowIsShown
  <2>5. CASE ~Touches(q, r)
    <3>0. r # q.row
      BY <1>1, <2>5 DEF Touches
    <3>1. Agrees(shown, shown', r)
      BY <3>0, PosesShown
    <3>2. \A d \in ServerCalls \ {c} : req'[d] = req[d]
      BY <1>3, <2>2
    <3>3. ASSUME \A d \in ServerCalls : ~Touches(req'[d], r) PROVE AsSaved(shown', suggestion', table', r)
      <4>1. \A d \in ServerCalls : ~Touches(req[d], r)
        BY <1>5, <3>2, <3>3
      <4>2. AsSaved(shown, suggestion, table, r)
        BY <2>3, <4>1 DEF RowIsShown
      <4>3. PICK new : new = shown'
        OBVIOUS
      <4>4. AsSaved(new, suggestion, table, r)
        BY <3>1, <4>2, <4>3, AgreeSaved
      <4> QED
        BY <1>1, <4>3, <4>4
    <3>4. ASSUME NEW d \in ServerCalls, Touches(req'[d], r), req'[d].op # "now"
          PROVE  AsChanging(shown', suggestion', table', req'[d])
      <4>1. d # c /\ req'[d] = req[d]
        BY <1>2, <2>5, <3>2, <3>4
      <4>2. AsChanging(shown, suggestion, table, req[d]) /\ req[d].row = r
        BY <2>3, <3>4, <4>1 DEF RowIsShown, Touches
      <4>3. PICK new : new = shown'
        OBVIOUS
      <4>4. AsChanging(new, suggestion, table, req[d])
        BY <3>1, <4>2, <4>3, AgreeChanging
      <4> QED
        BY <1>1, <4>1, <4>3, <4>4
    <3>5. \A d \in ServerCalls : Touches(req'[d], r) /\ req'[d].op # "now" =>
            AsChanging(shown, suggestion, table, req[d])'
      BY <1>1, <3>4 DEF AsChanging, AsServed, AsAsked
    <3>6. (\A d \in ServerCalls : ~Touches(req'[d], r)) => AsSaved(shown, suggestion, table, r)'
      BY <3>3 DEF AsSaved
    <3> QED
      BY <3>5, <3>6 DEF RowIsShown
  <2> QED
    BY <2>4, <2>5
<1> QED
  BY <1>9, <1>10, <1>11, <1>12, <1>13, <1>14 DEF ListsInv

-----------------------------------------------------------------------------
LEMMA SentPoses ==
  ASSUME ListsAssumption, ListsInv, NEW c \in ServerCalls, NEW op \in L!Ops, NEW r \in ListRows, NEW value \in L!Status,
         NEW words \in SUBSET ListTexts, L!Sent(c, op, r, value, words), op # "load",
         op = "now" => table[r].kept = TRUE,
         NEW q, q = [L!Idle EXCEPT !.at = "sent", !.op = op, !.row = r, !.status = value, !.text = words],
         Askable(q), busy' \in ListRows \cup {None},
         \/ shown' = shown /\ ~(board = "crm" /\ op = "status")
         \/ /\ board = "crm" /\ op = "status"
            /\ \E i \in DOMAIN shown :
                 shown[i].id = r /\ shown' = L!With(shown, [shown[i] EXCEPT !.status = value])
  PROVE  ListsInv'
<1>1. L!Absent \in L!RowValues
  BY DEF L!RowValues
<1>2. /\ q \in AskSet /\ q.at = "sent" /\ q.op = op /\ q.row = r /\ q.status = value /\ q.text = words
  BY <1>1 DEF AskSet, L!Idle, L!Status
<1>3. asked' \in 0..MaxAsked
  BY DEF ListsAssumption, L!Sent, ListsInv, ListsTyped
<1>4. req' = [d \in ServerCalls |->
               IF d = c THEN q
               ELSE IF Loading(req[d])
               THEN [req[d] EXCEPT !.overlap = @ \cup L!Concerned(op, r)] ELSE req[d]]
  BY LoadsAre DEF L!Sent
<1>5. slipped' = slipped \cup {s \in L!Concerned(op, r) :
                                \/ \E d \in ServerCalls : Loading(req[d])
                                \/ \E d \in ServerCalls : Touches(req[d], s)}
  <2>1. L!Loads # {} <=> \E d \in ServerCalls : Loading(req[d])
    BY LoadsAre
  <2>2. \A s \in ListRows : s \in L!Changed(L!InFlight) <=> \E d \in ServerCalls : Touches(req[d], s)
    <3>1. \A s \in ListRows : s \in L!Changed(L!InFlight) <=> \E d \in L!InFlight : Touches(req[d], s)
      BY ChangedIs
    <3> QED
      BY <3>1, LoadsAre DEF Touches
  <2>3. L!Concerned(op, r) \subseteq ListRows
    BY DEF L!Concerned
  <2> QED
    BY <2>1, <2>2, <2>3 DEF L!Sent
<1>6. req[c].at = "idle" /\ UNCHANGED <<board, table, view, suggestion>>
  BY DEF L!Sent
<1>7. \/ shown' = shown /\ ~(board = "crm" /\ q.op = "status")
      \/ /\ board = "crm" /\ q.op = "status"
         /\ \E i \in DOMAIN shown :
              shown[i].id = q.row /\ shown' = L!With(shown, [shown[i] EXCEPT !.status = q.status])
  BY <1>2
<1>8. Poses(c, q)
  BY <1>2, <1>3, <1>4, <1>5, <1>6, <1>7 DEF Poses
<1> QED
  BY <1>8, PosesKept

(* The row of an entry on the screen, and what can be asked for it.         *)
LEMMA ShownIs ==
  ASSUME ListsInv, NEW i \in DOMAIN shown
  PROVE  /\ shown[i] \in L!Entries /\ shown[i].id \in ListRows /\ shown[i].status \in L!Status
         /\ board = "posts" => table[shown[i].id].kept = TRUE
<1>1. shown \in Seq(L!Entries)
  BY DEF ListsInv, ListsTyped
<1>2. shown[i] \in L!Entries
  BY <1>1
<1>3. board = "posts" => table[shown[i].id].kept = TRUE
  BY DEF ListsInv, PostsStay
<1> QED
  BY <1>2, <1>3 DEF L!Entries

LEMMA AsksStatus ==
  ASSUME ListsAssumption, ListsInv, NEW c \in ServerCalls, NEW i \in DOMAIN shown, NEW value \in L!Status,
         L!AskStatus(c, shown[i], value)
  PROVE  ListsInv'
<1>1. PICK q : q = [L!Idle EXCEPT !.at = "sent", !.op = "status", !.row = shown[i].id,
                                  !.status = value, !.text = {}]
  OBVIOUS
<1>2. Askable(q)
  BY <1>1, ShownIs DEF Askable, L!Idle
<1>3. L!Sent(c, "status", shown[i].id, value, {}) /\ busy' \in ListRows \cup {None}
  BY ShownIs DEF L!AskStatus, ListsInv, ListsTyped
<1>4. shown' = IF board = "crm" THEN L!With(shown, [shown[i] EXCEPT !.status = value]) ELSE shown
  BY DEF L!AskStatus
<1>5. "status" \in L!Ops /\ {} \in SUBSET ListTexts
  BY DEF L!Ops
<1> QED
  BY <1>1, <1>2, <1>3, <1>4, <1>5, ShownIs, SentPoses

LEMMA AsksText ==
  ASSUME ListsAssumption, ListsInv, NEW c \in ServerCalls, NEW i \in DOMAIN shown, NEW words \in ListTexts,
         L!AskText(c, shown[i], words)
  PROVE  ListsInv'
<1>1. PICK q : q = [L!Idle EXCEPT !.at = "sent", !.op = "text", !.row = shown[i].id,
                                  !.status = shown[i].status, !.text = {words}]
  OBVIOUS
<1>2. Askable(q)
  <2>1. board \notin {"bookings", "invoices", "posts"}
    BY DEF L!AskText, L!OffersText
  <2> QED
    BY <1>1, <2>1, ShownIs DEF Askable, L!Idle
<1>3. L!Sent(c, "text", shown[i].id, shown[i].status, {words}) /\ busy' \in ListRows \cup {None}
      /\ shown' = shown
  BY DEF L!AskText, ListsInv, ListsTyped
<1>4. "text" \in L!Ops /\ {words} \in SUBSET ListTexts
  BY DEF L!Ops
<1> QED
  BY <1>1, <1>2, <1>3, <1>4, ShownIs, SentPoses

LEMMA AsksAdd ==
  ASSUME ListsAssumption, ListsInv, NEW c \in ServerCalls, NEW r \in ListRows, NEW words \in ListTexts,
         L!AskAdd(c, r, words)
  PROVE  ListsInv'
<1>1. PICK q : q = [L!Idle EXCEPT !.at = "sent", !.op = "add", !.row = r, !.status = 0, !.text = {words}]
  OBVIOUS
<1>2. Askable(q)
  BY <1>1 DEF Askable, L!Idle, L!AskAdd
<1>3. L!Sent(c, "add", r, 0, {words}) /\ busy' \in ListRows \cup {None} /\ shown' = shown
  BY DEF L!AskAdd, ListsInv, ListsTyped
<1>4. "add" \in L!Ops /\ {words} \in SUBSET ListTexts /\ 0 \in L!Status
  BY DEF L!Ops, L!Status
<1> QED
  BY <1>1, <1>2, <1>3, <1>4, SentPoses

LEMMA AsksOther ==
  ASSUME ListsAssumption, ListsInv, NEW c \in ServerCalls, NEW i \in DOMAIN shown, NEW words \in ListTexts,
         L!AskOther(c, shown[i], words)
  PROVE  ListsInv'
<1>0. shown' = shown /\ shown[i].id \in ListRows /\ shown[i].status \in L!Status /\ busy \in ListRows \cup {None}
  BY ShownIs DEF L!AskOther, ListsInv, ListsTyped
<1>1. CASE board = "reviews" /\ L!Sent(c, "suggest", shown[i].id, shown[i].status, {words}) /\ busy' = busy
  <2>1. PICK q : q = [L!Idle EXCEPT !.at = "sent", !.op = "suggest", !.row = shown[i].id,
                                    !.status = shown[i].status, !.text = {words}]
    OBVIOUS
  <2>2. Askable(q)
    BY <1>0, <1>1, <2>1 DEF Askable, L!Idle
  <2>3. "suggest" \in L!Ops /\ {words} \in SUBSET ListTexts
    BY DEF L!Ops
  <2> QED
    BY <1>0, <1>1, <2>1, <2>2, <2>3, SentPoses
<1>2. CASE board = "posts" /\ L!Sent(c, "now", shown[i].id, 2, {}) /\ busy' = shown[i].id
  <2>1. PICK q : q = [L!Idle EXCEPT !.at = "sent", !.op = "now", !.row = shown[i].id,
                                    !.status = 2, !.text = {}]
    OBVIOUS
  <2>2. Askable(q)
    BY <1>0, <1>2, <2>1 DEF Askable, L!Idle
  <2>3. table[shown[i].id].kept = TRUE
    BY <1>2, ShownIs
  <2>4. "now" \in L!Ops /\ {} \in SUBSET ListTexts /\ 2 \in L!Status
    BY DEF L!Ops, L!Status
  <2> QED
    BY <1>0, <1>2, <2>1, <2>2, <2>3, <2>4, SentPoses
<1>3. CASE board = "pages" /\ L!Sent(c, "delete", shown[i].id, 0, {}) /\ busy' = busy
  <2>1. PICK q : q = [L!Idle EXCEPT !.at = "sent", !.op = "delete", !.row = shown[i].id,
                                    !.status = 0, !.text = {}]
    OBVIOUS
  <2>2. Askable(q)
    BY <1>0, <1>3, <2>1 DEF Askable, L!Idle
  <2>3. "delete" \in L!Ops /\ {} \in SUBSET ListTexts /\ 0 \in L!Status
    BY DEF L!Ops, L!Status
  <2> QED
    BY <1>0, <1>3, <2>1, <2>2, <2>3, SentPoses
<1> QED
  BY <1>1, <1>2, <1>3 DEF L!AskOther

-----------------------------------------------------------------------------
(* The server is at call c, which goes on as q.                             *)
Serves(c, q) ==
  /\ req[c].at \in {"sent", "read"} /\ q \in AskSet /\ q.at # "idle"
  /\ req' = [req EXCEPT ![c] = q]
  /\ q.op = req[c].op /\ q.row = req[c].row /\ q.status = req[c].status /\ q.text = req[c].text
  /\ q.overlap = req[c].overlap
  /\ table' \in [ListRows -> L!RowValues]
  /\ \A r \in ListRows : ~Touches(req[c], r) => table'[r] = table[r]
  /\ board = "posts" => \A r \in ListRows : table[r].kept = TRUE => table'[r].kept = TRUE
  /\ q.at = "served" => q.answer = table'
  /\ UNCHANGED <<board, shown, view, busy, suggestion, asked, slipped>>

LEMMA ServesKept ==
  ASSUME ListsInv, NEW c \in ServerCalls, NEW q, Serves(c, q),
         q.op \notin {"load", "now"} => \A list :
           AsAsked(list, suggestion, table, req[c]) => AsChanging(list, suggestion, table', q)
  PROVE  ListsInv'
<1>1. /\ req[c] \in AskSet /\ req[c].at \in {"sent", "read"} /\ q \in AskSet /\ q.at # "idle"
      /\ q.op = req[c].op /\ q.row = req[c].row /\ q.text = req[c].text
      /\ q.overlap = req[c].overlap
      /\ UNCHANGED <<board, shown, view, busy, suggestion, asked, slipped>>
  BY CallIs DEF ListsInv, Serves
<1>2. req'[c] = q /\ \A d \in ServerCalls \ {c} : req'[d] = req[d]
  BY DEF Serves, ListsInv, ListsTyped
<1>3. \A d \in ServerCalls :
        /\ Loading(req'[d]) <=> Loading(req[d])
        /\ \A r \in ListRows : Touches(req'[d], r) <=> Touches(req[d], r)
        /\ req'[d].overlap = req[d].overlap /\ req'[d].op = req[d].op /\ req'[d].row = req[d].row
  BY <1>1, <1>2 DEF Loading, Touches
<1>4. ListsTyped'
  BY <1>1 DEF Serves, ListsInv, ListsTyped
<1>5. \A d \in ServerCalls : Askable(req[d])'
  BY <1>1, <1>2 DEF ListsInv, Askable
<1>6. LoadsStand'
  <2>1. SUFFICES ASSUME NEW d \in ServerCalls, Loading(req'[d])
                 PROVE  /\ \A r \in ListRows, e \in ServerCalls :
                             Touches(req'[e], r) => r \in req'[d].overlap /\ r \in slipped'
                        /\ req'[d].at = "served" =>
                             \A r \in ListRows \ req'[d].overlap : req'[d].answer[r] = table'[r]
    BY DEF LoadsStand
  <2>2. /\ \A r \in ListRows, e \in ServerCalls :
             Touches(req[e], r) => r \in req[d].overlap /\ r \in slipped
        /\ req[d].at = "served" =>
             \A r \in ListRows \ req[d].overlap : req[d].answer[r] = table[r]
    BY <1>3, <2>1 DEF ListsInv, LoadsStand
  <2>3. \A r \in ListRows, e \in ServerCalls :
          Touches(req'[e], r) => r \in req'[d].overlap /\ r \in slipped'
    BY <1>1, <1>3, <2>2
  <2>4. CASE d = c
    BY <1>2, <2>3, <2>4 DEF Serves
  <2>5. CASE d # c
    <3>1. \A r \in ListRows \ req[d].overlap : table'[r] = table[r]
      BY <2>2 DEF Serves
    <3> QED
      BY <1>2, <2>2, <2>3, <2>5, <3>1
  <2> QED
    BY <2>4, <2>5
<1>7. OneChange'
  BY <1>1, <1>3 DEF ListsInv, OneChange
<1>8. PostsStay'
  <2>1. ASSUME board = "posts" PROVE PostsStay'
    <3>1. \A r \in ListRows : table[r].kept = TRUE => table'[r].kept = TRUE
      BY <2>1 DEF Serves
    <3>2. \A i \in DOMAIN shown' : table'[shown'[i].id].kept = TRUE
      BY <1>1, <2>1, <3>1, ShownIs
    <3>3. ASSUME NEW d \in ServerCalls
          PROVE  /\ req'[d].at = "served" =>
                      \A r \in ListRows : req'[d].answer[r].kept = TRUE => table'[r].kept = TRUE
                 /\ req'[d].at # "idle" /\ req'[d].op = "now" => table'[req'[d].row].kept = TRUE
      <4>1. /\ req[d].at = "served" =>
                 \A r \in ListRows : req[d].answer[r].kept = TRUE => table[r].kept = TRUE
            /\ req[d].at # "idle" /\ req[d].op = "now" => table[req[d].row].kept = TRUE
        BY <2>1 DEF ListsInv, PostsStay
      <4>2. req[d].at # "idle" /\ req[d].op = "now" => req[d].row \in ListRows
        BY DEF ListsInv, Askable
      <4>3. CASE d = c
        BY <1>1, <1>2, <3>1, <4>1, <4>2, <4>3 DEF Serves
      <4>4. CASE d # c
        BY <1>2, <3>1, <4>1, <4>2, <4>4
      <4> QED
        BY <4>3, <4>4
    <3> QED
      BY <3>2, <3>3 DEF PostsStay
  <2> QED
    BY <1>1, <2>1 DEF PostsStay
<1>9. RowsAreShown'
  <2>1. SUFFICES ASSUME Steady', NEW r \in ListRows \ slipped' PROVE RowIsShown(r)'
    BY DEF RowsAreShown
  <2>2. RowIsShown(r)
    BY <1>1, <1>3, <2>1 DEF ListsInv, RowsAreShown, Steady
  <2>3. ASSUME \A d \in ServerCalls : ~Touches(req'[d], r) PROVE AsSaved(shown', suggestion', table', r)
    <3>1. table'[r] = table[r] /\ AsSaved(shown, suggestion, table, r)
      BY <1>3, <2>2, <2>3 DEF RowIsShown, Serves
    <3> QED
      BY <1>1, <3>1 DEF AsSaved
  <2>4. ASSUME NEW d \in ServerCalls, Touches(req'[d], r), req'[d].op # "now"
        PROVE  AsChanging(shown', suggestion', table', req'[d])
    <3>1. Touches(req[d], r) /\ req[d].row = r /\ AsChanging(shown, suggestion, table, req[d])
      BY <1>3, <2>2, <2>4 DEF RowIsShown, Touches
    <3>2. CASE d = c
      <4>1. AsAsked(shown, suggestion, table, req[c])
        BY <1>1, <3>1, <3>2 DEF AsChanging
      <4>2. q.op \notin {"load", "now"}
        BY <1>2, <2>4, <3>2 DEF Touches
      <4> QED
        BY <1>1, <1>2, <3>2, <4>1, <4>2
    <3>3. CASE d # c
      <4>1. ~Touches(req[c], r)
        BY <1>1, <2>1, <3>1, <3>3 DEF ListsInv, OneChange
      <4>2. table'[r] = table[r]
        BY <4>1 DEF Serves
      <4>3. PICK others : others = table'
        OBVIOUS
      <4>4. AsChanging(shown, suggestion, others, req[d])
        BY <3>1, <4>2, <4>3, SameValue
      <4> QED
        BY <1>1, <1>2, <3>3, <4>3, <4>4
    <3> QED
      BY <3>2, <3>3
  <2>5. \A d \in ServerCalls : Touches(req'[d], r) /\ req'[d].op # "now" =>
          AsChanging(shown, suggestion, table, req[d])'
    BY <1>1, <2>4 DEF AsChanging, AsServed, AsAsked
  <2>6. (\A d \in ServerCalls : ~Touches(req'[d], r)) => AsSaved(shown, suggestion, table, r)'
    BY <2>3 DEF AsSaved
  <2> QED
    BY <2>5, <2>6 DEF RowIsShown
<1> QED
  BY <1>4, <1>5, <1>6, <1>7, <1>8, <1>9 DEF ListsInv

-----------------------------------------------------------------------------
LEMMA ServesLoad ==
  ASSUME ListsInv, NEW c \in ServerCalls, L!ServeLoad(c) PROVE ListsInv'
<1>1. PICK q : q = [req[c] EXCEPT !.at = "served", !.answer = table]
  OBVIOUS
<1>2. req[c] \in AskSet /\ table \in [ListRows -> L!RowValues] /\ req \in [ServerCalls -> AskSet]
  BY CallIs DEF ListsInv, ListsTyped
<1>3. /\ q \in AskSet /\ q.at = "served" /\ q.answer = table /\ q.op = req[c].op /\ q.row = req[c].row
      /\ q.status = req[c].status /\ q.text = req[c].text /\ q.overlap = req[c].overlap
  BY <1>1, <1>2 DEF AskSet
<1>4. /\ req[c].at = "sent" /\ req[c].op = "load" /\ table' = table
      /\ UNCHANGED <<board, shown, view, busy, suggestion, asked, slipped>>
  BY DEF L!ServeLoad
<1>5. req' = [req EXCEPT ![c] = q]
  BY <1>1, <1>2, <1>4 DEF L!ServeLoad, L!Served
<1>6. Serves(c, q)
  BY <1>2, <1>3, <1>4, <1>5 DEF Serves
<1> QED
  BY <1>3, <1>4, <1>6, ServesKept

LEMMA ReadsNotes ==
  ASSUME ListsInv, NEW c \in ServerCalls, L!ReadNotes(c) PROVE ListsInv'
<1>1. PICK q : q = [req[c] EXCEPT !.at = "read", !.answer = table]
  OBVIOUS
<1>2. req[c] \in AskSet /\ table \in [ListRows -> L!RowValues] /\ req \in [ServerCalls -> AskSet]
  BY CallIs DEF ListsInv, ListsTyped
<1>3. /\ q \in AskSet /\ q.at = "read" /\ q.op = req[c].op /\ q.row = req[c].row
      /\ q.status = req[c].status /\ q.text = req[c].text /\ q.overlap = req[c].overlap
  BY <1>1, <1>2 DEF AskSet
<1>4. req[c].at = "sent" /\ UNCHANGED <<board, table, shown, view, busy, suggestion, asked, slipped>>
  BY DEF L!ReadNotes
<1>5. req' = [req EXCEPT ![c] = q]
  BY <1>1, <1>2 DEF L!ReadNotes
<1>6. Serves(c, q)
  BY <1>2, <1>3, <1>4, <1>5 DEF Serves
<1>7. \A list : AsAsked(list, suggestion, table, req[c]) => AsChanging(list, suggestion, table, q)
  BY <1>3 DEF AsChanging, AsAsked
<1> QED
  BY <1>4, <1>6, <1>7, ServesKept

LEMMA AnswerIsTrue ==
  ASSUME ListsInv, NEW c \in ServerCalls, req[c].at # "idle", req[c].op # "now",
         NEW new, Leaves(req[c], new),
         NEW q, q.op = req[c].op, q.row = req[c].row, q.status = req[c].status, q.at = "served",
         q.answer = new, NEW list, AsAsked(list, suggestion, table, req[c])
  PROVE  AsChanging(list, suggestion, new, q)
<1>1. q.op = "status" =>
        /\ new[q.row].kept = TRUE /\ new[q.row].status = q.status /\ OnlyOne(list, q.row)
        /\ TextsAre(list, suggestion, q.row, new[q.row].texts)
        /\ board = "crm" => StatusIs(list, q.row, q.status)
  BY DEF Leaves, AsAsked, AsKept
<1>2. q.op = "text" => new[q.row].kept = TRUE /\ OnlyOne(list, q.row)
  BY DEF Leaves, AsAsked, AsKept
<1>3. ASSUME q.op = "suggest" PROVE AsSaved(list, suggestion, new, q.row)
  BY <1>3 DEF Leaves, AsAsked, AsSaved
<1> QED
  BY <1>1, <1>2, <1>3 DEF AsChanging, AsServed, Leaves

LEMMA ServesChange ==
  ASSUME ListsInv, NEW c \in ServerCalls, L!ServeChange(c) PROVE ListsInv'
<1>1. /\ req[c] \in AskSet /\ table \in [ListRows -> L!RowValues] /\ req \in [ServerCalls -> AskSet]
      /\ ListsTyped /\ Askable(req[c])
  BY CallIs DEF ListsInv, ListsTyped
<1>2. /\ req[c].op # "load" /\ req[c].at \in {"sent", "read"}
      /\ UNCHANGED <<board, shown, view, busy, suggestion, asked, slipped>>
  BY DEF L!ServeChange
<1>3. req[c].op = "now" => board = "posts" /\ table[req[c].row].kept = TRUE
  BY <1>1, <1>2 DEF ListsInv, PostsStay, Askable
<1>4. req[c].row \in ListRows
  BY <1>1, <1>2 DEF Askable
<1>5. CASE table' \in L!Stores(req[c]) /\ L!Served(c)
  <2>1. PICK new : new = table'
    OBVIOUS
  <2>2. Leaves(req[c], new)
    BY <1>1, <1>2, <1>3, <1>5, <2>1, StoresLeave
  <2>3. PICK q : q = [req[c] EXCEPT !.at = "served", !.answer = new]
    OBVIOUS
  <2>4. /\ q \in AskSet /\ q.at = "served" /\ q.answer = new /\ q.op = req[c].op /\ q.row = req[c].row
        /\ q.status = req[c].status /\ q.text = req[c].text /\ q.overlap = req[c].overlap
    <3>1. new \in [ListRows -> L!RowValues]
      BY <2>2 DEF Leaves
    <3> QED
      BY <1>1, <2>3, <3>1 DEF AskSet
  <2>5. req' = [req EXCEPT ![c] = q]
    BY <1>1, <1>5, <2>1, <2>3 DEF L!Served
  <2>6. \A r \in ListRows : ~Touches(req[c], r) => table'[r] = table[r]
    BY <1>2, <2>1, <2>2 DEF Leaves, Touches
  <2>7. Serves(c, q)
    BY <1>2, <2>1, <2>2, <2>4, <2>5, <2>6 DEF Serves, Leaves
  <2>8. q.op # "now" => \A list :
          AsAsked(list, suggestion, table, req[c]) => AsChanging(list, suggestion, new, q)
    BY <1>2, <2>2, <2>4, AnswerIsTrue
  <2> QED
    BY <2>1, <2>7, <2>8, ServesKept
<1>6. CASE L!Refused(c) \/ (/\ req[c].op = "now" /\ table' = L!Cancelled(req[c])
                            /\ req' = [req EXCEPT ![c].at = "refused"])
  <2>1. PICK q : q = [req[c] EXCEPT !.at = "refused"]
    OBVIOUS
  <2>2. /\ q \in AskSet /\ q.at = "refused" /\ q.op = req[c].op /\ q.row = req[c].row
        /\ q.status = req[c].status /\ q.text = req[c].text /\ q.overlap = req[c].overlap
    BY <1>1, <2>1 DEF AskSet
  <2>3. req' = [req EXCEPT ![c] = q]
    BY <1>1, <1>6, <2>1 DEF L!Refused
  <2>4. /\ table' \in [ListRows -> L!RowValues]
        /\ \A r \in ListRows : ~Touches(req[c], r) => table'[r] = table[r]
        /\ \A r \in ListRows : table[r].kept = TRUE => table'[r].kept = TRUE
        /\ req[c].op # "now" => table' = table
    <3>1. CASE table' = table
      BY <1>1, <3>1
    <3>2. CASE req[c].op = "now" /\ table' = L!Cancelled(req[c])
      <4>1. PICK new : new = table'
        OBVIOUS
      <4>2. /\ new \in [ListRows -> L!RowValues]
            /\ \A r \in ListRows : table[r].kept = TRUE => new[r].kept = TRUE
        BY <1>1, <1>3, <1>4, <3>2, <4>1, CancelledRow
      <4>3. \A r \in ListRows : Touches(req[c], r)
        BY <1>2, <3>2 DEF Touches
      <4> QED
        BY <3>2, <4>1, <4>2, <4>3
    <3> QED
      BY <1>6, <3>1, <3>2 DEF L!Refused
  <2>5. Serves(c, q)
    BY <1>2, <2>2, <2>3, <2>4 DEF Serves
  <2>6. q.op # "now" => \A list :
          AsAsked(list, suggestion, table, req[c]) => AsChanging(list, suggestion, table', q)
    BY <2>2, <2>4 DEF AsChanging, AsAsked
  <2> QED
    BY <2>5, <2>6, ServesKept
<1> QED
  BY <1>5, <1>6 DEF L!ServeChange

-----------------------------------------------------------------------------
(* A call that begins to load.                                              *)
Reloads(c, q, some) ==
  /\ q = [L!Idle EXCEPT !.at = "sent", !.overlap = L!Changed(some)]
  /\ some \in SUBSET L!InFlight /\ (\A d \in L!InFlight : d # c => d \in some) /\ c \notin some
  /\ req' = [req EXCEPT ![c] = q]
  /\ shown' \in Seq(L!Entries) /\ view' = L!LoadView /\ asked' \in 0..MaxAsked
  /\ busy' \in ListRows \cup {None} /\ suggestion' \in [ListRows -> SUBSET ListTexts]
  /\ slipped' \subseteq ListRows
  /\ slipped \cup L!Changed(some) \subseteq slipped'
  /\ board = "posts" => shown' = shown
  /\ UNCHANGED <<board, table>>

LEMMA ReloadsKept ==
  ASSUME ListsInv, NEW c \in ServerCalls, NEW q, NEW some, Reloads(c, q, some),
         ~Loading(req[c])
  PROVE  ListsInv'
<1>1. L!Changed(some) \subseteq ListRows
  BY ChangedRows DEF ListsInv, Reloads
<1>2. /\ q \in AskSet /\ q.at = "sent" /\ q.op = "load" /\ q.overlap = L!Changed(some)
  <2>1. L!Absent \in L!RowValues /\ "load" \in L!Ops /\ 0 \in L!Status /\ None \in ListRows \cup {None}
    BY DEF L!RowValues, L!Ops, L!Status
  <2> QED
    BY <1>1, <2>1 DEF AskSet, L!Idle, Reloads
<1>3. req'[c] = q /\ \A d \in ServerCalls \ {c} : req'[d] = req[d]
  BY DEF Reloads, ListsInv, ListsTyped
<1>4. UNCHANGED <<board, table>> /\ slipped \subseteq slipped'
  BY DEF Reloads
<1>5. \A r \in ListRows, d \in ServerCalls :
        Touches(req'[d], r) => d # c /\ Touches(req[d], r) /\ r \in L!Changed(some)
  <2>1. TAKE r \in ListRows, d \in ServerCalls
  <2>2. HAVE Touches(req'[d], r)
  <2>3. d # c /\ Touches(req[d], r)
    BY <1>2, <1>3, <2>2 DEF Touches
  <2>4. d \in some
    BY <2>3, LoadsAre DEF Touches, Reloads
  <2> QED
    BY <2>3, <2>4, ChangedIs DEF Reloads
<1>6. ListsTyped'
  <2>1. L!LoadView \in [loading : BOOLEAN, failed : BOOLEAN, loaded : BOOLEAN]
    BY DEF L!LoadView, ListsInv, ListsTyped
  <2> QED
    BY <1>2, <2>1 DEF Reloads, ListsInv, ListsTyped
<1>7. \A d \in ServerCalls : Askable(req[d])'
  BY <1>2, <1>3, <1>4 DEF ListsInv, Askable
<1>8. LoadsStand'
  <2>1. SUFFICES ASSUME NEW d \in ServerCalls, Loading(req'[d])
                 PROVE  /\ \A r \in ListRows, e \in ServerCalls :
                             Touches(req'[e], r) => r \in req'[d].overlap /\ r \in slipped'
                        /\ req'[d].at = "served" =>
                             \A r \in ListRows \ req'[d].overlap : req'[d].answer[r] = table'[r]
    BY DEF LoadsStand
  <2>2. \A r \in ListRows, e \in ServerCalls : Touches(req'[e], r) => r \in slipped'
    BY <1>5 DEF Reloads
  <2>3. CASE d = c
    BY <1>2, <1>3, <1>5, <2>2, <2>3
  <2>4. CASE d # c
    <3>1. Loading(req[d]) /\ req'[d] = req[d]
      BY <1>3, <2>1, <2>4
    <3>2. /\ \A r \in ListRows, e \in ServerCalls : Touches(req[e], r) => r \in req[d].overlap
          /\ req[d].at = "served" => \A r \in ListRows \ req[d].overlap : req[d].answer[r] = table[r]
      BY <3>1 DEF ListsInv, LoadsStand
    <3> QED
      BY <1>4, <1>5, <2>2, <3>1, <3>2
  <2> QED
    BY <2>3, <2>4
<1>9. OneChange'
  BY <1>4, <1>5 DEF ListsInv, OneChange
<1>10. PostsStay'
  <2>1. ASSUME board = "posts" PROVE PostsStay'
    BY <1>2, <1>3, <1>4, <2>1 DEF ListsInv, PostsStay, Reloads
  <2> QED
    BY <1>4, <2>1 DEF PostsStay
<1>11. RowsAreShown'
  <2>1. Loading(req'[c])
    BY <1>2, <1>3 DEF Loading
  <2> QED
    BY <2>1 DEF RowsAreShown, Steady
<1> QED
  BY <1>6, <1>7, <1>8, <1>9, <1>10, <1>11 DEF ListsInv

LEMMA LoadsKept ==
  ASSUME ListsAssumption, ListsInv, NEW c \in ServerCalls, L!Load(c) PROVE ListsInv'
<1>1. PICK some : some = L!InFlight
  OBVIOUS
<1>2. c \notin L!InFlight /\ L!InFlight \ {c} = some /\ ~Loading(req[c])
  BY <1>1, LoadsAre DEF L!Load, Loading
<1>3. PICK q : q = [L!Idle EXCEPT !.at = "sent", !.overlap = L!Changed(some)]
  OBVIOUS
<1>4. req' = [req EXCEPT ![c] = q]
  BY <1>2, <1>3 DEF L!Load, L!Loading
<1>5. shown' \in Seq(L!Entries) /\ (board = "posts" => shown' = shown)
  <2>1. CASE board = "pages"
    <3>1. shown' = <<>>
      BY <2>1 DEF L!Load, L!LoadShown
    <3> QED
      BY <2>1, <3>1
  <2>2. CASE board # "pages"
    BY <2>2 DEF L!Load, L!LoadShown, ListsInv, ListsTyped
  <2> QED
    BY <2>1, <2>2
<1>6. asked' \in 0..MaxAsked
  BY DEF L!Load, ListsAssumption, ListsInv, ListsTyped
<1>7. L!Changed(some) \subseteq ListRows
  BY <1>1, ChangedRows DEF ListsInv
<1>8. slipped' = slipped \cup L!Changed(some) /\ view' = L!LoadView
      /\ UNCHANGED <<board, table, busy, suggestion>>
  BY <1>1 DEF L!Load
<1>9. busy \in ListRows \cup {None} /\ suggestion \in [ListRows -> SUBSET ListTexts] /\ slipped \subseteq ListRows
  BY DEF ListsInv, ListsTyped
<1>10. some \in SUBSET L!InFlight /\ (\A d \in L!InFlight : d # c => d \in some) /\ c \notin some
  BY <1>1, <1>2
<1>11. Reloads(c, q, some)
  BY <1>3, <1>4, <1>5, <1>6, <1>7, <1>8, <1>9, <1>10 DEF Reloads
<1> QED
  BY <1>2, <1>11, ReloadsKept

-----------------------------------------------------------------------------
(* The page takes an answer.  A list that is loaded has each row it was     *)
(* answered, once.                                                          *)
LEMMA ListCardinality == \A T : L!Cardinality(T) = Cardinality(T)
BY DEF L!Cardinality, Cardinality

LEMMA EntryIs ==
  ASSUME NEW values \in [ListRows -> L!RowValues], NEW r \in ListRows, NEW e, e = L!Entry(r, values)
  PROVE  e \in L!Entries /\ e.id = r /\ e.status = values[r].status /\ e.texts = values[r].texts
<1>1. values[r].status \in L!Status /\ values[r].texts \in SUBSET ListTexts
  BY RowIs
<1> QED
  BY <1>1 DEF L!Entry, L!Entries

LEMMA ListedOnce ==
  ASSUME ListsAssumption, NEW values \in [ListRows -> L!RowValues], NEW list \in L!Lists(values)
  PROVE  /\ list \in Seq(ListRows)
         /\ \A i \in DOMAIN list : values[list[i]].kept = TRUE
         /\ \A i, j \in DOMAIN list : list[i] = list[j] => i = j
         /\ \A r \in ListRows : values[r].kept = TRUE => \E i \in DOMAIN list : list[i] = r
<1>1. PICK some : some = {r \in ListRows : values[r].kept}
  OBVIOUS
<1>2. some \in SUBSET ListRows /\ \A r \in ListRows : r \in some <=> values[r].kept = TRUE
  BY <1>1, RowIs
<1>3. IsFiniteSet(some)
  BY <1>2, FS_Subset DEF ListsAssumption
<1>4. PICK n : n = Cardinality(some)
  OBVIOUS
<1>5. n \in Nat
  BY <1>3, <1>4, FS_CardinalityType
<1>6. list \in [1..n -> ListRows] /\ {list[i] : i \in DOMAIN list} = some
  BY <1>1, <1>4, ListCardinality DEF L!Lists
<1>7. DOMAIN list = 1..n /\ list \in [1..n -> some] /\ \A r \in some : \E i \in 1..n : list[i] = r
  BY <1>6
<1>8. list \in Surjection(1..n, some)
  BY <1>7 DEF Surjection
<1>9. IsFiniteSet(1..n) /\ Cardinality(1..n) = n
  <2>1. 1 \in Int /\ n \in Int /\ (IF 1 > n THEN 0 ELSE n - 1 + 1) = n
    BY <1>5
  <2> QED
    BY <2>1, FS_Interval
<1>10. list \in Injection(1..n, some)
  BY <1>4, <1>8, <1>9, FS_SurjSameCardinalityImpliesInj
<1>11. \A i, j \in 1..n : list[i] = list[j] => i = j
  BY <1>10 DEF Injection, IsInjective
<1> QED
  BY <1>2, <1>5, <1>6, <1>7, <1>11

LEMMA LoadedIs ==
  ASSUME ListsAssumption, NEW values \in [ListRows -> L!RowValues], NEW list \in L!Lists(values),
         NEW new, new = [i \in DOMAIN new |-> new[i]], DOMAIN new = DOMAIN list,
         \A i \in DOMAIN list : new[i] = L!Entry(list[i], values)
  PROVE  /\ new \in Seq(L!Entries)
         /\ \A i \in DOMAIN new : values[new[i].id].kept = TRUE
         /\ \A advice : \A r \in ListRows : AsSaved(new, advice, values, r)
<1>1. /\ list \in Seq(ListRows)
      /\ \A i \in DOMAIN list : values[list[i]].kept = TRUE
      /\ \A i, j \in DOMAIN list : list[i] = list[j] => i = j
      /\ \A r \in ListRows : values[r].kept = TRUE => \E i \in DOMAIN list : list[i] = r
  BY ListedOnce
<1>2. DOMAIN list = 1..Len(list) /\ Len(list) \in Nat /\ \A i \in DOMAIN list : list[i] \in ListRows
  BY <1>1
<1>3. \A i \in DOMAIN list : /\ new[i] \in L!Entries /\ new[i].id = list[i]
                             /\ new[i].status = values[list[i]].status
                             /\ new[i].texts = values[list[i]].texts
  <2>1. TAKE i \in DOMAIN list
  <2>2. PICK e : e = L!Entry(list[i], values)
    OBVIOUS
  <2>3. new[i] = e /\ list[i] \in ListRows
    BY <1>2, <2>2
  <2> QED
    BY <2>2, <2>3, EntryIs
<1>4. DOMAIN new = DOMAIN list
  OBVIOUS
<1>5. new \in Seq(L!Entries)
  <2>1. new = [i \in 1..Len(list) |-> new[i]] /\ \A i \in 1..Len(list) : new[i] \in L!Entries
    BY <1>2, <1>3, <1>4
  <2> QED
    BY <1>2, <2>1
<1>6. ASSUME NEW r \in ListRows, NEW advice PROVE AsSaved(new, advice, values, r)
  <2>1. AsKept(new, r, values[r].kept)
    <3>1. CASE values[r].kept = TRUE
      BY <1>1, <1>3, <1>4, <3>1 DEF AsKept, OnlyOne
    <3>2. CASE values[r].kept # TRUE
      <4>1. \A i \in DOMAIN new : values[new[i].id].kept = TRUE
        BY <1>1, <1>3, <1>4
      <4>2. NotOne(new, r)
        BY <3>2, <4>1 DEF NotOne
      <4> QED
        BY <3>2, <4>2 DEF AsKept
    <3> QED
      BY <3>1, <3>2
  <2> QED
    BY <1>3, <1>4, <2>1 DEF AsSaved, StatusIs, TextsAre
<1> QED
  BY <1>1, <1>3, <1>4, <1>5, <1>6

(* A call is over.                                                          *)
LEMMA OverStands ==
  ASSUME ListsInv, NEW c \in ServerCalls, req' = [req EXCEPT ![c] = L!Idle], UNCHANGED <<board, table>>,
         \A r \in ListRows, d \in ServerCalls \ {c} :
           Touches(req[d], r) /\ r \in slipped => r \in slipped',
         \A r \in ListRows \ slipped' : \A d, e \in ServerCalls \ {c} :
           Touches(req[d], r) /\ Touches(req[e], r) => d = e,
         board = "posts" => \A i \in DOMAIN shown' : table[shown'[i].id].kept = TRUE
  PROVE  /\ req'[c].at = "idle" /\ \A d \in ServerCalls \ {c} : req'[d] = req[d]
         /\ req' \in [ServerCalls -> AskSet]
         /\ \A d \in ServerCalls : Askable(req[d])'
         /\ LoadsStand' /\ OneChange' /\ PostsStay'
<1>1. L!Idle \in AskSet /\ L!Idle.at = "idle"
  <2>1. L!Absent \in L!RowValues /\ "load" \in L!Ops /\ 0 \in L!Status
    BY DEF L!RowValues, L!Ops, L!Status
  <2> QED
    BY <2>1 DEF AskSet, L!Idle
<1>2. req'[c] = L!Idle /\ \A d \in ServerCalls \ {c} : req'[d] = req[d]
  BY DEF ListsInv, ListsTyped
<1>3. req' \in [ServerCalls -> AskSet]
  BY <1>1 DEF ListsInv, ListsTyped
<1>4. \A d \in ServerCalls : Askable(req[d])'
  BY <1>1, <1>2 DEF ListsInv, Askable
<1>5. \A d \in ServerCalls :
        /\ Loading(req'[d]) => d # c /\ Loading(req[d])
        /\ \A r \in ListRows : Touches(req'[d], r) => d # c /\ Touches(req[d], r)
  BY <1>1, <1>2 DEF Loading, Touches
<1>6. LoadsStand'
  <2>1. SUFFICES ASSUME NEW d \in ServerCalls, Loading(req'[d])
                 PROVE  /\ \A r \in ListRows, e \in ServerCalls :
                             Touches(req'[e], r) => r \in req'[d].overlap /\ r \in slipped'
                        /\ req'[d].at = "served" =>
                             \A r \in ListRows \ req'[d].overlap : req'[d].answer[r] = table'[r]
    BY DEF LoadsStand
  <2>2. d # c /\ Loading(req[d]) /\ req'[d] = req[d]
    BY <1>2, <1>5, <2>1
  <2>3. /\ \A r \in ListRows, e \in ServerCalls :
             Touches(req[e], r) => r \in req[d].overlap /\ r \in slipped
        /\ req[d].at = "served" => \A r \in ListRows \ req[d].overlap : req[d].answer[r] = table[r]
    BY <2>2 DEF ListsInv, LoadsStand
  <2>4. ASSUME NEW r \in ListRows, NEW e \in ServerCalls, Touches(req'[e], r)
        PROVE  r \in req'[d].overlap /\ r \in slipped'
    BY <1>5, <2>2, <2>3, <2>4
  <2> QED
    BY <2>2, <2>3, <2>4
<1>7. OneChange'
  BY <1>5 DEF OneChange
<1>8. PostsStay'
  <2>1. ASSUME board = "posts" PROVE PostsStay'
    BY <1>1, <1>2, <2>1 DEF ListsInv, PostsStay
  <2> QED
    BY <2>1 DEF PostsStay
<1> QED
  BY <1>1, <1>2, <1>3, <1>4, <1>6, <1>7, <1>8

LEMMA TakesLoad ==
  ASSUME ListsAssumption, ListsInv, NEW c \in ServerCalls, L!TakeLoad(c) PROVE ListsInv'
<1>1. /\ req' = [req EXCEPT ![c] = L!Idle] /\ req[c].op = "load"
      /\ UNCHANGED <<board, table, busy, suggestion, asked>>
  BY DEF L!TakeLoad
<1>2. CASE L!Heard(req[c], FALSE) /\ view' = [view EXCEPT !.loading = FALSE, !.failed = TRUE]
           /\ UNCHANGED <<shown, slipped>>
  <2>0. board = "posts" => \A i \in DOMAIN shown' : table[shown'[i].id].kept = TRUE
    BY <1>2 DEF ListsInv, PostsStay
  <2>1. \A r \in ListRows \ slipped' : \A d, e \in ServerCalls \ {c} :
          Touches(req[d], r) /\ Touches(req[e], r) => d = e
    BY <1>2 DEF ListsInv, OneChange
  <2>2. /\ req' \in [ServerCalls -> AskSet] /\ \A d \in ServerCalls : Askable(req[d])'
        /\ LoadsStand' /\ OneChange' /\ PostsStay'
    BY <1>1, <1>2, <2>0, <2>1, OverStands
  <2>3. view'.failed = TRUE /\ view' \in [loading : BOOLEAN, failed : BOOLEAN, loaded : BOOLEAN]
    BY <1>2 DEF ListsInv, ListsTyped
  <2>4. ListsTyped'
    BY <1>1, <1>2, <2>2, <2>3 DEF ListsInv, ListsTyped
  <2>5. RowsAreShown'
    BY <2>3 DEF RowsAreShown, Steady
  <2> QED
    BY <2>2, <2>4, <2>5 DEF ListsInv
<1>3. CASE /\ L!Heard(req[c], TRUE)
           /\ \E list \in L!Lists(req[c].answer) :
                shown' = [i \in DOMAIN list |-> L!Entry(list[i], req[c].answer)]
           /\ view' = [loading |-> FALSE, failed |-> FALSE, loaded |-> TRUE]
           /\ slipped' = req[c].overlap
  <2>1. req[c].at = "served" /\ Loading(req[c]) /\ req[c] \in AskSet
    BY <1>1, <1>3, CallIs DEF L!Heard, Loading, ListsInv
  <2>2. PICK values : values = req[c].answer
    OBVIOUS
  <2>3. values \in [ListRows -> L!RowValues] /\ slipped' \subseteq ListRows
    BY <1>3, <2>1, <2>2 DEF AskSet
  <2>4. PICK list \in L!Lists(values) : shown' = [i \in DOMAIN list |-> L!Entry(list[i], values)]
    BY <1>3, <2>2
  <2>5. PICK new : new = shown'
    OBVIOUS
  <2>a. /\ new = [i \in DOMAIN new |-> new[i]] /\ DOMAIN new = DOMAIN list
        /\ \A i \in DOMAIN list : new[i] = L!Entry(list[i], values)
    BY <2>4, <2>5
  <2>6. /\ new \in Seq(L!Entries)
        /\ \A i \in DOMAIN new : values[new[i].id].kept = TRUE
        /\ \A advice : \A r \in ListRows : AsSaved(new, advice, values, r)
    BY <2>3, <2>a, LoadedIs
  <2>7. /\ \A r \in ListRows, d \in ServerCalls : Touches(req[d], r) => r \in slipped'
        /\ \A r \in ListRows \ slipped' : values[r] = table[r]
    BY <1>3, <2>1, <2>2 DEF ListsInv, LoadsStand
  <2>8. board = "posts" => \A i \in DOMAIN shown' : table[shown'[i].id].kept = TRUE
    <3>1. \A i \in DOMAIN new : new[i].id \in ListRows
      <4>1. \A i \in DOMAIN new : new[i] \in L!Entries
        BY <2>6
      <4> QED
        BY <4>1 DEF L!Entries
    <3> QED
      BY <2>1, <2>2, <2>5, <2>6, <3>1 DEF ListsInv, PostsStay
  <2>9. /\ req'[c].at = "idle" /\ \A d \in ServerCalls \ {c} : req'[d] = req[d]
        /\ req' \in [ServerCalls -> AskSet] /\ \A d \in ServerCalls : Askable(req[d])'
        /\ LoadsStand' /\ OneChange' /\ PostsStay'
    BY <1>1, <2>7, <2>8, OverStands
  <2>10. ListsTyped'
    BY <1>1, <1>3, <2>3, <2>5, <2>6, <2>9 DEF ListsInv, ListsTyped
  <2>11. RowsAreShown'
    <3>1. SUFFICES ASSUME NEW r \in ListRows \ slipped' PROVE RowIsShown(r)'
      BY DEF RowsAreShown
    <3>2. \A d \in ServerCalls : ~Touches(req'[d], r)
      BY <2>7, <2>9 DEF Touches
    <3>3. AsSaved(new, suggestion', values, r) /\ values[r] = table'[r]
      BY <1>1, <2>6, <2>7
    <3>4. AsSaved(shown', suggestion', table', r)
      BY <2>5, <3>3 DEF AsSaved
    <3>5. AsSaved(shown, suggestion, table, r)'
      BY <3>4 DEF AsSaved
    <3> QED
      BY <3>2, <3>5 DEF RowIsShown
  <2> QED
    BY <2>9, <2>10, <2>11 DEF ListsInv
<1> QED
  BY <1>2, <1>3 DEF L!TakeLoad

-----------------------------------------------------------------------------
(* What an answer makes of the list: it changes nothing of another row, and *)
(* has its own right, unless the page loads again.                          *)
Advised(q) == IF q.op = "suggest" THEN [suggestion EXCEPT ![q.row] = q.text] ELSE suggestion

Mends(q, result) ==
  /\ result.list \in Seq(L!Entries) /\ result.reload \in BOOLEAN
  /\ \A s : s # q.row => Agrees(shown, result.list, s)
  /\ result.reload = TRUE \/ board = "posts" => result.list = shown
  /\ q.op = "now" => result.reload = TRUE
  /\ /\ result.reload = FALSE /\ view.loaded = TRUE /\ AsServed(shown, suggestion, table, q)
     /\ q.op = "add" => NotOne(shown, q.row)
     => AsSaved(result.list, Advised(q), table, q.row)

LEMMA KeepIs ==
  \A list : /\ L!Keep(list).list = list /\ L!Keep(list).reload = FALSE
            /\ L!Reload(list).list = list /\ L!Reload(list).reload = TRUE
BY DEF L!Keep, L!Reload

LEMMA SameList == \A s : Agrees(shown, shown, s)
BY DEF Agrees

LEMMA ReloadMends ==
  ASSUME ListsTyped, NEW q, NEW result, result = L!Reload(shown) PROVE Mends(q, result)
<1>1. result.list = shown /\ result.reload = TRUE
  BY KeepIs
<1> QED
  BY <1>1, SameList DEF Mends, ListsTyped

(* The row is set to what was answered.                                     *)
LEMMA AnsweredRow ==
  ASSUME NEW new, NEW q, OnlyOne(new, q.row), NEW advice,
         \A i \in DOMAIN new : new[i].id = q.row =>
           new[i].status = table[q.row].status /\ new[i].texts = table[q.row].texts,
         table[q.row].kept = TRUE
  PROVE  AsSaved(new, advice, table, q.row)
BY DEF AsSaved, AsKept, StatusIs, TextsAre

LEMMA WithMends ==
  ASSUME ListsTyped, NEW q \in AskSet, q.row \in ListRows, q.op \in {"status", "text"},
         board # "posts", NEW result, result = L!Keep(L!With(shown, L!Entry(q.row, q.answer)))
  PROVE  Mends(q, result)
<1>1. PICK e, new : e = L!Entry(q.row, q.answer) /\ new = L!With(shown, L!Entry(q.row, q.answer))
  OBVIOUS
<1>2. result.list = new /\ result.reload = FALSE /\ new = L!With(shown, e)
  BY <1>1, KeepIs
<1>3. q.answer \in [ListRows -> L!RowValues] /\ shown \in Seq(L!Entries)
  BY DEF AskSet, ListsTyped
<1>4. /\ e \in L!Entries /\ e.id = q.row /\ e.status = q.answer[q.row].status
      /\ e.texts = q.answer[q.row].texts
  BY <1>1, <1>3, EntryIs
<1>5. /\ new \in Seq(L!Entries) /\ Edits(shown, new, q.row)
      /\ \A i \in DOMAIN new : new[i].id = q.row => new[i] = e
  BY <1>2, <1>3, <1>4, WithEdits
<1>6. (\A s : s # q.row => Agrees(shown, new, s)) /\ (OnlyOne(shown, q.row) => OnlyOne(new, q.row))
  BY <1>5, EditsAgree
<1>7. ASSUME AsServed(shown, suggestion, table, q) PROVE AsSaved(new, Advised(q), table, q.row)
  <2>1. OnlyOne(new, q.row) /\ table[q.row].kept = TRUE /\ q.answer[q.row] = table[q.row]
    BY <1>6, <1>7 DEF AsServed
  <2>2. PICK advice : advice = Advised(q)
    OBVIOUS
  <2> QED
    BY <1>4, <1>5, <2>1, <2>2, AnsweredRow
<1> QED
  BY <1>2, <1>5, <1>6, <1>7 DEF Mends

LEMMA AddMends ==
  ASSUME ListsTyped, NEW q \in AskSet, q.row \in ListRows, q.op = "add", board # "posts",
         NEW result, \/ result = L!Keep(<<L!Entry(q.row, q.answer)>> \o shown)
                     \/ result = L!Keep(Append(shown, L!Entry(q.row, q.answer)))
  PROVE  Mends(q, result)
<1>1. PICK e : e = L!Entry(q.row, q.answer)
  OBVIOUS
<1>2. PICK new : new = result.list
  OBVIOUS
<1>3. (new = <<e>> \o shown \/ new = Append(shown, e)) /\ result.reload = FALSE
  BY <1>1, <1>2, KeepIs
<1>4. q.answer \in [ListRows -> L!RowValues] /\ shown \in Seq(L!Entries)
  BY DEF AskSet, ListsTyped
<1>5. /\ e \in L!Entries /\ e.id = q.row /\ e.status = q.answer[q.row].status
      /\ e.texts = q.answer[q.row].texts
  BY <1>1, <1>4, EntryIs
<1>6. /\ new \in Seq(L!Entries) /\ \A s : s # q.row => Agrees(shown, new, s)
      /\ NotOne(shown, q.row) =>
           OnlyOne(new, q.row) /\ \A i \in DOMAIN new : new[i].id = q.row => new[i] = e
  BY <1>3, <1>4, <1>5, OneMore
<1>7. ASSUME AsServed(shown, suggestion, table, q), NotOne(shown, q.row)
      PROVE  AsSaved(new, Advised(q), table, q.row)
  <2>1. OnlyOne(new, q.row) /\ table[q.row].kept = TRUE /\ q.answer[q.row] = table[q.row]
    BY <1>6, <1>7 DEF AsServed
  <2>2. PICK advice : advice = Advised(q)
    OBVIOUS
  <2> QED
    BY <1>5, <1>6, <1>7, <2>1, <2>2, AnsweredRow
<1> QED
  BY <1>2, <1>3, <1>6, <1>7 DEF Mends

(* The stage is already shown.                                              *)
LEMMA CrmStageMends ==
  ASSUME ListsTyped, NEW q, board = "crm", q.op = "status", NEW result, result = L!Keep(shown)
  PROVE  Mends(q, result)
<1>1. result.list = shown /\ result.reload = FALSE
  BY KeepIs
<1>2. ASSUME AsServed(shown, suggestion, table, q) PROVE AsSaved(shown, Advised(q), table, q.row)
  <2>1. Advised(q) = suggestion
    BY DEF Advised
  <2> QED
    BY <1>2, <2>1 DEF AsServed, AsSaved, AsKept
<1> QED
  BY <1>1, <1>2, SameList DEF Mends, ListsTyped

(* A field of the row is set.                                               *)
LEMMA FieldEdits ==
  ASSUME ListsTyped, NEW new, new = [i \in DOMAIN new |-> new[i]], DOMAIN new = DOMAIN shown, NEW r,
         \A i \in DOMAIN shown : /\ new[i] \in L!Entries /\ new[i].id = shown[i].id
                                 /\ shown[i].id # r => new[i] = shown[i]
  PROVE  new \in Seq(L!Entries) /\ Edits(shown, new, r)
<1>1. DOMAIN shown = 1..Len(shown) /\ Len(shown) \in Nat
  BY DEF ListsTyped
<1>2. new = [i \in 1..Len(shown) |-> new[i]] /\ \A i \in 1..Len(shown) : new[i] \in L!Entries
  BY <1>1
<1>3. new \in Seq(L!Entries)
  BY <1>1, <1>2
<1> QED
  BY <1>3 DEF Edits

LEMMA BookingsMend ==
  ASSUME ListsTyped, NEW q \in AskSet, q.row \in ListRows, board = "bookings", q.op = "status",
         NEW result, result = L!BookingsAfter(q, TRUE)
  PROVE  Mends(q, result)
<1>1. PICK new : new = [i \in DOMAIN shown |->
          IF shown[i].id = q.row THEN [shown[i] EXCEPT !.status = q.status] ELSE shown[i]]
  OBVIOUS
<1>2. result.list = new /\ result.reload = FALSE
  BY <1>1, KeepIs DEF L!BookingsAfter
<1>3. /\ new = [i \in DOMAIN new |-> new[i]] /\ DOMAIN new = DOMAIN shown
      /\ \A i \in DOMAIN shown : new[i] = IF shown[i].id = q.row
                                          THEN [shown[i] EXCEPT !.status = q.status] ELSE shown[i]
  BY <1>1
<1>4. \A i \in DOMAIN shown : shown[i] \in L!Entries
  BY DEF ListsTyped
<1>5. \A i \in DOMAIN shown :
        /\ new[i] \in L!Entries /\ new[i].id = shown[i].id /\ new[i].texts = shown[i].texts
        /\ shown[i].id # q.row => new[i] = shown[i]
        /\ shown[i].id = q.row => new[i].status = q.status
  BY <1>3, <1>4 DEF L!Entries, AskSet
<1>6. new \in Seq(L!Entries) /\ Edits(shown, new, q.row)
  BY <1>3, <1>5, FieldEdits
<1>7. (\A s : s # q.row => Agrees(shown, new, s)) /\ (OnlyOne(shown, q.row) => OnlyOne(new, q.row))
  BY <1>6, EditsAgree
<1>8. ASSUME AsServed(shown, suggestion, table, q) PROVE AsSaved(new, Advised(q), table, q.row)
  <2>1. Advised(q) = suggestion
    BY DEF Advised
  <2>2. AsKept(new, q.row, table[q.row].kept)
    BY <1>7, <1>8 DEF AsServed, AsKept
  <2>3. StatusIs(new, q.row, table[q.row].status)
    BY <1>3, <1>5, <1>8 DEF AsServed, StatusIs
  <2>4. TextsAre(new, suggestion, q.row, table[q.row].texts)
    BY <1>3, <1>5, <1>8 DEF AsServed, TextsAre
  <2> QED
    BY <2>1, <2>2, <2>3, <2>4 DEF AsSaved
<1> QED
  BY <1>2, <1>6, <1>7, <1>8 DEF Mends

(* A suggestion is put over the row's texts, and told of.                   *)
LEMMA SuggestMends ==
  ASSUME ListsTyped, NEW q \in AskSet, q.row \in ListRows, board = "reviews", q.op = "suggest",
         q.text # {}, NEW result, result = L!ReviewsAfter(q, TRUE)
  PROVE  Mends(q, result)
<1>1. PICK new : new = [i \in DOMAIN shown |->
          IF shown[i].id = q.row THEN [shown[i] EXCEPT !.texts = q.text] ELSE shown[i]]
  OBVIOUS
<1>2. result.list = new /\ result.reload = FALSE
  BY <1>1, KeepIs DEF L!ReviewsAfter
<1>3. /\ new = [i \in DOMAIN new |-> new[i]] /\ DOMAIN new = DOMAIN shown
      /\ \A i \in DOMAIN shown : new[i] = IF shown[i].id = q.row
                                          THEN [shown[i] EXCEPT !.texts = q.text] ELSE shown[i]
  BY <1>1
<1>4. \A i \in DOMAIN shown : shown[i] \in L!Entries
  BY DEF ListsTyped
<1>5. \A i \in DOMAIN shown :
        /\ new[i] \in L!Entries /\ new[i].id = shown[i].id /\ new[i].status = shown[i].status
        /\ shown[i].id # q.row => new[i] = shown[i]
  BY <1>3, <1>4 DEF L!Entries, AskSet
<1>6. new \in Seq(L!Entries) /\ Edits(shown, new, q.row)
  BY <1>3, <1>5, FieldEdits
<1>7. /\ \A s : s # q.row => Agrees(shown, new, s)
      /\ OnlyOne(shown, q.row) => OnlyOne(new, q.row)
      /\ NotOne(shown, q.row) => NotOne(new, q.row)
  BY <1>6, EditsAgree
<1>8. ASSUME AsServed(shown, suggestion, table, q) PROVE AsSaved(new, Advised(q), table, q.row)
  <2>0. AsSaved(shown, suggestion, table, q.row)
    BY <1>8 DEF AsServed
  <2>1. Advised(q)[q.row] # {}
    BY DEF Advised, ListsTyped
  <2>2. AsKept(new, q.row, table[q.row].kept)
    BY <1>7, <2>0 DEF AsSaved, AsKept
  <2>3. StatusIs(new, q.row, table[q.row].status)
    BY <1>3, <1>5, <2>0 DEF AsSaved, StatusIs
  <2>4. TextsAre(new, Advised(q), q.row, table[q.row].texts)
    BY <2>1 DEF TextsAre
  <2> QED
    BY <2>2, <2>3, <2>4 DEF AsSaved
<1> QED
  BY <1>2, <1>6, <1>7, <1>8 DEF Mends

LEMMA PagesMend ==
  ASSUME ListsTyped, NEW q \in AskSet, q.row \in ListRows, board = "pages",
         q.op \in {"status", "text", "add", "delete"}, NEW result, result = L!PagesAfter(q, TRUE)
  PROVE  Mends(q, result)
<1>1. CASE view.loaded # TRUE
  <2>1. view.loaded = FALSE
    BY <1>1 DEF ListsTyped
  <2>2. result.list = shown /\ result.reload = FALSE
    BY <2>1, KeepIs DEF L!PagesAfter
  <2> QED
    BY <2>1, <2>2, SameList DEF Mends, ListsTyped
<1>2. CASE view.loaded = TRUE /\ q.op = "delete"
  <2>1. PICK new : new = L!Without(shown, q.row)
    OBVIOUS
  <2>2. result.list = new /\ result.reload = FALSE
    BY <1>2, <2>1, KeepIs DEF L!PagesAfter
  <2>3. new \in Seq(L!Entries) /\ NotOne(new, q.row) /\ \A s : s # q.row => Agrees(shown, new, s)
    BY <2>1, OneFewer DEF ListsTyped
  <2>4. ASSUME AsServed(shown, suggestion, table, q) PROVE AsSaved(new, Advised(q), table, q.row)
    BY <1>2, <2>3, <2>4 DEF AsServed, AsSaved, AsKept, NotOne, StatusIs, TextsAre
  <2> QED
    BY <1>2, <2>2, <2>3, <2>4 DEF Mends
<1>3. CASE view.loaded = TRUE /\ q.op # "delete" /\ \E i \in DOMAIN shown : shown[i].id = q.row
  <2>1. result = L!Keep(L!With(shown, L!Entry(q.row, q.answer)))
    BY <1>3 DEF L!PagesAfter
  <2>2. CASE q.op \in {"status", "text"}
    BY <2>1, <2>2, WithMends
  <2>3. CASE q.op = "add"
    <3>1. ~NotOne(shown, q.row)
      BY <1>3 DEF NotOne
    <3>2. PICK p : p = [q EXCEPT !.op = "text"]
      OBVIOUS
    <3>3. p \in AskSet /\ p.op = "text" /\ p.row = q.row /\ p.answer = q.answer
      BY <3>2 DEF AskSet, L!Ops
    <3>4. Mends(p, result)
      BY <2>1, <3>3, WithMends
    <3> QED
      BY <2>3, <3>1, <3>3, <3>4 DEF Mends
  <2> QED
    BY <1>3, <2>2, <2>3
<1>4. CASE view.loaded = TRUE /\ q.op # "delete" /\ ~\E i \in DOMAIN shown : shown[i].id = q.row
  <2>1. result = L!Keep(Append(shown, L!Entry(q.row, q.answer)))
    BY <1>4 DEF L!PagesAfter
  <2>2. CASE q.op = "add"
    BY <2>1, <2>2, AddMends
  <2>3. CASE q.op \in {"status", "text"}
    <3>1. ~OnlyOne(shown, q.row)
      BY <1>4 DEF OnlyOne
    <3>2. PICK p : p = [q EXCEPT !.op = "add"]
      OBVIOUS
    <3>3. p \in AskSet /\ p.op = "add" /\ p.row = q.row /\ p.answer = q.answer
      BY <3>2 DEF AskSet, L!Ops
    <3>4. Mends(p, result)
      BY <2>1, <3>3, AddMends
    <3> QED
      BY <2>3, <3>1, <3>3, <3>4 DEF Mends, AsServed
  <2> QED
    BY <1>4, <2>2, <2>3
<1> QED
  BY <1>1, <1>2, <1>3, <1>4

-----------------------------------------------------------------------------
LEMMA AfterMends ==
  ASSUME ListsTyped, NEW q \in AskSet, Askable(q), q.at # "idle", q.op # "load",
         NEW result, result = L!After(q, TRUE)
  PROVE  Mends(q, result)
<1>0. q.row \in ListRows /\ q.op \in {"status", "text", "add", "suggest", "now", "delete"}
  BY DEF Askable, AskSet, L!Ops
<1>1. CASE board = "crm"
  <2>1. result = L!CrmAfter(q, TRUE) /\ q.op \in {"status", "text", "add"}
    BY <1>0, <1>1 DEF L!After, Askable
  <2>2. CASE q.op = "status"
    BY <1>1, <2>1, <2>2, CrmStageMends DEF L!CrmAfter
  <2>3. CASE q.op = "text"
    BY <1>0, <1>1, <2>1, <2>3, WithMends DEF L!CrmAfter
  <2>4. CASE q.op = "add"
    BY <1>0, <1>1, <2>1, <2>4, AddMends DEF L!CrmAfter
  <2> QED
    BY <2>1, <2>2, <2>3, <2>4
<1>2. CASE board = "bookings"
  <2>1. result = L!BookingsAfter(q, TRUE) /\ q.op = "status"
    BY <1>0, <1>2 DEF L!After, Askable
  <2> QED
    BY <1>0, <1>2, <2>1, BookingsMend
<1>3. CASE board = "invoices"
  <2>1. result = L!InvoicesAfter(q, TRUE) /\ q.op \in {"status", "add"}
    BY <1>0, <1>3 DEF L!After, Askable
  <2>2. CASE q.op = "status"
    BY <1>0, <1>3, <2>1, <2>2, WithMends DEF L!InvoicesAfter
  <2>3. CASE q.op = "add"
    BY <1>0, <1>3, <2>1, <2>3, AddMends DEF L!InvoicesAfter
  <2> QED
    BY <2>1, <2>2, <2>3
<1>4. CASE board = "reviews"
  <2>1. result = L!ReviewsAfter(q, TRUE) /\ q.op \in {"status", "text", "add", "suggest"}
    BY <1>0, <1>4 DEF L!After, Askable
  <2>2. CASE q.op = "add"
    BY <2>1, <2>2, ReloadMends DEF L!ReviewsAfter
  <2>3. CASE q.op = "suggest"
    BY <1>0, <1>4, <2>1, <2>3, SuggestMends DEF Askable
  <2>4. CASE q.op \in {"status", "text"}
    <3>1. result = L!Keep(L!With(shown, L!Entry(q.row, q.answer)))
      BY <2>1, <2>4 DEF L!ReviewsAfter
    <3> QED
      BY <1>0, <1>4, <2>4, <3>1, WithMends
  <2> QED
    BY <2>1, <2>2, <2>3, <2>4
<1>5. CASE board = "posts"
  <2>1. result = L!Reload(shown)
    BY <1>5 DEF L!After, L!PostsAfter
  <2> QED
    BY <2>1, ReloadMends
<1>6. CASE board = "campaigns"
  <2>1. result = L!CampaignsAfter(q, TRUE) /\ q.op \in {"status", "text", "add"}
    BY <1>0, <1>6 DEF L!After, Askable
  <2>2. CASE q.op = "status"
    BY <2>1, <2>2, ReloadMends DEF L!CampaignsAfter
  <2>3. CASE q.op = "add"
    <3>1. result = L!Keep(<<L!Entry(q.row, q.answer)>> \o shown)
      BY <2>1, <2>3 DEF L!CampaignsAfter
    <3> QED
      BY <1>0, <1>6, <2>3, <3>1, AddMends
  <2>4. CASE q.op = "text"
    <3>1. result = L!Keep(L!With(shown, L!Entry(q.row, q.answer)))
      BY <2>1, <2>4 DEF L!CampaignsAfter
    <3> QED
      BY <1>0, <1>6, <2>4, <3>1, WithMends
  <2> QED
    BY <2>1, <2>2, <2>3, <2>4
<1>7. CASE board = "pages"
  <2>1. result = L!PagesAfter(q, TRUE) /\ q.op \in {"status", "text", "add", "delete"}
    BY <1>0, <1>7 DEF L!After, Askable
  <2> QED
    BY <1>0, <1>7, <2>1, PagesMend
<1> QED
  BY <1>1, <1>2, <1>3, <1>4, <1>5, <1>6, <1>7 DEF ListsTyped, L!Boards

(* A failure leaves the list as it is.                                      *)
LEMMA AfterFails ==
  ASSUME ListsTyped, NEW q \in AskSet, NEW result, result = L!After(q, FALSE)
  PROVE  /\ result.list = shown /\ result.reload \in BOOLEAN
         /\ board = "crm" /\ q.op = "status" => result.reload = TRUE
<1>1. CASE board = "bookings"
  <2>1. PICK new : new = [i \in DOMAIN shown |-> shown[i]]
    OBVIOUS
  <2>2. result = L!Keep(new)
    BY <1>1, <2>1 DEF L!After, L!BookingsAfter
  <2>3. new = shown
    BY <2>1 DEF ListsTyped
  <2> QED
    BY <1>1, <2>2, <2>3, KeepIs
<1>2. CASE board = "crm"
  <2>1. result = L!CrmAfter(q, FALSE)
    BY <1>2 DEF L!After
  <2>2. CASE q.op = "status"
    BY <2>1, <2>2, KeepIs DEF L!CrmAfter
  <2>3. CASE q.op = "text"
    BY <2>1, <2>3, KeepIs DEF L!CrmAfter
  <2>4. CASE q.op \notin {"status", "text"}
    BY <2>1, <2>4, KeepIs DEF L!CrmAfter
  <2> QED
    BY <2>2, <2>3, <2>4
<1>3. CASE board = "invoices"
  BY <1>3, KeepIs DEF L!After, L!InvoicesAfter
<1>4. CASE board = "reviews"
  BY <1>4, KeepIs DEF L!After, L!ReviewsAfter
<1>5. CASE board = "posts"
  BY <1>5, KeepIs DEF L!After, L!PostsAfter
<1>6. CASE board = "campaigns"
  BY <1>6, KeepIs DEF L!After, L!CampaignsAfter
<1>7. CASE board = "pages"
  BY <1>7, KeepIs DEF L!After, L!PagesAfter
<1> QED
  BY <1>1, <1>2, <1>3, <1>4, <1>5, <1>6, <1>7 DEF ListsTyped, L!Boards

-----------------------------------------------------------------------------
(* The page takes the answer of a change, ok or not, as result.             *)
Takes(c, ok, result) ==
  LET anew == result.reload = TRUE /\ asked < MaxAsked
  IN /\ ok \in BOOLEAN /\ result = L!After(req[c], ok)
     /\ req[c].op # "load" /\ req[c].at \in {"served", "refused"}
     /\ ok = TRUE => req[c].at = "served"
     /\ result.reload = TRUE => anew
     /\ shown' = IF anew THEN L!LoadShown(result.list) ELSE result.list
     /\ view' = IF anew THEN L!LoadView ELSE view
     /\ req' = IF anew THEN L!Loading(req, c) ELSE [req EXCEPT ![c] = L!Idle]
     /\ asked' = IF anew THEN asked + 1 ELSE asked
     /\ slipped' = slipped \cup (IF anew THEN L!Changed(L!InFlight \ {c}) ELSE {})
                           \cup (IF L!Unknown(req[c], ok) /\ ~anew
                                 THEN L!Concerned(req[c].op, req[c].row) ELSE {})
     /\ busy' = IF req[c].op \in {"status", "now"} THEN None ELSE busy
     /\ suggestion' = IF req[c].op = "suggest" /\ ok = TRUE
                      THEN [suggestion EXCEPT ![req[c].row] = req[c].text] ELSE suggestion
     /\ UNCHANGED <<board, table>>

LEMMA TakesIs ==
  ASSUME ListsInv, NEW c \in ServerCalls, L!TakeChange(c)
  PROVE  \E ok, result : Takes(c, ok, result)
<1>1. PICK ok \in BOOLEAN :
        LET q == req[c]
            after == L!After(q, ok)
            anew == after.reload /\ asked < MaxAsked
        IN /\ q.op # "load"
           /\ L!Heard(q, ok)
           /\ after.reload => anew
           /\ shown' = IF anew THEN L!LoadShown(after.list) ELSE after.list
           /\ view' = IF anew THEN L!LoadView ELSE view
           /\ req' = IF anew THEN L!Loading(req, c) ELSE [req EXCEPT ![c] = L!Idle]
           /\ asked' = IF anew THEN asked + 1 ELSE asked
           /\ slipped' = slipped \cup (IF anew THEN L!Changed(L!InFlight \ {c}) ELSE {})
                                 \cup (IF L!Unknown(q, ok) /\ ~anew THEN L!Concerned(q.op, q.row)
                                       ELSE {})
           /\ busy' = IF q.op \in {"status", "now"} THEN None ELSE busy
           /\ suggestion' = IF q.op = "suggest" /\ ok THEN [suggestion EXCEPT ![q.row] = q.text]
                            ELSE suggestion
           /\ UNCHANGED <<board, table>>
  BY DEF L!TakeChange
<1>2. PICK result : result = L!After(req[c], ok)
  OBVIOUS
<1>3. req[c].op # "load" /\ L!Heard(req[c], ok)
  BY <1>1
<1>4. req[c] \in AskSet /\ req[c].at # "idle" /\ Askable(req[c]) /\ ListsTyped
  BY <1>3, CallIs DEF ListsInv, L!Heard
<1>5. result.reload \in BOOLEAN
  <2>1. CASE ok = TRUE
    BY <1>2, <1>3, <1>4, <2>1, AfterMends DEF Mends
  <2>2. CASE ok = FALSE
    BY <1>2, <1>4, <2>2, AfterFails
  <2> QED
    BY <2>1, <2>2
<1>6. Takes(c, ok, result)
  <2>1. CASE result.reload = TRUE
    BY <1>1, <1>2, <1>3, <2>1 DEF Takes, L!Heard
  <2>2. CASE result.reload = FALSE
    BY <1>1, <1>2, <1>3, <2>2 DEF Takes, L!Heard
  <2> QED
    BY <1>5, <2>1, <2>2
<1> QED
  BY <1>6

(* What the list is when the page does not load again.                      *)
LEMMA TakesRight ==
  ASSUME ListsInv, NEW c \in ServerCalls, NEW ok, NEW result, Takes(c, ok, result)
  PROVE  /\ result.list \in Seq(L!Entries) /\ result.reload \in BOOLEAN
         /\ result.reload = TRUE \/ board = "posts" => result.list = shown
         /\ \A s : s # req[c].row => Agrees(shown, result.list, s)
         /\ \A r \in ListRows : r # req[c].row => suggestion'[r] = suggestion[r]
         /\ suggestion' \in [ListRows -> SUBSET ListTexts]
         /\ /\ result.reload = FALSE /\ view.loaded = TRUE /\ req[c].op # "now"
            /\ AsChanging(shown, suggestion, table, req[c]) /\ ~L!Unknown(req[c], ok)
            => AsSaved(result.list, suggestion', table, req[c].row)
         /\ result.reload = FALSE /\ req[c].op = "now" => L!Unknown(req[c], ok)
<1>1. req[c] \in AskSet /\ req[c].at # "idle" /\ req[c].op # "load" /\ Askable(req[c]) /\ ListsTyped
      /\ req[c].row \in ListRows
  BY CallIs DEF ListsInv, Takes, Askable
<1>2. /\ \A r \in ListRows : r # req[c].row => suggestion'[r] = suggestion[r]
      /\ suggestion' \in [ListRows -> SUBSET ListTexts]
  BY <1>1 DEF Takes, ListsTyped, AskSet
<1>3. CASE ok = TRUE
  <2>1. Mends(req[c], result)
    BY <1>1, <1>3, AfterMends DEF Takes
  <2>2. req[c].at = "served" /\ suggestion' = Advised(req[c])
    BY <1>3 DEF Takes, Advised
  <2>3. ASSUME result.reload = FALSE, view.loaded = TRUE,
               AsChanging(shown, suggestion, table, req[c]), ~L!Unknown(req[c], ok)
        PROVE  AsSaved(result.list, suggestion', table, req[c].row)
    <3>1. AsServed(shown, suggestion, table, req[c])
      BY <2>2, <2>3 DEF AsChanging
    <3>2. req[c].op = "add" => NotOne(shown, req[c].row)
      BY <2>3 DEF L!Unknown, NotOne
    <3>3. AsSaved(result.list, Advised(req[c]), table, req[c].row)
      BY <2>1, <2>3, <3>1, <3>2 DEF Mends
    <3> QED
      BY <2>2, <3>3
  <2>4. result.reload = FALSE => req[c].op # "now"
    BY <2>1 DEF Mends
  <2>5. result.list \in Seq(L!Entries) /\ result.reload \in BOOLEAN
    BY <2>1 DEF Mends
  <2>6. result.reload = TRUE \/ board = "posts" => result.list = shown
    BY <2>1 DEF Mends
  <2>7. \A s : s # req[c].row => Agrees(shown, result.list, s)
    BY <2>1 DEF Mends
  <2> QED
    BY <1>2, <2>3, <2>4, <2>5, <2>6, <2>7
<1>4. CASE ok = FALSE
  <2>1. /\ result.list = shown /\ result.reload \in BOOLEAN
        /\ board = "crm" /\ req[c].op = "status" => result.reload = TRUE
    BY <1>1, <1>4, AfterFails DEF Takes
  <2>2. suggestion' = suggestion
    BY <1>4 DEF Takes
  <2>3. ASSUME result.reload = FALSE, AsChanging(shown, suggestion, table, req[c]),
               req[c].op # "now", ~L!Unknown(req[c], ok)
        PROVE  AsSaved(shown, suggestion, table, req[c].row)
    <3>1. CASE req[c].at = "served"
      <4>1. req[c].op = "suggest"
        BY <1>4, <2>3, <3>1 DEF L!Unknown
      <4> QED
        BY <2>3, <3>1, <4>1 DEF AsChanging, AsServed
    <3>2. CASE req[c].at # "served"
      <4>1. AsAsked(shown, suggestion, table, req[c])
        BY <2>3, <3>2 DEF AsChanging
      <4> QED
        BY <2>1, <2>3, <4>1 DEF AsAsked, AsSaved
    <3> QED
      BY <3>1, <3>2
  <2>4. req[c].op = "now" => L!Unknown(req[c], ok)
    BY <1>4 DEF L!Unknown
  <2>5. result.list \in Seq(L!Entries) /\ \A s : Agrees(shown, result.list, s)
    BY <1>1, <2>1, SameList DEF ListsTyped
  <2>6. /\ result.reload = FALSE /\ view.loaded = TRUE /\ req[c].op # "now"
        /\ AsChanging(shown, suggestion, table, req[c]) /\ ~L!Unknown(req[c], ok)
        => AsSaved(result.list, suggestion', table, req[c].row)
    BY <2>1, <2>2, <2>3
  <2> QED
    BY <1>2, <2>1, <2>4, <2>5, <2>6
<1> QED
  BY <1>3, <1>4 DEF Takes

LEMMA TakesReload ==
  ASSUME ListsAssumption, ListsInv, NEW c \in ServerCalls, NEW ok, NEW result,
         Takes(c, ok, result), result.reload = TRUE
  PROVE  ListsInv'
<1>1. PICK some : some = L!InFlight \ {c}
  OBVIOUS
<1>2. some \in SUBSET L!InFlight /\ (\A d \in L!InFlight : d # c => d \in some) /\ c \notin some
  BY <1>1
<1>3. PICK q : q = [L!Idle EXCEPT !.at = "sent", !.overlap = L!Changed(some)]
  OBVIOUS
<1>4. asked < MaxAsked
  BY DEF Takes
<1>5. /\ req' = [req EXCEPT ![c] = q] /\ view' = L!LoadView /\ asked' = asked + 1
      /\ slipped' = slipped \cup L!Changed(some)
      /\ UNCHANGED <<board, table>>
  BY <1>1, <1>3, <1>4 DEF Takes, L!Loading
<1>6. shown' = L!LoadShown(result.list) /\ result.list = shown
  BY <1>4, TakesRight DEF Takes
<1>7. shown' \in Seq(L!Entries) /\ (board = "posts" => shown' = shown)
  <2>1. CASE board = "pages"
    <3>1. shown' = <<>>
      BY <1>6, <2>1 DEF L!LoadShown
    <3> QED
      BY <2>1, <3>1
  <2>2. CASE board # "pages"
    BY <1>6, <2>2 DEF L!LoadShown, ListsInv, ListsTyped
  <2> QED
    BY <2>1, <2>2
<1>8. asked' \in 0..MaxAsked
  BY <1>4, <1>5 DEF ListsAssumption, ListsInv, ListsTyped
<1>9. slipped' \subseteq ListRows
  BY <1>2, <1>5, ChangedRows DEF ListsInv, ListsTyped
<1>10. busy' \in ListRows \cup {None} /\ suggestion' \in [ListRows -> SUBSET ListTexts]
  BY TakesRight DEF Takes, ListsInv, ListsTyped
<1>11. Reloads(c, q, some)
  BY <1>2, <1>3, <1>5, <1>7, <1>8, <1>9, <1>10 DEF Reloads
<1>12. ~Loading(req[c])
  BY DEF Takes, Loading
<1> QED
  BY <1>11, <1>12, ReloadsKept

LEMMA TakesKeep ==
  ASSUME ListsInv, NEW c \in ServerCalls, NEW ok, NEW result,
         Takes(c, ok, result), result.reload = FALSE
  PROVE  ListsInv'
<1>1. /\ req[c].op # "load" /\ req[c].at # "idle" /\ shown' = result.list
      /\ req' = [req EXCEPT ![c] = L!Idle]
      /\ slipped' = slipped \cup (IF L!Unknown(req[c], ok) THEN L!Concerned(req[c].op, req[c].row) ELSE {})
      /\ UNCHANGED <<board, table, view, asked>>
  BY DEF Takes
<1>2. req[c].row \in ListRows
  BY <1>1 DEF ListsInv, Askable
<1>3. L!Concerned(req[c].op, req[c].row) \subseteq ListRows
  BY <1>2 DEF L!Concerned
<1>4. slipped \subseteq slipped' /\ slipped' \subseteq ListRows
  BY <1>1, <1>3 DEF ListsInv, ListsTyped
<1>5. \A r \in ListRows \ slipped' : \A d, e \in ServerCalls \ {c} :
        Touches(req[d], r) /\ Touches(req[e], r) => d = e
  BY <1>4 DEF ListsInv, OneChange
<1>6. board = "posts" => \A i \in DOMAIN shown' : table[shown'[i].id].kept = TRUE
  <2>1. SUFFICES ASSUME board = "posts" PROVE \A i \in DOMAIN shown' : table[shown'[i].id].kept = TRUE
    OBVIOUS
  <2>2. result.list = shown
    BY <2>1, TakesRight
  <2>3. shown' = shown
    BY <1>1, <2>2
  <2>4. \A i \in DOMAIN shown : table[shown[i].id].kept = TRUE
    BY <2>1 DEF ListsInv, PostsStay
  <2> QED
    BY <2>3, <2>4
<1>7. /\ req'[c].at = "idle" /\ \A d \in ServerCalls \ {c} : req'[d] = req[d]
      /\ req' \in [ServerCalls -> AskSet] /\ \A d \in ServerCalls : Askable(req[d])'
      /\ LoadsStand' /\ OneChange' /\ PostsStay'
  BY <1>1, <1>4, <1>5, <1>6, OverStands
<1>8. /\ shown' \in Seq(L!Entries) /\ suggestion' \in [ListRows -> SUBSET ListTexts]
      /\ busy' \in ListRows \cup {None}
  <2>1. result.list \in Seq(L!Entries) /\ suggestion' \in [ListRows -> SUBSET ListTexts]
    BY TakesRight
  <2>2. busy \in ListRows \cup {None}
    BY DEF ListsInv, ListsTyped
  <2>3. busy' = busy \/ busy' = None
    BY DEF Takes
  <2>4. shown' \in Seq(L!Entries)
    BY <1>1, <2>1
  <2> QED
    BY <2>1, <2>2, <2>3, <2>4
<1>9. ListsTyped'
  BY <1>1, <1>4, <1>7, <1>8 DEF ListsInv, ListsTyped
<1>10. RowsAreShown'
  <2>1. SUFFICES ASSUME Steady', NEW r \in ListRows \ slipped' PROVE RowIsShown(r)'
    BY DEF RowsAreShown
  <2>2. Steady
    <3>1. \A d \in ServerCalls : ~Loading(req[d])
      BY <1>1, <1>7, <2>1 DEF Steady, Loading
    <3> QED
      BY <1>1, <2>1, <3>1 DEF Steady
  <2>3. r \in ListRows \ slipped /\ RowIsShown(r)
    BY <1>4, <2>1, <2>2 DEF ListsInv, RowsAreShown
  <2>4. ~Touches(req'[c], r)
    BY <1>7 DEF Touches
  <2>5. PICK new, advice : new = shown' /\ advice = suggestion'
    OBVIOUS
  <2>6. CASE Touches(req[c], r)
    <3>1. ~L!Unknown(req[c], ok)
      BY <1>1, <2>1, <2>6, ConcernedIs
    <3>2. req[c].op # "now" /\ req[c].row = r
      BY <2>6, <3>1, TakesRight DEF Touches
    <3>3. AsChanging(shown, suggestion, table, req[c])
      BY <2>3, <2>6, <3>2 DEF RowIsShown
    <3>4. view.loaded = TRUE
      BY <2>2 DEF Steady
    <3>5. AsSaved(result.list, suggestion', table, r)
      BY <3>1, <3>2, <3>3, <3>4, TakesRight
    <3>6. AsSaved(shown, suggestion, table, r)'
      BY <1>1, <3>5 DEF AsSaved
    <3>7. \A d \in ServerCalls : ~Touches(req'[d], r)
      BY <1>7, <2>3, <2>4, <2>6 DEF ListsInv, OneChange
    <3> QED
      BY <3>6, <3>7 DEF RowIsShown
  <2>7. CASE ~Touches(req[c], r)
    <3>0. r # req[c].row
      BY <1>1, <2>7 DEF Touches
    <3>1. Agrees(shown, new, r) /\ advice[r] = suggestion[r]
      BY <1>1, <2>5, <3>0, TakesRight
    <3>2. ASSUME \A d \in ServerCalls : ~Touches(req'[d], r) PROVE AsSaved(shown, suggestion, table, r)'
      <4>1. \A d \in ServerCalls : ~Touches(req[d], r)
        BY <1>7, <2>7, <3>2
      <4>2. AsSaved(shown, suggestion, table, r)
        BY <2>3, <4>1 DEF RowIsShown
      <4>3. AsSaved(new, advice, table, r)
        BY <3>1, <4>2, AgreeSaved
      <4> QED
        BY <1>1, <2>5, <4>3 DEF AsSaved
    <3>3. ASSUME NEW d \in ServerCalls, Touches(req'[d], r), req'[d].op # "now"
          PROVE  AsChanging(shown', suggestion', table', req'[d])
      <4>1. d # c /\ req'[d] = req[d]
        BY <1>7, <2>4, <3>3
      <4>2. AsChanging(shown, suggestion, table, req[d]) /\ req[d].row = r
        BY <2>3, <3>3, <4>1 DEF RowIsShown, Touches
      <4>3. AsChanging(new, advice, table, req[d])
        BY <3>1, <4>2, AgreeChanging
      <4> QED
        BY <1>1, <2>5, <4>1, <4>3
    <3>4. \A d \in ServerCalls : Touches(req'[d], r) /\ req'[d].op # "now" =>
            AsChanging(shown, suggestion, table, req[d])'
      <4>1. board' = board
        BY <1>1
      <4>2. SUFFICES ASSUME NEW d \in ServerCalls, Touches(req'[d], r), req'[d].op # "now"
                     PROVE  AsChanging(shown, suggestion, table, req[d])'
        OBVIOUS
      <4>3. AsChanging(shown', suggestion', table', req'[d])
        BY <3>3, <4>2
      <4> QED
        BY ONLY <4>1, <4>3 DEF AsChanging, AsServed, AsAsked, AsSaved
    <3> QED
      BY <3>2, <3>4 DEF RowIsShown
  <2> QED
    BY <2>6, <2>7
<1> QED
  BY <1>7, <1>9, <1>10 DEF ListsInv

LEMMA TakesChange ==
  ASSUME ListsAssumption, ListsInv, NEW c \in ServerCalls, L!TakeChange(c) PROVE ListsInv'
<1>1. PICK ok, result : Takes(c, ok, result)
  BY TakesIs
<1>2. result.reload \in BOOLEAN
  BY <1>1, TakesRight
<1> QED
  BY <1>1, <1>2, TakesReload, TakesKeep

-----------------------------------------------------------------------------
LEMMA ListsStart == ListsAssumption /\ L!Init => ListsInv
<1> SUFFICES ASSUME ListsAssumption, L!Init PROVE ListsInv
  OBVIOUS
<1>1. L!Absent \in L!RowValues
  BY DEF L!RowValues
<1>2. PICK fresh : fresh = [kept |-> TRUE, status |-> 0, texts |-> {}]
  OBVIOUS
<1>3. fresh \in L!RowValues
  <2>1. PICK none : none = {}
    OBVIOUS
  <2>2. none \in SUBSET ListTexts /\ fresh = [kept |-> TRUE, status |-> 0, texts |-> none]
    BY <1>2, <2>1
  <2> QED
    BY <2>2, NewRow
<1>4. table \in [ListRows -> L!RowValues]
  BY <1>1, <1>2, <1>3 DEF L!Init
<1>5. L!Idle \in AskSet /\ L!Idle.at = "idle"
  <2>1. "load" \in L!Ops /\ 0 \in L!Status
    BY DEF L!Ops, L!Status
  <2> QED
    BY <1>1, <2>1 DEF AskSet, L!Idle
<1>6. req = [c \in ServerCalls |-> L!Idle]
  BY DEF L!Init
<1>7. req \in [ServerCalls -> AskSet] /\ \A c \in ServerCalls : req[c].at = "idle"
  BY <1>5, <1>6
<1>8. shown \in Seq(L!Entries) /\ DOMAIN shown = {}
  <2>1. shown = <<>>
    BY DEF L!Init
  <2> QED
    BY <2>1
<1>9. ListsTyped
  BY <1>4, <1>7, <1>8 DEF L!Init, ListsTyped, ListsAssumption
<1>10. PostsStay /\ LoadsStand /\ OneChange
  BY <1>7, <1>8 DEF PostsStay, LoadsStand, OneChange, Loading, Touches
<1>11. RowsAreShown
  BY DEF L!Init, RowsAreShown, Steady
<1>12. \A c \in ServerCalls : Askable(req[c])
  BY <1>7 DEF Askable
<1> QED
  BY <1>9, <1>10, <1>11, <1>12 DEF ListsInv

LEMMA ListsKept == ListsAssumption /\ ListsInv /\ [L!Next]_(L!vars) => ListsInv'
<1> SUFFICES ASSUME ListsAssumption, ListsInv, [L!Next]_(L!vars) PROVE ListsInv'
  OBVIOUS
<1>1. ASSUME NEW c \in ServerCalls,
             L!Load(c) \/ L!ServeLoad(c) \/ L!ReadNotes(c) \/ L!ServeChange(c)
             \/ L!TakeLoad(c) \/ L!TakeChange(c)
      PROVE  ListsInv'
  BY <1>1, LoadsKept, ServesLoad, ReadsNotes, ServesChange, TakesLoad, TakesChange
<1>2. ASSUME NEW c \in ServerCalls, NEW i \in DOMAIN shown,
             \/ \E status \in L!Status : L!AskStatus(c, shown[i], status)
             \/ \E words \in ListTexts : L!AskText(c, shown[i], words) \/ L!AskOther(c, shown[i], words)
      PROVE  ListsInv'
  BY <1>2, AsksStatus, AsksText, AsksOther
<1>3. ASSUME NEW c \in ServerCalls, NEW r \in ListRows, NEW words \in ListTexts, L!AskAdd(c, r, words)
      PROVE  ListsInv'
  BY <1>3, AsksAdd
<1>4. CASE UNCHANGED L!vars
  <2>1. UNCHANGED <<board, table, shown, view, busy, suggestion, req, asked, slipped>>
    BY <1>4 DEF L!vars
  <2>2. ListsTyped' /\ PostsStay' /\ LoadsStand' /\ OneChange' /\ \A c \in ServerCalls : Askable(req[c])'
    BY <2>1 DEF ListsInv, ListsTyped, PostsStay, LoadsStand, OneChange, Askable
  <2>3. RowsAreShown'
    BY <2>1 DEF ListsInv, RowsAreShown, Steady, RowIsShown, AsSaved, AsChanging, AsServed, AsAsked
  <2> QED
    BY <2>2, <2>3 DEF ListsInv
<1> QED
  BY <1>1, <1>2, <1>3, <1>4 DEF L!Next

LEMMA ListsTypes == ListsInv => L!TypeOK
<1> SUFFICES ASSUME ListsInv PROVE L!TypeOK
  OBVIOUS
<1>1. \A i \in DOMAIN shown : shown[i] \in L!Entries
  BY DEF ListsInv, ListsTyped
<1> QED
  BY <1>1 DEF ListsInv, ListsTyped, AskSet, L!TypeOK

LEMMA ListsPromise == ListsInv => L!ShownIsSaved
<1> SUFFICES ASSUME ListsInv, L!InFlight = {}, view.loaded, ~view.failed,
                    NEW r \in ListRows \ slipped,
                    NEW mine, mine = {i \in DOMAIN shown : shown[i].id = r}
             PROVE  /\ L!Cardinality(mine) = IF table[r].kept THEN 1 ELSE 0
                    /\ \A i \in mine : /\ shown[i].status = table[r].status
                                       /\ suggestion[r] = {} => shown[i].texts = table[r].texts
  BY DEF L!ShownIsSaved
<1>1. \A c \in ServerCalls : req[c].at = "idle"
  BY LoadsAre
<1>2. view.loaded = TRUE /\ view.failed = FALSE
  BY DEF ListsInv, ListsTyped
<1>3. AsSaved(shown, suggestion, table, r)
  <2>1. Steady
    BY <1>1, <1>2 DEF Steady, Loading
  <2>2. RowIsShown(r)
    BY <2>1 DEF ListsInv, RowsAreShown
  <2> QED
    BY <1>1, <2>2 DEF RowIsShown, Touches
<1>4. L!Cardinality(mine) = IF table[r].kept THEN 1 ELSE 0
  <2>1. table[r].kept \in BOOLEAN
    BY RowIs DEF ListsInv, ListsTyped
  <2>2. CASE table[r].kept = TRUE
    <3>1. PICK i \in DOMAIN shown : shown[i].id = r /\ \A j \in DOMAIN shown : shown[j].id = r => j = i
      BY <1>3, <2>2 DEF AsSaved, AsKept, OnlyOne
    <3>2. mine = {i}
      BY <3>1
    <3> QED
      BY <2>2, <3>2, FS_Singleton, ListCardinality
  <2>3. CASE table[r].kept = FALSE
    <3>1. mine = {}
      BY <1>3, <2>3 DEF AsSaved, AsKept, NotOne
    <3> QED
      BY <2>3, <3>1, FS_EmptySet, ListCardinality
  <2> QED
    BY <2>1, <2>2, <2>3
<1> QED
  BY <1>3, <1>4 DEF AsSaved, StatusIs, TextsAre

-----------------------------------------------------------------------------
LEMMA ShownAssumptions ==
  /\ PollsAssumption /\ FeedAssumption /\ ChatAssumption /\ MaxEdits \in Nat
  /\ DeskAssumption /\ CalendarAssumption /\ ListsAssumption
<1>1. PollsAssumption /\ FeedAssumption /\ ChatAssumption /\ MaxEdits \in Nat
  BY StorefrontAssumption DEF PollsAssumption, FeedAssumption, ChatAssumption
<1>2. DeskAssumption /\ CalendarAssumption /\ ListsAssumption
  BY StorefrontAssumption, SideAssumptions DEF DeskAssumption, CalendarAssumption, ListsAssumption
<1> QED
  BY <1>1, <1>2

(* What each page shows, beside the invariants that SideInv has already.    *)
ShownInv ==
  /\ PollsInv /\ PagesInv /\ GivenInv /\ FeedInv /\ ChatInv
  /\ DeskInv /\ CalendarInv /\ ListsInv

LEMMA ListingIsTyped == ListingInv => ListingTyped
BY DEF ListingInv

LEMMA ShownStart == StorefrontInit => ShownInv
<1> SUFFICES ASSUME StorefrontInit PROVE ShownInv
  OBVIOUS
<1>1. /\ U!Init /\ C!Init /\ G!Init /\ H!Init /\ P!Init /\ F!Init /\ E!Init /\ L!Init
  BY DEF StorefrontInit
<1>2. ListingTyped
  BY SideStart, ListingIsTyped DEF SideInv
<1>3. PollsInv /\ PagesInv /\ GivenInv /\ FeedInv /\ ChatInv
  BY <1>1, <1>2, ShownAssumptions, PollsStart, PagesStart, GivenStart, FeedStart, ChatStart
<1>4. DeskInv /\ CalendarInv /\ ListsInv
  BY <1>1, ShownAssumptions, DeskStart, CalendarStart, ListsStart
<1> QED
  BY <1>3, <1>4 DEF ShownInv

(* EachSteps, of the three components it leaves out.                        *)
LEMMA PageSteps ==
  ASSUME [StorefrontNext]_all
  PROVE  [H!Next]_(H!vars) /\ [F!Next]_(F!vars) /\ [L!Next]_(L!vars)
<1>1. UNCHANGED pillVars => UNCHANGED (H!vars)
  BY DEF pillVars, H!vars
<1>2. UNCHANGED feedVars => UNCHANGED (F!vars)
  BY DEF feedVars, F!vars
<1>3. UNCHANGED listVars => UNCHANGED (L!vars)
  BY DEF listVars, L!vars
<1>4. UNCHANGED all => UNCHANGED <<pillVars, feedVars, listVars>>
  BY DEF all
<1>5. /\ H!Next \/ UNCHANGED pillVars
      /\ F!Next \/ UNCHANGED feedVars
      /\ L!Next \/ UNCHANGED listVars
  BY <1>4 DEF StorefrontNext, Others
<1> QED
  BY <1>1, <1>2, <1>3, <1>5

LEMMA ShownKept == SideInv /\ ShownInv /\ [StorefrontNext]_all => ShownInv'
<1> SUFFICES ASSUME SideInv, ShownInv, [StorefrontNext]_all PROVE ShownInv'
  OBVIOUS
<1>1. SideInv'
  BY SideKept
<1>2. PollsInv' /\ FeedInv' /\ GivenInv'
  <2>1. [H!Next]_(H!vars) /\ [F!Next]_(F!vars) /\ [E!Next]_(E!vars)
    BY EachSteps, PageSteps
  <2>2. PollsInv' /\ FeedInv'
    BY <2>1, ShownAssumptions, PollsKept, FeedKept DEF ShownInv
  <2>3. GivenInv'
    BY <2>1, SideAssumptions, GivenKept DEF SideInv, ShownInv
  <2> QED
    BY <2>2, <2>3
<1>3. PagesInv' /\ ChatInv'
  <2>1. ListingTyped /\ ListingTyped' /\ DraftInv'
    BY <1>1, ListingIsTyped DEF SideInv, ListingInv
  <2> QED
    BY <2>1, EachSteps, ShownAssumptions, PagesKept, ChatKeeps DEF SideInv, ShownInv
<1>4. [C!Next]_(C!vars) /\ [U!Next]_(U!vars) /\ [L!Next]_(L!vars)
  BY EachSteps, PageSteps
<1>5. DeskInv'
  BY <1>4, ShownAssumptions, DeskKept DEF SideInv, ShownInv
<1>6. CalendarInv' /\ ListsInv'
  BY <1>4, ShownAssumptions, CalendarKept, ListsKept DEF SideInv, ShownInv
<1> QED
  BY <1>2, <1>3, <1>5, <1>6 DEF ShownInv

LEMMA ShownStands == StorefrontSpec => [](SideInv /\ ShownInv)
<1> QED
  BY SideStart, SideKept, ShownStart, ShownKept, PTL DEF StorefrontSpec

(* OwnerLists, Composers, LocalListing, StatusPolls, SeoAgent, Onboarding   *)
(* and AgentFeed: what the owner's pages show is what is saved, what she    *)
(* typed, said and was told, but where a call overlapped another, an answer *)
(* was lost or she left; whatever the number of rows, calls and bubbles.    *)
THEOREM ShownStays == StorefrontSpec => []ShownIsSaved
<1>1. ListsInv => L!ShownIsSaved
  BY ListsPromise
<1>2. DeskInv => C!TypedIsKept
  BY DeskPromise
<1>3. ListingInv /\ PagesInv => G!ProfileIsShown
  BY ListingIsTyped, PagesPromise
<1>4. PollsInv => H!PillIsCurrent
  BY DEF PollsInv
<1>5. GivenInv => E!AgentsDescKept
  BY GivenPromise
<1>6. ChatInv => P!PromptsAnswered /\ P!TranscriptKept
  BY ChatAnswered, ChatTranscript
<1>7. FeedInv => F!FeedHasWhatIsTold /\ F!CardIsTrue
  BY FeedTells, CardsTell
<1>8. SideInv /\ ShownInv => ShownIsSaved
  BY <1>1, <1>2, <1>3, <1>4, <1>5, <1>6, <1>7 DEF SideInv, ShownInv, ShownIsSaved
<1> QED
  BY <1>8, ShownStands, PTL

(* Every component: its rows, calls, lists and counters stay within the     *)
(* types and the bounds of its state.                                       *)
THEOREM TypesStay == StorefrontSpec => []AllTypesOK
<1>1. /\ OrdersInv => O!TypeOK
      /\ ReviewsInv => V!TypeOK
      /\ StudioInv => D!TypeOK
      /\ DomainsInv => N!TypeOK
      /\ SearchInv => E!TypeOK
  BY DEF OrdersInv, ReviewsInv, StudioInv, DomainsInv, SearchInv
<1>2. OutreachInv /\ CalendarInv => U!TypeOK
  BY CalendarTypes
<1>3. ListsInv => L!TypeOK
  BY ListsTypes
<1>4. ComposersInv /\ DeskInv => C!TypeOK
  BY DeskTypes, ShownAssumptions
<1>5. ListingInv /\ PagesInv => G!TypeOK
  BY ListingIsTyped, PagesTypes
<1>6. PollsInv => H!TypeOK
  BY PollsTypes
<1>7. DraftInv /\ ChatInv => P!TypeOK
  BY ChatTypes
<1>8. FeedInv => F!TypeOK
  BY FeedTypes
<1>9. SideInv /\ ShownInv => AllTypesOK
  BY <1>1, <1>2, <1>3, <1>4, <1>5, <1>6, <1>7, <1>8 DEF SideInv, ShownInv, AllTypesOK
<1> QED
  BY <1>9, ShownStands, PTL
=============================================================================
