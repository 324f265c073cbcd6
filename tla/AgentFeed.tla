------------------------------ MODULE AgentFeed ------------------------------
(* The marketing control center: the page on which the owner runs an agent   *)
(* and reads what the agents did                                             *)
(* (components/dashboard/MarketingControlCenter.tsx), the routes it calls    *)
(* (app/api/marketing/trigger and runs), and the run they start              *)
(* (marketing/conductor.ts, runForTenant), beside the conductor's own.  The  *)
(* page makes plain calls, and its newest answer may not be its last.        *)
EXTENDS Naturals, FiniteSets

CONSTANTS
  Calls,      \* calls and runs that can be out at once
  Limit,      \* runs a feed shows at most
  MaxRuns,    \* bound: runs of agents
  MaxRows,    \* bound: runs and rows of agents' own
  MaxFetches  \* bound: reads of the feed

(* One that keeps rows of its own, as seo and report do, and one that does   *)
(* not, as content, social, email, nurture and reputation.                   *)
Agents == {"seo", "content"}
Nothing == [says |-> "nothing", run |-> 0]

VARIABLES
  log,      \* rows of MarketingRun: when they started, whose, how they ended
  clock,    \* rows and runs are numbered as they start
  mount,    \* the page's first read, which tells its openings apart; 0: closed
  feed, loading, card, \* what the page shows
  call,
  runs, asked, \* bounds' counters; asked numbers the reads too
  answers,  \* history: the read whose answer is shown
  told,     \* history: runs of whose end this page was told
  mute      \* history: runs whose end could not be logged, or not be told

vars == <<log, clock, mount, feed, loading, card, call, runs, asked, answers, told, mute>>

Times == 0..MaxRows
Rows == [at : Times, agent : Agents, done : BOOLEAN]
Idle == [at |-> "idle", op |-> "read", agent |-> "seo", mount |-> 0, run |-> 0, done |-> FALSE,
         rows |-> {}]

TypeOK ==
  /\ log \subseteq Rows /\ clock \in Times
  /\ mount \in 0..MaxFetches
  /\ feed \subseteq Rows /\ loading \in BOOLEAN
  /\ card \in [Agents -> [says : {"nothing", "running", "completed", "failed", "error"},
                          run : Times]]
  /\ call \in [Calls -> [at : {"idle", "asked", "working", "ending", "served", "refused"},
                         op : {"read", "trigger"}, agent : Agents,
                         mount : 0..MaxFetches, run : Times \cup 0..MaxFetches, done : BOOLEAN,
                         rows : SUBSET Rows]]
  /\ answers \in 0..MaxFetches /\ told \subseteq Times /\ mute \subseteq Times

Init ==
  /\ log = {} /\ clock = 0
  /\ mount = 0 /\ feed = {} /\ loading = FALSE /\ card = [a \in Agents |-> Nothing]
  /\ call = [c \in Calls |-> Idle]
  /\ runs = 0 /\ asked = 0 /\ answers = 0 /\ told = {} /\ mute = {}

Mine(c) == call[c].at # "idle" /\ mount # 0 /\ call[c].mount = mount

-----------------------------------------------------------------------------
(* The page.                                                                 *)

(* fetchRuns.                                                                *)
Fetch(c) ==
  /\ asked < MaxFetches
  /\ asked' = asked + 1
  /\ loading' = TRUE
  /\ call' = [call EXCEPT ![c] = [Idle EXCEPT !.at = "asked", !.mount = mount',
                                         !.run = asked']]

(* On a plan that is not free; on a free one it only offers to upgrade.      *)
Open(c) ==
  /\ mount = 0 /\ call[c].at = "idle"
  /\ mount' = asked + 1
  /\ Fetch(c)
  /\ UNCHANGED <<log, clock, feed, card, runs, answers, told, mute>>

(* A read is then heard by nobody; a run goes on.                            *)
Leave ==
  /\ mount # 0
  /\ call' = [c \in Calls |-> IF call[c].op = "read" THEN Idle ELSE call[c]]
  /\ mount' = 0
  /\ feed' = {} /\ loading' = FALSE /\ card' = [a \in Agents |-> Nothing]
  /\ answers' = 0 /\ told' = {}
  /\ UNCHANGED <<log, clock, runs, asked, mute>>

Refresh(c) ==
  /\ mount # 0 /\ ~loading /\ call[c].at = "idle"
  /\ mount' = mount
  /\ Fetch(c)
  /\ UNCHANGED <<log, clock, feed, card, runs, answers, told, mute>>

(* Mutant: the answer is shown though the agent says it failed.              *)
Outcome_Ok(q) == "completed"

Outcome(q) == IF q.done THEN "completed" ELSE "failed"

(* "Run now", and a quick action, are disabled while their agent runs.       *)
Trigger(c, a) ==
  /\ mount # 0 /\ runs < MaxRuns /\ call[c].at = "idle"
  /\ card[a].says # "running"
  /\ runs' = runs + 1
  /\ card' = [card EXCEPT ![a] = [says |-> "running", run |-> 0]]
  /\ call' = [call EXCEPT ![c] =
       [Idle EXCEPT !.at = "asked", !.op = "trigger", !.agent = a, !.mount = mount]]
  /\ UNCHANGED <<log, clock, mount, feed, loading, asked, answers, told, mute>>

Shown(q, says) == card' = [card EXCEPT ![q.agent] = [says |-> says, run |-> q.run]]

(* The answer says how it went, and the feed is read again.                  *)
TakeTrigger(c) ==
  LET q == call[c]
  IN /\ q.op = "trigger" /\ q.at = "served" /\ Mine(c)
     /\ Shown(q, Outcome(q))
     /\ told' = told \cup {q.run}
     /\ mount' = mount
     /\ Fetch(c)
     /\ UNCHANGED <<log, clock, feed, runs, answers, mute>>

(* A refusal, or an answer that is lost.                                     *)
TakeError(c) ==
  LET q == call[c]
  IN /\ q.op = "trigger" /\ q.at \in {"served", "refused"} /\ Mine(c)
     /\ Shown(q, "error")
     /\ mute' = IF q.at = "served" THEN mute \cup {q.run} ELSE mute
     /\ call' = [call EXCEPT ![c] = Idle]
     /\ UNCHANGED <<log, clock, mount, feed, loading, runs, asked, answers, told>>

TakeRead(c) ==
  LET q == call[c]
  IN /\ q.op = "read" /\ q.at = "served" /\ Mine(c)
     /\ feed' = q.rows /\ answers' = q.run
     /\ loading' = FALSE
     /\ call' = [call EXCEPT ![c] = Idle]
     /\ UNCHANGED <<log, clock, mount, card, runs, asked, told, mute>>

(* "Silently fail".                                                          *)
TakeNoRead(c) ==
  LET q == call[c]
  IN /\ q.op = "read" /\ q.at \in {"served", "refused"} /\ Mine(c)
     /\ loading' = FALSE
     /\ call' = [call EXCEPT ![c] = Idle]
     /\ UNCHANGED <<log, clock, mount, feed, card, runs, asked, answers, told, mute>>

(* What a page that was left asked for.                                      *)
Unheard(c) ==
  LET q == call[c]
  IN /\ q.at \in {"served", "refused"} /\ ~Mine(c)
     /\ call' = [call EXCEPT ![c] = Idle]
     /\ UNCHANGED <<log, clock, mount, feed, loading, card, runs, asked, answers, told,
                    mute>>

-----------------------------------------------------------------------------
(* The server.                                                               *)

Step(c, q) == call' = [call EXCEPT ![c] = q]
ServerSide == UNCHANGED <<mount, feed, loading, card, asked, answers, told>>

(* A run of the conductor's, as it is logged.                                *)
Cron(a) ==
  /\ runs < MaxRuns /\ clock < MaxRows
  /\ runs' = runs + 1 /\ clock' = clock + 1
  /\ \E done \in BOOLEAN : log' = log \cup {[at |-> clock', agent |-> a, done |-> done]}
  /\ ServerSide /\ UNCHANGED <<call, mute>>

(* Not signed in, a free plan, an agent there is not, an error.              *)
Refuse(c) ==
  /\ call[c].at = "asked"
  /\ Step(c, [call[c] EXCEPT !.at = "refused"])
  /\ ServerSide /\ UNCHANGED <<log, clock, runs, mute>>

(* A tenant without a business: the run fails at once and is not logged.     *)
NoContext(c) ==
  /\ call[c].op = "trigger" /\ call[c].at = "asked"
  /\ Step(c, [call[c] EXCEPT !.at = "served"])
  /\ ServerSide /\ UNCHANGED <<log, clock, runs, mute>>

Start(c) ==
  /\ call[c].op = "trigger" /\ call[c].at = "asked"
  /\ clock < MaxRows
  /\ clock' = clock + 1
  /\ Step(c, [call[c] EXCEPT !.at = "working", !.run = clock'])
  /\ ServerSide /\ UNCHANGED <<log, runs, mute>>

(* A sitemap, keywords, a week's numbers: rows of the agent's own, which are *)
(* done whatever becomes of the run.                                         *)
KeepOwnRow(c) ==
  /\ call[c].at = "working" /\ call[c].agent = "seo"
  /\ clock < MaxRows
  /\ clock' = clock + 1
  /\ log' = log \cup {[at |-> clock', agent |-> "seo", done |-> TRUE]}
  /\ ServerSide /\ UNCHANGED <<call, runs, mute>>

(* An agent ends well or not, and does not throw.                            *)
Finish(c) ==
  /\ call[c].at = "working"
  /\ \E done \in BOOLEAN : Step(c, [call[c] EXCEPT !.at = "ending", !.done = done])
  /\ ServerSide /\ UNCHANGED <<log, clock, runs, mute>>

(* logRun.                                                                   *)
LogRun(c) ==
  /\ call[c].at = "ending"
  /\ log' = log \cup {[at |-> call[c].run, agent |-> call[c].agent, done |-> call[c].done]}
  /\ Step(c, [call[c] EXCEPT !.at = "served"])
  /\ ServerSide /\ UNCHANGED <<clock, runs, mute>>

(* It throws: the route says that the agent failed, which had run.           *)
LogFails(c) ==
  /\ call[c].at = "ending"
  /\ mute' = mute \cup {call[c].run}
  /\ Step(c, [call[c] EXCEPT !.at = "refused"])
  /\ ServerSide /\ UNCHANGED <<log, clock, runs>>

(* The latest rows.                                                          *)
Recent == {r \in log : Cardinality({s \in log : s.at > r.at}) < Limit}

ServeRead(c) ==
  /\ call[c].op = "read" /\ call[c].at = "asked"
  /\ Step(c, [call[c] EXCEPT !.at = "served", !.rows = Recent])
  /\ ServerSide /\ UNCHANGED <<log, clock, runs, mute>>

Next ==
  \/ Leave \/ \E a \in Agents : Cron(a)
  \/ \E c \in Calls :
       \/ Open(c) \/ Refresh(c) \/ TakeTrigger(c) \/ TakeError(c) \/ TakeRead(c)
       \/ TakeNoRead(c) \/ Unheard(c)
       \/ Refuse(c) \/ NoContext(c) \/ Start(c) \/ KeepOwnRow(c) \/ Finish(c) \/ LogRun(c)
       \/ LogFails(c) \/ ServeRead(c)
       \/ \E a \in Agents : Trigger(c, a)

Spec == Init /\ [][Next]_vars

-----------------------------------------------------------------------------
(* A feed that shows the answer to the last read the page made shows every   *)
(* run of whose end the page was told, or as many rows that started later.   *)
FeedHasWhatIsTold ==
  mount # 0 /\ answers = asked =>
    \A run \in told \ {0} :
      \/ \E r \in feed : r.at = run
      \/ Cardinality({r \in feed : r.at > run}) = Limit

(* A card says completed, or failed, of a run that is logged so, and error   *)
(* only of one that did not run, but for what was lost on the way.           *)
CardIsTrue ==
  \A a \in Agents :
    LET logged == {r \in log : r.agent = a /\ r.at = card[a].run}
    IN /\ card[a].says = "completed" => \E r \in logged : r.done
       /\ card[a].says = "failed" => \A r \in logged : ~r.done
       /\ card[a].says = "error" => card[a].run = 0 \/ card[a].run \in mute
=============================================================================
