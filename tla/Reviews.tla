------------------------------ MODULE Reviews ------------------------------
(* Customer reviews: the ReputationAgent that drafts replies to the         *)
(* unanswered ones and flags the bad ones (marketing/agents/                *)
(* ReputationAgent.ts), and the owner who answers, edits or adds a review   *)
(* (app/api/dashboard/reviews/route.ts over integrations/reviews).  A run   *)
(* lists its reviews once and waits for a model between two of them.        *)
EXTENDS Naturals, FiniteSets

CONSTANTS
  Records,  \* rows of review_records
  Runs,     \* runs of the agent for this tenant: the conductor's, and on demand
  MaxRuns,  \* bound: runs begun
  None

VARIABLES
  review,   \* each row: does it exist, is it bad, its response and respondedAt
  run,      \* each run: the reviews it still has to go through, the one at hand
  begun,    \* bound's counter
  flags,    \* history: urgent contacts made for each review, less the excused ones
  own       \* history: the reviews answered while no run had them listed

vars == <<review, run, begun, flags, own>>

TypeOK ==
  /\ review \in [Records -> [exists : BOOLEAN, bad : BOOLEAN,
                             response : {"none", "draft", "owner"}, answered : BOOLEAN]]
  /\ run \in [Runs -> [todo : SUBSET Records, at : Records \cup {None},
                       step : {"model", "flag"}]]
  /\ begun \in 0..MaxRuns
  /\ flags \in [Records -> Nat]
  /\ own \in SUBSET Records

Idle == [todo |-> {}, at |-> None, step |-> "model"]

Init ==
  /\ review \in [Records -> {[exists |-> FALSE, bad |-> b, response |-> "none",
                              answered |-> FALSE] : b \in BOOLEAN}]
  /\ run = [r \in Runs |-> Idle]
  /\ begun = 0
  /\ flags = [v \in Records |-> 0]
  /\ own = {}

-----------------------------------------------------------------------------
(* The owner.                                                               *)

(* POST: saveReview.                                                        *)
Save(v) ==
  /\ ~review[v].exists
  /\ review' = [review EXCEPT ![v].exists = TRUE]
  /\ UNCHANGED <<run, begun, flags, own>>

Listed(v) == \E r \in Runs : v \in run[r].todo \/ run[r].at = v

(* respondToReview.                                                         *)
Answered(row) == [row EXCEPT !.response = "owner", !.answered = TRUE]

(* PATCH with a response, of a review that is the tenant's.                 *)
Respond(v) ==
  /\ review[v].exists /\ review[v].response # "owner"
  /\ review' = [review EXCEPT ![v] = Answered(@)]
  /\ own' = IF Listed(v) THEN own ELSE own \cup {v}
  /\ UNCHANGED <<run, begun, flags>>

-----------------------------------------------------------------------------
(* The agent.                                                               *)

(* Mutant: any review may be drafted for.                                   *)
Open_Any(v) == review[v].exists

(* respondedAt and response both null.                                      *)
Open(v) == review[v].exists /\ ~review[v].answered /\ review[v].response = "none"

(* The worst first, in the order of their ratings.                          *)
Worst(set) == {v \in set : review[v].bad \/ \A w \in set : ~review[w].bad}

(* The conductor begins a run only where it counts an open review; on       *)
(* demand one begins anyway, and ends at once where none is.                *)
Begin(r) ==
  /\ run[r] = Idle /\ begun < MaxRuns
  /\ begun' = begun + 1
  /\ run' = [run EXCEPT ![r].todo = {v \in Records : Open(v)}]
  /\ UNCHANGED <<review, flags, own>>

Take(r) ==
  /\ run[r].at = None
  /\ \E v \in Worst(run[r].todo) :
       run' = [run EXCEPT ![r] = [todo |-> @.todo \ {v}, at |-> v, step |-> "model"]]
  /\ UNCHANGED <<review, begun, flags, own>>

Past(r) == IF review[run[r].at].bad THEN [run EXCEPT ![r].step = "flag"]
           ELSE [run EXCEPT ![r].at = None, ![r].step = "model"]

(* The model answered: the draft goes over whatever the row now holds.      *)
Draft(r) ==
  LET v == run[r].at IN
  /\ v # None /\ run[r].step = "model"
  /\ review' = [review EXCEPT ![v].response = "draft"]
  /\ run' = Past(r)
  /\ UNCHANGED <<begun, flags, own>>

(* No credit, or no text: the review stays open, and this run's flag will   *)
(* not be its last.                                                         *)
NoDraft(r) ==
  LET v == run[r].at IN
  /\ v # None /\ run[r].step = "model"
  /\ run' = Past(r)
  /\ UNCHANGED <<review, begun, flags, own>>

(* Another run has, or will have, flagged the review it listed as well.     *)
Shared(r, v) == \E s \in Runs \ {r} : v \in run[s].todo \/ run[s].at = v

(* An urgent contact is made for a bad review; where the insert fails the   *)
(* agent goes on.                                                           *)
Flag(r) ==
  LET v == run[r].at IN
  /\ run[r].step = "flag"
  /\ \E made \in BOOLEAN :
       flags' = IF made /\ review[v].response # "none" /\ ~Shared(r, v)
                THEN [flags EXCEPT ![v] = @ + 1] ELSE flags
  /\ run' = [run EXCEPT ![r].at = None, ![r].step = "model"]
  /\ UNCHANGED <<review, begun, own>>

(* A call throws and the run returns its error, or its process dies.        *)
Abort(r) ==
  /\ run[r] # Idle
  /\ run' = [run EXCEPT ![r] = Idle]
  /\ UNCHANGED <<review, begun, flags, own>>

Next ==
  \/ \E v \in Records : Save(v) \/ Respond(v)
  \/ \E r \in Runs : Begin(r) \/ Take(r) \/ Draft(r) \/ NoDraft(r) \/ Flag(r) \/ Abort(r)

Spec == Init /\ [][Next]_vars

-----------------------------------------------------------------------------
(* The owner's reply to a review stays what its page shows: no draft goes   *)
(* over it, except from a run that had listed the review before she replied.*)
OwnersReplyKept == \A v \in own : review[v].response = "owner"

(* A bad review whose draft was written makes one urgent contact: again     *)
(* only where the draft was refused or two runs had listed it.              *)
FlaggedOnce == \A v \in Records : flags[v] <= 1
=============================================================================
