----------------------------- MODULE LlmRouter -----------------------------
(***************************************************************************)
(* routeLlm (integrations/llm/router.ts): each call walks the models of    *)
(* its task: the completion cache, then the provider, then the quality     *)
(* gate of the caller.  The calls of one process interleave at every       *)
(* await, and share its cache (llm/cache.ts), whose key leaves the gate    *)
(* out: what one caller accepted, another is offered.  What a debit does   *)
(* is Wallet's; here it is done, or it throws.                             *)
(***************************************************************************)
EXTENDS Naturals, Sequences, SequencesExt

CONSTANTS
  Calls,      \* calls of routeLlm
  Prompts,    \* what a cache key is made of, the model aside
  OwnModels,  \* how many models the task's tier has
  NextModels, \* how many the next tier adds, for a task of the cheap tier
  MaxEntries  \* size of the cache (500 in the code)

(* What the proofs assume of them.                                          *)
LlmAssumption == OwnModels \in Nat /\ NextModels \in Nat /\ MaxEntries \in Nat

(* candidateModels: the ordered list a call walks, as positions.            *)
Models == 1..(OwnModels + NextModels)
CandidateModels(cheap) == IF cheap THEN OwnModels + NextModels ELSE OwnModels

(* What a completion is worth: "poor" fails the expectJson of a call that   *)
(* has one ("strict"), any text passes where there is none ("any").         *)
Qualities == {"good", "poor"}
Gates == {"strict", "any"}
PassesQuality(gate, text) == gate = "any" \/ text = "good"

VARIABLES
  cache,  \* the entries, least recently used first
  call    \* the calls: [at, prompt, gate, cheap, model, text]

llmVars == <<cache, call>>

CacheKeys == Models \X Prompts
Entries == [key : CacheKeys, text : Qualities]

TypeOK ==
  /\ cache \in Seq(Entries)
  /\ Len(cache) <= MaxEntries
  /\ call \in [Calls -> [at : {"idle", "credits", "look", "complete", "meter", "done",
                               "denied", "threw"},
                         prompt : Prompts, gate : Gates, cheap : BOOLEAN,
                         model : 1..(OwnModels + NextModels + 1),
                         text : Qualities \cup {"none", "empty"}]]

Init ==
  /\ cache = <<>>
  /\ call \in [Calls -> [at : {"idle"}, prompt : Prompts, gate : Gates, cheap : BOOLEAN,
                         model : {1}, text : {"none"}]]

Key(c) == <<call[c].model, call[c].prompt>>
Goto(c, label) == call' = [call EXCEPT ![c].at = label]

(* The audit row that ends a call is written, or throws out of routeLlm.    *)
Audited(c, text) ==
  \/ call' = [call EXCEPT ![c].at = "done", ![c].text = text]
  \/ call' = [call EXCEPT ![c].at = "threw", ![c].text = "none"]

(* A key has at most one entry.                                             *)
Places(k) == {i \in DOMAIN cache : cache[i].key = k}
Without(k) ==
  IF Places(k) = {} THEN cache ELSE RemoveAt(cache, CHOOSE i \in Places(k) : TRUE)
Cached(k) == {text \in Qualities : Contains(cache, [key |-> k, text |-> text])}

(* cacheGet moves the entry to the end, whether or not its text will do.    *)
Refreshed(k) ==
  IF Cached(k) = {} THEN cache
  ELSE Append(Without(k), [key |-> k, text |-> CHOOSE text \in Cached(k) : TRUE])

(* cacheSet: in at the end, and out at the front what is too much.          *)
Stored(k, text) ==
  LET entries == Append(Without(k), [key |-> k, text |-> text])
      extra == IF Len(entries) > MaxEntries THEN Len(entries) - MaxEntries ELSE 0
  IN  SubSeq(entries, extra + 1, Len(entries))

-----------------------------------------------------------------------------
Begin(c) ==
  /\ call[c].at = "idle"
  /\ Goto(c, "credits")
  /\ UNCHANGED cache

(* The balance covers the estimate, or the call ends before any provider    *)
(* is asked.                                                                *)
Preflight(c) ==
  /\ call[c].at = "credits"
  /\ \E label \in {"look", "denied"} : Goto(c, label)
  /\ UNCHANGED cache

(* Mutant: a hit is answered without the caller's gate.                     *)
Hit_Ungated(c) == Cached(Key(c))

(* The cached completion, if it will do.                                    *)
Hit(c) == {text \in Cached(Key(c)) : PassesQuality(call[c].gate, text)}

(* A hit is answered and debits nothing; else the provider is called.       *)
LookInCache(c) ==
  /\ call[c].at = "look"
  /\ call[c].model <= CandidateModels(call[c].cheap)
  /\ cache' = Refreshed(Key(c))
  /\ IF Hit(c) # {}
     THEN \E text \in Hit(c) : Audited(c, text)
     ELSE Goto(c, "complete")

NextModel(c) == call' = [call EXCEPT ![c].at = "look", ![c].model = @ + 1]

(* The provider's answer: one that passes the gate is cached before it is   *)
(* metered.                                                                 *)
ProviderAnswers(c, text) ==
  /\ call[c].at = "complete"
  /\ IF PassesQuality(call[c].gate, text)
     THEN /\ cache' = Stored(Key(c), text)
          /\ call' = [call EXCEPT ![c].at = "meter", ![c].text = text]
     ELSE NextModel(c) /\ UNCHANGED cache

ProviderThrows(c) ==
  /\ call[c].at = "complete"
  /\ NextModel(c)
  /\ UNCHANGED cache

(* recordUsage; if it throws the entry stays.                               *)
Meter(c) ==
  /\ call[c].at = "meter"
  /\ Audited(c, call[c].text)
  /\ UNCHANGED cache

(* Every candidate failed: an empty answer, and no debit.                   *)
Degrade(c) ==
  /\ call[c].at = "look"
  /\ call[c].model > CandidateModels(call[c].cheap)
  /\ Audited(c, "empty")
  /\ UNCHANGED cache

(* The process is replaced: its calls and its cache are gone.               *)
Restart ==
  /\ cache # <<>>
  /\ cache' = <<>>
  /\ call' = [c \in Calls |->
                IF call[c].at \in {"idle", "done", "denied"} THEN call[c]
                ELSE [call[c] EXCEPT !.at = "threw", !.text = "none"]]

Next ==
  \/ \E c \in Calls :
       \/ Begin(c) \/ Preflight(c) \/ LookInCache(c)
       \/ \E text \in Qualities : ProviderAnswers(c, text)
       \/ ProviderThrows(c) \/ Meter(c) \/ Degrade(c)
  \/ Restart

Spec == Init /\ [][Next]_llmVars

-----------------------------------------------------------------------------
(* Whoever else filled the cache, at whatever gate, and whichever model     *)
(* answered in the end: a text that reaches a caller passes that caller's   *)
(* own gate, or is empty and says it is degraded.                           *)
AnswerPassesItsGate ==
  \A c \in Calls :
    call[c].at = "done" => \/ call[c].text = "empty"
                           \/ PassesQuality(call[c].gate, call[c].text)
=============================================================================
