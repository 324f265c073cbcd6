----------------------------- MODULE MCBilling -----------------------------
(* Model-checking instances of Billing.                                     *)
EXTENDS Billing, FiniteSets, TLC

(* Two webhook events race with one call of the owner, or two calls of hers *)
(* with one event that matters.                                             *)
InScope ==
  \/ Cardinality({e \in Events : inbox[e].does # "nothing"}) <= 1
  \/ Cardinality({o \in Owners : order[o] # "none"}) <= 1

MCSpec == Init /\ [][Next /\ InScope']_vars

(* Events, webhook requests and owner calls are interchangeable.            *)
Symmetry == Permutations(Events) \cup Permutations(Deliveries)
              \cup Permutations(Owners)
=============================================================================
