--------------------------- MODULE MCActionRouter ---------------------------
(* Model-checking instances of ActionRouter.                                *)
EXTENDS ActionRouter, TLC

CONSTANTS RacedTenant, RacedPayload, RacedKey

(* Two questions share the run.  "racing": calls and approvals of one       *)
(* tenant, payload and key race with everything else.  "bindings": one call *)
(* and one approval, of any tenant, payload, key and verb each.             *)
VARIABLE scope

Raced(c) ==
  c # None => /\ c.tenant = RacedTenant
              /\ c.payload = RacedPayload
              /\ c.key = RacedKey
              /\ c.verb \in GatedVerbs

(* Only one tenant ever has a plan and credit; the other's approvals are    *)
(* foreign to it.                                                           *)
InScope ==
  /\ entitled \cup funded \subseteq {RacedTenant}
  /\ IF scope = "racing"
     THEN /\ \A n \in Nonces : Raced(approvals[n])
          /\ \A r \in Requests : Raced(args[r])
     ELSE /\ Cardinality({n \in Nonces : approvals[n] # None}) <= 1
          /\ Cardinality({r \in Requests : pc[r] # "idle"}) <= 1

MCInit == Init /\ scope \in {"racing", "bindings"} /\ InScope
MCNext == Next /\ UNCHANGED scope /\ InScope'
MCSpec == MCInit /\ [][MCNext]_<<vars, scope>>

(* No definition tells one call, or one nonce, from another.                *)
CallSymmetry == Permutations(Requests) \cup Permutations(Nonces)
=============================================================================
