---------------------------- MODULE MCStorefront ----------------------------
(* The storefront's components, and the two stores beneath them, which are  *)
(* only compared with each other.  Two actors in each part, and, while a    *)
(* part stands still, one of its initial states.                            *)
EXTENDS Storefront, TLC

CONSTANTS
  Actors,  \* two processes of the component at hand
  StoreTenants, MaxStoreCalls

VARIABLES
  repo, memory, database, answers, calls

storeVars == <<repo, memory, database, answers, calls>>

S == INSTANCE StoreParity WITH Tenants <- StoreTenants, MaxCalls <- MaxStoreCalls

(* StorefrontInit, of which each part that stands still has one state.      *)
MCInit ==
  /\ part \in Parts \cup {"stores"}
  /\ O!Init /\ U!Init
  /\ V!Init /\ (part # "reviews" => \A v \in Records : review[v].bad)
  /\ D!Init /\ (part # "studio" => rows = <<>>)
  /\ S!Init /\ (part # "stores" => repo = "leads")
  /\ L!Init /\ (part # "lists" => board = "crm" /\ \A r \in ListRows : table[r].kept)
  /\ N!Init /\ (part # "domains" =>
       /\ \A n \in Names : available[n]
       /\ \A c \in ServerCalls : call[c].verb = "renew" /\ call[c].tenant = 1 /\ call[c].name = "n1")
  /\ C!Init /\ (part # "forms" => kind = "quick")
  /\ H!Init /\ (part # "pill" => step = "deploy" /\ slug = 0 /\ pillRow[1].status = "none")
  /\ G!Init /\ (part # "listing" => \A t \in Tabs : profile[t] = 0)
  /\ P!Init /\ (part # "console" => studio /\ ~team)
  /\ F!Init
  /\ E!Init /\ (part # "search" =>
       \A p \in Pages : sitePage[p].published /\ sitePage[p].desc = "none")

MCNext ==
  \/ StorefrontNext /\ UNCHANGED storeVars
  \/ part = "stores" /\ S!Answer /\ UNCHANGED all

MCSpec == MCInit /\ [][MCNext]_<<all, storeVars>>

(* No definition tells one actor from the other.                            *)
Symmetry == Permutations(Actors)

-----------------------------------------------------------------------------
(* StoreParity: after any calls, the store the tests run on and the one the *)
(* product runs on answered alike and read back alike.                      *)
StoresAgree == S!StoresAgree
=============================================================================
