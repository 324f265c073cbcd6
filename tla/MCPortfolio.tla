---------------------------- MODULE MCPortfolio ----------------------------
(* Two actors in each part, and, while a part stands still, one of its      *)
(* initial states.                                                          *)
EXTENDS Portfolio, TLC

CONSTANTS
  Actors   \* two processes of the component at hand

MCInit ==
  /\ PortfolioInit
  /\ part # "campaigns" => recipients
  /\ part # "optouts" => resolved /\ \A w \in ContactWriters : upsert[w].kind = "lead"
  /\ part # "llm" => \A c \in Calls : call[c].gate = "any" /\ call[c].cheap
                                      /\ call[c].prompt = "prompt"
  /\ part # "posts" => \A f \in Fillers : filler[f].hour = 7

MCSpec == MCInit /\ [][PortfolioNext]_all

(* No definition tells one actor from the other.                            *)
Symmetry == Permutations(Actors)
=============================================================================
