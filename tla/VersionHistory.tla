--------------------------- MODULE VersionHistory ---------------------------
(***************************************************************************)
(* What publishing promises the owner of a site: a history that only grows *)
(* at its end, one version at a time, each a new snapshot or, for a        *)
(* rollback, a copy of an earlier one (app/actions.ts).                    *)
(***************************************************************************)
EXTENDS Sequences

CONSTANTS Snapshots

VARIABLES history  \* the published snapshots; the last is the one served

Init == history = <<>>

Publish(s) == history' = Append(history, s)

Rollback(v) ==
  /\ v \in DOMAIN history
  /\ history' = Append(history, history[v])

Next ==
  \/ \E s \in Snapshots : Publish(s)
  \/ \E v \in DOMAIN history : Rollback(v)

Spec == Init /\ [][Next]_history
=============================================================================
