---------------------------- MODULE StudioDraft ----------------------------
(* The business profile an owner edits, signed in, in Launch Studio         *)
(* (components/studio/StudioShell.tsx; the older components/dashboard/      *)
(* Dashboard.tsx hydrates and saves in the same way): what her page shows,  *)
(* the calls by which the page saves, publishes and reads it again, the     *)
(* draft she left in localStorage before she signed in, which the page      *)
(* posts once to app/api/draft/migrate, and the rows of the database.       *)
(* Server actions and refreshes of one page run one at a time, in order, as *)
(* the framework's router queues them; the migration is a plain fetch.      *)
EXTENDS Naturals, Sequences

CONSTANTS
  MaxEdits,      \* bound: times the owner changes a field
  MaxPublishes,  \* bound: times she publishes
  LeftDraft,     \* did she leave a draft in localStorage?
  Faults         \* may calls fail?

VARIABLES
  rows,      \* the tenant's businesses, oldest first: the first is the primary
  page,      \* what the page shows, the business it was given, has it hydrated
  queue,     \* the page's calls: the first is being served
  found,     \* did the upsert being served find a business? "no" before it looks
  migrate,   \* the migration's call
  edits, publishes, \* bounds' counters
  adrift     \* history: a call failed since the page was last read or saved

vars == <<rows, page, queue, found, migrate, edits, publishes, adrift>>

(* Profiles: the page's placeholder, the local draft, the owner's edits and *)
(* what an earlier sitting stored.                                          *)
Nobody == <<"none", 0>>
Placeholder == <<"placeholder", 0>>
Draft == <<"draft", 0>>
Typed(edit) == <<"typed", edit>>
Profiles == {Placeholder, Draft, <<"stored", 0>>} \cup {Typed(edit) : edit \in 1..MaxEdits}
Calls == [kind : {"save", "publish", "refresh"}, value : Profiles]
Looks == {"no", "nothing", "something"}

TypeOK ==
  /\ rows \in Seq(Profiles)
  /\ page \in [shows : Profiles, given : Profiles \cup {Nobody}, hydrated : BOOLEAN]
  /\ queue \in Seq(Calls)
  /\ found \in Looks
  /\ migrate \in {"idle", "sent", "adopting", "nothing", "something", "answered", "over"}
  /\ edits \in 0..MaxEdits /\ publishes \in 0..MaxPublishes
  /\ adrift \in BOOLEAN

Primary(table) == IF table = <<>> THEN Nobody ELSE Head(table)
LocalDraft == IF LeftDraft THEN Draft ELSE Placeholder

Init ==
  /\ rows \in {<<>>, << <<"stored", 0>> >>}
  /\ page = [shows |-> IF rows = <<>> THEN Placeholder ELSE Head(rows),
             given |-> Primary(rows), hydrated |-> FALSE]
  /\ queue = <<>> /\ found = "no" /\ migrate = "idle"
  /\ edits = 0 /\ publishes = 0 /\ adrift = FALSE

-----------------------------------------------------------------------------
(* The page.                                                                *)

Save(value) == [kind |-> "save", value |-> value]

(* The first effects: the page takes the server's business if there is one, *)
(* else posts the local draft; then it saves whatever it shows.             *)
Hydrate ==
  /\ ~page.hydrated
  /\ page' = [page EXCEPT !.hydrated = TRUE]
  /\ queue' = Append(queue, Save(page.shows))
  /\ migrate' = IF page.given = Nobody THEN "sent" ELSE migrate
  /\ UNCHANGED <<rows, found, edits, publishes, adrift>>

(* updateBusiness, applyGeneratedProfile: every change is saved.            *)
Edit ==
  /\ page.hydrated /\ edits < MaxEdits
  /\ edits' = edits + 1
  /\ page' = [page EXCEPT !.shows = Typed(edits')]
  /\ queue' = Append(queue, Save(Typed(edits')))
  /\ UNCHANGED <<rows, found, migrate, publishes, adrift>>

(* publishDraft.                                                            *)
Publish ==
  /\ page.hydrated /\ publishes < MaxPublishes
  /\ publishes' = publishes + 1
  /\ queue' = Append(queue, [kind |-> "publish", value |-> page.shows])
  /\ UNCHANGED <<rows, page, found, migrate, edits, adrift>>

-----------------------------------------------------------------------------
(* The server.                                                              *)

Look == IF rows = <<>> THEN "nothing" ELSE "something"

(* upsertPrimary writes the oldest business, or a new one where its lookup  *)
(* found none.                                                              *)
Upserted(look, value) ==
  IF look = "something" THEN [rows EXCEPT ![1] = value] ELSE Append(rows, value)

Upserts == queue # <<>> /\ Head(queue).kind \in {"save", "publish"}

UpsertLooks ==
  /\ Upserts /\ found = "no"
  /\ found' = Look
  /\ UNCHANGED <<rows, page, queue, migrate, edits, publishes, adrift>>

Refresh == [kind |-> "refresh", value |-> Placeholder]

(* saveBusinessAction ends here; publishSiteAction goes on to the site, and *)
(* the page then reads everything again.                                    *)
UpsertWrites ==
  /\ Upserts /\ found # "no"
  /\ rows' = Upserted(found, Head(queue).value)
  /\ queue' = IF Head(queue).kind = "publish" THEN Append(Tail(queue), Refresh) ELSE Tail(queue)
  /\ found' = "no"
  /\ adrift' = (adrift /\ found = "nothing")
  /\ UNCHANGED <<page, migrate, edits, publishes>>

(* A save's failure is swallowed, a publish's only shown.                   *)
CallFails ==
  /\ Faults /\ Upserts
  /\ queue' = Tail(queue)
  /\ found' = "no"
  /\ adrift' = TRUE
  /\ UNCHANGED <<rows, page, migrate, edits, publishes>>

(* router.refresh: the page is given the primary business as it is now, the *)
(* effect shows it in place of what was typed, and the change is saved.     *)
Refreshes ==
  /\ queue # <<>> /\ Head(queue).kind = "refresh"
  /\ IF rows = <<>> THEN page' = page /\ queue' = Tail(queue)
     ELSE /\ page' = [page EXCEPT !.given = Head(rows), !.shows = Head(rows)]
          /\ queue' = Append(Tail(queue), Save(Head(rows)))
  /\ UNCHANGED <<rows, found, migrate, edits, publishes, adrift>>

(* POST /api/draft/migrate: the draft is adopted unless the tenant has a    *)
(* business; adopting it is an upsert with a lookup of its own.             *)
MigrateLooks ==
  /\ \/ migrate = "sent" /\ migrate' = IF rows = <<>> THEN "adopting" ELSE "answered"
     \/ migrate = "adopting" /\ migrate' = Look
  /\ UNCHANGED <<rows, page, queue, found, edits, publishes, adrift>>

MigrateWrites ==
  /\ migrate \in {"nothing", "something"}
  /\ rows' = Upserted(migrate, LocalDraft)
  /\ migrate' = "answered"
  /\ UNCHANGED <<page, queue, found, edits, publishes, adrift>>

(* Mutant: the page does not read again what the migration adopted.         *)
AfterMigrate_Nothing == queue

AfterMigrate == Append(queue, Refresh)

Migrated ==
  /\ migrate = "answered"
  /\ migrate' = "over"
  /\ queue' = AfterMigrate
  /\ UNCHANGED <<rows, page, found, edits, publishes, adrift>>

MigrateFails ==
  /\ Faults /\ migrate \notin {"idle", "over"}
  /\ migrate' = "over"
  /\ adrift' = TRUE
  /\ UNCHANGED <<rows, page, queue, found, edits, publishes>>

Next ==
  \/ Hydrate \/ Edit \/ Publish
  \/ UpsertLooks \/ UpsertWrites \/ CallFails \/ Refreshes
  \/ MigrateLooks \/ MigrateWrites \/ Migrated \/ MigrateFails

Spec == Init /\ [][Next]_vars

-----------------------------------------------------------------------------
Quiet == page.hydrated /\ queue = <<>> /\ migrate \in {"idle", "over"}

(* Once its calls are answered, what the page shows is what the database    *)
(* has, though edits, refreshes and the migration race, unless one failed.  *)
PageIsSaved == Quiet /\ ~adrift => page.shows = Primary(rows)
=============================================================================
