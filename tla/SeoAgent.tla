------------------------------- MODULE SeoAgent -------------------------------
(* The agent that describes the pages of a tenant's sites to search engines  *)
(* (marketing/agents/SeoAgent.ts), run by the conductor every day and by the *)
(* owner when she likes, beside the editor in which she writes descriptions  *)
(* herself (components/dashboard/PagesDashboard.tsx) and the route that      *)
(* saves them (app/api/dashboard/pages).                                     *)
EXTENDS Naturals, FiniteSets

CONSTANTS
  Pages,     \* pages of the tenant's published site
  Runs,      \* runs of the agent
  MaxRuns,   \* bound: runs
  MaxSaves,  \* bound: saves, of the editor and of the list
  None       \* no page

Descs == {"none", "hers", "agents"}

VARIABLES
  page,     \* the rows: is it there, published, and described by whom
  run,      \* [at, todo, now]
  shown,    \* the rows in the owner's list, as they were read or saved
  editor,   \* the page that is open in the editor, its fields as they are there
  begun, saves, \* bounds' counters
  sitemap,  \* the pages in the latest sitemap
  own,      \* history: pages she described, that no run had listed before
  given     \* history: pages the agent described that she has in her list so

vars == <<page, run, shown, editor, begun, saves, sitemap, own, given>>

Idle == [at |-> "idle", todo |-> {}, now |-> None]
Rows == [there : BOOLEAN, published : BOOLEAN, desc : Descs]
Shut == [on |-> None, desc |-> "none", published |-> FALSE]

TypeOK ==
  /\ page \in [Pages -> Rows] /\ shown \in [Pages -> Rows]
  /\ run \in [Runs -> [at : {"idle", "sitemap", "list", "page", "write", "keywords"},
                       todo : SUBSET Pages, now : Pages \cup {None}]]
  /\ editor \in [on : Pages \cup {None}, desc : Descs, published : BOOLEAN]
  /\ sitemap \subseteq Pages /\ own \subseteq Pages /\ given \subseteq Pages

Init ==
  /\ page \in [Pages -> [there : {TRUE}, published : BOOLEAN, desc : {"none", "hers"}]]
  /\ run = [r \in Runs |-> Idle]
  /\ shown = page /\ editor = Shut
  /\ begun = 0 /\ saves = 0
  /\ sitemap = {}
  /\ own = {p \in Pages : page[p].desc = "hers"}
  /\ given = {}

Listing(p) == \E r \in Runs : p \in run[r].todo \/ run[r].now = p

-----------------------------------------------------------------------------
(* The agent.                                                                *)

Goto(r, label) == run' = [run EXCEPT ![r].at = label]
Rest == UNCHANGED <<page, shown, editor, saves, sitemap, own, given>>

Begin(r) ==
  /\ run[r].at = "idle" /\ begun < MaxRuns
  /\ begun' = begun + 1
  /\ Goto(r, "sitemap")
  /\ Rest

Public == {p \in Pages : page[p].there /\ page[p].published}

(* The sitemap is a row of the agent's log; the search engine is told.       *)
MapSite(r) ==
  /\ run[r].at = "sitemap"
  /\ sitemap' = Public
  /\ Goto(r, "list")
  /\ UNCHANGED <<page, shown, editor, begun, saves, own, given>>

(* Mutant: every page is described anew.                                     *)
Wanting_Every == Public

Wanting == {p \in Public : page[p].desc = "none"}

ListPages(r) ==
  /\ run[r].at = "list"
  /\ run' = [run EXCEPT ![r].at = "page", ![r].todo = Wanting]
  /\ begun' = begun /\ Rest

(* The model describes one of them, or is refused it, or says nothing.       *)
Describe(r, p) ==
  /\ run[r].at = "page" /\ p \in run[r].todo
  /\ \/ run' = [run EXCEPT ![r] = [at |-> "write", todo |-> @.todo \ {p}, now |-> p]]
     \/ run' = [run EXCEPT ![r].todo = @ \ {p}]
  /\ begun' = begun /\ Rest

(* The description is written over the one there is by now.                  *)
WriteDesc(r) ==
  LET p == run[r].now
  IN /\ run[r].at = "write" /\ page[p].there
     /\ page' = [page EXCEPT ![p].desc = "agents"]
     /\ run' = [run EXCEPT ![r].at = "page", ![r].now = None]
     /\ UNCHANGED <<shown, editor, begun, saves, sitemap, own, given>>

(* A page that is gone ends the run, and with it the pages still to come.    *)
WriteFails(r) ==
  /\ run[r].at = "write" /\ ~page[run[r].now].there
  /\ run' = [run EXCEPT ![r] = Idle]
  /\ begun' = begun /\ Rest

PagesDone(r) ==
  /\ run[r].at = "page" /\ run[r].todo = {}
  /\ Goto(r, "keywords")
  /\ begun' = begun /\ Rest

Keywords(r) ==
  /\ run[r].at = "keywords"
  /\ run' = [run EXCEPT ![r] = Idle]
  /\ begun' = begun /\ Rest

(* A query, a row of the log, or the router throws.                          *)
RunFails(r) ==
  /\ run[r].at # "idle"
  /\ run' = [run EXCEPT ![r] = Idle]
  /\ begun' = begun /\ Rest

-----------------------------------------------------------------------------
(* The owner.                                                                *)

(* The list reads all rows, when it is opened and when she retries; the      *)
(* editor covers it.                                                         *)
LoadPages ==
  /\ shown # page /\ editor.on = None
  /\ shown' = page
  /\ given' = {p \in Pages : page[p].there /\ page[p].desc = "agents"}
  /\ UNCHANGED <<page, run, editor, begun, saves, sitemap, own>>

(* The editor is given the row of the list.                                  *)
OpenEditor(p) ==
  /\ editor.on = None /\ shown[p].there /\ saves < MaxSaves
  /\ editor' = [on |-> p, desc |-> shown[p].desc, published |-> shown[p].published]
  /\ UNCHANGED <<page, run, shown, begun, saves, sitemap, own, given>>

WriteInEditor ==
  /\ editor.on # None
  /\ \E desc \in {"hers", "none"} : editor' = [editor EXCEPT !.desc = desc]
  /\ given' = given \ {editor.on}
  /\ UNCHANGED <<page, run, shown, begun, saves, sitemap, own>>

CloseEditor ==
  /\ editor.on # None
  /\ editor' = Shut
  /\ UNCHANGED <<page, run, shown, begun, saves, sitemap, own, given>>

(* Mutant: the description is saved as empty unless she wrote it.            *)
SavedDesc_Hers == IF editor.desc = "hers" THEN "hers" ELSE "none"

SavedDesc == editor.desc

(* Every field of the editor is saved, those she did not touch as they were  *)
(* in the list; a page that is gone is refused.                              *)
SaveEditor ==
  LET p == editor.on
  IN /\ p # None
     /\ saves' = saves + 1
     /\ \/ /\ page[p].there
           /\ \E published \in BOOLEAN :
                page' = [page EXCEPT ![p].desc = SavedDesc, ![p].published = published]
           /\ shown' = [shown EXCEPT ![p] = page'[p]]
           /\ editor' = Shut
           /\ own' = IF editor.desc = "hers" /\ ~Listing(p) THEN own \cup {p} ELSE own \ {p}
        \/ ~page[p].there /\ UNCHANGED <<page, shown, editor, own>>
     /\ UNCHANGED <<run, begun, sitemap, given>>

(* The list's own switch, which saves nothing else, and a row's removal.     *)
Saved(p, row) ==
  /\ editor.on = None /\ shown[p].there /\ page[p].there /\ saves < MaxSaves
  /\ saves' = saves + 1
  /\ page' = [page EXCEPT ![p] = row]
  /\ shown' = [shown EXCEPT ![p] = row]
  /\ UNCHANGED <<run, editor, begun, sitemap>>

TogglePublish(p) ==
  /\ Saved(p, [page[p] EXCEPT !.published = ~shown[p].published])
  /\ UNCHANGED <<own, given>>

Delete(p) ==
  /\ Saved(p, [page[p] EXCEPT !.there = FALSE])
  /\ own' = own \ {p} /\ given' = given \ {p}

Next ==
  \/ LoadPages \/ WriteInEditor \/ CloseEditor \/ SaveEditor
  \/ \E p \in Pages : OpenEditor(p) \/ TogglePublish(p) \/ Delete(p)
  \/ \E r \in Runs :
       \/ Begin(r) \/ MapSite(r) \/ ListPages(r) \/ WriteDesc(r) \/ WriteFails(r)
       \/ PagesDone(r) \/ Keywords(r) \/ RunFails(r)
       \/ \E p \in Pages : Describe(r, p)

Spec == Init /\ [][Next]_vars

-----------------------------------------------------------------------------
(* The agent does not write over a description of the owner's, unless a run  *)
(* had listed the page while it had none.                                    *)
OwnersDescKept == \A p \in own : page[p].desc = "hers"

(* What the agent wrote, once the owner's list has it, stays until she       *)
(* writes another description or removes the page: a save of the page's      *)
(* other fields keeps it.                                                    *)
AgentsDescKept == \A p \in given : page[p].desc = "agents"
=============================================================================
