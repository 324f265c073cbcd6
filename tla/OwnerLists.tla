----------------------------- MODULE OwnerLists -----------------------------
(* The lists of the owner's dashboards (components/dashboard): contacts,    *)
(* bookings, invoices, reviews, social posts, email campaigns and pages.    *)
(* Each keeps a copy of its rows in the page, loads it when it is mounted,  *)
(* and changes a row by a call it does not wait for before the next: the    *)
(* answers come in any order.  What a dashboard does with an answer is its  *)
(* own: it believes its request, takes the row answered, or loads again.    *)
EXTENDS Naturals, Sequences, FiniteSets

CONSTANTS
  Rows,      \* rows of the dashboard's table
  Texts,     \* notes, replies, contents
  Requests,  \* calls that can be under way at once
  MaxAsked,  \* bound: calls a page makes
  NoRow

Boards == {"crm", "bookings", "invoices", "reviews", "posts", "campaigns", "pages"}

VARIABLES
  board,       \* the dashboard that is open
  table,       \* the server's rows: is there one, its status, its texts
  shown,       \* the page's list
  view,        \* its flags: loading, failed
  busy,        \* actionLoading: the one row whose buttons are disabled
  suggestion,  \* reviews: the text suggested for a row, none: {}
  req,         \* the calls
  asked,       \* bound's counter
  slipped      \* history: the rows of which the page may show something else

vars == <<board, table, shown, view, busy, suggestion, req, asked, slipped>>

(* A status: 0 is pending, draft, scheduled or unpublished, 2 the last one. *)
Status == 0..2
Absent == [kept |-> FALSE, status |-> 0, texts |-> {}]
RowValues == {Absent} \cup [kept : {TRUE}, status : Status, texts : SUBSET Texts]
Entries == [id : Rows, status : Status, texts : SUBSET Texts]
Entry(r, values) == [id |-> r, status |-> values[r].status, texts |-> values[r].texts]

Ops == {"load", "status", "text", "add", "suggest", "now", "delete"}
Idle == [at |-> "idle", op |-> "load", row |-> NoRow, status |-> 0, text |-> {},
         answer |-> [r \in Rows |-> Absent], overlap |-> {}]

TypeOK ==
  /\ board \in Boards
  /\ table \in [Rows -> RowValues]
  /\ \A i \in DOMAIN shown : shown[i] \in Entries
  /\ view \in [loading : BOOLEAN, failed : BOOLEAN, loaded : BOOLEAN]
  /\ busy \in Rows \cup {NoRow}
  /\ suggestion \in [Rows -> SUBSET Texts]
  /\ req \in [Requests -> [at : {"idle", "sent", "read", "served", "refused"}, op : Ops,
                           row : Rows \cup {NoRow}, status : Status, text : SUBSET Texts,
                           answer : [Rows -> RowValues], overlap : SUBSET Rows]]
  /\ asked \in 0..MaxAsked
  /\ slipped \subseteq Rows

Init ==
  /\ board \in Boards
  /\ table \in [Rows -> {Absent, [kept |-> TRUE, status |-> 0, texts |-> {}]}]
  /\ shown = <<>>
  /\ view = [loading |-> TRUE, failed |-> FALSE, loaded |-> FALSE]
  /\ busy = NoRow
  /\ suggestion = [r \in Rows |-> {}]
  /\ req = [c \in Requests |-> Idle]
  /\ asked = 0
  /\ slipped = {}

InFlight == {c \in Requests : req[c].at # "idle"}
Loads == {c \in InFlight : req[c].op = "load"}
Concerned(op, row) == IF op = "now" THEN Rows ELSE {row}
Changed(calls) == UNION {Concerned(req[c].op, req[c].row) : c \in calls \ Loads}

-----------------------------------------------------------------------------
(* The page makes a call.                                                   *)

(* A load: fetchContacts, load, loadInvoices, fetchReviews, loadPosts,      *)
(* fetchCampaigns, loadPages.  Only the reducer of the pages forgets its    *)
(* list.                                                                    *)
Loading(calls, c) == [calls EXCEPT ![c] =
  [Idle EXCEPT !.at = "sent", !.overlap = Changed(InFlight \ {c})]]
LoadShown(list) == IF board = "pages" THEN <<>> ELSE list
LoadView == [view EXCEPT !.loading = TRUE, !.failed = FALSE,
                         !.loaded = @ /\ board # "pages"]

(* The effect of mounting; Refresh (posts), and Retry after an error.       *)
Load(c) ==
  /\ req[c].at = "idle" /\ asked < MaxAsked
  /\ \/ asked = 0
     \/ board = "posts"
     \/ view.failed /\ board \in {"crm", "reviews", "campaigns", "pages"}
  /\ req' = Loading(req, c)
  /\ shown' = LoadShown(shown)
  /\ view' = LoadView
  /\ asked' = asked + 1
  /\ slipped' = slipped \cup Changed(InFlight)
  /\ UNCHANGED <<board, table, busy, suggestion>>

(* Which lists are on the screen while a load is under way or has failed.   *)
Visible ==
  CASE board \in {"crm", "posts", "pages"} -> ~view.loading /\ ~view.failed
    [] board \in {"bookings", "invoices"}  -> ~view.loading
    [] board = "reviews"                   -> view.loaded
    [] OTHER                               -> TRUE

(* One at a time: the dialogs and the cards that disable their own button.  *)
Waiting(op, row) == \E c \in InFlight : req[c].op = op /\ req[c].row = row
DialogOpen(ops) == \E c \in InFlight : req[c].op \in ops

(* The buttons a row offers, by dashboard: the operation and the status or  *)
(* the text it asks for.                                                    *)
CrmOffers(e, status) == status # e.status
BookingsOffers(e, status) == e.status < status /\ busy # e.id
InvoicesOffers(e, status) == e.status < status
ReviewsOffers(e, status) == status = 1 - e.status /\ ~Waiting("status", e.id)
PostsOffers(e, status) == e.status = 0 /\ status = 2 /\ busy # e.id
CampaignsOffers(e, status) == e.status = 0 /\ status = 2
PagesOffers(e, status) == status = 1 - e.status

OffersStatus(e, status) ==
  CASE board = "crm"       -> CrmOffers(e, status)
    [] board = "bookings"  -> BookingsOffers(e, status)
    [] board = "invoices"  -> InvoicesOffers(e, status)
    [] board = "reviews"   -> ReviewsOffers(e, status)
    [] board = "posts"     -> PostsOffers(e, status)
    [] board = "campaigns" -> CampaignsOffers(e, status)
    [] board = "pages"     -> PagesOffers(e, status)
OffersText(e) ==
  CASE board = "crm"       -> TRUE
    [] board = "reviews"   -> ~Waiting("text", e.id)
    [] board = "campaigns" -> e.status = 0 /\ ~DialogOpen({"text", "add"})
    [] board = "pages"     -> ~DialogOpen({"text", "add"})
    [] OTHER               -> FALSE

Sent(c, op, row, status, text) ==
  /\ req[c].at = "idle" /\ 0 < asked /\ asked < MaxAsked
  /\ req' = [d \in Requests |->
               IF d = c THEN [Idle EXCEPT !.at = "sent", !.op = op, !.row = row,
                                          !.status = status, !.text = text]
               ELSE IF d \in Loads THEN [req[d] EXCEPT !.overlap = @ \cup Concerned(op, row)]
               ELSE req[d]]
  /\ asked' = asked + 1
  /\ slipped' = slipped \cup {r \in Concerned(op, row) : Loads # {} \/ r \in Changed(InFlight)}
  /\ UNCHANGED <<board, table, view, suggestion>>

With(list, e) == [i \in DOMAIN list |-> IF list[i].id = e.id THEN e ELSE list[i]]

(* handleStageChange shows the stage at once; bookings and posts mark the   *)
(* row whose buttons wait, and there is one mark.                           *)
AskStatus(c, e, status) ==
  /\ Visible /\ OffersStatus(e, status)
  /\ Sent(c, "status", e.id, status, {})
  /\ shown' = IF board = "crm" THEN With(shown, [e EXCEPT !.status = status]) ELSE shown
  /\ busy' = IF board \in {"bookings", "posts"} THEN e.id ELSE busy

(* handleAddNote, handleReply, and the dialogs that save a campaign or page.*)
AskText(c, e, text) ==
  /\ Visible /\ OffersText(e)
  /\ Sent(c, "text", e.id, e.status, {text})
  /\ UNCHANGED <<shown, busy>>

(* Add a contact, an invoice, a review, a campaign, a page; submit a post.  *)
(* A contact with a number the table has is that contact.                   *)
AskAdd(c, row, text) ==
  /\ board # "bookings"
  /\ board = "reviews" => view.loaded
  /\ ~DialogOpen(IF board = "campaigns" \/ board = "pages" THEN {"add", "text"} ELSE {"add"})
  /\ ~table[row].kept \/ board = "crm"
  /\ Sent(c, "add", row, 0, {text})
  /\ UNCHANGED <<shown, busy>>

(* handleSuggestReply; handlePostNow, which names the post it replaces;     *)
(* handleDelete of a page.                                                  *)
AskOther(c, e, text) ==
  /\ Visible
  /\ \/ /\ board = "reviews" /\ ~Waiting("suggest", e.id)
        /\ Sent(c, "suggest", e.id, e.status, {text})
        /\ UNCHANGED busy
     \/ /\ board = "posts" /\ e.status = 0 /\ busy # e.id
        /\ Sent(c, "now", e.id, 2, {})
        /\ busy' = e.id
     \/ /\ board = "pages"
        /\ Sent(c, "delete", e.id, 0, {})
        /\ UNCHANGED busy
  /\ UNCHANGED shown

-----------------------------------------------------------------------------
(* The server.                                                              *)

Served(c) == req' = [req EXCEPT ![c].at = "served", ![c].answer = table']
Refused(c) == req' = [req EXCEPT ![c].at = "refused"] /\ UNCHANGED table

(* GET: the tenant's rows.                                                  *)
ServeLoad(c) ==
  /\ req[c].at = "sent" /\ req[c].op = "load"
  /\ UNCHANGED table
  /\ Served(c)
  /\ UNCHANGED <<board, shown, view, busy, suggestion, asked, slipped>>

(* addNote reads the notes, and writes them with one more; meanwhile others *)
(* are served.                                                              *)
ReadNotes(c) ==
  /\ board = "crm" /\ req[c].at = "sent" /\ req[c].op = "text" /\ table[req[c].row].kept
  /\ req' = [req EXCEPT ![c].at = "read", ![c].answer = table]
  /\ UNCHANGED <<board, table, shown, view, busy, suggestion, asked, slipped>>

(* PATCH, POST and DELETE, by dashboard: the tables a call may leave when   *)
(* it is answered with success, none when it is refused.                    *)
Stored(q, row) == {[table EXCEPT ![q.row] = row]}

Patched(q) ==
  LET row == table[q.row]
  IN IF ~row.kept THEN {}
     ELSE Stored(q, IF q.op = "status" THEN [row EXCEPT !.status = q.status]
                                       ELSE [row EXCEPT !.texts = q.text])
Inserted(q) ==
  IF table[q.row].kept THEN {} ELSE Stored(q, [kept |-> TRUE, status |-> 0, texts |-> q.text])

(* upsertContact leaves the notes of a contact that has the number; addNote *)
(* writes those it read, and one more.                                      *)
CrmStores(q) ==
  LET row == table[q.row]
  IN IF q.op = "add" THEN Stored(q, [kept |-> TRUE, status |-> 0, texts |-> row.texts])
     ELSE IF q.op = "text" /\ row.kept
     THEN Stored(q, [row EXCEPT !.texts = q.answer[q.row].texts \cup q.text])
     ELSE Patched(q)

BookingsStores(q) == Patched(q)
InvoicesStores(q) == IF q.op = "add" THEN Inserted(q) ELSE Patched(q)

(* A suggestion is not saved.                                               *)
ReviewsStores(q) ==
  CASE q.op = "add"     -> Inserted(q)
    [] q.op = "suggest" -> {table}
    [] OTHER            -> Patched(q)

(* Cancelling writes a status; "now" cancels, and publishes a post of its   *)
(* own, which need not be one of these rows.                                *)
Cancelled(q) == [table EXCEPT ![q.row].status = 2]
PostsStores(q) ==
  CASE q.op = "add" -> Inserted(q)
    [] q.op = "now" ->
         {[r \in Rows |-> IF r = new THEN [kept |-> TRUE, status |-> 2, texts |-> {}]
                                     ELSE Cancelled(q)[r]] :
            new \in {r \in Rows : ~table[r].kept} \cup {NoRow}}
    [] OTHER -> Patched(q)

(* What is sent, or being sent, is neither sent again nor edited.           *)
CampaignsStores(q) ==
  IF q.op = "add" THEN Inserted(q)
  ELSE IF table[q.row].status = 0 THEN Patched(q) ELSE {}

(* A path that is taken is refused.                                         *)
PagesStores(q) ==
  CASE q.op = "add"    -> Inserted(q)
    [] q.op = "delete" -> IF table[q.row].kept THEN Stored(q, Absent) ELSE {}
    [] OTHER           -> Patched(q)

Stores(q) ==
  CASE board = "crm"       -> CrmStores(q)
    [] board = "bookings"  -> BookingsStores(q)
    [] board = "invoices"  -> InvoicesStores(q)
    [] board = "reviews"   -> ReviewsStores(q)
    [] board = "posts"     -> PostsStores(q)
    [] board = "campaigns" -> CampaignsStores(q)
    [] board = "pages"     -> PagesStores(q)

(* A change is served, or refused; a post cancelled for "now" stays         *)
(* cancelled when the new one is not published.                             *)
ServeChange(c) ==
  LET q == req[c]
  IN /\ q.op # "load"
     /\ q.at = IF board = "crm" /\ q.op = "text" THEN "read" ELSE "sent"
     /\ \/ table' \in Stores(q) /\ Served(c)
        \/ Refused(c)
        \/ /\ q.op = "now"
           /\ table' = Cancelled(q)
           /\ req' = [req EXCEPT ![c].at = "refused"]
     /\ UNCHANGED <<board, shown, view, busy, suggestion, asked, slipped>>

-----------------------------------------------------------------------------
(* The page takes the answer of a call, or hears of its failure.  What is   *)
(* left of the list, and whether the page loads again.                      *)

Keep(list) == [list |-> list, reload |-> FALSE]
Reload(list) == [list |-> list, reload |-> TRUE]

CrmAfter(q, ok) ==
  CASE q.op = "status" -> IF ok THEN Keep(shown) ELSE Reload(shown)
    [] q.op = "text"   -> Keep(IF ok THEN With(shown, Entry(q.row, q.answer)) ELSE shown)
    [] OTHER           -> Keep(IF ok THEN <<Entry(q.row, q.answer)>> \o shown ELSE shown)

(* Mutant: the list is changed whatever the server answered.                *)
BookingsAfter_Always(q, ok) ==
  Keep([i \in DOMAIN shown |->
          IF shown[i].id = q.row THEN [shown[i] EXCEPT !.status = q.status] ELSE shown[i]])

BookingsAfter(q, ok) ==
  Keep([i \in DOMAIN shown |->
          IF ok /\ shown[i].id = q.row THEN [shown[i] EXCEPT !.status = q.status]
          ELSE shown[i]])

InvoicesAfter(q, ok) ==
  Keep(IF ~ok THEN shown
       ELSE IF q.op = "add" THEN <<Entry(q.row, q.answer)>> \o shown
       ELSE With(shown, Entry(q.row, q.answer)))

ReviewsAfter(q, ok) ==
  IF ~ok THEN Keep(shown)
  ELSE CASE q.op = "add"     -> Reload(shown)
         [] q.op = "suggest" -> Keep([i \in DOMAIN shown |->
                                  IF shown[i].id = q.row
                                  THEN [shown[i] EXCEPT !.texts = q.text] ELSE shown[i]])
         [] OTHER            -> Keep(With(shown, Entry(q.row, q.answer)))

PostsAfter(q, ok) == IF ok THEN Reload(shown) ELSE Keep(shown)

CampaignsAfter(q, ok) ==
  IF ~ok THEN Keep(shown)
  ELSE CASE q.op = "status" -> Reload(shown)
         [] q.op = "add"    -> Keep(<<Entry(q.row, q.answer)>> \o shown)
         [] OTHER           -> Keep(With(shown, Entry(q.row, q.answer)))

(* pagesReducer: "remove" drops what the list has of the row.             *)
Without(list, row) ==
  LET left[i \in 0..Len(list)] ==
        IF i = 0 THEN <<>>
        ELSE IF list[i].id = row THEN left[i - 1] ELSE Append(left[i - 1], list[i])
  IN left[Len(list)]

(* pagesReducer: "upsert" and "remove", of a list that is loaded.           *)
PagesAfter(q, ok) ==
  IF ~ok \/ ~view.loaded THEN Keep(shown)
  ELSE IF q.op = "delete" THEN Keep(Without(shown, q.row))
  ELSE IF \E i \in DOMAIN shown : shown[i].id = q.row
       THEN Keep(With(shown, Entry(q.row, q.answer)))
       ELSE Keep(Append(shown, Entry(q.row, q.answer)))

After(q, ok) ==
  CASE board = "crm"       -> CrmAfter(q, ok)
    [] board = "bookings"  -> BookingsAfter(q, ok)
    [] board = "invoices"  -> InvoicesAfter(q, ok)
    [] board = "reviews"   -> ReviewsAfter(q, ok)
    [] board = "posts"     -> PostsAfter(q, ok)
    [] board = "campaigns" -> CampaignsAfter(q, ok)
    [] board = "pages"     -> PagesAfter(q, ok)

(* A call fails when it is refused, or its answer does not come.            *)
Heard(q, ok) == q.at \in {"served", "refused"} /\ (ok => q.at = "served")

Lists(values) == {list \in UNION {[1..n -> Rows] : n \in {Cardinality({r \in Rows : values[r].kept})}} :
  {list[i] : i \in DOMAIN list} = {r \in Rows : values[r].kept}}

TakeLoad(c) ==
  LET q == req[c]
  IN /\ q.op = "load"
     /\ req' = [req EXCEPT ![c] = Idle]
     /\ \/ /\ Heard(q, TRUE)
           /\ \E list \in Lists(q.answer) :
                shown' = [i \in DOMAIN list |-> Entry(list[i], q.answer)]
           /\ view' = [loading |-> FALSE, failed |-> FALSE, loaded |-> TRUE]
           /\ slipped' = q.overlap
        \/ /\ Heard(q, FALSE)
           /\ view' = [view EXCEPT !.loading = FALSE, !.failed = TRUE]
           /\ UNCHANGED <<shown, slipped>>
     /\ UNCHANGED <<board, table, busy, suggestion, asked>>

(* A refused call changed nothing, but for "now"; of a change whose answer  *)
(* was lost, and of a contact that is in the list, the page cannot know.    *)
Unknown(q, ok) ==
  \/ ~ok /\ (q.at = "served" \/ q.op = "now") /\ q.op # "suggest"
  \/ q.op = "add" /\ \E i \in DOMAIN shown : shown[i].id = q.row

TakeChange(c) ==
  \E ok \in BOOLEAN :
    LET q == req[c]
        after == After(q, ok)
        again == after.reload /\ asked < MaxAsked
    IN /\ q.op # "load"
       /\ Heard(q, ok)
       /\ after.reload => again
       /\ shown' = IF again THEN LoadShown(after.list) ELSE after.list
       /\ view' = IF again THEN LoadView ELSE view
       /\ req' = IF again THEN Loading(req, c) ELSE [req EXCEPT ![c] = Idle]
       /\ asked' = IF again THEN asked + 1 ELSE asked
       /\ slipped' = slipped \cup (IF again THEN Changed(InFlight \ {c}) ELSE {})
                             \cup (IF Unknown(q, ok) /\ ~again THEN Concerned(q.op, q.row)
                                   ELSE {})
       /\ busy' = IF q.op \in {"status", "now"} THEN NoRow ELSE busy
       /\ suggestion' = IF q.op = "suggest" /\ ok THEN [suggestion EXCEPT ![q.row] = q.text]
                        ELSE suggestion
       /\ UNCHANGED <<board, table>>

Next ==
  \/ \E c \in Requests :
       Load(c) \/ ServeLoad(c) \/ ReadNotes(c) \/ ServeChange(c) \/ TakeLoad(c) \/ TakeChange(c)
  \/ \E c \in Requests, i \in DOMAIN shown :
       \/ \E status \in Status : AskStatus(c, shown[i], status)
       \/ \E text \in Texts : AskText(c, shown[i], text) \/ AskOther(c, shown[i], text)
  \/ \E c \in Requests, row \in Rows, text \in Texts : AskAdd(c, row, text)

Spec == Init /\ [][Next]_vars

-----------------------------------------------------------------------------
(* With no call under way a page that loaded its list shows the rows as     *)
(* they are saved, each once: a refused change is taken back, an answer     *)
(* does not touch another row, and loading mends what went wrong.  Excepted *)
(* are the rows of which two changes overlapped, or one overlapped a load,  *)
(* or of which an answer was lost, and replies under a suggestion.          *)
ShownIsSaved ==
  InFlight = {} /\ view.loaded /\ ~view.failed =>
    \A r \in Rows \ slipped :
      LET mine == {i \in DOMAIN shown : shown[i].id = r}
      IN /\ Cardinality(mine) = IF table[r].kept THEN 1 ELSE 0
         /\ \A i \in mine : /\ shown[i].status = table[r].status
                            /\ suggestion[r] = {} => shown[i].texts = table[r].texts

=============================================================================
