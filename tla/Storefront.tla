----------------------------- MODULE Storefront -----------------------------
(***************************************************************************)
(* The components between the owner, her customers and the outside, side   *)
(* by side: each behaviour is one component's, chosen when it begins, and  *)
(* the others stand still in one of their initial states.                  *)
(***************************************************************************)
EXTENDS Integers, FiniteSets

CONSTANTS
  Links, Tabs, MaxCharges,
  Runs, SequenceDays, QuietDays, GreetAfter, FollowAfter, LostAfter, LeadDays, LastDay,
  MaxRuns, None,
  Records, MaxReviewRuns,
  MaxDraftEdits, MaxPublishes, LeftDraft, Faults,
  ListRows, ListTexts, MaxAsked,
  Names, Tenants, ServerCalls,
  MaxTyped, MaxComposed, MaxMounts,
  MaxEdits, MaxOps,
  MaxSites, MaxPresses,
  MaxPrompts, MaxWrites,
  Limit, MaxRows, MaxFetches,
  Pages, MaxSaves

ASSUME StorefrontAssumption ==
  /\ MaxCharges \in Nat /\ MaxReviewRuns \in Nat /\ MaxTyped \in Nat
  /\ MaxDraftEdits \in Nat /\ MaxPublishes \in Nat
  /\ MaxEdits \in Nat /\ MaxSites \in Nat \ {0} /\ MaxPresses \in Nat
  /\ MaxPrompts \in Nat /\ MaxMounts \in Nat \ {0}
  /\ Limit \in Nat /\ MaxRows \in Nat /\ MaxFetches \in Nat
  /\ MaxComposed \in Nat /\ IsFiniteSet(ServerCalls)
  /\ MaxAsked \in Nat /\ IsFiniteSet(ListRows)
  /\ LastDay \in Nat /\ MaxRuns \in Nat
  /\ QuietDays \in Nat /\ LeadDays \subseteq Nat /\ None \notin Int
  /\ 0 \notin Tenants /\ None \notin Records /\ None \notin Pages

VARIABLES
  part,
  order, link, tab, charges, slips,
  today, contact, booking, outreachRun, outreachBegun, sent, said,
  review, reviewRun, reviewBegun, flags, own,
  rows, page, queue, found, migrate, edits, publishes, adrift,
  board, table, shown, view, busy, suggestion, req, asked, slipped,
  available, row, call, operation, charged, excused,
  kind, form, marked, offers, text, submitted, composing, pen, composed, owed, again,
  listings, verification, profile, listed, listing, changes, actions, overtaken, stale,
  step, pillRow, slug, pill, timer, pressed, requests, presses, behind,
  studio, team, place, visit, business, thread, stored, restored, waiting, quick, wizard,
  asking, prompts, writes, hers, cut, erased,
  log, clock, opened, feed, loading, card, reading, runs, reads, heard, told, mute,
  sitePage, seoRun, pageList, editor, seoBegun, saves, sitemap, described, given

O == INSTANCE Orders

U == INSTANCE Outreach WITH
  Quiet <- QuietDays, Lead <- LeadDays, Never <- None, run <- outreachRun,
  begun <- outreachBegun

V == INSTANCE Reviews WITH MaxRuns <- MaxReviewRuns, run <- reviewRun, begun <- reviewBegun

D == INSTANCE StudioDraft WITH MaxEdits <- MaxDraftEdits

L == INSTANCE OwnerLists WITH
  Rows <- ListRows, Texts <- ListTexts, Requests <- ServerCalls, NoRow <- None

N == INSTANCE Domains WITH Calls <- ServerCalls, NoName <- None

C == INSTANCE Composers WITH
  Calls <- ServerCalls, MaxAsked <- MaxComposed, flags <- marked, row <- text,
  sent <- submitted, call <- composing, asked <- composed

G == INSTANCE LocalListing WITH
  operation <- verification, view <- listed, busy <- listing, edits <- changes,
  calls <- actions

H == INSTANCE StatusPolls WITH row <- pillRow, shown <- pill, busy <- pressed

P == INSTANCE Onboarding WITH
  Calls <- ServerCalls, mount <- visit, profile <- business, found <- restored,
  busy <- waiting, call <- asking, slipped <- erased

F == INSTANCE AgentFeed WITH
  Calls <- ServerCalls, mount <- opened, call <- reading, asked <- reads, answers <- heard

E == INSTANCE SeoAgent WITH
  page <- sitePage, run <- seoRun, shown <- pageList, begun <- seoBegun, own <- described

orderVars == <<order, link, tab, charges, slips>>
outreachVars == <<today, contact, booking, outreachRun, outreachBegun, sent, said>>
reviewVars == <<review, reviewRun, reviewBegun, flags, own>>
studioVars == <<rows, page, queue, found, migrate, edits, publishes, adrift>>
listVars == <<board, table, shown, view, busy, suggestion, req, asked, slipped>>
domainVars == <<available, row, call, operation, charged, excused>>
formVars == <<kind, form, marked, offers, text, submitted, composing, pen, composed,
              owed, again>>
listingVars == <<listings, verification, profile, listed, listing, changes, actions,
                 overtaken, stale>>
pillVars == <<step, pillRow, slug, pill, timer, pressed, requests, presses, behind>>
consoleVars == <<studio, team, place, visit, business, thread, stored, restored, waiting,
                 quick, wizard, asking, prompts, writes, hers, cut, erased>>
feedVars == <<log, clock, opened, feed, loading, card, reading, runs, reads, heard, told,
              mute>>
searchVars == <<sitePage, seoRun, pageList, editor, seoBegun, saves, sitemap, described,
                given>>
all == <<part, orderVars, outreachVars, reviewVars, studioVars, listVars,
         domainVars, formVars, listingVars, pillVars, consoleVars, feedVars, searchVars>>

Parts == {"orders", "outreach", "reviews", "studio", "lists", "domains", "forms",
          "listing", "pill", "console", "feed", "search"}

StorefrontInit ==
  /\ part \in Parts
  /\ O!Init /\ U!Init /\ V!Init /\ D!Init /\ L!Init /\ N!Init
  /\ C!Init /\ G!Init /\ H!Init /\ P!Init /\ F!Init /\ E!Init

Others(mine) ==
  /\ UNCHANGED part
  /\ mine # "orders" => UNCHANGED orderVars
  /\ mine # "outreach" => UNCHANGED outreachVars
  /\ mine # "reviews" => UNCHANGED reviewVars
  /\ mine # "studio" => UNCHANGED studioVars
  /\ mine # "lists" => UNCHANGED listVars
  /\ mine # "domains" => UNCHANGED domainVars
  /\ mine # "forms" => UNCHANGED formVars
  /\ mine # "pill" => UNCHANGED pillVars
  /\ mine # "listing" => UNCHANGED listingVars
  /\ mine # "console" => UNCHANGED consoleVars
  /\ mine # "feed" => UNCHANGED feedVars
  /\ mine # "search" => UNCHANGED searchVars

StorefrontNext ==
  \/ part = "orders" /\ O!Next /\ Others("orders")
  \/ part = "outreach" /\ U!Next /\ Others("outreach")
  \/ part = "reviews" /\ V!Next /\ Others("reviews")
  \/ part = "studio" /\ D!Next /\ Others("studio")
  \/ part = "lists" /\ L!Next /\ Others("lists")
  \/ part = "domains" /\ N!Next /\ Others("domains")
  \/ part = "forms" /\ C!Next /\ Others("forms")
  \/ part = "listing" /\ G!Next /\ Others("listing")
  \/ part = "pill" /\ H!Next /\ Others("pill")
  \/ part = "console" /\ P!Next /\ Others("console")
  \/ part = "feed" /\ F!Next /\ Others("feed")
  \/ part = "search" /\ E!Next /\ Others("search")

StorefrontSpec == StorefrontInit /\ [][StorefrontNext]_all

-----------------------------------------------------------------------------
(* Every component stays within the types of its state.                     *)
AllTypesOK ==
  /\ part = "orders" => O!TypeOK
  /\ part = "outreach" => U!TypeOK
  /\ part = "reviews" => V!TypeOK
  /\ part = "studio" => D!TypeOK
  /\ part = "lists" => L!TypeOK
  /\ part = "domains" => N!TypeOK
  /\ part = "forms" => C!TypeOK
  /\ part = "listing" => G!TypeOK
  /\ part = "pill" => H!TypeOK
  /\ part = "console" => P!TypeOK
  /\ part = "feed" => F!TypeOK
  /\ part = "search" => E!TypeOK

(* Orders: a customer is charged again for an order only as often as a      *)
(* charge was taken blindly, or its record was lost or written over.        *)
ChargedAgainBySlip == O!ChargedAgainBySlip

(* Outreach, Reviews and Composers: an agent repeats a message to a         *)
(* contact, or an urgent note to the owner, only where two runs held the    *)
(* row at once, one died before it marked it, or the draft that marks it    *)
(* was refused; and what the owner posts or sends goes out again only if    *)
(* its answer was lost, she duplicated it, or pressed Send to many twice.   *)
RepeatedBySlip == U!RepeatedBySlip /\ V!FlaggedOnce /\ C!SubmittedOnce

(* Outreach, Reviews and SeoAgent: no agent goes over the stage the owner   *)
(* gave to a contact, the reply she gave to a review or the description she *)
(* gave a page, except a run that had listed the row before she spoke.      *)
(* Onboarding: no draft replaces what she wrote in her profile before she   *)
(* takes it, but the one the quick launch takes for her.                    *)
OwnerHasTheLastWord ==
  U!OwnersStageKept /\ V!OwnersReplyKept /\ E!OwnersDescKept /\ P!OwnersProfileKept

(* StudioDraft: once its calls are answered, what the page shows is what    *)
(* the database has, unless one of them failed.                             *)
PageIsSaved == D!PageIsSaved

(* OwnerLists and Composers: with no call under way, a dashboard shows its  *)
(* rows as they are saved, but for those of which two changes overlapped;   *)
(* and a form keeps what the owner typed in it until it is saved, but for   *)
(* the fields an answer that is under way writes or empties.  LocalListing: *)
(* what is to be shown on Google is the profile as it is.  StatusPolls: a   *)
(* pill that waits for nothing shows the status as it is, unless the answer *)
(* that set no timer repeated what it showed.  SeoAgent: a description the  *)
(* owner's list shows as the agent's is not erased by a save of the page's  *)
(* other fields.  Onboarding: every prompt in the thread has its reply, or  *)
(* awaits it, and the thread comes back whole, unless the console was left  *)
(* before.  AgentFeed: the feed shows each run of whose end the page was    *)
(* told, or newer rows, and a card tells the end the log has.               *)
ShownIsSaved ==
  /\ L!ShownIsSaved /\ C!TypedIsKept /\ G!ProfileIsShown /\ H!PillIsCurrent
  /\ E!AgentsDescKept /\ P!PromptsAnswered /\ P!TranscriptKept
  /\ F!FeedHasWhatIsTold /\ F!CardIsTrue

(* Domains: what the registrar took is on the tenant's record, and charged  *)
(* to her, or neither, save where the process stopped in between.           *)
(* LocalListing: a listing is live or failed as its own verification is,    *)
(* unless it was bound to another while that was being written.             *)
RecordAndChargeAgree == N!RecordAndChargeAgree /\ G!ListingFollowsVerification
=============================================================================
