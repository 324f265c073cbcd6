------------------------------ MODULE Composers ------------------------------
(* The forms the owner writes in (components/dashboard): a page of her site, *)
(* an email campaign, a social post, her brand kit, an SMS to one and an SMS *)
(* to many; and the routes (app/api) that save what she wrote, send it, or   *)
(* write for her.  A form is not locked while a call is out: the answer acts *)
(* on the form as it finds it, which the owner has changed meanwhile, or     *)
(* closed, and opened on something else.                                     *)
EXTENDS Integers, Sequences, FiniteSets, SequencesExt

CONSTANTS
  Calls,      \* calls that can be out at once
  MaxTyped,   \* bound: texts the owner types
  MaxAsked,   \* bound: calls she makes
  MaxMounts   \* bound: times she opens a form

Kinds == {"page", "campaign", "post", "brand", "quick", "bulk"}
Fields == {"head", "body"}
Ops == {"load", "generate", "suggest", "contacts", "save"}
Models == {"good", "bad", "down"}

(* What a field holds: texts the owner typed, numbered as she types them, a *)
(* text made for her by the model or the program, an empty block.           *)
Typed == 1..MaxTyped
Made == -1
Empty == 0
Texts == Typed \cup {Made, Empty}
Blank == <<>>

VARIABLES
  kind,     \* the dashboard that is open
  form,     \* is it open, on what, its fields, and which mounting of it this is
  flags,    \* saving, generating, suggesting: the buttons that are disabled
  offers,   \* the fields for which suggestions are on the screen
  row,      \* the saved page, campaign or kit that can be opened
  sent,     \* how often each text was created, posted or sent
  call,
  pen, asked,  \* bounds' counters
  owed,     \* history: texts she typed with no answer to come over them
  again     \* history: texts she may have had sent twice

vars == <<kind, form, flags, offers, row, sent, call, pen, asked, owed, again>>

(* Title and path, name and subject, image, colours and tagline, recipients *)
(* are the head; blocks, HTML, post, logo, message the body.                *)
Contents == UNION {[1..n -> Texts] : n \in 0..2}
Idle == [at |-> "idle", op |-> "load", doc |-> "new", head |-> Blank, body |-> Blank,
         mount |-> 0]
Modal == kind \in {"page", "campaign"}

TypeOK ==
  /\ kind \in Kinds
  /\ form \in [open : BOOLEAN, doc : {"new", "row"}, head : Contents, body : Contents,
               mount : 0..MaxMounts]
  /\ flags \subseteq Ops
  /\ offers \subseteq Fields
  /\ row \in [head : Contents, body : Contents]
  /\ sent \in [Typed -> 0..MaxAsked]
  /\ call \in [Calls -> [at : {"idle", "asked", "served", "refused"}, op : Ops,
                         doc : {"new", "row"}, head : Contents, body : Contents,
                         mount : 0..MaxMounts]]
  /\ owed \subseteq Typed /\ again \subseteq Typed

Out == {c \in Calls : call[c].at # "idle"}

Init ==
  /\ kind \in Kinds
  /\ form = [open |-> ~Modal, doc |-> "new", head |-> Blank, body |-> Blank, mount |-> 0]
  /\ flags = {}
  /\ offers = {}
  /\ row \in [head : {<<Made>>}, body : {<<Made>>}]
             \cup (IF kind = "brand" THEN [head : {Blank}, body : {Blank, <<Made>>}] ELSE {})
  /\ sent = [v \in Typed |-> 0]
  \* The brand kit asks for what is saved when it is mounted.
  /\ \E c \in Calls : call = [d \in Calls |-> IF kind = "brand" /\ d = c
                                THEN [Idle EXCEPT !.at = "asked"] ELSE Idle]
  /\ pen = 0 /\ asked = 0
  /\ owed = {} /\ again = {}

-----------------------------------------------------------------------------
(* The owner opens and closes a form.                                       *)

(* A page's editor is mounted anew; the campaign's composer is one, and     *)
(* what is out goes on acting on it.                                        *)
Opened(doc, head, body) ==
  /\ form.mount < MaxMounts
  /\ form' = [open |-> TRUE, doc |-> doc, head |-> head, body |-> body,
              mount |-> form.mount + 1]
  /\ flags' = IF kind = "page" THEN {} ELSE flags
  /\ offers' = {}
  /\ owed' = {}
  /\ UNCHANGED <<kind, row, sent, call, pen, asked>>

(* New page, new blog post, edit: behind the editor no other can be opened. *)
OpenPage ==
  /\ kind = "page" /\ ~form.open
  /\ \/ Opened("new", Blank, Blank)
     \/ Opened("new", Blank, <<Empty, Empty>>)
     \/ Opened("row", row.head, row.body)
  /\ UNCHANGED again

(* openNewComposer, openEditComposer, applyTemplate, duplicateCampaign.     *)
OpenCampaign ==
  /\ kind = "campaign"
  /\ \/ (Opened("new", Blank, Blank) \/ Opened("row", row.head, row.body)
         \/ Opened("new", <<Made>>, <<Made>>)) /\ UNCHANGED again
     \/ /\ Opened("new", row.head, row.body)
        /\ again' = again \cup (Typed \cap Range(row.body))

Emptied == [form EXCEPT !.open = ~Modal, !.head = Blank, !.body = Blank]

Cancel ==
  /\ Modal /\ form.open
  /\ form' = Emptied
  /\ offers' = {}
  /\ owed' = {}
  /\ UNCHANGED <<kind, flags, row, sent, call, pen, asked, again>>

-----------------------------------------------------------------------------
(* She writes.                                                              *)

(* An answer is to come that will act on the field whatever it holds then.  *)
Exposed(f) ==
  \E c \in Out :
    \/ call[c].op = "load"
    \/ call[c].op \in {"contacts", "save"} /\ kind # "brand"
    \/ /\ call[c].op = "generate"
       /\ kind = "page" => call[c].mount = form.mount
       /\ f = "head" => (kind = "page" /\ call[c].head = Blank)

Rewritten(f, contents) ==
  /\ form.open
  /\ form' = [form EXCEPT ![f] = contents]
  /\ UNCHANGED <<kind, flags, row, sent, call, asked, again>>

Type(f) ==
  /\ pen < MaxTyped
  /\ Rewritten(f, <<pen + 1>>)
  /\ pen' = pen + 1
  /\ owed' = (owed \ Range(form[f])) \cup (IF Exposed(f) THEN {} ELSE {pen + 1})
  /\ UNCHANGED offers

(* The fields of each form that are rewritten as she types: title and path, *)
(* name and subject and HTML, post and image, colours, number and message,  *)
(* numbers and message.                                                     *)
TypeTitle == kind = "page" /\ Type("head")
TypeCampaign(f) == kind = "campaign" /\ Type(f)
TypePost(f) == kind = "post" /\ Type(f)
TypeKit == kind = "brand" /\ Type("head")
TypeSms(f) == kind = "quick" /\ Type(f)
TypeBulk(f) == kind = "bulk" /\ Type(f)

(* addBlock, updateBlock, removeBlock and moveBlock of a page's editor.     *)
AddBlock ==
  /\ kind = "page" /\ Len(form.body) < 2
  /\ Rewritten("body", Append(form.body, Empty))
  /\ UNCHANGED <<offers, pen, owed>>

UpdateBlock(i) ==
  /\ kind = "page" /\ pen < MaxTyped /\ i \in DOMAIN form.body
  /\ Rewritten("body", ReplaceAt(form.body, i, pen + 1))
  /\ pen' = pen + 1
  /\ owed' = (owed \ {form.body[i]}) \cup (IF Exposed("body") THEN {} ELSE {pen + 1})
  /\ UNCHANGED offers

RemoveBlock(i) ==
  /\ kind = "page" /\ i \in DOMAIN form.body
  /\ Rewritten("body", RemoveAt(form.body, i))
  /\ owed' = owed \ {form.body[i]}
  /\ UNCHANGED <<offers, pen>>

MoveBlock(i, dir) ==
  /\ kind = "page" /\ i \in DOMAIN form.body /\ i + dir \in DOMAIN form.body
  /\ Rewritten("body", [form.body EXCEPT ![i] = form.body[i + dir],
                                         ![i + dir] = form.body[i]])
  /\ UNCHANGED <<offers, pen, owed>>

Apply(f) ==
  /\ Rewritten(f, <<Made>>)
  /\ owed' = owed \ Range(form[f])
  /\ UNCHANGED <<offers, pen>>

(* The colours of her industry; a template of a message.                    *)
AutoColors == kind = "brand" /\ Apply("head")
ApplyTemplate == kind \in {"quick", "bulk"} /\ Apply("body")

(* She takes one of the suggestions, which disappear if they are subjects.  *)
Pick(f) ==
  /\ f \in offers
  /\ Rewritten(f, <<Made>>)
  /\ offers' = IF kind = "campaign" THEN {} ELSE offers
  /\ owed' = owed \ Range(form[f])
  /\ UNCHANGED pen

-----------------------------------------------------------------------------
(* She presses a button that makes a call.                                  *)

(* Mutant: the button that saves is not disabled while it saves.            *)
Pressable_SavesAgain(op) == op = "save" \/ op \notin flags

(* The buttons are disabled by the marks of their calls; nothing is marked  *)
(* while the numbers are fetched.                                           *)
Pressable(op) == (IF op = "contacts" THEN "save" ELSE op) \notin flags
Marked(op) == IF op = "contacts" THEN {} ELSE {op}

Ask(c, op) ==
  /\ call[c].at = "idle" /\ asked < MaxAsked
  /\ form.open /\ Pressable(op)
  /\ call' = [call EXCEPT ![c] = [at |-> "asked", op |-> op, doc |-> form.doc,
                head |-> IF op = "save" \/ (op = "generate" /\ kind = "page")
                         THEN form.head ELSE Blank,
                body |-> IF op \in {"save", "contacts"} THEN form.body ELSE Blank,
                mount |-> IF kind = "page" THEN form.mount ELSE 0]]
  /\ flags' = flags \cup Marked(op)
  /\ offers' = offers \ CASE op = "suggest" -> {"head"}
                          [] op = "generate" /\ kind = "brand" -> {"body"}
                          [] OTHER -> {}
  /\ asked' = asked + 1
  /\ owed' = owed \ CASE op = "generate" -> Range(form.body)
                      [] op = "contacts" -> Range(form.head)
                      [] OTHER -> {}
  /\ again' = again \cup
       (IF kind = "bulk" /\ Out # {} THEN Typed \cap Range(form.body) ELSE {})
  /\ UNCHANGED <<kind, form, row, sent, pen>>

GeneratePage(c) == kind = "page" /\ Ask(c, "generate")
SavePage(c) == kind = "page" /\ form.head # Blank /\ Ask(c, "save")

ImproveSubject(c) == kind = "campaign" /\ form.head # Blank /\ Ask(c, "suggest")
GenerateBody(c) == kind = "campaign" /\ Ask(c, "generate")
SaveCampaign(c) ==
  kind = "campaign" /\ form.head # Blank /\ form.body # Blank /\ Ask(c, "save")

GeneratePost(c) == kind = "post" /\ Ask(c, "generate")
SubmitPost(c) == kind = "post" /\ form.body # Blank /\ Ask(c, "save")

GenerateLogos(c) == kind = "brand" /\ Ask(c, "generate")
GenerateTaglines(c) == kind = "brand" /\ Ask(c, "suggest")
SaveKit(c) == kind = "brand" /\ Ask(c, "save")

QuickSend(c) == kind = "quick" /\ form.head # Blank /\ form.body # Blank /\ Ask(c, "save")

(* To the numbers she gave, or to everyone in the CRM, whose numbers it     *)
(* asks for first.                                                          *)
BulkSend(c) ==
  /\ kind = "bulk" /\ form.body # Blank
  /\ Ask(c, "contacts") \/ (form.head # Blank /\ Ask(c, "save"))

-----------------------------------------------------------------------------
(* The routes that write, given what the language model does: it answers in *)
(* the form asked for, in another, or not at all.                           *)

(* pages/generate, social/generate and brand/tagline parse the answer, and  *)
(* have a text of their own for one they cannot; a model that fails, fails  *)
(* them.                                                                    *)
Parsed(model) == IF model = "down" THEN {} ELSE {Made}
PageText(model) == Parsed(model)
PostText(model) == Parsed(model)
TaglineText(model) == Parsed(model)

(* email/generate-body and email/improve-subject answer with their own text *)
(* for that as well; brand/generate fills up with placeholders.             *)
Caught(model) == {Made}
BodyText(model) == Caught(model)
SubjectText(model) == Caught(model)
LogoText(model) == Caught(model)

Answers(op, model) ==
  CASE op = "generate" /\ kind = "page"     -> PageText(model)
    [] op = "generate" /\ kind = "post"     -> PostText(model)
    [] op = "generate" /\ kind = "campaign" -> BodyText(model)
    [] op = "generate" /\ kind = "brand"    -> LogoText(model)
    [] op = "suggest"  /\ kind = "campaign" -> SubjectText(model)
    [] op = "suggest"  /\ kind = "brand"    -> TaglineText(model)

Served(c, q) == call' = [call EXCEPT ![c] = [q EXCEPT !.at = "served"]]

(* The first of the logos is the tenant's at once.                          *)
ServeText(c) ==
  /\ call[c].at = "asked" /\ call[c].op \in {"generate", "suggest"}
  /\ \E model \in Models : \E text \in Answers(call[c].op, model) :
       /\ Served(c, [call[c] EXCEPT !.body = <<text>>])
       /\ row' = IF kind = "brand" /\ call[c].op = "generate"
                 THEN [row EXCEPT !.body = <<text>>] ELSE row
  /\ UNCHANGED <<kind, form, flags, offers, sent, pen, asked, owed, again>>

(* POST creates, publishes or sends; PATCH changes what is saved.           *)
Create(c) ==
  /\ call[c].at = "asked" /\ call[c].op = "save" /\ call[c].doc = "new"
  /\ Served(c, call[c])
  /\ sent' = [v \in Typed |-> IF v \in Range(call[c].body) THEN sent[v] + 1 ELSE sent[v]]
  /\ UNCHANGED <<kind, form, flags, offers, row, pen, asked, owed, again>>

Change(c) ==
  /\ call[c].at = "asked" /\ call[c].op = "save"
  /\ Served(c, call[c])
  /\ row' = [head |-> call[c].head, body |-> call[c].body]
  /\ UNCHANGED <<kind, form, flags, offers, sent, pen, asked, owed, again>>

CreatePage(c) == kind = "page" /\ Create(c)
ChangePage(c) == kind = "page" /\ call[c].doc = "row" /\ Change(c)
CreateCampaign(c) == kind = "campaign" /\ Create(c)
ChangeCampaign(c) == kind = "campaign" /\ call[c].doc = "row" /\ Change(c)
PublishPost(c) == kind = "post" /\ Create(c)
SendSms(c) == kind \in {"quick", "bulk"} /\ Create(c)
ChangeKit(c) == kind = "brand" /\ Change(c)

ServeRead(c) ==
  /\ call[c].at = "asked" /\ call[c].op \in {"load", "contacts"}
  /\ Served(c, IF call[c].op = "load"
               THEN [call[c] EXCEPT !.head = row.head, !.body = row.body] ELSE call[c])
  /\ UNCHANGED <<kind, form, flags, offers, row, sent, pen, asked, owed, again>>

(* Not signed in, no credits, a path that is taken, a campaign that is out, *)
(* a plan without SMS, an error: nothing is changed.                        *)
Refuse(c) ==
  /\ call[c].at = "asked"
  /\ call' = [call EXCEPT ![c].at = "refused", ![c].head = Blank, ![c].body = Blank]
  /\ UNCHANGED <<kind, form, flags, offers, row, sent, pen, asked, owed, again>>

-----------------------------------------------------------------------------
(* The page hears of a call.  What an unmounted editor sets is nowhere.     *)
Here(q) == kind = "page" => form.open /\ q.mount = form.mount
Done(c, q) ==
  /\ call' = [call EXCEPT ![c] = Idle]
  /\ flags' = IF Here(q) THEN flags \ {q.op} ELSE flags

(* Mutant: the title is set, whether she gave one or not.                   *)
GeneratedInto_Titles(q) ==
  [form EXCEPT !.body = q.body, !.head = IF kind = "page" THEN <<Made>> ELSE @]

(* The text replaces the one there is; a page that had no title when she    *)
(* asked is given one.                                                      *)
GeneratedInto(q) ==
  [form EXCEPT !.body = q.body,
               !.head = IF kind = "page" /\ q.head = Blank THEN <<Made>> ELSE @]

TakeText(c) ==
  LET q == call[c]
  IN /\ q.at = "served" /\ q.op \in {"generate", "suggest"}
     /\ form' = IF q.op = "generate" /\ Here(q) THEN GeneratedInto(q) ELSE form
     /\ offers' = offers \cup CASE q.op = "suggest" -> {"head"}
                                [] q.op = "generate" /\ kind = "brand" -> {"body"}
                                [] OTHER -> {}
     /\ Done(c, q)
     /\ UNCHANGED <<kind, row, sent, pen, asked, owed, again>>

(* handleSaved of a page closes the editor, whichever it is by now, and so  *)
(* does the composer; a post or message that is out leaves an empty form.   *)
TakeSave(c) ==
  LET q == call[c]
  IN /\ q.at = "served" /\ q.op = "save"
     /\ form' = IF kind = "brand" THEN form ELSE Emptied
     /\ owed' = IF kind = "brand" THEN owed ELSE owed \ (Range(q.head) \cup Range(q.body))
     /\ Done(c, q)
     /\ UNCHANGED <<kind, offers, row, sent, pen, asked, again>>

(* The kit's fields that are saved take the place of those on the screen.   *)
TakeLoad(c) ==
  LET q == call[c]
  IN /\ q.at = "served" /\ q.op = "load"
     /\ form' = [form EXCEPT !.head = IF q.head # Blank THEN q.head ELSE @,
                             !.body = IF q.body # Blank THEN q.body ELSE @]
     /\ Done(c, q)
     /\ UNCHANGED <<kind, offers, row, sent, pen, asked, owed, again>>

(* The message she had pressed Send on goes to the numbers that came, and   *)
(* only now is the button disabled.                                         *)
TakeContacts(c) ==
  LET q == call[c]
  IN /\ q.at = "served" /\ q.op = "contacts"
     /\ call' = [call EXCEPT ![c].at = "asked", ![c].op = "save"]
     /\ flags' = flags \cup {"save"}
     /\ UNCHANGED <<kind, form, offers, row, sent, pen, asked, owed, again>>

(* A refusal, an answer that is lost, contacts without a number: the form   *)
(* stays as it is.                                                          *)
TakeFailure(c) ==
  LET q == call[c]
  IN /\ q.at \in {"served", "refused"}
     /\ Done(c, q)
     /\ again' = again \cup
          (IF q.op = "save" /\ q.at = "served" THEN Typed \cap Range(q.body) ELSE {})
     /\ UNCHANGED <<kind, form, offers, row, sent, pen, asked, owed>>

Write ==
  \/ TypeTitle \/ TypeKit \/ AddBlock \/ AutoColors \/ ApplyTemplate
  \/ \E f \in Fields :
       TypeCampaign(f) \/ TypePost(f) \/ TypeSms(f) \/ TypeBulk(f) \/ Pick(f)
  \/ \E i \in DOMAIN form.body :
       UpdateBlock(i) \/ RemoveBlock(i) \/ \E dir \in {-1, 1} : MoveBlock(i, dir)

Press(c) ==
  \/ GeneratePage(c) \/ SavePage(c)
  \/ ImproveSubject(c) \/ GenerateBody(c) \/ SaveCampaign(c)
  \/ GeneratePost(c) \/ SubmitPost(c)
  \/ GenerateLogos(c) \/ GenerateTaglines(c) \/ SaveKit(c)
  \/ QuickSend(c) \/ BulkSend(c)

Serve(c) ==
  \/ ServeText(c) \/ ServeRead(c) \/ Refuse(c)
  \/ CreatePage(c) \/ ChangePage(c) \/ CreateCampaign(c) \/ ChangeCampaign(c)
  \/ PublishPost(c) \/ SendSms(c) \/ ChangeKit(c)

Take(c) ==
  TakeText(c) \/ TakeSave(c) \/ TakeLoad(c) \/ TakeContacts(c) \/ TakeFailure(c)

Next ==
  \/ OpenPage \/ OpenCampaign \/ Cancel \/ Write
  \/ \E c \in Calls : Press(c) \/ Serve(c) \/ Take(c)

Spec == Init /\ [][Next]_vars

-----------------------------------------------------------------------------
(* What the owner typed, with no answer to come that writes the field or    *)
(* empties the form, stays there until she writes over it, asks for another *)
(* text, or closes the form, or until it is saved: not when a generation    *)
(* comes, not when a save fails.                                            *)
TypedIsKept ==
  \A v \in owed : form.open /\ v \in Range(form.head) \cup Range(form.body)

(* A text is created, posted or sent once, unless the answer was lost and   *)
(* she tried again, she duplicated it, or pressed Send while another        *)
(* message to many was on its way.                                          *)
SubmittedOnce ==
  \A v \in Typed \ again : sent[v] <= 1
=============================================================================
