----------------------------- MODULE Onboarding -----------------------------
(* How the owner's profile is drafted for her: the assistant's console with  *)
(* its thread of messages (components/studio/AssistantConsole.tsx,           *)
(* lib/studioChat.ts), the quick launch beside the empty thread              *)
(* (components/dashboard/QuickLaunch.tsx), the wizard of the older dashboard *)
(* (OnboardingWizard.tsx), and the routes that draft                         *)
(* (app/api/agent/profile, app/api/onboard/quick).  Every call is a plain    *)
(* one: the console may be left, and mounted again, before its answer comes. *)
EXTENDS Naturals, Sequences

CONSTANTS
  Calls,       \* calls that can be out at once
  MaxPrompts,  \* bound: prompts the owner sends
  MaxMounts,   \* bound: times the console or the wizard is mounted
  MaxWrites    \* bound: times she writes in her profile, or takes a draft

Fields == {"desc", "contact"}
Kinds == {"onboarding", "team", "quick", "wizard"}
Cards == {"none", "draft", "preview"}

VARIABLES
  studio,   \* is it the studio, or the older dashboard?
  team,     \* does her plan include the team?
  place,    \* what is on the screen: the console, the wizard, her profile
  mount,    \* which mounting of the console or the wizard it is
  profile,  \* whose each part of the profile is
  thread, stored, found, \* the messages; in localStorage; as read when mounted
  busy,     \* a prompt's answer is awaited
  quick,    \* the quick launch
  wizard,   \* [phase, draft]
  call,
  prompts, writes, \* bounds' counters
  hers,     \* history: fields she wrote, with no draft taken or awaited since
  cut,      \* history: prompts whose console was left before the answer
  slipped   \* history: the console was left before it had restored its thread

vars == <<studio, team, place, mount, profile, thread, stored, found, busy, quick, wizard,
          call, prompts, writes, hers, cut, slipped>>

Messages == [from : {"owner", "pending", "assistant"}, prompt : 0..MaxPrompts, card : Cards]
Idle == [at |-> "idle", kind |-> "team", mount |-> 0, prompt |-> 0]
Closed == [phase |-> "describe", draft |-> "none"]

TypeOK ==
  /\ studio \in BOOLEAN /\ team \in BOOLEAN
  /\ place \in {"restoring", "console", "wizard", "away"}
  /\ mount \in 0..MaxMounts
  /\ profile \in [Fields -> {"seed", "empty", "hers", "draft"}]
  /\ \A log \in {thread, stored, found} : log \in Seq(Messages)
  /\ busy \in BOOLEAN /\ quick \in {"form", "progress", "done", "hidden"}
  /\ wizard \in [phase : {"describe", "review"}, draft : {"none", "draft", "hers"}]
  /\ call \in [Calls -> [at : {"idle", "asked", "served", "refused"}, kind : Kinds,
                         mount : 0..MaxMounts, prompt : 0..MaxPrompts]]
  /\ hers \subseteq Fields /\ cut \subseteq 1..MaxPrompts /\ slipped \in BOOLEAN

(* Without a profile of her own the page shows an example's, complete.       *)
Init ==
  /\ studio \in BOOLEAN /\ team \in (IF studio THEN BOOLEAN ELSE {FALSE})
  /\ place = IF studio THEN "restoring" ELSE "away"
  /\ mount = IF studio THEN 1 ELSE 0
  /\ profile = [f \in Fields |-> "seed"]
  /\ thread = <<>> /\ stored = <<>> /\ found = <<>>
  /\ busy = FALSE /\ quick = "form" /\ wizard = Closed
  /\ call = [c \in Calls |-> Idle]
  /\ prompts = 0 /\ writes = 0
  /\ hers = {} /\ cut = {} /\ slipped = FALSE

Out == {c \in Calls : call[c].at # "idle"}

-----------------------------------------------------------------------------
(* The console is mounted and left.                                          *)

(* What is kept of a thread: all but the bubbles of awaited answers.         *)
Kept(log) ==
  LET kept[i \in 0..Len(log)] ==
        IF i = 0 THEN <<>>
        ELSE IF log[i].from = "pending" THEN kept[i - 1] ELSE Append(kept[i - 1], log[i])
  IN kept[Len(log)]

Shows(log) == thread' = log /\ stored' = Kept(log)

Leaving ==
  /\ cut' = cut \cup {thread[i].prompt : i \in {j \in DOMAIN thread : thread[j].from = "pending"}}
  /\ slipped' = (slipped \/ (place = "restoring" /\ found # <<>>))

(* Two effects run before the thread is shown again: one reads what is       *)
(* stored, the other stores what is on the screen, which is nothing.         *)
Mounting ==
  /\ mount < MaxMounts
  /\ mount' = mount + 1
  /\ place' = "restoring"
  /\ found' = stored /\ stored' = <<>> /\ thread' = <<>>
  /\ busy' = FALSE /\ quick' = "form"

OpenConsole ==
  /\ studio /\ place = "away"
  /\ Mounting
  /\ UNCHANGED <<studio, team, profile, wizard, call, prompts, writes, hers, cut, slipped>>

Restore ==
  /\ place = "restoring"
  /\ place' = "console"
  /\ Shows(found)
  /\ found' = <<>>
  /\ UNCHANGED <<studio, team, mount, profile, busy, quick, wizard, call, prompts, writes,
                 hers, cut, slipped>>

(* Another section, or the preview.                                          *)
LeaveConsole ==
  /\ place \in {"restoring", "console"}
  /\ Leaving
  /\ place' = "away"
  /\ thread' = <<>> /\ found' = <<>> /\ busy' = FALSE
  /\ UNCHANGED <<studio, team, mount, profile, stored, quick, wizard, call, prompts, writes,
                 hers>>

(* The page is loaded again: what was out is heard by nobody.                *)
Reload ==
  /\ studio
  /\ Leaving
  /\ Mounting
  /\ call' = [c \in Calls |-> Idle]
  /\ UNCHANGED <<studio, team, profile, wizard, prompts, writes, hers>>

-----------------------------------------------------------------------------
(* The thread.                                                               *)

Owner(p) == [from |-> "owner", prompt |-> p, card |-> "none"]
Pending(p) == [from |-> "pending", prompt |-> p, card |-> "none"]
Says(p, card) == [from |-> "assistant", prompt |-> p, card |-> card]

(* hasUsableProfile, routePrompt.                                            *)
Route ==
  IF profile["desc"] = "empty" THEN "onboarding" ELSE IF team THEN "team" ELSE "guidance"

(* submit, to the built-in guidance, which answers at once.                  *)
Guided ==
  /\ place = "console" /\ ~busy /\ prompts < MaxPrompts
  /\ Route = "guidance"
  /\ prompts' = prompts + 1
  /\ \E card \in {"none", "preview"} : Shows(thread \o <<Owner(prompts'), Says(prompts', card)>>)
  /\ UNCHANGED <<studio, team, place, mount, profile, found, busy, quick, wizard, call, writes,
                 hers, cut, slipped>>

(* submit, where a call is made.                                             *)
Submit(c) ==
  /\ place = "console" /\ ~busy /\ prompts < MaxPrompts /\ call[c].at = "idle"
  /\ Route # "guidance"
  /\ prompts' = prompts + 1
  /\ busy' = TRUE
  /\ Shows(thread \o <<Owner(prompts'), Pending(prompts')>>)
  /\ call' = [call EXCEPT ![c] =
       [at |-> "asked", kind |-> Route, mount |-> mount, prompt |-> prompts']]
  /\ UNCHANGED <<studio, team, place, mount, profile, found, quick, wizard, writes, hers, cut,
                 slipped>>

(* Mutant: the reply is put at the end, whatever it replaces.                *)
Replied_AtTheEnd(p, m) == Append(thread, m)

(* chatReducer: a reply takes the place of its bubble.                       *)
Replied(p, m) ==
  [i \in DOMAIN thread |-> IF thread[i] = Pending(p) THEN m ELSE thread[i]]

Here(q) == place = "console" /\ q.mount = mount

(* Every outcome is a reply: a draft to look at; a plea for more; the same   *)
(* words about the team, whether it took the request or not; an apology.     *)
TakeReply(c) ==
  LET q == call[c]
  IN /\ q.kind \in {"onboarding", "team"} /\ q.at \in {"served", "refused"}
     /\ call' = [call EXCEPT ![c] = Idle]
     /\ IF Here(q)
        THEN /\ busy' = FALSE
             /\ \/ q.kind = "onboarding" /\ q.at = "served"
                   /\ Shows(Replied(q.prompt, Says(q.prompt, "draft")))
                \/ Shows(Replied(q.prompt, Says(q.prompt, "none")))
                \/ q.kind = "team" /\ Shows(Replied(q.prompt, Says(q.prompt, "preview")))
        ELSE UNCHANGED <<busy, thread, stored>>
     /\ UNCHANGED <<studio, team, place, mount, profile, found, quick, wizard, prompts, writes,
                    hers, cut, slipped>>

-----------------------------------------------------------------------------
(* The profile.                                                              *)

(* A draft leaves the contact details empty, and is laid over all there is;  *)
(* the quick launch fills in a number she gave.                              *)
Drafted == [desc |-> "draft", contact |-> "empty"]

(* updateBusiness, in the profile's section: she writes, or empties.         *)
Write(f) ==
  /\ place = "away" /\ writes < MaxWrites
  /\ writes' = writes + 1
  /\ \E text \in {"hers", "empty"} :
       /\ profile' = [profile EXCEPT ![f] = text]
       /\ hers' = IF text = "hers" /\ \A c \in Out : call[c].kind # "quick"
                  THEN hers \cup {f} ELSE hers \ {f}
  /\ UNCHANGED <<studio, team, place, mount, thread, stored, found, busy, quick, wizard, call,
                 prompts, cut, slipped>>

(* "Use it" stays on its card, now and after the thread is restored.         *)
UseDraft(i) ==
  /\ place = "console" /\ writes < MaxWrites
  /\ i \in DOMAIN thread /\ thread[i].card = "draft"
  /\ writes' = writes + 1
  /\ profile' = Drafted
  /\ hers' = {}
  /\ Shows(Append(thread, Says(0, "preview")))
  /\ UNCHANGED <<studio, team, place, mount, found, busy, quick, wizard, call, prompts, cut,
                 slipped>>

-----------------------------------------------------------------------------
(* The quick launch, shown while the thread is empty.                        *)
Beside == place = "console" /\ thread = <<>>

Launch(c) ==
  /\ Beside /\ quick = "form" /\ call[c].at = "idle"
  /\ quick' = "progress"
  /\ call' = [call EXCEPT ![c] = [at |-> "asked", kind |-> "quick", mount |-> mount, prompt |-> 0]]
  /\ hers' = {}
  /\ UNCHANGED <<studio, team, place, mount, profile, thread, stored, found, busy, wizard,
                 prompts, writes, cut, slipped>>

Skip ==
  /\ Beside /\ quick \in {"form", "done"}
  /\ quick' = "hidden"
  /\ UNCHANGED <<studio, team, place, mount, profile, thread, stored, found, busy, wizard, call,
                 prompts, writes, hers, cut, slipped>>

(* The shell takes the profile wherever the owner is by now; only the card   *)
(* needs to be there to say so.                                              *)
TakeLaunch(c) ==
  LET q == call[c]
      card == Beside /\ q.mount = mount
  IN /\ q.kind = "quick" /\ q.at \in {"served", "refused"}
     /\ call' = [call EXCEPT ![c] = Idle]
     /\ \/ /\ q.at = "served"
           /\ \E phone \in {"draft", "empty"} : profile' = [Drafted EXCEPT !["contact"] = phone]
           /\ quick' = IF card THEN "done" ELSE quick
        \/ /\ profile' = profile
           /\ quick' = IF card THEN "form" ELSE quick
     /\ UNCHANGED <<studio, team, place, mount, thread, stored, found, busy, wizard, prompts,
                    writes, hers, cut, slipped>>

-----------------------------------------------------------------------------
(* The wizard of the older dashboard.                                        *)
OpenWizard ==
  /\ ~studio /\ place = "away" /\ mount < MaxMounts
  /\ place' = "wizard"
  /\ mount' = mount + 1
  /\ wizard' = Closed
  /\ busy' = FALSE
  /\ UNCHANGED <<studio, team, profile, thread, stored, found, quick, call, prompts, writes,
                 hers, cut, slipped>>

Generate(c) ==
  /\ place = "wizard" /\ wizard.phase = "describe" /\ ~busy /\ call[c].at = "idle"
  /\ busy' = TRUE
  /\ call' = [call EXCEPT ![c] = [at |-> "asked", kind |-> "wizard", mount |-> mount,
                                  prompt |-> 0]]
  /\ UNCHANGED <<studio, team, place, mount, profile, thread, stored, found, quick, wizard,
                 prompts, writes, hers, cut, slipped>>

TakeDraft(c) ==
  LET q == call[c]
  IN /\ q.kind = "wizard" /\ q.at \in {"served", "refused"}
     /\ call' = [call EXCEPT ![c] = Idle]
     /\ IF place = "wizard" /\ q.mount = mount
        THEN /\ busy' = FALSE
             /\ \/ q.at = "served" /\ wizard' = [phase |-> "review", draft |-> "draft"]
                \/ wizard' = wizard
        ELSE UNCHANGED <<busy, wizard>>
     /\ UNCHANGED <<studio, team, place, mount, profile, thread, stored, found, quick, prompts,
                    writes, hers, cut, slipped>>

(* She edits the draft, goes back to describe again, applies it or closes.   *)
Review ==
  /\ place = "wizard" /\ wizard.phase = "review"
  /\ \/ wizard' = [wizard EXCEPT !.draft = "hers"]
     \/ wizard' = [wizard EXCEPT !.phase = "describe"]
  /\ UNCHANGED <<studio, team, place, mount, profile, thread, stored, found, busy, quick, call,
                 prompts, writes, hers, cut, slipped>>

ApplyDraft ==
  /\ place = "wizard" /\ wizard.phase = "review"
  /\ profile' = [Drafted EXCEPT !["desc"] = wizard.draft]
  /\ hers' = IF wizard.draft = "hers" THEN {"desc"} ELSE {}
  /\ place' = "away"
  /\ UNCHANGED <<studio, team, mount, thread, stored, found, busy, quick, wizard, call, prompts,
                 writes, cut, slipped>>

CloseWizard ==
  /\ place = "wizard"
  /\ place' = "away"
  /\ UNCHANGED <<studio, team, mount, profile, thread, stored, found, busy, quick, wizard, call,
                 prompts, writes, hers, cut, slipped>>

-----------------------------------------------------------------------------
(* The routes.  To draft a profile stores nothing; a description that is too *)
(* short, a form without a name, a team that is not in the plan is refused.  *)
Served(c, kind) ==
  /\ call[c].at = "asked" /\ call[c].kind \in kind
  /\ \E answer \in {"served", "refused"} : call' = [call EXCEPT ![c].at = answer]
  /\ UNCHANGED <<studio, team, place, mount, profile, thread, stored, found, busy, quick, wizard,
                 prompts, writes, hers, cut, slipped>>

ServeProfile(c) == Served(c, {"onboarding", "wizard"})
ServeQuick(c) == Served(c, {"quick"})
ServeTeam(c) == Served(c, {"team"})

Next ==
  \/ OpenConsole \/ Restore \/ LeaveConsole \/ Reload \/ Guided \/ Skip
  \/ OpenWizard \/ Review \/ ApplyDraft \/ CloseWizard
  \/ \E f \in Fields : Write(f)
  \/ \E i \in DOMAIN thread : UseDraft(i)
  \/ \E c \in Calls :
       \/ Submit(c) \/ Launch(c) \/ Generate(c)
       \/ ServeProfile(c) \/ ServeQuick(c) \/ ServeTeam(c)
       \/ TakeReply(c) \/ TakeLaunch(c) \/ TakeDraft(c)

Spec == Init /\ [][Next]_vars

-----------------------------------------------------------------------------
(* What the owner wrote in her profile is replaced by a draft only when she  *)
(* takes the draft, or awaits the quick launch, which takes it for her.      *)
OwnersProfileKept == \A f \in hers : profile[f] = "hers"

(* Every prompt in the thread is followed by its reply, or by the bubble of  *)
(* one that is awaited, unless the console was left before the reply came.   *)
PromptsAnswered ==
  \A i \in DOMAIN thread :
    thread[i].from = "owner" /\ thread[i].prompt \notin cut =>
      /\ i + 1 \in DOMAIN thread
      /\ thread[i + 1].prompt = thread[i].prompt
      /\ \/ thread[i + 1].from = "assistant"
         \/ busy /\ \E c \in Out : call[c].mount = mount /\ call[c].prompt = thread[i].prompt

(* The thread is restored with every prompt the owner ever sent, unless the  *)
(* console was left while it was empty on the screen and in the storage.     *)
TranscriptKept ==
  place = "console" /\ ~slipped =>
    1..prompts \subseteq {thread[i].prompt : i \in DOMAIN thread}
=============================================================================
