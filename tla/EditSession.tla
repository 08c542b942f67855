---------------------------- MODULE EditSession ----------------------------
(***************************************************************************)
(* Several browser tabs edit one page (client/components/editor.vue and    *)
(* its conflict dialogs).  A save first asks the server if the row is      *)
(* newer than the tab's checkout date, then updates it, and takes the date *)
(* of the row when it returns as its new checkout date.  Every 30 seconds  *)
(* a tab stores what was typed as a draft of its author, which it offers   *)
(* when the page is opened again and discards after a save.                *)
(*                                                                         *)
(* A text is the set of the edits it contains.  Dates are only ever        *)
(* compared with that of the row: older holds those that are older, and    *)
(* every write of the row adds all of them.  Between the requests of one   *)
(* tab those of others run, and what a tab does not await may come late.   *)
(***************************************************************************)
EXTENDS Integers, FiniteSets

CONSTANTS
  Tabs,         \* browser tabs
  Authors,      \* the users they belong to
  MaxOpens,     \* bound: times the page is opened
  MaxTyping,    \* bound: edits typed in a tab
  MaxSaves,     \* bound: saves
  MaxRequests   \* bound: saves and autosaves together

ASSUME EditAssumption ==
  /\ IsFiniteSet(Tabs) /\ IsFiniteSet(Authors)
  /\ {MaxOpens, MaxTyping, MaxSaves, MaxRequests} \subseteq Nat

VARIABLES
  page,       \* the row: the number of its text, 0 if there is none, and the text
  older,      \* the dates of tabs, of dialogs and of drafts that are older than the row
  author,     \* whose tabs they are
  tab,        \* the tabs
  draft,      \* rows of pageDrafts
  drafting,   \* the autosave of each tab that is on its way
  discarding, \* requests to discard a draft that are on their way
  used,       \* bounds: what was used up
  hist        \* history of each tab, for the properties

vars == <<page, older, author, tab, draft, drafting, discarding, used, hist>>

-----------------------------------------------------------------------------
Edits == Tabs \X (1..MaxTyping)
Texts == SUBSET Edits
Dates == ({"checkout", "dialog"} \X Tabs) \cup ({"draft"} \X Authors)

NoText == {}
NoPage == [n |-> 0, text |-> NoText]
NoDraft == [id |-> 0, text |-> NoText]
NoAutosave == [stage |-> "none", text |-> NoText, id |-> 0]

(* init: the saved text; found: a draft that is offered; latest: the row in *)
(* the conflict dialog *)
Closed == [mode |-> "closed", step |-> "idle", init |-> NoText, text |-> NoText, lastDraft |-> NoText,
           found |-> NoText, latest |-> NoPage]

(* seen: the text of the row that the checkout date stands for, as long as  *)
(* a draft is offered; dropped: edits of that text that the user chose to   *)
(* leave out; news: what became of the row since, "saved" if another tab    *)
(* saved it, or else "patched" if a render that the tab did not await, or a *)
(* save of the tab that failed, wrote to it; unshown: the date is that of a *)
(* text the tab never showed, or a draft without some of the text was       *)
(* restored; disturbed: requests about the author's draft overlapped, or    *)
(* the author had two tabs; amiss: the last autosave was not stored, though *)
(* the tab takes it for stored, or it was, though the tab did not hear it.  *)
NoHistory == [seen |-> NoText, dropped |-> NoText, news |-> "none", unshown |-> FALSE,
              disturbed |-> FALSE, amiss |-> FALSE]

Pages == [n : 0..(MaxSaves + 1), text : Texts]
DraftIds == 0..(Cardinality(Tabs) + Cardinality(Authors))

TypeOK ==
  /\ page \in Pages /\ older \subseteq Dates /\ author \in [Tabs -> Authors]
  /\ \A e \in Tabs :
       /\ tab[e].mode \in {"closed", "create", "update"}
       /\ tab[e].step \in {"idle", "creating", "checking", "checked", "rendering", "returning"}
       /\ {tab[e].init, tab[e].text, tab[e].lastDraft, tab[e].found} \subseteq Texts
       /\ tab[e].latest \in Pages /\ tab[e].latest.n <= page.n
       /\ drafting[e].stage \in {"none", "sent", "found"} /\ drafting[e].text \in Texts /\ drafting[e].id \in DraftIds
       /\ tab[e].mode = "closed" => <<"checkout", e>> \in older /\ tab[e].latest = NoPage
  /\ \A a \in Authors :
       /\ draft[a].id \in DraftIds /\ draft[a].text \in Texts /\ discarding[a] \in Nat
       /\ draft[a].id = 0 <=> draft[a].text = NoText

Init ==
  /\ page \in {NoPage, [n |-> 1, text |-> NoText]}
  /\ older = Dates /\ author \in [Tabs -> Authors]
  /\ tab = [e \in Tabs |-> Closed]
  /\ draft = [a \in Authors |-> NoDraft]
  /\ drafting = [e \in Tabs |-> NoAutosave]
  /\ discarding = [a \in Authors |-> 0]
  /\ used = [opens |-> 0, typing |-> [e \in Tabs |-> 0], saves |-> 0, autosaves |-> 0]
  /\ hist = [e \in Tabs |-> NoHistory]

TabsOf(a) == {e \in Tabs : author[e] = a}
Requests == used.saves + used.autosaves
Idle(e) == tab[e].mode # "closed" /\ tab[e].step = "idle" /\ tab[e].latest = NoPage
Step(e, step) == tab' = [tab EXCEPT ![e].step = step]
Outdated(e) == <<"checkout", e>> \in older

serverVars == <<page, older>>
draftVars == <<draft, drafting, discarding>>

-----------------------------------------------------------------------------
(* Opening, typing, closing. *)

(* The answer to checkForDraft is taken to come before the tab's first      *)
(* save, and its first autosave 30 seconds later.                           *)
OfferedDraft(e, mode) ==
  LET d == draft[author[e]] IN
  IF d.text # page.text /\ (mode = "create" \/ <<"draft", author[e]>> \notin older) THEN d.text ELSE NoText

Open(e) ==
  LET a == author[e]
      mode == IF page.n = 0 THEN "create" ELSE "update"
      others == {t \in TabsOf(a) \ {e} : tab[t].mode # "closed"}
      pending == discarding[a] > 0 \/ \E t \in TabsOf(a) : drafting[t] # NoAutosave
  IN
  /\ tab[e].mode = "closed" /\ drafting[e] = NoAutosave
  /\ used.opens < MaxOpens /\ used' = [used EXCEPT !.opens = @ + 1]
  /\ tab' = [tab EXCEPT ![e] = [Closed EXCEPT !.mode = mode, !.init = page.text, !.text = page.text,
                                              !.lastDraft = page.text, !.found = OfferedDraft(e, mode)]]
  /\ older' = older \ {<<"checkout", e>>}
  /\ hist' = [t \in Tabs |->
                IF t = e THEN [NoHistory EXCEPT !.seen = IF OfferedDraft(e, mode) = NoText THEN NoText ELSE page.text,
                                               !.disturbed = others # {} \/ pending]
                ELSE [hist[t] EXCEPT !.disturbed = @ \/ t \in others]]
  /\ UNCHANGED <<page, author, draftVars>>

Type(e) ==
  /\ Idle(e) /\ used.typing[e] < MaxTyping
  /\ used' = [used EXCEPT !.typing[e] = @ + 1]
  /\ tab' = [tab EXCEPT ![e].text = @ \cup {<<e, used.typing[e] + 1>>}]
  /\ UNCHANGED <<serverVars, author, draftVars, hist>>

Leaves(e) == tab' = [tab EXCEPT ![e] = Closed] /\ older' = older \cup {<<"checkout", e>>}

Close(e) ==
  /\ Idle(e) /\ Leaves(e)
  /\ hist' = [hist EXCEPT ![e] = NoHistory]
  /\ UNCHANGED <<page, author, draftVars, used>>

-----------------------------------------------------------------------------
(* Drafts *)

RestoreDraft(e) ==
  /\ Idle(e) /\ tab[e].found # NoText
  /\ tab' = [tab EXCEPT ![e].text = tab[e].found, ![e].lastDraft = tab[e].found, ![e].found = NoText]
  /\ hist' = [hist EXCEPT ![e].seen = NoText, ![e].unshown = @ \/ ~(hist[e].seen \subseteq tab[e].found)]
  /\ UNCHANGED <<serverVars, author, draftVars, used>>

(* discardDraftAction; nobody waits for it. *)
SendDiscard(e) == discarding' = [discarding EXCEPT ![author[e]] = @ + 1]
Disturbs(e, history) ==
  LET overlap == \E s \in TabsOf(author[e]) : drafting[s] # NoAutosave
  IN  hist' = [t \in Tabs |-> [history[t] EXCEPT !.disturbed = @ \/ (overlap /\ t \in TabsOf(author[e]))]]

DiscardFound(e) ==
  /\ Idle(e) /\ tab[e].found # NoText
  /\ tab' = [tab EXCEPT ![e].found = NoText]
  /\ SendDiscard(e) /\ Disturbs(e, [hist EXCEPT ![e].seen = NoText])
  /\ UNCHANGED <<serverVars, author, draft, drafting, used>>

DiscardArrives(a) ==
  /\ discarding[a] > 0
  /\ discarding' = [discarding EXCEPT ![a] = @ - 1]
  /\ draft' = [draft EXCEPT ![a] = NoDraft]
  /\ older' = older \cup {<<"draft", a>>}
  /\ UNCHANGED <<page, author, tab, drafting, used, hist>>

(* Mutant: an empty text is stored too. *)
AutosaveEmpty(e) ==
  /\ tab[e].mode # "closed" /\ tab[e].step = "idle" /\ tab[e].found = NoText
  /\ tab[e].text # tab[e].lastDraft /\ drafting[e] = NoAutosave
  /\ Requests < MaxRequests /\ used' = [used EXCEPT !.autosaves = @ + 1]
  /\ drafting' = [drafting EXCEPT ![e] = [stage |-> "sent", text |-> tab[e].text, id |-> 0]]
  /\ hist' = [hist EXCEPT ![e].disturbed = @ \/ discarding[author[e]] > 0]
  /\ UNCHANGED <<serverVars, author, tab, draft, discarding>>

(* saveDraftSilent, not while a draft is offered; its next call is 30       *)
(* seconds later. *)
Autosave(e) ==
  /\ tab[e].mode # "closed" /\ tab[e].step = "idle" /\ tab[e].found = NoText
  /\ tab[e].text \notin {NoText, tab[e].lastDraft} /\ drafting[e] = NoAutosave
  /\ Requests < MaxRequests /\ used' = [used EXCEPT !.autosaves = @ + 1]
  /\ drafting' = [drafting EXCEPT ![e] = [stage |-> "sent", text |-> tab[e].text, id |-> 0]]
  /\ hist' = [hist EXCEPT ![e].disturbed = @ \/ discarding[author[e]] > 0]
  /\ UNCHANGED <<serverVars, author, tab, draft, discarding>>

(* PageDraft.saveDraft looks for the row, then patches it by its id or      *)
(* inserts one.                                                             *)
FindDraft(e) ==
  /\ drafting[e].stage = "sent"
  /\ drafting' = [drafting EXCEPT ![e].stage = "found", ![e].id = draft[author[e]].id]
  /\ UNCHANGED <<serverVars, author, tab, draft, discarding, used, hist>>

NewId == CHOOSE i \in DraftIds \ {0} : i \notin {draft[a].id : a \in Authors} \cup {drafting[t].id : t \in Tabs}

(* A row that was deleted meanwhile is not patched. *)
PatchOrInsert(e) ==
  LET a == author[e]
      id == drafting[e].id
  IN  IF id = draft[a].id
        THEN /\ draft' = [draft EXCEPT ![a] = [id |-> IF id = 0 THEN NewId ELSE id, text |-> drafting[e].text]]
             /\ older' = older \ {<<"draft", a>>}
        ELSE UNCHANGED <<draft, older>>

Ends(e, amiss) == hist' = [hist EXCEPT ![e].amiss = amiss /\ tab[e].mode # "closed"]

(* The tab does not look whether the answer says that the draft was stored  *)
(* (resolvers/page.js:714-716, editor.vue:708-728).                         *)
Answered(e, amiss) ==
  /\ tab' = IF tab[e].mode = "closed" THEN tab ELSE [tab EXCEPT ![e].lastDraft = drafting[e].text]
  /\ drafting' = [drafting EXCEPT ![e] = NoAutosave]
  /\ Ends(e, amiss)

(* A row that another request inserted meanwhile makes ours a duplicate,    *)
(* which the answer calls an error.                                         *)
WriteDraft(e) ==
  /\ drafting[e].stage = "found"
  /\ PatchOrInsert(e)
  /\ Answered(e, drafting[e].id = 0 /\ draft[author[e]] # NoDraft)
  /\ UNCHANGED <<page, author, discarding, used>>

(* The author may not write here (any more), or a query fails: nothing is   *)
(* stored, and the answer says so.                                          *)
RefuseDraft(e) ==
  /\ drafting[e].stage = "found"
  /\ Answered(e, TRUE)
  /\ UNCHANGED <<serverVars, author, draft, discarding, used>>

(* The request gets no answer: it is lost, or its answer is.                *)
DraftUnanswered(e) ==
  /\ drafting[e].stage = "found"
  /\ \/ UNCHANGED <<draft, older, hist>>
     \/ PatchOrInsert(e) /\ Ends(e, TRUE)
  /\ drafting' = [drafting EXCEPT ![e] = NoAutosave]
  /\ UNCHANGED <<page, author, tab, discarding, used>>

-----------------------------------------------------------------------------
(* Saving.  The progress dialog keeps the user from typing. *)

Save(e) ==
  /\ Idle(e) /\ tab[e].text # NoText /\ used.saves < MaxSaves /\ Requests < MaxRequests
  /\ used' = [used EXCEPT !.saves = @ + 1]
  /\ Step(e, IF tab[e].mode = "create" THEN "creating" ELSE "checking")
  /\ UNCHANGED <<serverVars, author, draftVars, hist>>

(* A conflict refuses the save and opens the dialog (FetchLatest). *)
CheckConflicts(e) ==
  /\ tab[e].step = "checking"
  /\ Step(e, IF Outdated(e) THEN "idle" ELSE "checked")
  /\ UNCHANGED <<serverVars, author, draftVars, used, hist>>

(* The row is written, and a render job registered, which is awaited unless *)
(* it is queued. *)
Writes(e) ==
  /\ page' = [n |-> page.n + 1, text |-> tab[e].text]
  /\ older' = Dates
  /\ hist' = [t \in Tabs |-> [hist[t] EXCEPT !.news = IF t # e /\ tab[t].mode = "update" THEN "saved" ELSE "none"]]
  /\ \E step \in {"rendering", "returning"} : Step(e, step)

UpdatePage(e) ==
  /\ tab[e].step = "checked"
  /\ Writes(e)
  /\ UNCHANGED <<author, draftVars, used>>

CreatePage(e) ==
  /\ tab[e].step = "creating"
  /\ IF page.n = 0 THEN Writes(e) ELSE Step(e, "idle") /\ UNCHANGED <<serverVars, hist>>
  /\ UNCHANGED <<author, draftVars, used>>

Touched(e) == [hist[e] EXCEPT !.news = IF @ = "none" THEN "patched" ELSE @]

(* Whatever patches the row changes its date. *)
Patches(but) ==
  /\ older' = Dates
  /\ hist' = [t \in Tabs |-> IF tab[t].mode = "update" /\ t \notin but THEN Touched(t) ELSE hist[t]]

RenderAwaited(e) ==
  /\ tab[e].step = "rendering"
  /\ Patches({e}) /\ Step(e, "returning")
  /\ UNCHANGED <<page, author, draftVars, used>>

(* A job that was queued renders the page, the page is rendered again, or   *)
(* links in it are reconnected.                                             *)
OtherPatch ==
  /\ page.n > 0
  /\ Patches({})
  /\ UNCHANGED <<page, author, tab, draftVars, used>>

(* Mutant: the draft is discarded whether or not the save succeeds. *)
SaveFailsAndDiscards(e) ==
  /\ tab[e].step = "returning"
  /\ Step(e, "idle")
  /\ SendDiscard(e) /\ Disturbs(e, [hist EXCEPT ![e] = Touched(e)])
  /\ UNCHANGED <<serverVars, author, draft, drafting, used>>

(* The job fails, or what follows it, or the answer is lost. *)
SaveFails(e) ==
  /\ tab[e].step = "returning"
  /\ Step(e, "idle")
  /\ hist' = [hist EXCEPT ![e] = Touched(e)]
  /\ UNCHANGED <<serverVars, author, draftVars, used>>

(* The tab goes on from this text of the row, of which it keeps some. *)
GoesOn(e, text, kept) ==
  [NoHistory EXCEPT !.seen = IF tab[e].found = NoText THEN NoText ELSE text, !.dropped = text \ kept,
                    !.disturbed = hist[e].disturbed, !.amiss = hist[e].amiss]

(* Mutant: the checkout date stays that of the text that was loaded. *)
SaveReturnsWithoutDate(e) ==
  /\ tab[e].step = "returning"
  /\ IF tab[e].mode = "create"
     THEN Leaves(e) /\ Disturbs(e, [hist EXCEPT ![e] = NoHistory])
     ELSE /\ tab' = [tab EXCEPT ![e].step = "idle", ![e].init = tab[e].text, ![e].lastDraft = tab[e].text, ![e].found = NoText]
          /\ Disturbs(e, [hist EXCEPT ![e] = [GoesOn(e, tab[e].text, tab[e].text) EXCEPT !.seen = NoText, !.unshown = hist[e].news = "saved"]])
          /\ UNCHANGED older
  /\ SendDiscard(e)
  /\ UNCHANGED <<page, author, draft, drafting, used>>

(* updatePage answers with the date of the row as it is now.  The tab of a  *)
(* page that was created leaves for the page.                               *)
SaveReturns(e) ==
  /\ tab[e].step = "returning"
  /\ IF tab[e].mode = "create"
     THEN Leaves(e) /\ Disturbs(e, [hist EXCEPT ![e] = NoHistory])
     ELSE /\ older' = older \ {<<"checkout", e>>}
          /\ tab' = [tab EXCEPT ![e].step = "idle", ![e].init = tab[e].text, ![e].lastDraft = tab[e].text, ![e].found = NoText]
          /\ Disturbs(e, [hist EXCEPT ![e] = [GoesOn(e, tab[e].text, tab[e].text) EXCEPT !.seen = NoText, !.unshown = hist[e].news = "saved"]])
  /\ SendDiscard(e)
  /\ UNCHANGED <<page, author, draft, drafting, used>>

-----------------------------------------------------------------------------
(* The conflict dialog, after a refused save or when the poll of every five *)
(* seconds has found a newer row.                                           *)

FetchLatest(e) ==
  /\ Idle(e) /\ tab[e].mode = "update" /\ Outdated(e)
  /\ tab' = [tab EXCEPT ![e].latest = page]
  /\ older' = older \ {<<"dialog", e>>}
  /\ UNCHANGED <<page, author, draftVars, used, hist>>

(* Mutant: the checkout date becomes the present one, not the one fetched. *)
DecideNow(e, text) ==
  LET latest == tab[e].latest IN
  /\ latest # NoPage
  /\ tab' = [tab EXCEPT ![e].text = text, ![e].latest = NoPage]
  /\ older' = (older \cup {<<"dialog", e>>}) \ {<<"checkout", e>>}
  /\ hist' = [hist EXCEPT ![e] = GoesOn(e, latest.text, text)]
  /\ UNCHANGED <<page, author, draftVars, used>>

Decide(e, text) ==
  LET latest == tab[e].latest
      newer == <<"dialog", e>> \in older
  IN
  /\ latest # NoPage
  /\ tab' = [tab EXCEPT ![e].text = text, ![e].latest = NoPage]
  /\ older' = (older \cup {<<"dialog", e>>}) \ (IF newer THEN {} ELSE {<<"checkout", e>>})
  /\ hist' = [hist EXCEPT ![e] = [GoesOn(e, latest.text, text) EXCEPT !.news = IF latest.n # page.n THEN "saved" ELSE IF newer THEN "patched" ELSE "none"]]
  /\ UNCHANGED <<page, author, draftVars, used>>

(* The left side of the dialog can be edited: what the right side has more  *)
(* may be taken over.                                                       *)
UseLocal(e) == Decide(e, tab[e].text) \/ Decide(e, tab[e].text \cup tab[e].latest.text)
UseRemote(e) == Decide(e, tab[e].latest.text)

Cancel(e) ==
  /\ tab[e].latest # NoPage
  /\ tab' = [tab EXCEPT ![e].latest = NoPage]
  /\ older' = older \cup {<<"dialog", e>>}
  /\ UNCHANGED <<page, author, draftVars, used, hist>>

-----------------------------------------------------------------------------
Next ==
  \/ \E e \in Tabs :
       \/ Open(e) \/ Type(e) \/ Close(e)
       \/ RestoreDraft(e) \/ DiscardFound(e) \/ Autosave(e) \/ FindDraft(e) \/ WriteDraft(e)
       \/ RefuseDraft(e) \/ DraftUnanswered(e)
       \/ Save(e) \/ CheckConflicts(e) \/ UpdatePage(e) \/ CreatePage(e) \/ RenderAwaited(e) \/ SaveFails(e) \/ SaveReturns(e)
       \/ FetchLatest(e) \/ UseLocal(e) \/ UseRemote(e) \/ Cancel(e)
  \/ \E a \in Authors : DiscardArrives(a)
  \/ OtherPatch

Spec == Init /\ [][Next]_vars

-----------------------------------------------------------------------------
(* Properties *)

(* A save removes from the page only what its user chose to leave out when  *)
(* looking at it, but in three cases: another save came between the check   *)
(* and the update (editor.vue:454, 473); the tab's last save returned the   *)
(* date of somebody else's later one (pages.js:470); a draft of an older    *)
(* text was restored over the page (editor.vue:653).                        *)
NoSilentOverwrite ==
  [][\A e \in Tabs : UpdatePage(e) =>
       \/ page.text \ tab[e].text \subseteq hist[e].dropped
       \/ hist[e].news = "saved" \/ hist[e].unshown]_vars

(* A tab is told of a conflict only if somebody else saved the page, or the *)
(* row was patched by a render that the tab's own save did not await, or a  *)
(* save of the tab failed halfway: in particular not of one with its own    *)
(* save and its render (pages.js:469-470, render-page.js:74).               *)
NoFalseConflict ==
  \A e \in Tabs :
    tab[e].mode = "update" /\ tab[e].step \in {"idle", "checking"} /\ Outdated(e) =>
      hist[e].news # "none"

(* What a tab takes for stored as a draft is stored, until it is saved or   *)
(* the tab is closed, whatever others save and however conflicts are        *)
(* resolved (pageDrafts.js:60-84, editor.vue:564, 702-728).  Exceptions:    *)
(* the author has a second tab; requests about the draft overlap; the last  *)
(* autosave failed, which the tab takes for a success as long as an answer  *)
(* comes (editor.vue:708-728), or stored a newer text and was not answered. *)
DraftKeepsWork ==
  \A e \in Tabs :
    tab[e].mode # "closed" /\ tab[e].lastDraft # tab[e].init /\ ~hist[e].disturbed /\ ~hist[e].amiss =>
      draft[author[e]].text = tab[e].lastDraft

=============================================================================
