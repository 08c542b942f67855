------------------------- MODULE EditSessionProofs -------------------------
(***************************************************************************)
(* Proofs about EditSession: whatever tabs, authors and bounds there are,  *)
(* no save silently takes back what another one wrote, no tab is told of a *)
(* conflict with itself, and what it takes for stored as a draft is stored.*)
(***************************************************************************)
EXTENDS EditSession, FiniteSetTheorems, TLAPS

(* The values of the variables *)
TabStates ==
  [mode : {"closed", "create", "update"},
   step : {"idle", "creating", "checking", "checked", "rendering", "returning"},
   init : Texts, text : Texts, lastDraft : Texts, found : Texts, latest : Pages]
Histories == [seen : Texts, dropped : Texts, news : {"none", "saved", "patched"}, unshown : BOOLEAN, disturbed : BOOLEAN,
              amiss : BOOLEAN]
Autosaves == [stage : {"none", "sent", "found"}, text : Texts, id : DraftIds]
Drafts == [id : DraftIds, text : Texts]
Counts == [opens : Nat, typing : [Tabs -> 0..MaxTyping], saves : 0..MaxSaves, autosaves : Nat]

Shape ==
  /\ page \in Pages /\ older \subseteq Dates /\ author \in [Tabs -> Authors]
  /\ tab \in [Tabs -> TabStates] /\ hist \in [Tabs -> Histories] /\ used \in Counts
  /\ draft \in [Authors -> Drafts] /\ drafting \in [Tabs -> Autosaves] /\ discarding \in [Authors -> Nat]

(* An autosave stores no empty text, so an empty one stands for no draft. *)
DraftsHaveText ==
  /\ \A a \in Authors : draft[a].id = 0 <=> draft[a].text = NoText
  /\ \A e \in Tabs : drafting[e].stage # "none" => drafting[e].text # NoText

(* Where a tab can be, and what it knows of the row *)
Orderly(e) ==
  /\ tab[e].mode = "closed" => <<"checkout", e>> \in older /\ tab[e].latest = NoPage /\ tab[e].step = "idle"
  /\ tab[e].step \in {"checking", "checked"} => tab[e].mode = "update"
  /\ tab[e].latest # NoPage => tab[e].step = "idle"
  /\ tab[e].latest.n <= page.n
  /\ tab[e].latest.n = page.n => tab[e].latest \in {NoPage, page}

(* Every save writes the row at most once. *)
Saving == {e \in Tabs : tab[e].step \in {"creating", "checking", "checked"}}
Numbered == page.n + Cardinality(Saving) <= used.saves + 1

(* An outdated tab has had news, but for the time of its own save. *)
Informed(e) ==
  tab[e].mode = "update" /\ tab[e].step \notin {"rendering", "returning"} /\ Outdated(e) => hist[e].news # "none"

(* A tab that the next save would let pass has dropped what it lacks of the *)
(* row, and knows the text that an offered draft would replace; one that    *)
(* wrote the row and has no news since holds its text.                      *)
Shown(e) ==
  /\ /\ tab[e].mode = "update" /\ hist[e].news # "saved" /\ ~hist[e].unshown
     /\ ~Outdated(e) \/ tab[e].step = "checked"
     => /\ page.text \ tab[e].text \subseteq hist[e].dropped
        /\ tab[e].found # NoText => hist[e].seen = page.text
  /\ tab[e].mode = "update" /\ tab[e].step \in {"rendering", "returning"} /\ hist[e].news # "saved" =>
       page.text = tab[e].text

(* The author of such a tab has no other request about the draft under way. *)
Calm(e) == tab[e].mode # "closed" /\ ~hist[e].disturbed

Stored(e) ==
  Calm(e) =>
    /\ \A t \in TabsOf(author[e]) \ {e} : tab[t].mode = "closed" /\ drafting[t] = NoAutosave
    /\ tab[e].lastDraft # tab[e].init /\ ~hist[e].amiss => draft[author[e]].text = tab[e].lastDraft
    /\ tab[e].found # NoText =>
         draft[author[e]].text = tab[e].found /\ tab[e].lastDraft = tab[e].init /\ drafting[e] = NoAutosave
    /\ discarding[author[e]] > 0 =>
         tab[e].found = NoText /\ tab[e].lastDraft = tab[e].init /\ drafting[e] = NoAutosave
    /\ drafting[e].stage = "found" => drafting[e].id = draft[author[e]].id

EditInv ==
  /\ Shape /\ DraftsHaveText /\ Numbered
  /\ \A e \in Tabs : Orderly(e) /\ Informed(e) /\ Shown(e) /\ Stored(e)

LEMMA Types ==
  ASSUME Shape, NEW e \in Tabs
  PROVE  /\ tab[e].mode \in {"closed", "create", "update"}
         /\ tab[e].step \in {"idle", "creating", "checking", "checked", "rendering", "returning"}
         /\ tab[e].init \in Texts /\ tab[e].text \in Texts /\ tab[e].lastDraft \in Texts /\ tab[e].found \in Texts
         /\ tab[e].latest \in Pages
         /\ hist[e].seen \in Texts /\ hist[e].dropped \in Texts /\ hist[e].news \in {"none", "saved", "patched"}
         /\ hist[e].unshown \in BOOLEAN /\ hist[e].disturbed \in BOOLEAN /\ hist[e].amiss \in BOOLEAN
         /\ drafting[e].stage \in {"none", "sent", "found"} /\ drafting[e].text \in Texts /\ drafting[e].id \in DraftIds
         /\ author[e] \in Authors /\ page.n \in Nat /\ page.text \in Texts /\ page.n <= MaxSaves + 1
         /\ draft[author[e]].id \in DraftIds /\ draft[author[e]].text \in Texts /\ discarding[author[e]] \in Nat
         /\ used.typing[e] \in 0..MaxTyping /\ used.saves \in 0..MaxSaves /\ used.opens \in Nat /\ used.autosaves \in Nat
         /\ MaxSaves \in Nat /\ MaxTyping \in Nat
<1>1. tab[e] \in TabStates /\ hist[e] \in Histories /\ drafting[e] \in Autosaves /\ used \in Counts /\ page \in Pages
      /\ author[e] \in Authors /\ draft[author[e]] \in Drafts /\ discarding[author[e]] \in Nat
  BY DEF Shape
<1>2. MaxSaves \in Nat /\ MaxTyping \in Nat
  BY EditAssumption
<1>3. /\ tab[e].mode \in {"closed", "create", "update"}
      /\ tab[e].step \in {"idle", "creating", "checking", "checked", "rendering", "returning"}
      /\ tab[e].init \in Texts /\ tab[e].text \in Texts /\ tab[e].lastDraft \in Texts /\ tab[e].found \in Texts
      /\ tab[e].latest \in Pages
  BY <1>1 DEF TabStates
<1>4. /\ hist[e].seen \in Texts /\ hist[e].dropped \in Texts /\ hist[e].news \in {"none", "saved", "patched"}
      /\ hist[e].unshown \in BOOLEAN /\ hist[e].disturbed \in BOOLEAN /\ hist[e].amiss \in BOOLEAN
  BY <1>1 DEF Histories
<1>5. /\ drafting[e].stage \in {"none", "sent", "found"} /\ drafting[e].text \in Texts /\ drafting[e].id \in DraftIds
      /\ draft[author[e]].id \in DraftIds /\ draft[author[e]].text \in Texts
  BY <1>1 DEF Autosaves, Drafts
<1>6. /\ used.typing[e] \in 0..MaxTyping /\ used.saves \in 0..MaxSaves /\ used.opens \in Nat /\ used.autosaves \in Nat
  BY <1>1 DEF Counts
<1>7. page.n \in Nat /\ page.text \in Texts /\ page.n <= MaxSaves + 1
  BY <1>1, <1>2 DEF Pages
<1>8. QED
  BY <1>1, <1>2, <1>3, <1>4, <1>5, <1>6, <1>7

-----------------------------------------------------------------------------
(* What an action leaves alone for a tab *)

LEMMA OrderlyKept ==
  ASSUME EditInv, NEW t \in Tabs, page' = page \/ page'.n = page.n + 1,
         tab'[t].mode = tab[t].mode, tab'[t].step = tab[t].step, tab'[t].latest = tab[t].latest,
         <<"checkout", t>> \in older => <<"checkout", t>> \in older'
  PROVE  Orderly(t)'
<1>1. Orderly(t) /\ tab[t].latest.n \in Nat /\ page.n \in Nat
  BY Types DEF EditInv, Pages
<1>2. CASE page' = page
  BY <1>1, <1>2 DEF Orderly
<1>3. CASE page'.n = page.n + 1
  BY <1>1, <1>3 DEF Orderly
<1>4. QED
  BY <1>2, <1>3

LEMMA InformedKept ==
  ASSUME EditInv, NEW t \in Tabs, tab'[t].mode = tab[t].mode, tab'[t].step = tab[t].step,
         \/ hist'[t].news # "none"
         \/ hist'[t].news = hist[t].news /\ (<<"checkout", t>> \in older' => <<"checkout", t>> \in older)
  PROVE  Informed(t)'
<1>1. Informed(t)
  BY DEF EditInv
<1>2. QED
  BY <1>1 DEF Informed, Outdated

LEMMA ShownKept ==
  ASSUME EditInv, NEW t \in Tabs,
         tab'[t].mode = tab[t].mode, tab'[t].step = tab[t].step, tab'[t].found = tab[t].found, tab'[t].text = tab[t].text,
         \/ hist'[t].news = "saved"
         \/ /\ page' = page /\ (hist'[t].news = hist[t].news \/ hist[t].news # "saved")
            /\ hist'[t].unshown = hist[t].unshown /\ hist'[t].dropped = hist[t].dropped /\ hist'[t].seen = hist[t].seen
            /\ <<"checkout", t>> \in older => <<"checkout", t>> \in older'
  PROVE  Shown(t)'
<1>1. Shown(t)
  BY DEF EditInv
<1>2. CASE hist'[t].news = "saved"
  BY <1>2 DEF Shown
<1>3. CASE hist'[t].news # "saved"
  BY <1>1, <1>3 DEF Shown, Outdated
<1>4. QED
  BY <1>2, <1>3

LEMMA StoredKept ==
  ASSUME EditInv, NEW t \in Tabs, author' = author,
         \/ hist'[t].disturbed
         \/ /\ ~hist[t].disturbed /\ (hist[t].amiss => hist'[t].amiss)
            /\ tab'[t].mode = tab[t].mode /\ tab'[t].init = tab[t].init /\ tab'[t].lastDraft = tab[t].lastDraft
            /\ tab'[t].found = tab[t].found
            /\ draft'[author[t]] = draft[author[t]] /\ discarding'[author[t]] = discarding[author[t]]
            /\ drafting'[t] = drafting[t]
            /\ \A s \in TabsOf(author[t]) \ {t} :
                 /\ tab[s].mode = "closed" => tab'[s].mode = "closed"
                 /\ tab[s].mode = "closed" /\ drafting[s] = NoAutosave => drafting'[s] = NoAutosave
  PROVE  Stored(t)'
<1>1. Stored(t) /\ TabsOf(author[t])' = TabsOf(author[t]) /\ author'[t] = author[t]
  BY DEF EditInv, TabsOf
<1>2. CASE hist'[t].disturbed
  BY <1>2 DEF Stored, Calm
<1>3. CASE ~hist'[t].disturbed
  <2>1. Calm(t)' <=> Calm(t)
    BY <1>3 DEF Calm
  <2>2. ASSUME Calm(t), NEW s \in TabsOf(author[t]) \ {t}
        PROVE  tab'[s].mode = "closed" /\ drafting'[s] = NoAutosave
    BY <1>1, <1>3, <2>2 DEF Stored
  <2>3. QED
    BY <1>1, <1>3, <2>1, <2>2 DEF Stored
<1>4. QED
  BY <1>2, <1>3

LEMMA NumberedKept ==
  ASSUME EditInv, page' = page, used'.saves = used.saves,
         \A t \in Tabs : tab'[t].step \in {"creating", "checking", "checked"} => tab[t].step \in {"creating", "checking", "checked"}
  PROVE  Numbered'
<1>1. Saving' \subseteq Saving /\ IsFiniteSet(Saving)
  BY FS_Subset, EditAssumption DEF Saving
<1>2. Cardinality(Saving') \in Nat /\ Cardinality(Saving) \in Nat /\ Cardinality(Saving') <= Cardinality(Saving)
  BY <1>1, FS_Subset, FS_CardinalityType
<1>3. page.n + Cardinality(Saving) <= used.saves + 1 /\ page.n \in Nat /\ used.saves \in Nat
  <2>1. page.n \in Nat /\ used.saves \in Nat
    BY EditAssumption DEF EditInv, Shape, Pages, Counts
  <2>2. QED
    BY <2>1 DEF EditInv, Numbered
<1>4. QED
  BY <1>2, <1>3 DEF Numbered

-----------------------------------------------------------------------------
(* Typing *)

LEMMA TypeStep ==
  ASSUME EditInv, NEW e \in Tabs, Type(e)
  PROVE  EditInv'
<1>1. /\ UNCHANGED <<page, older, author, draft, drafting, discarding, hist>> /\ Idle(e)
      /\ used' = [used EXCEPT !.typing[e] = @ + 1] /\ used.typing[e] < MaxTyping
      /\ tab' = [tab EXCEPT ![e].text = @ \cup {<<e, used.typing[e] + 1>>}]
  BY DEF Type, serverVars, draftVars
<1>2. tab \in [Tabs -> TabStates] /\ used \in Counts /\ used.typing[e] + 1 \in 1..MaxTyping
  <2>1. used.typing[e] \in 0..MaxTyping /\ MaxTyping \in Nat
    BY Types DEF EditInv
  <2>2. QED
    BY <1>1, <2>1 DEF EditInv, Shape
<1>3. Shape'
  <2>1. tab' \in [Tabs -> TabStates]
    BY <1>1, <1>2 DEF Edits, TabStates, Texts
  <2>2. used' \in Counts
    BY <1>1, <1>2 DEF Counts
  <2>3. QED
    BY <1>1, <2>1, <2>2 DEF EditInv, Shape
<1>4. used'.saves = used.saves
  BY <1>1, <1>2 DEF Counts
<1>5. ASSUME NEW t \in Tabs
      PROVE  /\ tab'[t].mode = tab[t].mode /\ tab'[t].step = tab[t].step /\ tab'[t].init = tab[t].init
             /\ tab'[t].lastDraft = tab[t].lastDraft /\ tab'[t].found = tab[t].found /\ tab'[t].latest = tab[t].latest
             /\ tab[t].text \subseteq tab'[t].text
             /\ t # e => tab'[t] = tab[t]
  BY <1>1, <1>2 DEF TabStates
<1>6. Numbered'
  BY <1>1, <1>4, <1>5, NumberedKept
<1>7. ASSUME NEW t \in Tabs
      PROVE  Orderly(t)' /\ Informed(t)' /\ Shown(t)' /\ Stored(t)'
  <2>1. Orderly(t)'
    BY <1>1, <1>5, OrderlyKept
  <2>2. Informed(t)'
    BY <1>1, <1>5, InformedKept
  <2>3. Shown(t)'
    <3>1. CASE t = e
      <4>1. Shown(e) /\ tab[e].step = "idle"
        BY <1>1 DEF EditInv, Idle
      <4>2. QED
        BY <1>1, <1>5, <3>1, <4>1 DEF Shown, Outdated
    <3>2. CASE t # e
      BY <1>1, <1>5, <3>2, ShownKept
    <3>3. QED
      BY <3>1, <3>2
  <2>4. Stored(t)'
    <3>1. hist'[t].disturbed <=> hist[t].disturbed
      BY <1>1
    <3>2. \A s \in TabsOf(author[t]) : tab'[s].mode = tab[s].mode
      BY <1>5 DEF TabsOf
    <3>3. QED
      BY <1>1, <1>5, <3>1, <3>2, StoredKept
  <2>5. QED
    BY <2>1, <2>2, <2>3, <2>4
<1>8. QED
  BY <1>1, <1>3, <1>6, <1>7 DEF EditInv, DraftsHaveText

-----------------------------------------------------------------------------
(* Closing, and going from one step to the next *)

LEMMA ClosedTypes ==
  /\ Closed \in TabStates /\ NoHistory \in Histories /\ NoAutosave \in Autosaves /\ NoDraft \in Drafts
  /\ Closed.mode = "closed" /\ Closed.step = "idle" /\ Closed.latest = NoPage /\ NoHistory.news = "none"
<1>1. MaxSaves \in Nat /\ MaxTyping \in Nat /\ Cardinality(Tabs) \in Nat /\ Cardinality(Authors) \in Nat
  BY EditAssumption, FS_CardinalityType
<1>2. NoText \in Texts /\ NoPage \in Pages /\ 0 \in DraftIds
  BY <1>1 DEF NoText, Texts, NoPage, Pages, DraftIds
<1>3. QED
  BY <1>2 DEF Closed, TabStates, NoHistory, Histories, NoAutosave, Autosaves, NoDraft, Drafts

LEMMA CloseStep ==
  ASSUME EditInv, NEW e \in Tabs, Close(e)
  PROVE  EditInv'
<1>1. /\ UNCHANGED <<page, author, draft, drafting, discarding, used>> /\ Idle(e)
      /\ tab' = [tab EXCEPT ![e] = Closed] /\ older' = older \cup {<<"checkout", e>>}
      /\ hist' = [hist EXCEPT ![e] = NoHistory]
  BY DEF Close, Leaves, draftVars
<1>2. tab \in [Tabs -> TabStates] /\ hist \in [Tabs -> Histories]
  BY DEF EditInv, Shape
<1>3. Shape'
  <2>1. <<"checkout", e>> \in Dates
    BY DEF Dates
  <2>2. QED
    BY <1>1, <1>2, <2>1, ClosedTypes DEF EditInv, Shape
<1>4. tab'[e] = Closed
  BY <1>1, <1>2
<1>5. ASSUME NEW t \in Tabs, t # e
      PROVE  tab'[t] = tab[t] /\ hist'[t] = hist[t] /\ (<<"checkout", t>> \in older' <=> <<"checkout", t>> \in older)
  BY <1>1, <1>2, <1>5
<1>6. \A t \in Tabs : tab'[t].mode = "closed" \/ tab'[t] = tab[t]
  BY <1>4, <1>5, ClosedTypes
<1>7. Numbered'
  BY <1>1, <1>4, <1>5, ClosedTypes, NumberedKept
<1>8. ASSUME NEW t \in Tabs
      PROVE  Orderly(t)' /\ Informed(t)' /\ Shown(t)' /\ Stored(t)'
  <2>1. CASE t = e
    <3>1. <<"checkout", e>> \in older' /\ page.n \in Nat
      BY <1>1, Types DEF EditInv
    <3>2. QED
      BY <1>1, <1>4, <2>1, <3>1, ClosedTypes DEF Orderly, Informed, Shown, Stored, Calm, NoPage
  <2>2. CASE t # e
    <3>1. Orderly(t)' /\ Informed(t)' /\ Shown(t)'
      BY <1>1, <1>5, <2>2, OrderlyKept, InformedKept, ShownKept
    <3>2. \A s \in TabsOf(author[t]) : tab[s].mode = "closed" => tab'[s].mode = "closed"
      BY <1>6 DEF TabsOf
    <3>3. Stored(t)'
      BY <1>1, <1>5, <2>2, <3>2, StoredKept
    <3>4. QED
      BY <3>1, <3>3
  <2>3. QED
    BY <2>1, <2>2
<1>9. QED
  BY <1>1, <1>3, <1>7, <1>8 DEF EditInv, DraftsHaveText

LEMMA StepEffect ==
  ASSUME Shape, NEW e \in Tabs, NEW s \in {"idle", "creating", "checking", "checked", "rendering", "returning"}, Step(e, s)
  PROVE  /\ tab' \in [Tabs -> TabStates]
         /\ \A t \in Tabs : /\ tab'[t].mode = tab[t].mode /\ tab'[t].init = tab[t].init /\ tab'[t].text = tab[t].text
                            /\ tab'[t].lastDraft = tab[t].lastDraft /\ tab'[t].found = tab[t].found /\ tab'[t].latest = tab[t].latest
         /\ tab'[e].step = s /\ \A t \in Tabs \ {e} : tab'[t] = tab[t]
  BY DEF Shape, Step, TabStates

(* A step leaves what is known of drafts alone. *)
LEMMA StoredSteps ==
  ASSUME EditInv, UNCHANGED <<author, draftVars>>,
         \A t \in Tabs : /\ tab'[t].mode = tab[t].mode /\ tab'[t].init = tab[t].init
                         /\ tab'[t].lastDraft = tab[t].lastDraft /\ tab'[t].found = tab[t].found,
         NEW t \in Tabs, hist'[t].disturbed \/ ~hist[t].disturbed, hist[t].amiss => hist'[t].amiss
  PROVE  Stored(t)'
<1>1. \A s \in TabsOf(author[t]) : tab'[s].mode = tab[s].mode
  BY DEF TabsOf
<1>2. QED
  BY <1>1, StoredKept DEF draftVars

LEMMA SaveStep ==
  ASSUME EditInv, NEW e \in Tabs, Save(e)
  PROVE  EditInv'
<1>1. /\ UNCHANGED <<page, older, author, draft, drafting, discarding, hist>> /\ Idle(e)
      /\ used' = [used EXCEPT !.saves = @ + 1] /\ used.saves < MaxSaves
  BY DEF Save, serverVars, draftVars
<1>2. PICK s \in {"creating", "checking"} : Step(e, s) /\ (s = "checking" => tab[e].mode = "update")
  BY <1>1, Types DEF Save, EditInv, Idle
<1>3. /\ tab' \in [Tabs -> TabStates]
      /\ \A t \in Tabs : /\ tab'[t].mode = tab[t].mode /\ tab'[t].init = tab[t].init /\ tab'[t].text = tab[t].text
                         /\ tab'[t].lastDraft = tab[t].lastDraft /\ tab'[t].found = tab[t].found /\ tab'[t].latest = tab[t].latest
      /\ tab'[e].step = s /\ \A t \in Tabs \ {e} : tab'[t] = tab[t]
  BY <1>2, StepEffect DEF EditInv
<1>4. used' \in Counts /\ used'.saves = used.saves + 1 /\ used.saves \in Nat /\ page.n \in Nat
  <2>1. used \in Counts /\ MaxSaves \in Nat /\ used.saves \in 0..MaxSaves /\ page.n \in Nat
    BY Types DEF EditInv, Shape
  <2>2. used.saves + 1 \in 0..MaxSaves
    BY <1>1, <2>1
  <2>3. QED
    BY <1>1, <2>1, <2>2 DEF Counts
<1>5. Shape'
  BY <1>1, <1>3, <1>4 DEF EditInv, Shape
<1>6. Numbered'
  <2>1. Saving' = Saving \cup {e} /\ e \notin Saving /\ IsFiniteSet(Saving)
    BY <1>1, <1>3, FS_Subset, EditAssumption DEF Saving, Idle
  <2>2. Cardinality(Saving') = Cardinality(Saving) + 1 /\ Cardinality(Saving) \in Nat
    BY <2>1, FS_AddElement, FS_CardinalityType
  <2>3. QED
    BY <1>1, <1>4, <2>2 DEF EditInv, Numbered
<1>7. ASSUME NEW t \in Tabs
      PROVE  Orderly(t)' /\ Informed(t)' /\ Shown(t)' /\ Stored(t)'
  <2>1. CASE t = e
    <3>1. Orderly(e) /\ Informed(e) /\ Shown(e) /\ tab[e].step = "idle" /\ tab[e].latest = NoPage /\ tab[e].mode # "closed"
      BY <1>1 DEF EditInv, Idle
    <3>2. QED
      BY <1>1, <1>2, <1>3, <2>1, <3>1, StoredSteps DEF Orderly, Informed, Shown, Outdated, draftVars
  <2>2. CASE t # e
    BY <1>1, <1>3, <2>2, OrderlyKept, InformedKept, ShownKept, StoredSteps DEF draftVars
  <2>3. QED
    BY <2>1, <2>2
<1>8. QED
  BY <1>1, <1>5, <1>6, <1>7 DEF EditInv, DraftsHaveText

LEMMA CheckStep ==
  ASSUME EditInv, NEW e \in Tabs, CheckConflicts(e)
  PROVE  EditInv'
<1>1. /\ UNCHANGED <<page, older, author, draft, drafting, discarding, hist, used>> /\ tab[e].step = "checking"
  BY DEF CheckConflicts, serverVars, draftVars
<1>2. PICK s \in {"idle", "checked"} : Step(e, s) /\ (s = "checked" => ~Outdated(e))
  BY <1>1 DEF CheckConflicts
<1>3. /\ tab' \in [Tabs -> TabStates]
      /\ \A t \in Tabs : /\ tab'[t].mode = tab[t].mode /\ tab'[t].init = tab[t].init /\ tab'[t].text = tab[t].text
                         /\ tab'[t].lastDraft = tab[t].lastDraft /\ tab'[t].found = tab[t].found /\ tab'[t].latest = tab[t].latest
      /\ tab'[e].step = s /\ \A t \in Tabs \ {e} : tab'[t] = tab[t]
  BY <1>2, StepEffect DEF EditInv
<1>4. Shape'
  BY <1>1, <1>3 DEF EditInv, Shape
<1>5. Numbered'
  BY <1>1, <1>3, NumberedKept
<1>6. ASSUME NEW t \in Tabs
      PROVE  Orderly(t)' /\ Informed(t)' /\ Shown(t)' /\ Stored(t)'
  <2>1. CASE t = e
    <3>1. Orderly(e) /\ Informed(e) /\ Shown(e)
      BY DEF EditInv
    <3>2. QED
      BY <1>1, <1>2, <1>3, <2>1, <3>1, StoredSteps DEF Orderly, Informed, Shown, Outdated, draftVars
  <2>2. CASE t # e
    BY <1>1, <1>3, <2>2, OrderlyKept, InformedKept, ShownKept, StoredSteps DEF draftVars
  <2>3. QED
    BY <2>1, <2>2
<1>7. QED
  BY <1>1, <1>4, <1>5, <1>6 DEF EditInv, DraftsHaveText

-----------------------------------------------------------------------------
(* Opening *)

LEMMA OpenStep ==
  ASSUME EditInv, NEW e \in Tabs, Open(e)
  PROVE  EditInv'
<1> DEFINE a == author[e]
           mode == IF page.n = 0 THEN "create" ELSE "update"
           found == OfferedDraft(e, mode)
           others == {t \in TabsOf(a) \ {e} : tab[t].mode # "closed"}
           pending == discarding[a] > 0 \/ \E t \in TabsOf(a) : drafting[t] # NoAutosave
           opened == [Closed EXCEPT !.mode = mode, !.init = page.text, !.text = page.text, !.lastDraft = page.text, !.found = found]
           history == [NoHistory EXCEPT !.seen = IF found = NoText THEN NoText ELSE page.text,
                                        !.disturbed = others # {} \/ pending]
<1>1. /\ UNCHANGED <<page, author, draft, drafting, discarding>>
      /\ tab[e].mode = "closed" /\ drafting[e] = NoAutosave
      /\ used' = [used EXCEPT !.opens = @ + 1] /\ older' = older \ {<<"checkout", e>>}
      /\ tab' = [tab EXCEPT ![e] = opened]
      /\ hist' = [t \in Tabs |-> IF t = e THEN history ELSE [hist[t] EXCEPT !.disturbed = @ \/ t \in others]]
  BY DEF Open, draftVars
<1>2. /\ tab \in [Tabs -> TabStates] /\ hist \in [Tabs -> Histories] /\ used \in Counts /\ used.opens \in Nat
      /\ page.text \in Texts /\ page.n \in Nat
  BY Types DEF EditInv, Shape
<1>3. found \in Texts /\ found \in {NoText, draft[a].text} /\ NoText \in Texts
  BY Types DEF OfferedDraft, NoText, Texts, EditInv
<1>4. /\ opened \in TabStates /\ opened.mode = mode /\ opened.step = "idle" /\ opened.init = page.text /\ opened.text = page.text
      /\ opened.lastDraft = page.text /\ opened.found = found /\ opened.latest = NoPage
  BY <1>2, <1>3, ClosedTypes DEF Closed, TabStates
<1>5. /\ history \in Histories /\ history.seen = IF found = NoText THEN NoText ELSE page.text
      /\ history.news = "none" /\ ~history.unshown /\ history.dropped = NoText
      /\ others # {} \/ pending => history.disturbed
  BY <1>2, <1>3 DEF NoHistory, Histories
<1> HIDE DEF opened, history, found, mode
<1>6. ASSUME NEW t \in Tabs, t # e
      PROVE  /\ tab'[t] = tab[t] /\ (<<"checkout", t>> \in older' <=> <<"checkout", t>> \in older)
             /\ hist'[t] \in Histories
             /\ hist'[t].news = hist[t].news /\ hist'[t].seen = hist[t].seen /\ hist'[t].dropped = hist[t].dropped
             /\ hist'[t].unshown = hist[t].unshown /\ hist'[t].amiss = hist[t].amiss
             /\ hist[t].disturbed \/ t \in others => hist'[t].disturbed
  BY <1>1, <1>2, <1>6 DEF Histories
<1>7. tab'[e] = opened /\ hist'[e] = history
  BY <1>1, <1>2
<1>8. Shape'
  <2>1. tab' \in [Tabs -> TabStates]
    BY <1>1, <1>2, <1>4
  <2>2. hist' \in [Tabs -> Histories]
    BY <1>1, <1>5, <1>6, <1>7
  <2>3. used' \in Counts
    BY <1>1, <1>2 DEF Counts
  <2>4. QED
    BY <1>1, <2>1, <2>2, <2>3 DEF EditInv, Shape
<1>9. Numbered'
  <2>1. used'.saves = used.saves
    BY <1>1, <1>2 DEF Counts
  <2>2. QED
    BY <1>1, <1>4, <1>6, <1>7, <2>1, NumberedKept
<1>10. ASSUME NEW t \in Tabs
       PROVE  Orderly(t)' /\ Informed(t)' /\ Shown(t)' /\ Stored(t)'
  <2>1. CASE t = e
    <3>1. Orderly(e)'
      BY <1>1, <1>2, <1>4, <1>7 DEF Orderly, NoPage, mode
    <3>2. Informed(e)'
      BY <1>1 DEF Informed, Outdated
    <3>3. Shown(e)'
      BY <1>1, <1>4, <1>5, <1>7 DEF Shown
    <3>4. Stored(e)'
      <4>1. CASE others # {} \/ pending
        BY <1>5, <1>7, <4>1 DEF Stored, Calm
      <4>2. CASE others = {} /\ ~pending
        <5>1. /\ \A s \in TabsOf(a) \ {e} : tab'[s].mode = "closed" /\ drafting[s] = NoAutosave
              /\ drafting[e] = NoAutosave /\ ~(discarding[a] > 0)
          BY <1>1, <1>6, <4>2 DEF TabsOf
        <5>2. NoAutosave.stage = "none"
          BY DEF NoAutosave
        <5>3. QED
          BY <1>1, <1>3, <1>4, <1>7, <5>1, <5>2 DEF Stored, TabsOf
      <4>3. QED
        BY <4>1, <4>2
    <3>5. QED
      BY <2>1, <3>1, <3>2, <3>3, <3>4
  <2>2. CASE t # e
    <3>1. Orderly(t)' /\ Informed(t)' /\ Shown(t)'
      BY <1>1, <1>6, <2>2, OrderlyKept, InformedKept, ShownKept
    <3>2. CASE tab[t].mode = "closed"
      BY <1>6, <2>2, <3>1, <3>2 DEF Stored, Calm
    <3>3. CASE t \in others
      BY <1>6, <2>2, <3>1, <3>3 DEF Stored, Calm
    <3>4. CASE author[t] # a
      <4>1. \A s \in TabsOf(author[t]) : tab'[s] = tab[s]
        BY <1>6, <3>4 DEF TabsOf
      <4>2. (hist'[t].disturbed \/ ~hist[t].disturbed) /\ hist'[t].amiss = hist[t].amiss /\ tab'[t] = tab[t]
        BY <1>6, <2>2
      <4>3. QED
        BY <1>1, <3>1, <4>1, <4>2, StoredKept
    <3>5. t \in others \/ tab[t].mode = "closed" \/ author[t] # a
      BY <2>2 DEF TabsOf
    <3>6. QED
      BY <3>1, <3>2, <3>3, <3>4, <3>5
  <2>3. QED
    BY <2>1, <2>2
<1>11. QED
  BY <1>1, <1>8, <1>9, <1>10 DEF EditInv, DraftsHaveText

-----------------------------------------------------------------------------
(* Drafts *)

LEMMA RestoreStep ==
  ASSUME EditInv, NEW e \in Tabs, RestoreDraft(e)
  PROVE  EditInv'
<1> DEFINE f == tab[e].found
<1>1. /\ UNCHANGED <<page, older, author, draft, drafting, discarding, used>> /\ Idle(e) /\ f # NoText
      /\ tab' = [tab EXCEPT ![e].text = tab[e].found, ![e].lastDraft = tab[e].found, ![e].found = NoText]
      /\ hist' = [hist EXCEPT ![e].seen = NoText, ![e].unshown = @ \/ ~(hist[e].seen \subseteq tab[e].found)]
  BY DEF RestoreDraft, serverVars, draftVars
<1>2. tab \in [Tabs -> TabStates] /\ hist \in [Tabs -> Histories] /\ f \in Texts /\ NoText \in Texts
  BY Types DEF EditInv, Shape, NoText, Texts
<1>3. Shape'
  <2>1. tab' \in [Tabs -> TabStates]
    BY <1>1, <1>2 DEF TabStates
  <2>2. hist' \in [Tabs -> Histories]
    BY <1>1, <1>2 DEF Histories
  <2>3. QED
    BY <1>1, <2>1, <2>2 DEF EditInv, Shape
<1>4. ASSUME NEW t \in Tabs, t # e
      PROVE  tab'[t] = tab[t] /\ hist'[t] = hist[t]
  BY <1>1, <1>2, <1>4
<1>5. /\ tab'[e].mode = tab[e].mode /\ tab'[e].step = tab[e].step /\ tab'[e].latest = tab[e].latest /\ tab'[e].init = tab[e].init
      /\ tab'[e].text = f /\ tab'[e].lastDraft = f /\ tab'[e].found = NoText
  BY <1>1, <1>2 DEF TabStates
<1>6. /\ hist'[e].news = hist[e].news /\ hist'[e].dropped = hist[e].dropped
      /\ hist'[e].disturbed = hist[e].disturbed /\ hist'[e].unshown = (hist[e].unshown \/ ~(hist[e].seen \subseteq f))
  BY <1>1, <1>2 DEF Histories
<1> HIDE DEF f
<1>7. Numbered'
  BY <1>1, <1>4, <1>5, NumberedKept
<1>8. ASSUME NEW t \in Tabs
      PROVE  Orderly(t)' /\ Informed(t)' /\ Shown(t)' /\ Stored(t)'
  <2>1. Orderly(t)' /\ Informed(t)'
    BY <1>1, <1>4, <1>5, <1>6, OrderlyKept, InformedKept
  <2>2. CASE t = e
    <3>1. Shown(e)'
      <4>1. Shown(e) /\ tab[e].step = "idle" /\ tab[e].found = f
        BY <1>1 DEF EditInv, Idle, f
      <4>2. tab'[e].mode = "update" /\ hist'[e].news # "saved" /\ ~hist'[e].unshown /\ ~Outdated(e)' => page'.text \ tab'[e].text \subseteq {}
        BY <1>1, <1>5, <1>6, <4>1 DEF Shown, Outdated
      <4>3. QED
        BY <1>5, <4>1, <4>2 DEF Shown
    <3>2. Stored(e)'
      <4>1. Stored(e) /\ (Calm(e)' <=> Calm(e))
        BY <1>5, <1>6 DEF EditInv, Calm
      <4>2. tab[e].found = f /\ NoAutosave.stage # "found"
        BY DEF f, NoAutosave
      <4>3. ASSUME Calm(e), NEW s \in TabsOf(author[e]) \ {e}
            PROVE  tab'[s].mode = "closed" /\ drafting'[s] = NoAutosave
        BY <1>1, <1>4, <4>1, <4>3 DEF Stored, TabsOf
      <4>4. QED
        BY <1>1, <1>5, <4>1, <4>2, <4>3 DEF Stored, TabsOf
    <3>3. QED
      BY <2>1, <2>2, <3>1, <3>2
  <2>3. CASE t # e
    <3>1. \A s \in TabsOf(author[t]) : tab'[s].mode = tab[s].mode
      BY <1>4, <1>5 DEF TabsOf
    <3>2. Shown(t)' /\ Stored(t)'
      BY <1>1, <1>4, <2>3, <3>1, ShownKept, StoredKept
    <3>3. QED
      BY <2>1, <3>2
  <2>4. QED
    BY <2>2, <2>3
<1>9. QED
  BY <1>1, <1>3, <1>7, <1>8 DEF EditInv, DraftsHaveText

(* An author of an open tab, or of an autosave under way, has no calm tab    *)
(* besides.                                                                  *)
LEMMA NotAlone ==
  ASSUME EditInv, NEW e \in Tabs, NEW t \in Tabs, t # e, author[t] = author[e],
         tab[e].mode # "closed" \/ drafting[e] # NoAutosave,
         tab'[t].mode = tab[t].mode, hist[t].disturbed => hist'[t].disturbed
  PROVE  Stored(t)'
<1>1. e \in TabsOf(author[t]) \ {t} /\ Stored(t)
  BY DEF TabsOf, EditInv
<1>2. ~Calm(t)
  BY <1>1 DEF Stored
<1>3. QED
  BY <1>2 DEF Stored, Calm

LEMMA DisturbsEffect ==
  ASSUME Shape, NEW history \in [Tabs -> Histories], NEW e \in Tabs, Disturbs(e, history)
  PROVE  /\ hist' \in [Tabs -> Histories]
         /\ \A t \in Tabs : /\ hist'[t].seen = history[t].seen /\ hist'[t].dropped = history[t].dropped
                            /\ hist'[t].news = history[t].news /\ hist'[t].unshown = history[t].unshown
                            /\ history[t].disturbed => hist'[t].disturbed
                            /\ hist'[t].amiss = history[t].amiss
                         /\ hist'[t].amiss = history[t].amiss
                           /\ hist'[t].amiss = history[t].amiss
         /\ drafting[e] # NoAutosave => hist'[e].disturbed
<1> DEFINE overlap == \E s \in TabsOf(author[e]) : drafting[s] # NoAutosave
<1>1. hist' = [t \in Tabs |-> [history[t] EXCEPT !.disturbed = @ \/ (overlap /\ t \in TabsOf(author[e]))]]
  BY DEF Disturbs
<1>2. drafting[e] # NoAutosave => overlap /\ e \in TabsOf(author[e])
  BY DEF TabsOf
<1> HIDE DEF overlap
<1>3. QED
  BY <1>1, <1>2 DEF Histories

LEMMA DiscardFoundStep ==
  ASSUME EditInv, NEW e \in Tabs, DiscardFound(e)
  PROVE  EditInv'
<1> DEFINE history == [hist EXCEPT ![e].seen = NoText]
<1>1. /\ UNCHANGED <<page, older, author, draft, drafting, used>> /\ Idle(e) /\ tab[e].found # NoText
      /\ tab' = [tab EXCEPT ![e].found = NoText]
      /\ discarding' = [discarding EXCEPT ![author[e]] = @ + 1]
      /\ Disturbs(e, history)
  BY DEF DiscardFound, SendDiscard, serverVars
<1>2. /\ tab \in [Tabs -> TabStates] /\ hist \in [Tabs -> Histories] /\ NoText \in Texts
      /\ discarding \in [Authors -> Nat] /\ author[e] \in Authors
  BY Types DEF EditInv, Shape, NoText, Texts
<1>3. /\ history \in [Tabs -> Histories]
      /\ \A t \in Tabs : /\ history[t].dropped = hist[t].dropped /\ history[t].news = hist[t].news
                         /\ history[t].unshown = hist[t].unshown /\ history[t].disturbed = hist[t].disturbed
                         /\ history[t].amiss = hist[t].amiss
                         /\ t # e => history[t] = hist[t]
  BY <1>2 DEF Histories
<1>4. /\ hist' \in [Tabs -> Histories]
      /\ \A t \in Tabs : /\ hist'[t].dropped = hist[t].dropped /\ hist'[t].news = hist[t].news
                         /\ hist'[t].unshown = hist[t].unshown /\ (hist[t].disturbed => hist'[t].disturbed)
                         /\ hist'[t].amiss = hist[t].amiss
                         /\ t # e => hist'[t].seen = hist[t].seen
      /\ drafting[e] # NoAutosave => hist'[e].disturbed
  <2> HIDE DEF history
  <2>1. /\ hist' \in [Tabs -> Histories]
        /\ \A t \in Tabs : /\ hist'[t].seen = history[t].seen /\ hist'[t].dropped = history[t].dropped
                           /\ hist'[t].news = history[t].news /\ hist'[t].unshown = history[t].unshown
                           /\ history[t].disturbed => hist'[t].disturbed
                         /\ hist'[t].amiss = history[t].amiss
        /\ drafting[e] # NoAutosave => hist'[e].disturbed
    BY <1>1, <1>3, DisturbsEffect DEF EditInv
  <2>2. QED
    BY <1>3, <2>1
<1> HIDE DEF history
<1>5. tab' \in [Tabs -> TabStates]
  BY <1>1, <1>2 DEF TabStates
<1>6. ASSUME NEW t \in Tabs
      PROVE  /\ tab'[t].mode = tab[t].mode /\ tab'[t].step = tab[t].step /\ tab'[t].init = tab[t].init
             /\ tab'[t].lastDraft = tab[t].lastDraft /\ tab'[t].text = tab[t].text /\ tab'[t].latest = tab[t].latest
             /\ t # e => tab'[t] = tab[t]
             /\ tab'[e].found = NoText
  BY <1>1, <1>2 DEF TabStates
<1>7. Shape'
  <2>1. discarding' \in [Authors -> Nat]
    BY <1>1, <1>2
  <2>2. QED
    BY <1>1, <1>4, <1>5, <2>1 DEF EditInv, Shape
<1>8. Numbered'
  BY <1>1, <1>6, NumberedKept
<1>9. ASSUME NEW t \in Tabs
      PROVE  Orderly(t)' /\ Informed(t)' /\ Shown(t)' /\ Stored(t)'
  <2>1. Orderly(t)' /\ Informed(t)'
    BY <1>1, <1>4, <1>6, OrderlyKept, InformedKept
  <2>2. CASE t = e
    <3>1. Shown(e)'
      BY <1>1, <1>4, <1>6 DEF EditInv, Shown, Outdated
    <3>2. Stored(e)'
      <4>1. Stored(e) /\ (Calm(e)' => Calm(e) /\ drafting[e] = NoAutosave)
        BY <1>4, <1>6 DEF EditInv, Calm
      <4>2. ASSUME Calm(e), NEW s \in TabsOf(author[e]) \ {e}
            PROVE  tab'[s].mode = "closed" /\ drafting'[s] = NoAutosave
        BY <1>1, <1>6, <4>1, <4>2 DEF Stored, TabsOf
      <4>3. NoAutosave.stage # "found"
        BY DEF NoAutosave
      <4>4. QED
        BY <1>1, <1>6, <4>1, <4>2, <4>3 DEF Stored, TabsOf
    <3>3. QED
      BY <2>1, <2>2, <3>1, <3>2
  <2>3. CASE t # e
    <3>1. Shown(t)'
      BY <1>1, <1>4, <1>6, <2>3, ShownKept
    <3>2. Stored(t)'
      <4>1. CASE author[t] = author[e]
        BY <1>1, <1>4, <1>6, <2>3, <4>1, NotAlone DEF Idle
      <4>2. CASE author[t] # author[e]
        <5>1. discarding'[author[t]] = discarding[author[t]]
          BY <1>1, <1>2, <4>2 DEF EditInv, Shape
        <5>2. \A s \in TabsOf(author[t]) : tab'[s].mode = tab[s].mode
          BY <1>6 DEF TabsOf
        <5>3. tab'[t].found = tab[t].found
          BY <1>6, <2>3
        <5>4. (hist'[t].disturbed \/ ~hist[t].disturbed) /\ hist'[t].amiss = hist[t].amiss
          BY <1>4
        <5>5. QED
          BY <1>1, <1>6, <5>1, <5>2, <5>3, <5>4, StoredKept
      <4>3. QED
        BY <4>1, <4>2
    <3>3. QED
      BY <2>1, <3>1, <3>2
  <2>4. QED
    BY <2>2, <2>3
<1>10. QED
  BY <1>1, <1>7, <1>8, <1>9 DEF EditInv, DraftsHaveText

LEMMA DiscardArrivesStep ==
  ASSUME EditInv, NEW a \in Authors, DiscardArrives(a)
  PROVE  EditInv'
<1>1. /\ UNCHANGED <<page, author, tab, drafting, used, hist>> /\ discarding[a] > 0
      /\ discarding' = [discarding EXCEPT ![a] = @ - 1] /\ draft' = [draft EXCEPT ![a] = NoDraft]
      /\ older' = older \cup {<<"draft", a>>}
  BY DEF DiscardArrives
<1>2. draft \in [Authors -> Drafts] /\ discarding \in [Authors -> Nat] /\ older \subseteq Dates /\ <<"draft", a>> \in Dates
  BY DEF EditInv, Shape, Dates
<1>3. Shape'
  <2>1. draft' \in [Authors -> Drafts]
    BY <1>1, <1>2, ClosedTypes
  <2>2. discarding' \in [Authors -> Nat]
    BY <1>1, <1>2
  <2>3. QED
    BY <1>1, <1>2, <2>1, <2>2 DEF EditInv, Shape
<1>4. DraftsHaveText'
  <2>1. NoDraft.id = 0 /\ NoDraft.text = NoText
    BY DEF NoDraft
  <2>2. QED
    BY <1>1, <1>2, <2>1 DEF EditInv, DraftsHaveText
<1>5. Numbered'
  BY <1>1, NumberedKept
<1>6. ASSUME NEW t \in Tabs
      PROVE  Orderly(t)' /\ Informed(t)' /\ Shown(t)' /\ Stored(t)'
  <2>1. <<"checkout", t>> \in older' <=> <<"checkout", t>> \in older
    BY <1>1
  <2>2. Orderly(t)' /\ Informed(t)' /\ Shown(t)'
    BY <1>1, <2>1, OrderlyKept, InformedKept, ShownKept
  <2>3. CASE author[t] = a
    <3>1. Stored(t)
      BY DEF EditInv
    <3>2. NoAutosave.stage # "found" /\ tab' = tab /\ drafting' = drafting /\ author' = author /\ hist' = hist
      BY <1>1 DEF NoAutosave
    <3>3. QED
      BY <1>1, <2>2, <2>3, <3>1, <3>2 DEF Stored, Calm, TabsOf
  <2>4. CASE author[t] # a
    <3>1. draft'[author[t]] = draft[author[t]] /\ discarding'[author[t]] = discarding[author[t]]
      BY <1>1, <1>2, <2>4 DEF EditInv, Shape
    <3>2. hist'[t].disturbed \/ ~hist[t].disturbed
      BY <1>1
    <3>3. QED
      BY <1>1, <2>2, <3>1, <3>2, StoredKept
  <2>5. QED
    BY <2>3, <2>4
<1>7. QED
  BY <1>3, <1>4, <1>5, <1>6 DEF EditInv

LEMMA AutosaveStep ==
  ASSUME EditInv, NEW e \in Tabs, Autosave(e)
  PROVE  EditInv'
<1> DEFINE sent == [stage |-> "sent", text |-> tab[e].text, id |-> 0]
<1>1. /\ UNCHANGED <<page, older, author, tab, draft, discarding>> /\ tab[e].mode # "closed" /\ tab[e].found = NoText
      /\ tab[e].text # NoText /\ drafting[e] = NoAutosave
      /\ used' = [used EXCEPT !.autosaves = @ + 1] /\ drafting' = [drafting EXCEPT ![e] = sent]
      /\ hist' = [hist EXCEPT ![e].disturbed = @ \/ discarding[author[e]] > 0]
  BY DEF Autosave, serverVars
<1>2. /\ hist \in [Tabs -> Histories] /\ drafting \in [Tabs -> Autosaves] /\ used \in Counts /\ used.autosaves \in Nat
      /\ author[e] \in Authors /\ discarding[author[e]] \in Nat
  BY Types DEF EditInv, Shape
<1>3. sent \in Autosaves /\ sent.stage = "sent" /\ sent.text # NoText
  <2>1. 0 \in DraftIds
    BY ClosedTypes DEF NoDraft, Drafts
  <2>2. QED
    BY <1>1, <2>1, Types DEF Autosaves, EditInv
<1> HIDE DEF sent
<1>4. ASSUME NEW t \in Tabs
      PROVE  /\ hist'[t] \in Histories /\ hist'[t].dropped = hist[t].dropped /\ hist'[t].news = hist[t].news
             /\ hist'[t].unshown = hist[t].unshown /\ hist'[t].seen = hist[t].seen
             /\ hist[t].disturbed => hist'[t].disturbed
             /\ discarding[author[e]] > 0 => hist'[e].disturbed
             /\ t # e => hist'[t] = hist[t] /\ drafting'[t] = drafting[t]
             /\ drafting'[e] = sent
  BY <1>1, <1>2 DEF Histories
<1>5. Shape'
  <2>1. used' \in Counts
    BY <1>1, <1>2 DEF Counts
  <2>2. drafting' \in [Tabs -> Autosaves]
    BY <1>1, <1>2, <1>3
  <2>3. hist' \in [Tabs -> Histories]
    BY <1>1, <1>2, <1>4
  <2>4. QED
    BY <1>1, <2>1, <2>2, <2>3 DEF EditInv, Shape
<1>6. Numbered'
  <2>1. used'.saves = used.saves
    BY <1>1, <1>2 DEF Counts
  <2>2. QED
    BY <1>1, <2>1, NumberedKept
<1>7. DraftsHaveText'
  BY <1>1, <1>3, <1>4 DEF EditInv, DraftsHaveText
<1>8. ASSUME NEW t \in Tabs
      PROVE  Orderly(t)' /\ Informed(t)' /\ Shown(t)' /\ Stored(t)'
  <2>1. Orderly(t)' /\ Informed(t)' /\ Shown(t)'
    BY <1>1, <1>4, OrderlyKept, InformedKept, ShownKept
  <2>2. CASE t = e
    <3>1. Stored(e) /\ (Calm(e)' => Calm(e) /\ ~(discarding[author[e]] > 0))
      BY <1>1, <1>4 DEF EditInv, Calm
    <3>2. ASSUME NEW s \in TabsOf(author[e]) \ {e}
          PROVE  drafting'[s] = drafting[s]
      BY <1>4 DEF TabsOf
    <3>3. tab' = tab /\ draft' = draft /\ discarding' = discarding /\ author' = author /\ drafting'[e].stage # "found"
      BY <1>1, <1>3, <1>4
    <3>4. QED
      BY <1>1, <2>1, <2>2, <3>1, <3>2, <3>3 DEF Stored, TabsOf
  <2>3. CASE t # e /\ author[t] = author[e]
    BY <1>1, <1>4, <2>1, <2>3, NotAlone
  <2>4. CASE author[t] # author[e]
    <3>1. \A s \in TabsOf(author[t]) : drafting'[s] = drafting[s]
      BY <1>4, <2>4 DEF TabsOf
    <3>2. hist'[t].disturbed \/ ~hist[t].disturbed
      BY <1>4, <2>4
    <3>3. QED
      BY <1>1, <1>4, <2>1, <2>4, <3>1, <3>2, StoredKept
  <2>5. QED
    BY <2>2, <2>3, <2>4
<1>9. QED
  BY <1>5, <1>6, <1>7, <1>8 DEF EditInv

LEMMA FindStep ==
  ASSUME EditInv, NEW e \in Tabs, FindDraft(e)
  PROVE  EditInv'
<1>1. /\ UNCHANGED <<page, older, author, tab, draft, discarding, used, hist>> /\ drafting[e].stage = "sent"
      /\ drafting' = [drafting EXCEPT ![e].stage = "found", ![e].id = draft[author[e]].id]
  BY DEF FindDraft, serverVars
<1>2. drafting \in [Tabs -> Autosaves] /\ draft[author[e]].id \in DraftIds
  BY Types DEF EditInv, Shape
<1>3. /\ drafting' \in [Tabs -> Autosaves]
      /\ drafting'[e].id = draft[author[e]].id /\ drafting'[e].text = drafting[e].text
      /\ \A t \in Tabs \ {e} : drafting'[t] = drafting[t]
      /\ drafting[e] # NoAutosave
  <2> DEFINE found == [stage |-> "found", text |-> drafting[e].text, id |-> draft[author[e]].id]
  <2>1. found \in Autosaves /\ drafting[e] # NoAutosave
    BY <1>1, <1>2, Types DEF Autosaves, NoAutosave, EditInv
  <2>2. drafting' = [drafting EXCEPT ![e] = [[@ EXCEPT !.stage = "found"] EXCEPT !.id = draft[author[e]].id]]
    BY <1>1, <1>2, Zenon
  <2>3. [[drafting[e] EXCEPT !.stage = "found"] EXCEPT !.id = draft[author[e]].id] = found
    <3> DEFINE one == [drafting[e] EXCEPT !.stage = "found"]
    <3>1. drafting[e] \in Autosaves
      BY <1>2
    <3>2. one \in Autosaves /\ one.stage = "found" /\ one.text = drafting[e].text
      BY <3>1 DEF Autosaves
    <3> HIDE DEF one
    <3>3. [one EXCEPT !.id = draft[author[e]].id] = found
      BY <1>2, <3>2 DEF Autosaves
    <3>4. QED
      BY <3>3 DEF one
  <2>4. drafting' = [drafting EXCEPT ![e] = found]
    BY <2>2, <2>3, Zenon
  <2> HIDE DEF found
  <2>5. drafting'[e] = found /\ \A t \in Tabs \ {e} : drafting'[t] = drafting[t]
    BY <1>2, <2>4
  <2>6. QED
    BY <1>2, <2>1, <2>4, <2>5 DEF found
<1>4. Shape'
  BY <1>1, <1>3 DEF EditInv, Shape
<1>5. Numbered'
  BY <1>1, NumberedKept
<1>6. DraftsHaveText'
  BY <1>1, <1>3 DEF EditInv, DraftsHaveText
<1>7. ASSUME NEW t \in Tabs
      PROVE  Orderly(t)' /\ Informed(t)' /\ Shown(t)' /\ Stored(t)'
  <2>1. Orderly(t)' /\ Informed(t)' /\ Shown(t)'
    BY <1>1, OrderlyKept, InformedKept, ShownKept
  <2>2. CASE t = e
    <3>1. Stored(e)
      BY DEF EditInv
    <3>2. \A s \in TabsOf(author[e]) \ {e} : drafting'[s] = drafting[s]
      BY <1>3 DEF TabsOf
    <3>3. tab' = tab /\ draft' = draft /\ discarding' = discarding /\ author' = author /\ hist' = hist
      BY <1>1
    <3>4. QED
      BY <1>3, <2>1, <2>2, <3>1, <3>2, <3>3 DEF Stored, Calm, TabsOf
  <2>3. CASE t # e /\ author[t] = author[e]
    BY <1>1, <1>3, <2>1, <2>3, NotAlone
  <2>4. CASE author[t] # author[e]
    <3>1. \A s \in TabsOf(author[t]) : drafting'[s] = drafting[s]
      BY <1>3, <2>4 DEF TabsOf
    <3>2. (hist'[t].disturbed \/ ~hist[t].disturbed) /\ drafting'[t] = drafting[t]
      BY <1>1, <1>3, <2>4
    <3>3. QED
      BY <1>1, <2>1, <3>1, <3>2, StoredKept
  <2>5. QED
    BY <2>2, <2>3, <2>4
<1>8. QED
  BY <1>4, <1>5, <1>6, <1>7 DEF EditInv

(* There is an id that neither a draft nor an autosave uses. *)
LEMMA NewIdExists ==
  ASSUME EditInv, NEW e \in Tabs, drafting[e].id = 0, draft[author[e]].id = 0
  PROVE  NewId \in DraftIds \ {0}
<1> DEFINE A == {draft[a].id : a \in Authors}
           T == {drafting[t].id : t \in Tabs}
           n == Cardinality(Tabs) + Cardinality(Authors)
           ids == 1..n
<1>1. Cardinality(Tabs) \in Nat /\ Cardinality(Authors) \in Nat /\ IsFiniteSet(Tabs) /\ IsFiniteSet(Authors)
  BY EditAssumption, FS_CardinalityType
<1>2. IsFiniteSet(A) /\ Cardinality(A) <= Cardinality(Authors)
  <2>1. [a \in Authors |-> draft[a].id] \in Surjection(Authors, A)
    BY DEF Surjection
  <2>2. QED
    BY <1>1, <2>1, FS_Surjection
<1>3. IsFiniteSet(T) /\ Cardinality(T) <= Cardinality(Tabs)
  <2>1. [t \in Tabs |-> drafting[t].id] \in Surjection(Tabs, T)
    BY DEF Surjection
  <2>2. QED
    BY <1>1, <2>1, FS_Surjection
<1>4. IsFiniteSet(A \cup T) /\ Cardinality(A \cup T) <= n
  <2>1. /\ Cardinality(A) \in Nat /\ Cardinality(T) \in Nat /\ Cardinality(A \cap T) \in Nat
        /\ IsFiniteSet(A \cup T) /\ Cardinality(A \cup T) = Cardinality(A) + Cardinality(T) - Cardinality(A \cap T)
    BY <1>2, <1>3, FS_Union, FS_Intersection, FS_CardinalityType
  <2>2. QED
    BY <1>1, <1>2, <1>3, <2>1
<1>5. 0 \in A \cup T
  OBVIOUS
<1>6. \E i \in ids : i \notin A \cup T
  <2>1. SUFFICES ASSUME ids \subseteq (A \cup T) \ {0}
                 PROVE  FALSE
    BY <1>1
  <2>2. IsFiniteSet((A \cup T) \ {0}) /\ Cardinality((A \cup T) \ {0}) = Cardinality(A \cup T) - 1
    BY <1>4, <1>5, FS_RemoveElement
  <2>3. IsFiniteSet(ids) /\ Cardinality(ids) = n
    <3>1. n \in Nat /\ n \in Int /\ 1 \in Int
      BY <1>1
    <3>2. IsFiniteSet(1..n) /\ Cardinality(1..n) = IF 1 > n THEN 0 ELSE n - 1 + 1
      <4> HIDE DEF n
      <4>1. QED
        BY ONLY <3>1, FS_Interval
    <3>3. QED
      BY <3>1, <3>2
  <2>4. Cardinality(ids) <= Cardinality((A \cup T) \ {0})
    BY <2>1, <2>2, FS_Subset
  <2>5. Cardinality(A \cup T) \in Nat /\ n \in Nat
    BY <1>1, <1>4, FS_CardinalityType
  <2>6. QED
    BY <1>4, <2>2, <2>3, <2>4, <2>5
<1>7. ids = DraftIds \ {0}
  BY <1>1 DEF DraftIds
<1> HIDE DEF A, T, ids
<1>8. \E i \in DraftIds \ {0} : i \notin A \cup T
  BY <1>6, <1>7
<1>9. QED
  BY <1>8 DEF NewId, A, T

(* However an autosave ends: what the tab takes for stored was stored, or    *)
(* the history says that something was amiss.                                *)
LEMMA AutosaveEnds ==
  ASSUME EditInv, NEW e \in Tabs, NEW b \in BOOLEAN,
         drafting[e].stage = "found", UNCHANGED <<page, author, discarding, used>>,
         drafting' = [drafting EXCEPT ![e] = NoAutosave],
         hist' = [hist EXCEPT ![e].amiss = b],
         \/ tab' = tab
         \/ tab[e].mode # "closed" /\ tab' = [tab EXCEPT ![e].lastDraft = drafting[e].text],
         PatchOrInsert(e) \/ UNCHANGED <<draft, older>>,
         \/ b \/ tab[e].mode = "closed"
         \/ tab' = tab /\ draft' = draft /\ b = hist[e].amiss
         \/ PatchOrInsert(e) /\ tab'[e].lastDraft = drafting[e].text
  PROVE  EditInv'
<1> DEFINE a == author[e]
           id == drafting[e].id
           new == [id |-> IF id = 0 THEN NewId ELSE id, text |-> drafting[e].text]
<1>1. PatchOrInsert(e) => IF id = draft[a].id THEN draft' = [draft EXCEPT ![a] = new] /\ older' = older \ {<<"draft", a>>}
                                              ELSE UNCHANGED <<draft, older>>
  BY DEF PatchOrInsert
<1>2. /\ drafting \in [Tabs -> Autosaves] /\ draft \in [Authors -> Drafts] /\ tab \in [Tabs -> TabStates]
      /\ hist \in [Tabs -> Histories]
      /\ a \in Authors /\ id \in DraftIds /\ drafting[e].text \in Texts /\ drafting[e].text # NoText
      /\ drafting[e] # NoAutosave /\ draft[a] \in Drafts
  BY Types DEF EditInv, Shape, NoAutosave, DraftsHaveText
<1>3. id = draft[a].id => new \in Drafts /\ new.id # 0 /\ new.text = drafting[e].text
  BY <1>2, NewIdExists DEF Drafts
<1> HIDE DEF new
<1>4. ASSUME NEW t \in Tabs
      PROVE  /\ hist'[t] \in Histories /\ hist'[t].dropped = hist[t].dropped /\ hist'[t].news = hist[t].news
             /\ hist'[t].unshown = hist[t].unshown /\ hist'[t].seen = hist[t].seen
             /\ hist'[t].disturbed = hist[t].disturbed /\ hist'[e].amiss = b
             /\ t # e => hist'[t] = hist[t]
  BY <1>2 DEF Histories
<1>5. /\ drafting' \in [Tabs -> Autosaves] /\ drafting'[e] = NoAutosave
      /\ \A t \in Tabs \ {e} : drafting'[t] = drafting[t]
  BY <1>2, ClosedTypes
<1>6. /\ tab' \in [Tabs -> TabStates]
      /\ \A t \in Tabs : /\ tab'[t].mode = tab[t].mode /\ tab'[t].step = tab[t].step /\ tab'[t].init = tab[t].init
                         /\ tab'[t].found = tab[t].found /\ tab'[t].text = tab[t].text /\ tab'[t].latest = tab[t].latest
                         /\ t # e => tab'[t] = tab[t]
  <2>1. CASE tab' = tab
    BY <1>2, <2>1
  <2>2. CASE tab' = [tab EXCEPT ![e].lastDraft = drafting[e].text]
    BY <1>2, <2>2 DEF TabStates
  <2>3. QED
    BY <2>1, <2>2
<1>7. /\ draft' \in [Authors -> Drafts] /\ \A c \in Authors \ {a} : draft'[c] = draft[c]
      /\ PatchOrInsert(e) /\ id = draft[a].id => draft'[a] = new
      /\ draft'[a] = draft[a] \/ (draft'[a] = new /\ id = draft[a].id)
      /\ older' \subseteq Dates /\ (\A t \in Tabs : <<"checkout", t>> \in older' <=> <<"checkout", t>> \in older)
  <2>1. older \subseteq Dates
    BY DEF EditInv, Shape
  <2>2. CASE PatchOrInsert(e) /\ id = draft[a].id
    BY <1>1, <1>2, <1>3, <2>1, <2>2
  <2>3. CASE ~(PatchOrInsert(e) /\ id = draft[a].id)
    <3>1. draft' = draft /\ older' = older
      BY <1>1, <2>3
    <3>2. QED
      BY <1>2, <2>1, <2>3, <3>1
  <2>4. QED
    BY <2>2, <2>3
<1>8. Shape'
  <2>1. hist' \in [Tabs -> Histories]
    BY <1>2, <1>4
  <2>2. QED
    BY <2>1, <1>5, <1>6, <1>7 DEF EditInv, Shape
<1>9. Numbered'
  BY <1>6, NumberedKept
<1>10. DraftsHaveText'
  <2>1. NoAutosave.stage = "none"
    BY DEF NoAutosave
  <2>2. QED
    BY <1>2, <1>3, <1>5, <1>7, <2>1 DEF EditInv, DraftsHaveText
<1>11. ASSUME NEW t \in Tabs
       PROVE  Orderly(t)' /\ Informed(t)' /\ Shown(t)' /\ Stored(t)'
  <2>1. Orderly(t)' /\ Informed(t)' /\ Shown(t)'
    BY <1>4, <1>6, <1>7, OrderlyKept, InformedKept, ShownKept
  <2>2. CASE t = e
    <3>1. Stored(e) /\ (Calm(e)' <=> Calm(e)) /\ (Calm(e) => tab[e].mode # "closed")
      BY <1>4, <1>6 DEF EditInv, Calm
    <3>2. ASSUME Calm(e), NEW s \in TabsOf(a) \ {e}
          PROVE  tab'[s].mode = "closed" /\ drafting'[s] = NoAutosave
      BY <1>5, <1>6, <3>1, <3>2 DEF Stored, TabsOf
    <3>3. NoAutosave.stage = "none" /\ author' = author /\ discarding' = discarding
      BY DEF NoAutosave
    <3>4. ASSUME Calm(e)
          PROVE  /\ tab'[e].found = NoText /\ ~(discarding[a] > 0)
                 /\ tab'[e].lastDraft # tab'[e].init /\ ~hist'[e].amiss => draft'[a].text = tab'[e].lastDraft
      <4>1. tab'[e].found = NoText /\ ~(discarding[a] > 0) /\ id = draft[a].id
        BY <1>2, <1>6, <3>1, <3>4 DEF Stored
      <4>2. CASE b
        BY <1>4, <4>1, <4>2
      <4>3. CASE tab' = tab /\ draft' = draft /\ b = hist[e].amiss
        BY <1>4, <3>1, <3>4, <4>1, <4>3 DEF Stored
      <4>4. CASE PatchOrInsert(e) /\ tab'[e].lastDraft = drafting[e].text
        BY <1>3, <1>7, <4>1, <4>4
      <4>5. QED
        BY <3>1, <3>4, <4>2, <4>3, <4>4
    <3>5. QED
      BY <1>5, <2>1, <2>2, <3>1, <3>2, <3>3, <3>4 DEF Stored, TabsOf
  <2>3. CASE t # e /\ author[t] = author[e]
    BY <1>2, <1>4, <1>6, <2>1, <2>3, NotAlone
  <2>4. CASE author[t] # author[e]
    <3>1. \A s \in TabsOf(author[t]) : drafting'[s] = drafting[s] /\ tab'[s] = tab[s]
      BY <1>5, <1>6, <2>4 DEF TabsOf
    <3>2. hist'[t] = hist[t] /\ drafting'[t] = drafting[t] /\ tab'[t] = tab[t]
      BY <1>4, <1>5, <1>6, <2>4
    <3>3. draft'[author[t]] = draft[author[t]]
      BY <1>7, <2>4 DEF EditInv, Shape
    <3>4. QED
      BY <2>1, <3>1, <3>2, <3>3, StoredKept
  <2>5. QED
    BY <2>2, <2>3, <2>4
<1>12. QED
  BY <1>8, <1>9, <1>10, <1>11 DEF EditInv

LEMMA WriteStep ==
  ASSUME EditInv, NEW e \in Tabs, WriteDraft(e)
  PROVE  EditInv'
<1> DEFINE twice == drafting[e].id = 0 /\ draft[author[e]] # NoDraft
           b == twice /\ tab[e].mode # "closed"
<1>1. /\ UNCHANGED <<page, author, discarding, used>> /\ drafting[e].stage = "found" /\ PatchOrInsert(e)
      /\ drafting' = [drafting EXCEPT ![e] = NoAutosave] /\ hist' = [hist EXCEPT ![e].amiss = b]
      /\ tab' = IF tab[e].mode = "closed" THEN tab ELSE [tab EXCEPT ![e].lastDraft = drafting[e].text]
  BY DEF WriteDraft, Answered, Ends
<1>2. tab[e].mode # "closed" => tab'[e].lastDraft = drafting[e].text
  BY <1>1 DEF EditInv, Shape, TabStates
<1>3. b \in BOOLEAN
  OBVIOUS
<1> HIDE DEF b
<1>4. QED
  BY <1>1, <1>2, <1>3, AutosaveEnds

LEMMA RefuseStep ==
  ASSUME EditInv, NEW e \in Tabs, RefuseDraft(e)
  PROVE  EditInv'
<1> DEFINE b == tab[e].mode # "closed"
<1>1. /\ UNCHANGED <<page, older, author, draft, discarding, used>> /\ drafting[e].stage = "found"
      /\ drafting' = [drafting EXCEPT ![e] = NoAutosave] /\ hist' = [hist EXCEPT ![e].amiss = b]
      /\ tab' = IF tab[e].mode = "closed" THEN tab ELSE [tab EXCEPT ![e].lastDraft = drafting[e].text]
  BY DEF RefuseDraft, Answered, Ends, serverVars
<1>2. b \in BOOLEAN /\ (b \/ tab[e].mode = "closed")
  OBVIOUS
<1> HIDE DEF b
<1>3. QED
  BY <1>1, <1>2, AutosaveEnds

LEMMA UnansweredStep ==
  ASSUME EditInv, NEW e \in Tabs, DraftUnanswered(e)
  PROVE  EditInv'
<1>1. /\ UNCHANGED <<page, author, tab, discarding, used>> /\ drafting[e].stage = "found"
      /\ drafting' = [drafting EXCEPT ![e] = NoAutosave]
      /\ UNCHANGED <<draft, older, hist>> \/ (PatchOrInsert(e) /\ Ends(e, TRUE))
  BY DEF DraftUnanswered
<1>2. CASE UNCHANGED <<draft, older, hist>>
  <2> DEFINE b == hist[e].amiss
  <2>1. b \in BOOLEAN /\ hist' = [hist EXCEPT ![e].amiss = b]
    BY <1>2 DEF EditInv, Shape, Histories
  <2>2. b = hist[e].amiss
    OBVIOUS
  <2> HIDE DEF b
  <2>3. QED
    BY <1>1, <1>2, <2>1, <2>2, AutosaveEnds
<1>3. CASE PatchOrInsert(e) /\ Ends(e, TRUE)
  <2> DEFINE b == tab[e].mode # "closed"
  <2>1. b \in BOOLEAN /\ hist' = [hist EXCEPT ![e].amiss = b] /\ (b \/ tab[e].mode = "closed")
    BY <1>3 DEF Ends
  <2> HIDE DEF b
  <2>2. QED
    BY <1>1, <1>3, <2>1, AutosaveEnds
<1>4. QED
  BY <1>1, <1>2, <1>3

-----------------------------------------------------------------------------
(* The row is written *)

LEMMA WritesStep ==
  ASSUME EditInv, NEW e \in Tabs, tab[e].step \in {"creating", "checked"}, Writes(e), UNCHANGED <<author, draftVars, used>>
  PROVE  EditInv'
<1>1. /\ UNCHANGED <<author, draft, drafting, discarding, used>>
      /\ page' = [n |-> page.n + 1, text |-> tab[e].text] /\ older' = Dates
      /\ hist' = [t \in Tabs |-> [hist[t] EXCEPT !.news = IF t # e /\ tab[t].mode = "update" THEN "saved" ELSE "none"]]
  BY DEF Writes, draftVars
<1>2. PICK s \in {"rendering", "returning"} : Step(e, s)
  BY DEF Writes
<1>3. /\ tab' \in [Tabs -> TabStates]
      /\ \A t \in Tabs : /\ tab'[t].mode = tab[t].mode /\ tab'[t].init = tab[t].init /\ tab'[t].text = tab[t].text
                         /\ tab'[t].lastDraft = tab[t].lastDraft /\ tab'[t].found = tab[t].found /\ tab'[t].latest = tab[t].latest
      /\ tab'[e].step = s /\ \A t \in Tabs \ {e} : tab'[t] = tab[t]
  BY <1>2, StepEffect DEF EditInv
<1>4. ASSUME NEW t \in Tabs
      PROVE  /\ hist'[t] \in Histories /\ hist'[t].disturbed = hist[t].disturbed /\ hist'[t].amiss = hist[t].amiss
             /\ t # e /\ tab[t].mode = "update" => hist'[t].news = "saved"
  BY <1>1 DEF EditInv, Shape, Histories
<1>5. page.n \in Nat /\ used.saves \in 0..MaxSaves /\ MaxSaves \in Nat /\ page.n + Cardinality(Saving) <= used.saves + 1
  BY Types DEF EditInv, Numbered
<1>6. /\ Cardinality(Saving') = Cardinality(Saving) - 1 /\ Cardinality(Saving') \in Nat /\ Cardinality(Saving) \in Nat
  <2>1. Saving' = Saving \ {e} /\ e \in Saving /\ IsFiniteSet(Saving)
    BY <1>2, <1>3, FS_Subset, EditAssumption DEF Saving
  <2>2. QED
    BY <2>1, FS_RemoveElement, FS_CardinalityType
<1>7. page'.n = page.n + 1 /\ page'.text = tab[e].text /\ page' \in Pages
  <2>1. page.n + 1 \in 0..(MaxSaves + 1)
    BY <1>5, <1>6
  <2>2. QED
    BY <1>1, <2>1, Types DEF Pages, EditInv
<1>8. Shape'
  <2>1. hist' \in [Tabs -> Histories]
    BY <1>1, <1>4
  <2>2. QED
    BY <1>1, <1>3, <1>7, <2>1 DEF EditInv, Shape
<1>9. Numbered'
  BY <1>1, <1>5, <1>6, <1>7 DEF Numbered
<1>10. ASSUME NEW t \in Tabs
       PROVE  Orderly(t)' /\ Informed(t)' /\ Shown(t)' /\ Stored(t)'
  <2>1. <<"checkout", t>> \in older'
    BY <1>1 DEF Dates
  <2>2. Stored(t)'
    BY <1>1, <1>3, <1>4, StoredSteps DEF draftVars
  <2>3. CASE t = e
    <3>1. Orderly(e)
      BY DEF EditInv
    <3>2. Orderly(e)' /\ Informed(e)'
      BY <1>2, <1>3, <1>5, <1>7, <3>1 DEF Orderly, Informed, NoPage
    <3>3. Shown(e)'
      BY <1>2, <1>3, <1>7, <2>1, <2>3 DEF Shown, Outdated
    <3>4. QED
      BY <2>2, <2>3, <3>2, <3>3
  <2>4. CASE t # e
    <3>1. Orderly(t)'
      BY <1>3, <1>7, <2>1, <2>4, OrderlyKept
    <3>2. Informed(t)' /\ Shown(t)'
      BY <1>3, <1>4, <2>4 DEF Informed, Shown
    <3>3. QED
      BY <2>2, <3>1, <3>2
  <2>5. QED
    BY <2>3, <2>4
<1>11. QED
  BY <1>1, <1>8, <1>9, <1>10 DEF EditInv, DraftsHaveText

LEMMA UpdateStep ==
  ASSUME EditInv, NEW e \in Tabs, UpdatePage(e)
  PROVE  EditInv'
  BY WritesStep DEF UpdatePage

(* What patches write changes the dates, and tells those who do not wait. *)
LEMMA PatchesKeep ==
  ASSUME EditInv, NEW but \in SUBSET Tabs, Patches(but), UNCHANGED <<page, author, draftVars, used>>,
         \A t \in Tabs : /\ tab'[t].mode = tab[t].mode /\ tab'[t].init = tab[t].init /\ tab'[t].text = tab[t].text
                         /\ tab'[t].lastDraft = tab[t].lastDraft /\ tab'[t].found = tab[t].found /\ tab'[t].latest = tab[t].latest,
         \A t \in Tabs \ but : tab'[t].step = tab[t].step,
         \A t \in but : tab[t].step = "rendering" /\ tab'[t].step = "returning",
         tab' \in [Tabs -> TabStates]
  PROVE  EditInv'
<1>1. /\ older' = Dates /\ page' = page /\ UNCHANGED <<author, draft, drafting, discarding, used>>
      /\ hist' = [t \in Tabs |-> IF tab[t].mode = "update" /\ t \notin but THEN Touched(t) ELSE hist[t]]
  BY DEF Patches, draftVars
<1>2. ASSUME NEW t \in Tabs
      PROVE  /\ hist'[t] \in Histories /\ hist'[t].disturbed = hist[t].disturbed /\ hist'[t].amiss = hist[t].amiss
             /\ hist'[t].unshown = hist[t].unshown /\ hist'[t].dropped = hist[t].dropped /\ hist'[t].seen = hist[t].seen
             /\ hist'[t].news = hist[t].news \/ hist[t].news # "saved"
             /\ tab[t].mode = "update" /\ t \notin but => hist'[t].news # "none"
  BY <1>1 DEF EditInv, Shape, Histories, Touched
<1>3. Shape'
  <2>1. hist' \in [Tabs -> Histories]
    BY <1>1, <1>2
  <2>2. QED
    BY <1>1, <2>1 DEF EditInv, Shape
<1>4. Numbered'
  <2>1. \A t \in Tabs : tab'[t].step \in {"creating", "checking", "checked"} => tab[t].step \in {"creating", "checking", "checked"}
    OBVIOUS
  <2>2. QED
    BY <1>1, <2>1, NumberedKept
<1>5. ASSUME NEW t \in Tabs
      PROVE  Orderly(t)' /\ Informed(t)' /\ Shown(t)' /\ Stored(t)'
  <2>1. <<"checkout", t>> \in older' /\ Orderly(t) /\ Shown(t)
    BY <1>1 DEF Dates, EditInv
  <2>2. Orderly(t)'
    BY <1>1, <2>1 DEF Orderly
  <2>3. Informed(t)'
    BY <1>2 DEF Informed
  <2>4. Shown(t)'
    BY <1>1, <1>2, <2>1 DEF Shown, Outdated
  <2>5. Stored(t)'
    BY <1>1, <1>2, StoredSteps DEF draftVars
  <2>6. QED
    BY <2>2, <2>3, <2>4, <2>5
<1>6. QED
  BY <1>1, <1>3, <1>4, <1>5 DEF EditInv, DraftsHaveText

LEMMA RenderStep ==
  ASSUME EditInv, OtherPatch \/ \E e \in Tabs : RenderAwaited(e)
  PROVE  EditInv'
<1>1. CASE OtherPatch
  BY <1>1, PatchesKeep DEF OtherPatch, EditInv, Shape
<1>2. ASSUME NEW e \in Tabs, RenderAwaited(e)
      PROVE  EditInv'
  <2>1. Patches({e}) /\ Step(e, "returning") /\ tab[e].step = "rendering" /\ UNCHANGED <<page, author, draftVars, used>>
    BY <1>2 DEF RenderAwaited
  <2>2. /\ tab' \in [Tabs -> TabStates]
        /\ \A t \in Tabs : /\ tab'[t].mode = tab[t].mode /\ tab'[t].init = tab[t].init /\ tab'[t].text = tab[t].text
                           /\ tab'[t].lastDraft = tab[t].lastDraft /\ tab'[t].found = tab[t].found /\ tab'[t].latest = tab[t].latest
        /\ tab'[e].step = "returning" /\ \A t \in Tabs \ {e} : tab'[t] = tab[t]
    BY <2>1, StepEffect DEF EditInv
  <2>3. QED
    BY <2>1, <2>2, PatchesKeep
<1>3. QED
  BY <1>1, <1>2

LEMMA CreateStep ==
  ASSUME EditInv, NEW e \in Tabs, CreatePage(e)
  PROVE  EditInv'
<1>1. CASE page.n = 0
  BY <1>1, WritesStep DEF CreatePage
<1>2. CASE page.n # 0
  <2>1. /\ UNCHANGED <<page, older, author, draft, drafting, discarding, hist, used>>
        /\ tab[e].step = "creating" /\ Step(e, "idle")
    BY <1>2 DEF CreatePage, serverVars, draftVars
  <2>2. /\ tab' \in [Tabs -> TabStates]
        /\ \A t \in Tabs : /\ tab'[t].mode = tab[t].mode /\ tab'[t].init = tab[t].init /\ tab'[t].text = tab[t].text
                           /\ tab'[t].lastDraft = tab[t].lastDraft /\ tab'[t].found = tab[t].found /\ tab'[t].latest = tab[t].latest
        /\ tab'[e].step = "idle" /\ \A t \in Tabs \ {e} : tab'[t] = tab[t]
    BY <2>1, StepEffect DEF EditInv
  <2>3. Shape' /\ Numbered'
    BY <2>1, <2>2, NumberedKept DEF EditInv, Shape
  <2>4. ASSUME NEW t \in Tabs
        PROVE  Orderly(t)' /\ Informed(t)' /\ Shown(t)' /\ Stored(t)'
    <3>1. Orderly(t) /\ Informed(t) /\ Shown(t)
      BY DEF EditInv
    <3>2. Stored(t)'
      BY <2>1, <2>2, StoredSteps DEF draftVars
    <3>3. QED
      BY <2>1, <2>2, <3>1, <3>2 DEF Orderly, Informed, Shown, Outdated
  <2>5. QED
    BY <2>1, <2>3, <2>4 DEF EditInv, DraftsHaveText
<1>3. QED
  BY <1>1, <1>2

-----------------------------------------------------------------------------
(* The save ends *)

LEMMA SaveFailsStep ==
  ASSUME EditInv, NEW e \in Tabs, SaveFails(e)
  PROVE  EditInv'
<1>1. /\ UNCHANGED <<page, older, author, draft, drafting, discarding, used>> /\ tab[e].step = "returning" /\ Step(e, "idle")
      /\ hist' = [hist EXCEPT ![e] = Touched(e)]
  BY DEF SaveFails, serverVars, draftVars
<1>2. /\ tab' \in [Tabs -> TabStates]
      /\ \A t \in Tabs : /\ tab'[t].mode = tab[t].mode /\ tab'[t].init = tab[t].init /\ tab'[t].text = tab[t].text
                         /\ tab'[t].lastDraft = tab[t].lastDraft /\ tab'[t].found = tab[t].found /\ tab'[t].latest = tab[t].latest
      /\ tab'[e].step = "idle" /\ \A t \in Tabs \ {e} : tab'[t] = tab[t]
  BY <1>1, StepEffect DEF EditInv
<1>3. ASSUME NEW t \in Tabs
      PROVE  /\ hist'[t] \in Histories /\ hist'[t].disturbed = hist[t].disturbed /\ hist'[t].amiss = hist[t].amiss
             /\ hist'[t].unshown = hist[t].unshown /\ hist'[t].dropped = hist[t].dropped /\ hist'[t].seen = hist[t].seen
             /\ hist'[t].news = hist[t].news \/ hist[t].news # "saved"
             /\ hist'[e].news # "none"
             /\ t # e => hist'[t] = hist[t]
  BY <1>1 DEF EditInv, Shape, Histories, Touched
<1>4. Shape'
  <2>1. hist' \in [Tabs -> Histories]
    BY <1>1, <1>3 DEF EditInv, Shape
  <2>2. QED
    BY <1>1, <1>2, <2>1 DEF EditInv, Shape
<1>5. Numbered'
  BY <1>1, <1>2, NumberedKept
<1>6. ASSUME NEW t \in Tabs
      PROVE  Orderly(t)' /\ Informed(t)' /\ Shown(t)' /\ Stored(t)'
  <2>1. Orderly(t) /\ Informed(t) /\ Shown(t)
    BY DEF EditInv
  <2>2. Stored(t)'
    BY <1>1, <1>2, <1>3, StoredSteps DEF draftVars
  <2>3. CASE t = e
    BY <1>1, <1>2, <1>3, <2>1, <2>2, <2>3 DEF Orderly, Informed, Shown, Outdated
  <2>4. CASE t # e
    BY <1>1, <1>2, <1>3, <2>2, <2>4, OrderlyKept, InformedKept, ShownKept
  <2>5. QED
    BY <2>3, <2>4
<1>7. QED
  BY <1>1, <1>4, <1>5, <1>6 DEF EditInv, DraftsHaveText

LEMMA ReturnsStep ==
  ASSUME EditInv, NEW e \in Tabs, SaveReturns(e)
  PROVE  EditInv'
<1> DEFINE gone == tab[e].mode = "create"
           back == [tab[e] EXCEPT !.step = "idle", !.init = tab[e].text, !.lastDraft = tab[e].text, !.found = NoText]
           new == IF gone THEN Closed ELSE back
           own == IF gone THEN NoHistory
                  ELSE [GoesOn(e, tab[e].text, tab[e].text) EXCEPT !.seen = NoText, !.unshown = hist[e].news = "saved"]
           history == [hist EXCEPT ![e] = own]
<1>1. tab \in [Tabs -> TabStates] /\ hist \in [Tabs -> Histories] /\ discarding \in [Authors -> Nat] /\ author[e] \in Authors
      /\ older \subseteq Dates /\ tab[e] \in TabStates /\ NoText \in Texts /\ tab[e].text \in Texts /\ <<"checkout", e>> \in Dates
  BY Types DEF EditInv, Shape, NoText, Texts, Dates
<1>2. /\ UNCHANGED <<page, author, draft, drafting, used>> /\ tab[e].step = "returning" /\ tab[e].mode # "closed"
      /\ discarding' = [discarding EXCEPT ![author[e]] = @ + 1]
      /\ tab' = [tab EXCEPT ![e] = new]
      /\ older' = IF gone THEN older \cup {<<"checkout", e>>} ELSE older \ {<<"checkout", e>>}
      /\ Disturbs(e, history)
  <2>1. /\ UNCHANGED <<page, author, draft, drafting, used>> /\ tab[e].step = "returning"
        /\ discarding' = [discarding EXCEPT ![author[e]] = @ + 1]
    BY DEF SaveReturns, SendDiscard
  <2>2. tab[e].mode # "closed"
    BY <2>1 DEF EditInv, Orderly
  <2>3. CASE gone
    BY <2>1, <2>2, <2>3 DEF SaveReturns, Leaves
  <2>4. CASE ~gone
    <3>1. tab' = [tab EXCEPT ![e].step = "idle", ![e].init = tab[e].text, ![e].lastDraft = tab[e].text, ![e].found = NoText]
      BY <2>4 DEF SaveReturns
    <3>2. tab' = [tab EXCEPT ![e] = back]
      BY <1>1, <3>1 DEF TabStates
    <3>3. QED
      BY <2>1, <2>2, <2>4, <3>2 DEF SaveReturns
  <2>5. QED
    BY <2>3, <2>4
<1>3. /\ new \in TabStates /\ new.mode = IF gone THEN "closed" ELSE tab[e].mode
      /\ new.step = "idle" /\ new.latest = (IF gone THEN NoPage ELSE tab[e].latest)
      /\ ~gone => new.init = tab[e].text /\ new.text = tab[e].text /\ new.lastDraft = tab[e].text /\ new.found = NoText
  <2>1. CASE gone
    BY <2>1, ClosedTypes
  <2>2. CASE ~gone
    BY <1>1, <2>2 DEF TabStates
  <2>3. QED
    BY <2>1, <2>2
<1>4. own \in Histories /\ (~gone => own.disturbed = hist[e].disturbed /\ own.amiss = hist[e].amiss /\ own.news = "none" /\ own.unshown = (hist[e].news = "saved"))
  <2>1. tab[e].text \ tab[e].text \in Texts
    BY DEF Texts
  <2>2. CASE gone
    BY <2>2, ClosedTypes
  <2>3. CASE ~gone
    BY <1>1, <2>1, <2>3 DEF Histories, GoesOn, NoHistory
  <2>4. QED
    BY <2>2, <2>3
<1>5. history \in [Tabs -> Histories] /\ history[e] = own /\ \A t \in Tabs \ {e} : history[t] = hist[t]
  <2> HIDE DEF own
  <2>1. QED
    BY <1>1, <1>4
<1> HIDE DEF new, own, history
<1>6. /\ hist' \in [Tabs -> Histories]
      /\ \A t \in Tabs : /\ hist'[t].seen = history[t].seen /\ hist'[t].dropped = history[t].dropped
                         /\ hist'[t].news = history[t].news /\ hist'[t].unshown = history[t].unshown
                         /\ history[t].disturbed => hist'[t].disturbed
                         /\ hist'[t].amiss = history[t].amiss
      /\ drafting[e] # NoAutosave => hist'[e].disturbed
  BY <1>2, <1>5, DisturbsEffect DEF EditInv
<1>7. tab'[e] = new /\ tab' \in [Tabs -> TabStates] /\ \A t \in Tabs \ {e} : tab'[t] = tab[t]
  BY <1>1, <1>2, <1>3
<1>8. Shape'
  <2>1. discarding' \in [Authors -> Nat]
    BY <1>1, <1>2
  <2>2. older' \subseteq Dates
    BY <1>1, <1>2
  <2>3. QED
    BY <1>2, <1>6, <1>7, <2>1, <2>2 DEF EditInv, Shape
<1>9. Numbered'
  BY <1>2, <1>3, <1>7, NumberedKept
<1>10. ASSUME NEW t \in Tabs
       PROVE  Orderly(t)' /\ Informed(t)' /\ Shown(t)' /\ Stored(t)'
  <2>1. CASE t = e
    <3>1. Orderly(e) /\ Shown(e) /\ Stored(e) /\ page.n \in Nat
      BY Types DEF EditInv
    <3>2. Orderly(e)'
      BY <1>1, <1>2, <1>3, <1>7, <3>1 DEF Orderly, NoPage
    <3>3. CASE gone
      BY <1>3, <1>7, <2>1, <3>2, <3>3 DEF Informed, Shown, Stored, Calm
    <3>4. CASE ~gone
      <4>1. tab[e].mode = "update" /\ tab'[e].mode = "update" /\ <<"checkout", e>> \notin older'
        BY <1>2, <1>3, <1>7, <3>4, Types DEF EditInv
      <4>2. ~hist'[e].unshown => page'.text = tab'[e].text
        BY <1>2, <1>3, <1>4, <1>5, <1>6, <1>7, <3>1, <3>4, <4>1 DEF Shown
      <4>3. Informed(e)' /\ Shown(e)'
        BY <1>3, <1>7, <3>4, <4>1, <4>2 DEF Informed, Shown, Outdated
      <4>4. Calm(e)' => Calm(e) /\ drafting[e] = NoAutosave
        BY <1>4, <1>5, <1>6, <3>4, <4>1 DEF Calm
      <4>5. ASSUME Calm(e), NEW s \in TabsOf(author[e]) \ {e}
            PROVE  tab'[s].mode = "closed" /\ drafting'[s] = NoAutosave
        BY <1>2, <1>7, <3>1, <4>5 DEF Stored, TabsOf
      <4>6. NoAutosave.stage # "found" /\ author' = author /\ drafting' = drafting
        BY <1>2 DEF NoAutosave
      <4>7. Stored(e)'
        BY <1>3, <1>7, <3>4, <4>4, <4>5, <4>6 DEF Stored, TabsOf
      <4>8. QED
        BY <2>1, <3>2, <4>3, <4>7
    <3>5. QED
      BY <3>3, <3>4
  <2>2. CASE t # e
    <3>1. /\ tab'[t] = tab[t] /\ hist'[t].seen = hist[t].seen /\ hist'[t].dropped = hist[t].dropped /\ hist'[t].news = hist[t].news
          /\ hist'[t].unshown = hist[t].unshown /\ (hist[t].disturbed => hist'[t].disturbed) /\ hist'[t].amiss = hist[t].amiss
          /\ (<<"checkout", t>> \in older' <=> <<"checkout", t>> \in older)
      BY <1>2, <1>5, <1>6, <1>7, <2>2
    <3>2. Orderly(t)' /\ Informed(t)' /\ Shown(t)'
      BY <1>2, <3>1, OrderlyKept, InformedKept, ShownKept
    <3>3. CASE author[t] = author[e]
      BY <1>2, <2>2, <3>1, <3>2, <3>3, NotAlone
    <3>4. CASE author[t] # author[e]
      <4>1. discarding'[author[t]] = discarding[author[t]]
        BY <1>1, <1>2, <3>4 DEF EditInv, Shape
      <4>2. \A s \in TabsOf(author[t]) : tab'[s] = tab[s]
        BY <1>7, <3>4 DEF TabsOf
      <4>3. hist'[t].disturbed \/ ~hist[t].disturbed
        BY <3>1
      <4>4. QED
        BY <1>2, <3>1, <3>2, <4>1, <4>2, <4>3, StoredKept
    <3>5. QED
      BY <3>3, <3>4
  <2>3. QED
    BY <2>1, <2>2
<1>11. QED
  BY <1>2, <1>8, <1>9, <1>10 DEF EditInv, DraftsHaveText

-----------------------------------------------------------------------------
(* The conflict dialog *)

LEMMA DialogTypes ==
  ASSUME EditInv, NEW e \in Tabs
  PROVE  /\ tab \in [Tabs -> TabStates] /\ hist \in [Tabs -> Histories] /\ page \in Pages /\ NoPage \in Pages
         /\ older \subseteq Dates /\ <<"dialog", e>> \in Dates /\ <<"checkout", e>> \in Dates
         /\ Orderly(e) /\ Informed(e) /\ Shown(e)
  BY ClosedTypes DEF EditInv, Shape, Dates, Closed, TabStates

LEMMA FetchStep ==
  ASSUME EditInv, NEW e \in Tabs, NEW latest \in {page, NoPage},
         tab' = [tab EXCEPT ![e].latest = latest],
         latest = NoPage \/ Idle(e),
         older' \in {older \ {<<"dialog", e>>}, older \cup {<<"dialog", e>>}},
         UNCHANGED <<page, author, draftVars, used, hist>>
  PROVE  EditInv'
<1>1. UNCHANGED <<page, author, draft, drafting, discarding, used, hist>>
  BY DEF draftVars
<1>2. /\ tab \in [Tabs -> TabStates] /\ page \in Pages /\ NoPage \in Pages /\ latest \in Pages
      /\ older \subseteq Dates /\ <<"dialog", e>> \in Dates /\ Orderly(e) /\ Informed(e) /\ Shown(e) /\ page.n \in Nat
  BY DialogTypes, Types DEF EditInv
<1>3. /\ tab' \in [Tabs -> TabStates]
      /\ \A t \in Tabs : /\ tab'[t].mode = tab[t].mode /\ tab'[t].init = tab[t].init /\ tab'[t].text = tab[t].text
                         /\ tab'[t].lastDraft = tab[t].lastDraft /\ tab'[t].found = tab[t].found /\ tab'[t].step = tab[t].step
      /\ tab'[e].latest = latest /\ \A t \in Tabs \ {e} : tab'[t] = tab[t]
  BY <1>2 DEF TabStates
<1>4. \A t \in Tabs : <<"checkout", t>> \in older' <=> <<"checkout", t>> \in older
  BY <1>2
<1>5. Shape'
  <2>1. older' \subseteq Dates
    BY <1>2
  <2>2. QED
    BY <1>1, <1>3, <2>1 DEF EditInv, Shape
<1>6. Numbered'
  BY <1>1, <1>3, NumberedKept
<1>7. ASSUME NEW t \in Tabs
      PROVE  Orderly(t)' /\ Informed(t)' /\ Shown(t)' /\ Stored(t)'
  <2>1. Informed(t)' /\ Shown(t)' /\ Stored(t)'
    BY <1>1, <1>3, <1>4, InformedKept, ShownKept, StoredSteps DEF draftVars
  <2>2. CASE t = e
    <3>1. NoPage.n = 0
      BY DEF NoPage
    <3>2. QED
      BY <1>1, <1>2, <1>3, <1>4, <2>1, <2>2, <3>1 DEF Orderly, Idle
  <2>3. CASE t # e
    BY <1>1, <1>3, <1>4, <2>1, <2>3, OrderlyKept
  <2>4. QED
    BY <2>2, <2>3
<1>8. QED
  BY <1>1, <1>5, <1>6, <1>7 DEF EditInv, DraftsHaveText

LEMMA DecideStep ==
  ASSUME EditInv, NEW e \in Tabs, NEW text \in Texts, Decide(e, text)
  PROVE  EditInv'
<1> DEFINE latest == tab[e].latest
           newer == <<"dialog", e>> \in older
           own == [GoesOn(e, latest.text, text) EXCEPT !.news = IF latest.n # page.n THEN "saved" ELSE IF newer THEN "patched" ELSE "none"]
<1>1. /\ UNCHANGED <<page, author, draft, drafting, discarding, used>> /\ latest # NoPage
      /\ tab' = [tab EXCEPT ![e].text = text, ![e].latest = NoPage]
      /\ older' = (older \cup {<<"dialog", e>>}) \ (IF newer THEN {} ELSE {<<"checkout", e>>})
      /\ hist' = [hist EXCEPT ![e] = own]
  BY DEF Decide, draftVars
<1>2. /\ tab \in [Tabs -> TabStates] /\ hist \in [Tabs -> Histories] /\ NoPage \in Pages /\ latest.text \in Texts /\ NoText \in Texts
      /\ older \subseteq Dates /\ <<"dialog", e>> \in Dates /\ Orderly(e) /\ page.n \in Nat
  BY DialogTypes, Types DEF EditInv, Pages, NoText, Texts
<1>3. /\ own \in Histories /\ own.disturbed = hist[e].disturbed /\ own.amiss = hist[e].amiss /\ own.dropped = latest.text \ text
      /\ own.news = IF latest.n # page.n THEN "saved" ELSE IF newer THEN "patched" ELSE "none"
      /\ own.seen = IF tab[e].found = NoText THEN NoText ELSE latest.text
  <2>1. latest.text \ text \in Texts
    BY <1>2 DEF Texts
  <2>2. QED
    BY <1>2, <2>1, Types DEF Histories, GoesOn, NoHistory, EditInv
<1> HIDE DEF own
<1>4. /\ hist' \in [Tabs -> Histories] /\ hist'[e] = own /\ \A t \in Tabs \ {e} : hist'[t] = hist[t]
  BY <1>1, <1>2, <1>3
<1>5. /\ tab' \in [Tabs -> TabStates]
      /\ \A t \in Tabs : /\ tab'[t].mode = tab[t].mode /\ tab'[t].init = tab[t].init
                         /\ tab'[t].lastDraft = tab[t].lastDraft /\ tab'[t].found = tab[t].found /\ tab'[t].step = tab[t].step
      /\ tab'[e].latest = NoPage /\ tab'[e].text = text /\ \A t \in Tabs \ {e} : tab'[t] = tab[t]
  BY <1>1, <1>2 DEF TabStates
<1>6. /\ \A t \in Tabs \ {e} : <<"checkout", t>> \in older' <=> <<"checkout", t>> \in older
      /\ <<"checkout", e>> \in older' => newer
  BY <1>1, <1>2
<1>7. Shape'
  <2>1. older' \subseteq Dates
    BY <1>1, <1>2
  <2>2. QED
    BY <1>1, <1>4, <1>5, <2>1 DEF EditInv, Shape
<1>8. Numbered'
  BY <1>1, <1>5, NumberedKept
<1>9. ASSUME NEW t \in Tabs
      PROVE  Orderly(t)' /\ Informed(t)' /\ Shown(t)' /\ Stored(t)'
  <2>1. Stored(t)'
    <3>1. hist'[t].disturbed = hist[t].disturbed /\ hist'[t].amiss = hist[t].amiss
      BY <1>3, <1>4
    <3>2. QED
      BY <1>1, <1>5, <3>1, StoredSteps DEF draftVars
  <2>2. CASE t = e
    <3>1. tab[e].step = "idle" /\ tab[e].mode # "closed" /\ (latest.n = page.n => latest.text = page.text)
      BY <1>1, <1>2 DEF Orderly
    <3>2. Orderly(e)' /\ Informed(e)'
      BY <1>2, <1>3, <1>4, <1>5, <1>6, <1>1, <3>1 DEF Orderly, Informed, Outdated, NoPage
    <3>3. Shown(e)'
      BY <1>1, <1>3, <1>4, <1>5, <3>1 DEF Shown
    <3>4. QED
      BY <2>1, <2>2, <3>2, <3>3
  <2>3. CASE t # e
    BY <1>1, <1>4, <1>5, <1>6, <2>1, <2>3, OrderlyKept, InformedKept, ShownKept
  <2>4. QED
    BY <2>2, <2>3
<1>10. QED
  BY <1>1, <1>7, <1>8, <1>9 DEF EditInv, DraftsHaveText

LEMMA DialogStep ==
  ASSUME EditInv, NEW e \in Tabs, FetchLatest(e) \/ UseLocal(e) \/ UseRemote(e) \/ Cancel(e)
  PROVE  EditInv'
<1>1. CASE FetchLatest(e) \/ Cancel(e)
  BY <1>1, FetchStep DEF FetchLatest, Cancel
<1>2. CASE UseLocal(e) \/ UseRemote(e)
  <2>1. tab[e].text \in Texts /\ tab[e].latest.text \in Texts /\ tab[e].text \cup tab[e].latest.text \in Texts
    BY Types DEF EditInv, Pages, Texts
  <2>2. QED
    BY <1>2, <2>1, DecideStep DEF UseLocal, UseRemote
<1>3. QED
  BY <1>1, <1>2

-----------------------------------------------------------------------------
(* The whole specification *)

LEMMA InitEdit == Init => EditInv
<1> SUFFICES ASSUME Init PROVE EditInv
  OBVIOUS
<1>1. MaxSaves \in Nat /\ MaxTyping \in Nat
  BY EditAssumption
<1>2. Shape
  <2>1. page \in Pages /\ (page.n = 0 \/ page.n = 1)
    BY <1>1 DEF Init, Pages, NoPage, NoText, Texts
  <2>2. used \in Counts
    BY <1>1 DEF Init, Counts
  <2>3. QED
    BY <2>1, <2>2, ClosedTypes DEF Init, Shape
<1>3. DraftsHaveText
  BY DEF Init, DraftsHaveText, NoDraft, NoAutosave
<1>4. Numbered
  <2>1. Saving = {}
    BY ClosedTypes DEF Init, Saving
  <2>2. Cardinality(Saving) = 0
    BY <2>1, FS_EmptySet
  <2>3. page.n \in {0, 1} /\ used.saves = 0
    BY DEF Init, NoPage
  <2>4. QED
    BY <2>2, <2>3 DEF Numbered
<1>5. ASSUME NEW e \in Tabs
      PROVE  Orderly(e) /\ Informed(e) /\ Shown(e) /\ Stored(e)
  <2>1. tab[e].mode = "closed" /\ tab[e].step = "idle" /\ tab[e].latest = NoPage /\ <<"checkout", e>> \in older
    BY ClosedTypes DEF Init, Dates
  <2>2. page.n \in {0, 1} /\ NoPage.n = 0
    BY DEF Init, NoPage
  <2>3. QED
    BY <2>1, <2>2 DEF Orderly, Informed, Shown, Stored, Calm
<1>6. QED
  BY <1>2, <1>3, <1>4, <1>5 DEF EditInv

LEMMA NextEdit == EditInv /\ [Next]_vars => EditInv'
<1> SUFFICES ASSUME EditInv, [Next]_vars PROVE EditInv'
  OBVIOUS
<1>1. CASE UNCHANGED vars
  <2>1. Shape' /\ DraftsHaveText' /\ Numbered'
    BY <1>1 DEF EditInv, vars, Shape, DraftsHaveText, Numbered, Saving
  <2>2. ASSUME NEW t \in Tabs
        PROVE  Orderly(t)' /\ Informed(t)' /\ Shown(t)' /\ Stored(t)'
    BY <1>1 DEF EditInv, vars, Orderly, Informed, Shown, Stored, Calm, Outdated, TabsOf
  <2>3. QED
    BY <2>1, <2>2 DEF EditInv
<1>2. CASE Next
  <2>1. ASSUME NEW e \in Tabs, Open(e) \/ Type(e) \/ Close(e) \/ RestoreDraft(e) \/ DiscardFound(e) \/ Autosave(e) \/ FindDraft(e) \/ WriteDraft(e)
                               \/ RefuseDraft(e) \/ DraftUnanswered(e)
        PROVE  EditInv'
    BY <2>1, OpenStep, TypeStep, CloseStep, RestoreStep, DiscardFoundStep, AutosaveStep, FindStep, WriteStep, RefuseStep, UnansweredStep
  <2>2. ASSUME NEW e \in Tabs, \/ Save(e) \/ CheckConflicts(e) \/ UpdatePage(e) \/ CreatePage(e) \/ RenderAwaited(e) \/ SaveFails(e) \/ SaveReturns(e)
                               \/ FetchLatest(e) \/ UseLocal(e) \/ UseRemote(e) \/ Cancel(e)
        PROVE  EditInv'
    BY <2>2, SaveStep, CheckStep, UpdateStep, CreateStep, RenderStep, SaveFailsStep, ReturnsStep, DialogStep
  <2>3. QED
    BY <1>2, <2>1, <2>2, DiscardArrivesStep, RenderStep DEF Next
<1>3. QED
  BY <1>1, <1>2

LEMMA EditAlways == Spec => []EditInv
  BY InitEdit, NextEdit, PTL DEF Spec

-----------------------------------------------------------------------------
(* What the run checks, for any tabs, authors and bounds *)

(* Every variable keeps its type: in particular the number of the row grows  *)
(* by saves alone, a new draft gets an id of its own, and the conflict       *)
(* dialog never shows a row newer than the one there is.                     *)
THEOREM TypeCorrect == Spec => []TypeOK
<1>1. EditInv => TypeOK
  <2> SUFFICES ASSUME EditInv PROVE TypeOK
    OBVIOUS
  <2>1. ASSUME NEW e \in Tabs
        PROVE  /\ tab[e].mode \in {"closed", "create", "update"}
               /\ tab[e].step \in {"idle", "creating", "checking", "checked", "rendering", "returning"}
               /\ {tab[e].init, tab[e].text, tab[e].lastDraft, tab[e].found} \subseteq Texts
               /\ tab[e].latest \in Pages /\ tab[e].latest.n <= page.n
               /\ drafting[e].stage \in {"none", "sent", "found"} /\ drafting[e].text \in Texts /\ drafting[e].id \in DraftIds
               /\ tab[e].mode = "closed" => <<"checkout", e>> \in older /\ tab[e].latest = NoPage
    BY Types DEF EditInv, Orderly
  <2>2. ASSUME NEW a \in Authors
        PROVE  /\ draft[a].id \in DraftIds /\ draft[a].text \in Texts /\ discarding[a] \in Nat
               /\ draft[a].id = 0 <=> draft[a].text = NoText
    BY DEF EditInv, Shape, Drafts, DraftsHaveText
  <2>3. QED
    BY <2>1, <2>2 DEF EditInv, Shape, TypeOK
<1>2. QED
  BY <1>1, EditAlways, PTL

(* A tab that the server calls outdated has had news: a save of another tab, *)
(* a render it did not await, or a save of its own that failed halfway.  Its *)
(* own save and its render alone never raise a conflict (pages.js:469-470,   *)
(* render-page.js:74).                                                       *)
THEOREM ConflictsAreReal == Spec => []NoFalseConflict
<1>1. EditInv => NoFalseConflict
  BY DEF EditInv, Informed, NoFalseConflict
<1>2. QED
  BY <1>1, EditAlways, PTL

(* What a tab takes for stored as a draft is stored, as long as its author   *)
(* has no second tab, no requests about the draft overlap, and the last      *)
(* autosave was stored and answered (pageDrafts.js:60-84, editor.vue:564,    *)
(* 702-728).                                                                 *)
THEOREM DraftsAreKept == Spec => []DraftKeepsWork
<1>1. EditInv => DraftKeepsWork
  BY DEF EditInv, Stored, Calm, DraftKeepsWork
<1>2. QED
  BY <1>1, EditAlways, PTL

(* An update removes from the page only what its user chose to leave out,    *)
(* but in the three cases NoSilentOverwrite names (editor.vue:454, 473, 653; *)
(* pages.js:470).                                                            *)
THEOREM NothingIsOverwritten == Spec => NoSilentOverwrite
<1>1. ASSUME EditInv, NEW e \in Tabs, UpdatePage(e)
      PROVE  page.text \ tab[e].text \subseteq hist[e].dropped \/ hist[e].news = "saved" \/ hist[e].unshown
  BY <1>1 DEF EditInv, UpdatePage, Orderly, Shown
<1>2. EditInv /\ [Next]_vars =>
        [\A e \in Tabs : UpdatePage(e) =>
           \/ page.text \ tab[e].text \subseteq hist[e].dropped
           \/ hist[e].news = "saved" \/ hist[e].unshown]_vars
  BY <1>1
<1>3. QED
  BY <1>2, EditAlways, PTL DEF Spec, NoSilentOverwrite
=============================================================================
