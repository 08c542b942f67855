-------------------------- MODULE PageHistoryProofs --------------------------
(***************************************************************************)
(* Theorems about PageHistory, for every set of users and every number of  *)
(* writes: versions are true, only saves that overwrite what they have not *)
(* seen lose anything, and a plan to revert names the right version, undoes*)
(* nothing of others and misses nothing.                                   *)
(***************************************************************************)
EXTENDS PageHistory, FiniteSetTheorems, WellFoundedInduction, TLAPS

(* A set of indices has a last one. *)
LEMMA LastIndex ==
  ASSUME NEW n \in Nat, NEW S \in SUBSET (1..n), S # {}
  PROVE  \E i \in S : \A j \in S : j <= i
<1> DEFINE T == {m \in Nat : \E i \in S : m = n - i}
<1>1. \A i \in S : n - i \in T
  OBVIOUS
<1>2. T \in SUBSET Nat /\ T # {}
  BY <1>1
<1> HIDE DEF T
<1>3. IsWellFoundedOn(OpToRel(<, Nat), Nat)
  BY NatLessThanWellFounded
<1>4. PICK least \in T : \A m \in T : ~(<<m, least>> \in OpToRel(<, Nat))
  BY <1>2, <1>3, WFMin
<1>5. \A m \in T : ~(m < least)
  BY <1>2, <1>4 DEF OpToRel
<1>6. PICK i \in S : least = n - i
  BY <1>4 DEF T
<1>7. \A j \in S : j <= i
  BY <1>1, <1>5, <1>6
<1>8. QED
  BY <1>7

-----------------------------------------------------------------------------
(* The timeline ends with the live text, its times increase, and only a      *)
(* conversion is credited to another user than the one who made it. *)
TimelineGrows ==
  /\ timeline # <<>>
  /\ timeline[Len(timeline)].text = page.text
  /\ timeline[Len(timeline)].author = page.author
  /\ \A i \in DOMAIN timeline : timeline[i].time <= clock
  /\ \A i \in DOMAIN timeline : timeline[i].kind # "convert" => timeline[i].author = timeline[i].by
  /\ \A i, k \in DOMAIN timeline : i < k => timeline[i].time < timeline[k].time

(* An operation holds a state the page was in, and archives it first. *)
FetchedIsTrue(u) ==
  op[u].stage \in {"fetched", "archived", "written"} =>
    \E i \in DOMAIN timeline :
      /\ timeline[i].time = op[u].seen
      /\ timeline[i].text = op[u].og.text
      /\ timeline[i].author = op[u].og.author
      /\ op[u].seen <= op[u].og.date
ArchivedIsVersion(u) == op[u].stage = "archived" => op[u].og \in history

(* What was overwritten is a version or lost, whatever the page shows now. *)
Archived(i) ==
  \/ timeline[i].time \in lost
  \/ \E v \in history :
       v.text = timeline[i].text /\ v.author = timeline[i].author /\ v.date >= timeline[i].time
OverwrittenArchived == \A i \in DOMAIN timeline : i = Len(timeline) \/ Archived(i)

(* The inductive invariant. *)
Inv ==
  /\ TypeOK
  /\ TimelineGrows
  /\ VersionsAreTrue
  /\ OverwrittenArchived
  /\ \A u \in Users : FetchedIsTrue(u) /\ ArchivedIsVersion(u)

LEMMA InitInv == Init => Inv
<1> SUFFICES ASSUME Init PROVE Inv
  OBVIOUS
<1> USE HistoryAssumption DEF Times
<1>1. PICK a \in Users : /\ page = [text |-> 1, author |-> a, date |-> 1]
                         /\ timeline = <<[text |-> 1, author |-> a, by |-> a, kind |-> "edit", time |-> 1]>>
  BY DEF Init
<1>2. 1 \in Times /\ Len(timeline) = 1 /\ DOMAIN timeline = {1}
  BY <1>1
<1>3. TypeOK
  <2>1. [text |-> 1, author |-> a, by |-> a, kind |-> "edit", time |-> 1] \in Changes
    BY <1>2 DEF Changes, Kinds
  <2>2. timeline \in Seq(Changes)
    BY <1>1, <2>1
  <2>3. QED
    BY <1>1, <1>2, <2>2 DEF Init, TypeOK, Versions, Ops
<1>4. TimelineGrows /\ VersionsAreTrue /\ OverwrittenArchived
  BY <1>1, <1>2 DEF Init, TimelineGrows, VersionsAreTrue, OverwrittenArchived
<1>5. \A u \in Users : FetchedIsTrue(u) /\ ArchivedIsVersion(u)
  BY DEF Init, Idle, FetchedIsTrue, ArchivedIsVersion
<1>6. QED
  BY <1>3, <1>4, <1>5 DEF Inv

(***************************************************************************)
(* Steps that write neither the row nor the timeline.                      *)
(***************************************************************************)

(* The stage of an operation says what it is made of. *)
LEMMA OpTypes ==
  ASSUME TypeOK, NEW u \in Users
  PROVE  /\ op[u].stage \in {"fetched", "archived", "written"} =>
              op[u] \in [stage : {"fetched", "archived", "written"}, kind : Kinds,
                         text : 0..MaxTime, og : Versions, seen : Times]
         /\ op[u].stage = "started" =>
              op[u] \in [stage : {"started"}, kind : Kinds, text : 0..MaxTime]
  BY DEF TypeOK, Ops, Idle

(* The last save and the time it happened. *)
LEMMA LastSaveIsTrue ==
  ASSUME Inv
  PROVE  /\ Len(timeline) \in DOMAIN timeline
         /\ \A i \in DOMAIN timeline : timeline[i] \in Changes
         /\ LastSave = timeline[Len(timeline)].time
         /\ LastSave \in Times /\ LastSave <= clock
<1>1. timeline \in Seq(Changes) /\ timeline # <<>>
  BY DEF Inv, TypeOK, TimelineGrows, Changes
<1>2. Len(timeline) \in DOMAIN timeline /\ \A i \in DOMAIN timeline : timeline[i] \in Changes
  BY <1>1
<1>3. LastSave = timeline[Len(timeline)].time
  BY DEF LastSave
<1>4. LastSave \in Times /\ LastSave <= clock
  BY <1>2, <1>3 DEF Inv, TimelineGrows, Changes
<1>5. QED
  BY <1>2, <1>3, <1>4

LEMMA StartInv ==
  ASSUME Inv, NEW u \in Users, NEW kind \in Kinds, NEW text \in 0..MaxTime, Start(u, kind, text)
  PROVE  Inv'
<1>1. TypeOK'
  BY DEF Inv, TypeOK, Start, Ops, Ghosts
<1>2. TimelineGrows' /\ VersionsAreTrue' /\ OverwrittenArchived'
  BY DEF Inv, Start, Ghosts, TimelineGrows, VersionsAreTrue, OverwrittenArchived, Archived
<1>3. ASSUME NEW w \in Users
      PROVE  (FetchedIsTrue(w) /\ ArchivedIsVersion(w))'
  BY DEF Inv, TypeOK, Start, Ghosts, FetchedIsTrue, ArchivedIsVersion
<1>4. QED
  BY <1>1, <1>2, <1>3 DEF Inv

LEMMA FetchInv ==
  ASSUME Inv, NEW u \in Users, Fetch(u)
  PROVE  Inv'
<1>1. op[u] \in [stage : {"started"}, kind : Kinds, text : 0..MaxTime]
  BY OpTypes DEF Inv, Fetch
<1>2. TypeOK'
  BY <1>1, LastSaveIsTrue DEF Inv, TypeOK, Fetch, Ops, Ghosts
<1>3. TimelineGrows' /\ VersionsAreTrue' /\ OverwrittenArchived'
  BY DEF Inv, Fetch, Ghosts, TimelineGrows, VersionsAreTrue, OverwrittenArchived, Archived
<1>4. ASSUME NEW w \in Users
      PROVE  (FetchedIsTrue(w) /\ ArchivedIsVersion(w))'
  <2>1. CASE w = u
    BY <2>1, LastSaveIsTrue DEF Inv, TypeOK, TimelineGrows, Fetch, Ghosts, FetchedIsTrue, ArchivedIsVersion
  <2>2. CASE w # u
    BY <2>2 DEF Inv, TypeOK, Fetch, Ghosts, FetchedIsTrue, ArchivedIsVersion
  <2>3. QED
    BY <2>1, <2>2
<1>5. QED
  BY <1>2, <1>3, <1>4 DEF Inv

LEMMA ArchiveInv ==
  ASSUME Inv, NEW u \in Users, Archive(u)
  PROVE  Inv'
<1>1. op[u] \in [stage : {"fetched", "archived", "written"}, kind : Kinds,
                 text : 0..MaxTime, og : Versions, seen : Times]
  BY OpTypes DEF Inv, Archive
<1>2. TypeOK'
  BY <1>1 DEF Inv, TypeOK, Archive, Ops, Ghosts
<1>3. TimelineGrows'
  BY DEF Inv, Archive, Ghosts, TimelineGrows
<1>4. VersionsAreTrue'
  <2>1. PICK i \in DOMAIN timeline :
          /\ timeline[i].text = op[u].og.text
          /\ timeline[i].author = op[u].og.author
          /\ timeline[i].time <= op[u].og.date
    BY DEF Inv, Archive, FetchedIsTrue
  <2>2. QED
    BY <2>1 DEF Inv, Archive, Ghosts, VersionsAreTrue
<1>5. OverwrittenArchived'
  BY DEF Inv, Archive, Ghosts, OverwrittenArchived, Archived
<1>6. ASSUME NEW w \in Users
      PROVE  (FetchedIsTrue(w) /\ ArchivedIsVersion(w))'
  <2>1. CASE w = u
    BY <1>1, <2>1 DEF Inv, TypeOK, Archive, Ghosts, FetchedIsTrue, ArchivedIsVersion
  <2>2. CASE w # u
    BY <2>2 DEF Inv, TypeOK, Archive, Ghosts, FetchedIsTrue, ArchivedIsVersion
  <2>3. QED
    BY <2>1, <2>2
<1>7. QED
  BY <1>2, <1>3, <1>4, <1>5, <1>6 DEF Inv

LEMMA FailsInv ==
  ASSUME Inv, NEW u \in Users, Fails(u)
  PROVE  Inv'
<1>1. TypeOK'
  <2>1. failures' \in 0..MaxFailures
    BY HistoryAssumption DEF Inv, TypeOK, Fails
  <2>2. QED
    BY <2>1 DEF Inv, TypeOK, Fails, Ops, Ghosts
<1>2. TimelineGrows' /\ VersionsAreTrue' /\ OverwrittenArchived'
  BY DEF Inv, Fails, Ghosts, TimelineGrows, VersionsAreTrue, OverwrittenArchived, Archived
<1>3. ASSUME NEW w \in Users
      PROVE  (FetchedIsTrue(w) /\ ArchivedIsVersion(w))'
  <2>1. op'[w] \in {op[w], Idle}
    BY DEF Inv, TypeOK, Fails
  <2>2. QED
    BY <2>1 DEF Inv, Fails, Ghosts, Idle, FetchedIsTrue, ArchivedIsVersion
<1>4. QED
  BY <1>1, <1>2, <1>3 DEF Inv

(***************************************************************************)
(* Steps that write the row with the text it has.                          *)
(***************************************************************************)
LEMMA TouchInv ==
  ASSUME Inv, Touch, UNCHANGED <<history, timeline, lost, failures>>,
         undated' \in {undated, undated \cup {KeptText}},
         op' = op \/ \E u \in Users : op' = [op EXCEPT ![u] = Idle]
  PROVE  Inv'
<1>1. clock + 1 \in Times
  BY HistoryAssumption DEF Inv, TypeOK, Touch, Times
<1>2. /\ page' \in Versions /\ page'.date = clock + 1
      /\ page'.text = page.text /\ page'.author = page.author
  BY <1>1 DEF Inv, TypeOK, Touch, Versions
<1>3. KeptText \in [saved : Times, at : Times]
  BY <1>1, LastSaveIsTrue DEF KeptText
<1>4. op' \in [Users -> Ops]
  BY DEF Inv, TypeOK, Ops
<1>5. TypeOK'
  BY <1>1, <1>2, <1>3, <1>4 DEF Inv, TypeOK, Touch
<1>6. TimelineGrows'
  <2>1. \A i \in DOMAIN timeline : timeline[i].time \in Nat /\ clock \in Nat
    BY LastSaveIsTrue DEF Inv, TypeOK, Times, Changes
  <2>2. \A i \in DOMAIN timeline : timeline[i].time <= clock + 1
    BY <2>1 DEF Inv, TimelineGrows
  <2>3. QED
    BY <1>2, <2>2 DEF Inv, Touch, TimelineGrows
<1>7. VersionsAreTrue'
  <2>1. /\ timeline[Len(timeline)].text = page'.text
        /\ timeline[Len(timeline)].author = page'.author
        /\ timeline[Len(timeline)].time <= page'.date
    BY <1>2, LastSaveIsTrue DEF Inv, TypeOK, TimelineGrows, Times
  <2>2. QED
    BY <2>1, LastSaveIsTrue DEF Inv, VersionsAreTrue
<1>8. OverwrittenArchived'
  BY DEF Inv, OverwrittenArchived, Archived
<1>9. ASSUME NEW w \in Users
      PROVE  (FetchedIsTrue(w) /\ ArchivedIsVersion(w))'
  <2>1. op'[w] \in {op[w], Idle}
    BY DEF Inv, TypeOK
  <2>2. QED
    BY <2>1 DEF Inv, Idle, FetchedIsTrue, ArchivedIsVersion
<1>10. QED
  BY <1>5, <1>6, <1>7, <1>8, <1>9 DEF Inv

LEMMA RenderInv ==
  ASSUME Inv, NEW u \in Users, Render(u)
  PROVE  Inv'
<1>1. /\ Touch /\ UNCHANGED <<history, timeline, lost, failures>>
      /\ undated' \in {undated, undated \cup {KeptText}}
      /\ \E w \in Users : op' = [op EXCEPT ![w] = Idle]
  BY DEF Render
<1>2. QED
  BY <1>1, TouchInv

LEMMA MoveInv ==
  ASSUME Inv, NEW u \in Users, Move(u)
  PROVE  Inv'
<1>1. /\ Touch /\ UNCHANGED <<history, timeline, lost, failures>>
      /\ undated' \in {undated, undated \cup {KeptText}}
      /\ \E w \in Users : op' = [op EXCEPT ![w] = Idle]
  BY DEF Move
<1>2. QED
  BY <1>1, TouchInv

LEMMA ReconnectLinksInv ==
  ASSUME Inv, ReconnectLinks
  PROVE  Inv'
<1>1. /\ Touch /\ UNCHANGED <<history, timeline, lost, failures>>
      /\ undated' \in {undated, undated \cup {KeptText}}
      /\ op' = op
  BY DEF ReconnectLinks
<1>2. QED
  BY <1>1, TouchInv

(***************************************************************************)
(* A save.                                                                 *)
(***************************************************************************)
LEMMA WriteInv ==
  ASSUME Inv, NEW u \in Users, Write(u)
  PROVE  Inv'
<1> DEFINE new == [text |-> page'.text, author |-> page'.author, by |-> u, kind |-> op[u].kind, time |-> clock + 1]
<1>1. op[u] \in [stage : {"fetched", "archived", "written"}, kind : Kinds,
                 text : 0..MaxTime, og : Versions, seen : Times]
  BY OpTypes DEF Inv, Write
<1>2. clock \in Nat /\ clock + 1 \in Times
  BY HistoryAssumption DEF Inv, TypeOK, Write, Times
<1>3. page' \in Versions /\ page'.date = clock + 1
  <2>1. /\ page'.text = (IF op[u].text = 0 THEN clock + 1 ELSE op[u].text)
        /\ page'.text \in Times
    BY <1>1, <1>2 DEF Write, Times
  <2>2. page'.author \in Users
    BY DEF Inv, TypeOK, Versions, Write
  <2>3. QED
    BY <1>2, <2>1, <2>2 DEF Write, Versions
<1>4. /\ new \in Changes /\ timeline \in Seq(Changes) /\ timeline' = Append(timeline, new)
      /\ Len(timeline') = Len(timeline) + 1 /\ Len(timeline) \in DOMAIN timeline
      /\ timeline' \in Seq(Changes)
  <2>1. new \in Changes
    <3>1. op[u].kind \in Kinds \ {"move"}
      BY <1>1 DEF Write
    <3>2. page'.text \in Times /\ page'.author \in Users
      BY <1>3 DEF Versions
    <3>3. QED
      BY <1>2, <3>1, <3>2 DEF Changes
  <2>2. timeline \in Seq(Changes) /\ timeline' = Append(timeline, new)
    BY DEF Inv, TypeOK, Changes, Write
  <2>3. QED
    BY <2>1, <2>2, LastSaveIsTrue
<1>5. /\ DOMAIN timeline' = DOMAIN timeline \cup {Len(timeline')}
      /\ \A i \in DOMAIN timeline : timeline'[i] = timeline[i] /\ i # Len(timeline')
      /\ timeline'[Len(timeline')] = new
  BY <1>4
<1>6. TypeOK'
  <2>1. op' \in [Users -> Ops]
    BY <1>1 DEF Inv, TypeOK, Write, Ops
  <2>2. lost' \subseteq Times
    BY LastSaveIsTrue DEF Inv, TypeOK, Write
  <2>3. QED
    BY <1>2, <1>3, <1>4, <2>1, <2>2 DEF Inv, TypeOK, Write, Changes
<1>7. TimelineGrows'
  <2>0. /\ timeline'[Len(timeline')].text = page'.text
        /\ timeline'[Len(timeline')].author = page'.author
        /\ timeline'[Len(timeline')].time = clock + 1
    <3>1. timeline'[Len(timeline')] = new
      BY <1>5
    <3>2. QED
      BY ONLY <3>1
  <2>1. \A i \in DOMAIN timeline : timeline[i].time \in Nat /\ timeline[i].time < clock + 1
    BY <1>2, LastSaveIsTrue DEF Inv, TimelineGrows, Changes, Times
  <2>2. timeline' # <<>> /\ clock' = clock + 1
    BY <1>4 DEF Write
  <2>3. \A i \in DOMAIN timeline' : timeline'[i].time <= clock'
    <3> SUFFICES ASSUME NEW i \in DOMAIN timeline' PROVE timeline'[i].time <= clock + 1
      BY <2>2
    <3>1. CASE i \in DOMAIN timeline
      <4>1. timeline'[i] = timeline[i]
        BY <1>5, <3>1
      <4>2. timeline[i].time \in Nat /\ timeline[i].time < clock + 1
        BY <2>1, <3>1
      <4>3. QED
        BY <1>2, <4>1, <4>2
    <3>2. CASE i = Len(timeline')
      BY <1>2, <2>0, <3>2
    <3>3. QED
      BY <1>5, <3>1, <3>2
  <2>4. \A i, k \in DOMAIN timeline' : i < k => timeline'[i].time < timeline'[k].time
    <3> SUFFICES ASSUME NEW i \in DOMAIN timeline', NEW k \in DOMAIN timeline', i < k
                 PROVE  timeline'[i].time < timeline'[k].time
      OBVIOUS
    <3>1. i \in DOMAIN timeline
      BY <1>4, <1>5
    <3>2. CASE k \in DOMAIN timeline
      BY <1>5, <3>1, <3>2 DEF Inv, TimelineGrows
    <3>3. CASE k = Len(timeline')
      BY <1>5, <2>0, <2>1, <3>1, <3>3
    <3>4. QED
      BY <1>5, <3>2, <3>3
  <2>5. \A i \in DOMAIN timeline' : timeline'[i].kind # "convert" => timeline'[i].author = timeline'[i].by
    <3> SUFFICES ASSUME NEW i \in DOMAIN timeline', timeline'[i].kind # "convert"
                 PROVE  timeline'[i].author = timeline'[i].by
      OBVIOUS
    <3>1. CASE i \in DOMAIN timeline
      BY <1>5, <3>1 DEF Inv, TimelineGrows
    <3>2. CASE i = Len(timeline')
      <4>1. new.kind = op[u].kind /\ new.by = u /\ new.author = page'.author
        OBVIOUS
      <4>2. op[u].kind # "convert"
        BY <1>5, <3>2, <4>1
      <4>3. page'.author = u
        BY <4>2 DEF Write
      <4>4. QED
        BY <1>5, <3>2, <4>1, <4>3
    <3>3. QED
      BY <1>5, <3>1, <3>2
  <2>6. QED
    BY <2>0, <2>2, <2>3, <2>4, <2>5 DEF TimelineGrows
<1>8. VersionsAreTrue'
  <2>1. \A v \in history : \E i \in DOMAIN timeline' :
          timeline'[i].text = v.text /\ timeline'[i].author = v.author /\ timeline'[i].time <= v.date
    BY <1>5 DEF Inv, VersionsAreTrue
  <2>2. new.text = page'.text /\ new.author = page'.author /\ new.time <= page'.date
    BY <1>2, <1>3
  <2>3. QED
    BY <1>5, <2>1, <2>2 DEF VersionsAreTrue, Write
<1>9. OverwrittenArchived'
  <2>0. PICK last \in DOMAIN timeline : last = Len(timeline)
    BY <1>4
  <2>1. \A i \in DOMAIN timeline : Archived(i) => Archived(i)'
    BY <1>5 DEF Archived, Write
  <2>2. CASE op[u].seen # LastSave
    <3>1. LastSave \in lost'
      BY <2>2 DEF Write
    <3>2. Archived(last)'
      BY <1>5, <2>0, <3>1 DEF Archived, LastSave
    <3>3. QED
      BY <1>5, <2>0, <2>1, <3>2 DEF Inv, OverwrittenArchived
  <2>3. CASE op[u].seen = LastSave
    <3>1. PICK i \in DOMAIN timeline :
            /\ timeline[i].time = LastSave
            /\ timeline[i].text = op[u].og.text
            /\ timeline[i].author = op[u].og.author
            /\ LastSave <= op[u].og.date
      BY <2>3 DEF Inv, Write, FetchedIsTrue
    <3>2. i = Len(timeline)
      <4>1. timeline[i].time = timeline[Len(timeline)].time /\ timeline[i].time \in Nat
        BY <3>1, LastSaveIsTrue DEF Changes, Times
      <4>2. ~(i < Len(timeline))
        BY <1>4, <4>1 DEF Inv, TimelineGrows
      <4>3. QED
        BY <1>4, <4>2
    <3>3. op[u].og \in history /\ op[u].og \in history'
      BY DEF Inv, ArchivedIsVersion, Write
    <3>4. LastSave = timeline[i].time /\ op[u].og.date >= timeline[i].time
      BY <1>1, <3>1, LastSaveIsTrue DEF Versions, Times
    <3>5. Archived(last)'
      BY <1>5, <2>0, <3>1, <3>2, <3>3, <3>4 DEF Archived
    <3>6. QED
      BY <1>5, <2>0, <2>1, <3>5 DEF Inv, OverwrittenArchived
  <2>4. QED
    BY <2>2, <2>3
<1>10. ASSUME NEW w \in Users
       PROVE  (FetchedIsTrue(w) /\ ArchivedIsVersion(w))'
  <2>1. op'[w] = op[w] \/ op'[w] = Idle \/ (w = u /\ op'[w] = [op[u] EXCEPT !.stage = "written"])
    BY DEF Inv, TypeOK, Write
  <2>2. history' = history
    BY DEF Write
  <2>3. CASE op'[w] = op[w]
    BY <1>5, <2>2, <2>3 DEF Inv, FetchedIsTrue, ArchivedIsVersion
  <2>4. CASE op'[w] = Idle
    BY <2>4 DEF Idle, FetchedIsTrue, ArchivedIsVersion
  <2>5. CASE w = u /\ op'[w] = [op[u] EXCEPT !.stage = "written"]
    <3>1. op'[w].stage = "written" /\ op'[w].og = op[w].og /\ op'[w].seen = op[w].seen
      BY <1>1, <2>5
    <3>2. FetchedIsTrue(w) /\ op[w].stage = "archived"
      BY <2>5 DEF Inv, Write
    <3>3. QED
      BY <1>5, <3>1, <3>2 DEF FetchedIsTrue, ArchivedIsVersion
  <2>6. QED
    BY <2>1, <2>3, <2>4, <2>5
<1>11. QED
  BY <1>6, <1>7, <1>8, <1>9, <1>10 DEF Inv

(***************************************************************************)
(* The theorems.                                                           *)
(***************************************************************************)
LEMMA NextInv == Inv /\ [Next]_vars => Inv'
<1> SUFFICES ASSUME Inv, [Next]_vars PROVE Inv'
  OBVIOUS
<1>1. CASE ReconnectLinks
  BY <1>1, ReconnectLinksInv
<1>2. ASSUME NEW u \in Users, UserStep(u) PROVE Inv'
  <2>1. CASE StartEdit(u)
    BY <2>1, StartInv, HistoryAssumption DEF StartEdit, Kinds
  <2>2. CASE StartConvert(u)
    BY <2>2, StartInv, HistoryAssumption DEF StartConvert, Kinds
  <2>3. CASE StartMove(u)
    BY <2>3, StartInv, HistoryAssumption DEF StartMove, Kinds
  <2>4. CASE StartRestore(u)
    <3>1. PICK v \in history : Start(u, "restore", v.text)
      BY <2>4 DEF StartRestore
    <3>2. v.text \in 0..MaxTime /\ "restore" \in Kinds
      BY HistoryAssumption DEF Inv, TypeOK, Versions, Times, Kinds
    <3>3. QED
      BY <3>1, <3>2, StartInv
  <2>5. CASE StartRevert(u)
    <3>1. PICK a \in Users, s \in Times, o \in BOOLEAN :
            PlanRevert(a, s, o).baseline \in history /\ Start(u, "restore", PlanRevert(a, s, o).baseline.text)
      BY <2>5 DEF StartRevert
    <3>2. PlanRevert(a, s, o).baseline.text \in 0..MaxTime /\ "restore" \in Kinds
      BY <3>1, HistoryAssumption DEF Inv, TypeOK, Versions, Times, Kinds
    <3>3. QED
      BY <3>1, <3>2, StartInv
  <2>6. CASE Fetch(u)
    BY <2>6, FetchInv
  <2>7. CASE Archive(u)
    BY <2>7, ArchiveInv
  <2>8. CASE Write(u)
    BY <2>8, WriteInv
  <2>9. CASE Render(u)
    BY <2>9, RenderInv
  <2>10. CASE Move(u)
    BY <2>10, MoveInv
  <2>11. CASE Fails(u)
    BY <2>11, FailsInv
  <2>12. QED
    BY <1>2, <2>1, <2>2, <2>3, <2>4, <2>5, <2>6, <2>7, <2>8, <2>9, <2>10, <2>11 DEF UserStep
<1>3. CASE UNCHANGED vars
  BY <1>3 DEF Inv, vars, TypeOK, TimelineGrows, VersionsAreTrue, OverwrittenArchived, Archived,
              FetchedIsTrue, ArchivedIsVersion
<1>4. QED
  BY <1>1, <1>2, <1>3 DEF Next

LEMMA Invariance == Spec => []Inv
  BY InitInv, NextInv, PTL DEF Spec

(* Type correctness. *)
THEOREM TypeCorrect == Spec => []TypeOK
<1>1. Inv => TypeOK
  BY DEF Inv
<1>2. QED
  BY <1>1, Invariance, PTL

(* The live page and every version are states the page was in, with their   *)
(* author, at their date or before, however many users save, restore,       *)
(* convert and move at once.                                                *)
THEOREM VersionsTrue == Spec => []VersionsAreTrue
<1>1. Inv => VersionsAreTrue
  BY DEF Inv
<1>2. QED
  BY <1>1, Invariance, PTL

(* A text that is neither live nor a version was overwritten by a save that *)
(* had read the row before that text was saved.                             *)
THEOREM LossOnlyUnseen == Spec => []OnlyUnseenTextsAreLost
<1>1. ASSUME Inv PROVE OnlyUnseenTextsAreLost
  <2>1. page.text = timeline[Len(timeline)].text /\ page.author = timeline[Len(timeline)].author
    BY <1>1 DEF Inv, TimelineGrows
  <2>2. page.date >= timeline[Len(timeline)].time
    BY <1>1, LastSaveIsTrue DEF Inv, TypeOK, Times
  <2>3. QED
    BY <1>1, <2>1, <2>2 DEF Inv, OverwrittenArchived, Archived, OnlyUnseenTextsAreLost
<1>2. QED
  BY <1>1, Invariance, PTL

-----------------------------------------------------------------------------
(* What the dates of versions tell: which save a version is of, and, where  *)
(* every later write with the same text was preceded by a version, when.    *)

(* Of these saves, v, at its date, showed that of t. *)
SavedAt(saves, v, t) ==
  t <= v.date /\ \A k \in DOMAIN saves : saves[k].time <= v.date => saves[k].time <= t
(* v tells when that was, or was dated anew, which the ghost then says. *)
Tells(saves, redated, v, t) ==
  SavedAt(saves, v, t) /\ (v.date = t \/ [saved |-> t, at |-> v.date] \in redated)

Shows(saves, now, v) ==
  v.date <= now /\ \E i \in DOMAIN saves : saves[i].text = v.text /\ SavedAt(saves, v, saves[i].time)
FetchTells(saves, redated, now, versions, o) ==
  o.stage \in {"fetched", "archived"} =>
    /\ o.og.date <= now /\ SavedAt(saves, o.og, o.seen)
    /\ \E v \in versions \cup {o.og} : Tells(saves, redated, v, o.seen)
Told(saves, redated, versions, gone, t) == t \in gone \/ \E v \in versions : Tells(saves, redated, v, t)

(* What lets a plan go by dates: the row and every version show a save, and *)
(* of every save that was overwritten, and was not lost, a version tells    *)
(* the time.                                                                *)
DateInv ==
  /\ \A v \in history \cup {page} : Shows(timeline, clock, v)
  /\ \A u \in Users : FetchTells(timeline, undated, clock, history, op[u])
  /\ \A i \in DOMAIN timeline : i = Len(timeline) \/ Told(timeline, undated, history, lost, timeline[i].time)
  /\ \E v \in history \cup {page} : Tells(timeline, undated, v, LastSave)

LEMMA DateTypes ==
  ASSUME Inv
  PROVE  /\ clock \in Nat /\ LastSave \in Nat /\ LastSave <= clock /\ page.date = clock
         /\ Len(timeline) \in DOMAIN timeline /\ DOMAIN timeline = 1..Len(timeline) /\ Len(timeline) \in Nat
         /\ timeline[Len(timeline)].time = LastSave /\ timeline[Len(timeline)].text = page.text
         /\ \A i \in DOMAIN timeline :
              timeline[i].time \in Nat /\ timeline[i].time <= clock /\ timeline[i].time <= LastSave
         /\ \A i, k \in DOMAIN timeline : i < k => timeline[i].time < timeline[k].time
         /\ \A v \in history \cup {page} : v.date \in Nat
         /\ \A u \in Users : op[u].stage \in {"fetched", "archived"} =>
              op[u].og.date \in Nat /\ op[u].seen \in Nat
<1>1. clock \in Nat /\ LastSave \in Nat /\ LastSave <= clock /\ page.date = clock
  BY LastSaveIsTrue DEF Inv, TypeOK, Times
<1>2. /\ Len(timeline) \in DOMAIN timeline /\ timeline[Len(timeline)].time = LastSave
      /\ timeline[Len(timeline)].text = page.text
  BY LastSaveIsTrue DEF Inv, TimelineGrows
<1>3. \A i, k \in DOMAIN timeline : i < k => timeline[i].time < timeline[k].time
  BY DEF Inv, TimelineGrows
<1>4. DOMAIN timeline = 1..Len(timeline) /\ Len(timeline) \in Nat
  BY DEF Inv, TypeOK
<1>5. ASSUME NEW i \in DOMAIN timeline
      PROVE  timeline[i].time \in Nat /\ timeline[i].time <= clock /\ timeline[i].time <= LastSave
  <2>1. timeline[i].time \in Nat /\ timeline[i].time <= clock
    BY LastSaveIsTrue DEF Inv, TimelineGrows, Changes, Times
  <2>2. i < Len(timeline) \/ i = Len(timeline)
    BY <1>4
  <2>3. CASE i < Len(timeline)
    <3>1. timeline[i].time < timeline[Len(timeline)].time
      BY <1>2, <1>3, <2>3
    <3>2. QED
      BY <1>1, <1>2, <2>1, <3>1
  <2>4. CASE i = Len(timeline)
    BY <1>1, <1>2, <2>1, <2>4
  <2>5. QED
    BY <2>2, <2>3, <2>4
<1>6. \A v \in history \cup {page} : v.date \in Nat
  BY DEF Inv, TypeOK, Versions, Times
<1>7. ASSUME NEW u \in Users, op[u].stage \in {"fetched", "archived"}
      PROVE  op[u].og.date \in Nat /\ op[u].seen \in Nat
  BY <1>7, OpTypes DEF Inv, Versions, Times
<1>8. QED
  BY <1>1, <1>2, <1>3, <1>4, <1>5, <1>6, <1>7

LEMMA InitDate == Init => DateInv
<1>1. SUFFICES ASSUME Init
               PROVE  DateInv
  OBVIOUS
<1>2. PICK a \in Users : /\ page = [text |-> 1, author |-> a, date |-> 1]
                         /\ timeline = <<[text |-> 1, author |-> a, by |-> a, kind |-> "edit", time |-> 1]>>
  BY <1>1 DEF Init
<1>3. /\ DOMAIN timeline = {1} /\ timeline[1].time = 1 /\ timeline[1].text = 1 /\ Len(timeline) = 1
      /\ page.date = 1 /\ page.text = 1 /\ clock = 1 /\ history = {} /\ LastSave = 1
  BY <1>1, <1>2 DEF Init, LastSave
<1>4. \A u \in Users : op[u].stage = "idle"
  BY <1>1 DEF Init, Idle
<1>5. SavedAt(timeline, page, 1)
  BY <1>3 DEF SavedAt
<1>6. Tells(timeline, undated, page, 1) /\ Shows(timeline, clock, page)
  BY <1>3, <1>5 DEF Tells, Shows
<1>7. QED
  BY <1>3, <1>4, <1>6 DEF DateInv, FetchTells

(* Nothing was read, archived or written. *)
LEMMA QuietDate ==
  ASSUME DateInv, UNCHANGED <<clock, page, history, timeline, undated, lost>>,
         \A u \in Users : op'[u] = op[u] \/ op'[u].stage \notin {"fetched", "archived"}
  PROVE  DateInv'
<1>1. ASSUME NEW u \in Users
      PROVE  FetchTells(timeline, undated, clock, history, op'[u])
  <2>1. CASE op'[u] = op[u]
    BY <2>1 DEF DateInv
  <2>2. CASE op'[u].stage \notin {"fetched", "archived"}
    BY <2>2 DEF FetchTells
  <2>3. QED
    BY <2>1, <2>2
<1>2. LastSave' = LastSave
  BY DEF LastSave
<1>3. QED
  BY <1>1, <1>2 DEF DateInv

LEMMA FetchDate ==
  ASSUME Inv, DateInv, NEW u \in Users, Fetch(u)
  PROVE  DateInv'
<1>1. /\ op' = [op EXCEPT ![u] = [stage |-> "fetched", kind |-> op[u].kind, text |-> op[u].text,
                                  og |-> page, seen |-> LastSave]]
      /\ UNCHANGED <<clock, page, history, timeline, undated, lost>> /\ op \in [Users -> Ops]
  BY DEF Fetch, Ghosts, Inv, TypeOK
<1>2. op'[u].og = page /\ op'[u].seen = LastSave /\ \A w \in Users \ {u} : op'[w] = op[w]
  BY <1>1
<1>3. page.date <= clock /\ SavedAt(timeline, page, LastSave)
  BY DateTypes DEF SavedAt
<1>4. FetchTells(timeline, undated, clock, history, op'[u])
  BY <1>2, <1>3 DEF FetchTells, DateInv
<1>5. \A w \in Users : FetchTells(timeline, undated, clock, history, op'[w])
  BY <1>2, <1>4 DEF DateInv
<1>6. LastSave' = LastSave
  BY <1>1 DEF LastSave
<1>7. QED
  BY <1>1, <1>5, <1>6 DEF DateInv

LEMMA ArchiveDate ==
  ASSUME Inv, DateInv, NEW u \in Users, Archive(u)
  PROVE  DateInv'
<1> DEFINE og == op[u].og
<1>1. /\ history' = history \cup {og} /\ op[u].stage = "fetched" /\ op' = [op EXCEPT ![u].stage = "archived"]
      /\ UNCHANGED <<clock, page, timeline, undated, lost>> /\ op \in [Users -> Ops]
  BY DEF Archive, Ghosts, Inv, TypeOK
<1>2. op[u] \in [stage : {"fetched", "archived", "written"}, kind : Kinds,
                 text : 0..MaxTime, og : Versions, seen : Times]
  BY <1>1, OpTypes DEF Inv
<1>3. op'[u].og = og /\ op'[u].seen = op[u].seen /\ \A w \in Users \ {u} : op'[w] = op[w]
  BY <1>1, <1>2
<1>4. FetchTells(timeline, undated, clock, history, op[u]) /\ FetchedIsTrue(u)
  BY DEF DateInv, Inv
<1>5. Shows(timeline, clock, og)
  BY <1>1, <1>4 DEF FetchTells, FetchedIsTrue, Shows
<1>6. FetchTells(timeline, undated, clock, history', op'[u])
  BY <1>1, <1>3, <1>4 DEF FetchTells
<1>7. ASSUME NEW w \in Users \ {u} PROVE FetchTells(timeline, undated, clock, history', op'[w])
  <2>1. FetchTells(timeline, undated, clock, history, op'[w])
    BY <1>3 DEF DateInv
  <2>2. QED
    BY <1>1, <2>1 DEF FetchTells
<1>8. \A v \in history' \cup {page} : Shows(timeline, clock, v)
  BY <1>1, <1>5 DEF DateInv
<1>9. \A i \in DOMAIN timeline : i = Len(timeline) \/ Told(timeline, undated, history', lost, timeline[i].time)
  BY <1>1 DEF DateInv, Told
<1>10. LastSave' = LastSave
  BY <1>1 DEF LastSave
<1>11. \E v \in history' \cup {page} : Tells(timeline, undated, v, LastSave)
  BY <1>1 DEF DateInv
<1>12. QED
  BY <1>1, <1>6, <1>7, <1>8, <1>9, <1>10, <1>11 DEF DateInv

(* The row is dated anew: the ghost tells it, or a version does. *)
LEMMA TouchDate ==
  ASSUME Inv, DateInv, Touch, UNCHANGED <<history, timeline, lost>>, undated \subseteq undated',
         \A u \in Users : op'[u] = op[u] \/ op'[u].stage \notin {"fetched", "archived"},
         KeptText \in undated' \/ \E v \in history : Tells(timeline, undated, v, LastSave)
  PROVE  DateInv'
<1>1. clock' = clock + 1 /\ page' = [page EXCEPT !.date = clock + 1] /\ page \in Versions
  BY DEF Touch, Inv, TypeOK
<1>2. page'.date = clock + 1 /\ page'.text = page.text
  BY <1>1 DEF Versions
<1>3. \A v, t : Tells(timeline, undated, v, t) => Tells(timeline, undated', v, t)
  BY DEF Tells
<1>4. \A v \in history : Shows(timeline, clock', v)
  <2>1. \A v \in history : v.date \in Nat /\ clock \in Nat
    BY DateTypes
  <2>2. QED
    BY <1>1, <2>1 DEF DateInv, Shows
<1>5. SavedAt(timeline, page', LastSave)
  BY <1>2, DateTypes DEF SavedAt
<1>6. Shows(timeline, clock', page')
  <2>1. /\ timeline[Len(timeline)].text = page'.text /\ timeline[Len(timeline)].time = LastSave
        /\ Len(timeline) \in DOMAIN timeline /\ page'.date <= clock'
    BY <1>1, <1>2, DateTypes
  <2>2. QED
    BY <1>5, <2>1 DEF Shows
<1>7. ASSUME NEW u \in Users PROVE FetchTells(timeline, undated', clock', history, op'[u])
  <2>1. CASE op'[u].stage \notin {"fetched", "archived"}
    BY <2>1 DEF FetchTells
  <2>2. CASE op'[u] = op[u] /\ op[u].stage \in {"fetched", "archived"}
    <3>1. /\ op[u].og.date <= clock' /\ SavedAt(timeline, op[u].og, op[u].seen)
          /\ \E v \in history \cup {op[u].og} : Tells(timeline, undated', v, op[u].seen)
      <4>1. op[u].og.date \in Nat /\ clock \in Nat
        BY <2>2, DateTypes
      <4>2. FetchTells(timeline, undated, clock, history, op[u])
        BY DEF DateInv
      <4>3. QED
        BY <1>1, <1>3, <2>2, <4>1, <4>2 DEF FetchTells
    <3>2. QED
      BY <2>2, <3>1 DEF FetchTells
  <2>3. QED
    BY <2>1, <2>2
<1>8. \A i \in DOMAIN timeline : i = Len(timeline) \/ Told(timeline, undated', history, lost, timeline[i].time)
  BY <1>3 DEF DateInv, Told
<1>9. \E v \in history \cup {page'} : Tells(timeline, undated', v, LastSave)
  <2>1. CASE KeptText \in undated'
    <3>1. [saved |-> LastSave, at |-> page'.date] \in undated'
      BY <1>2, <2>1 DEF KeptText
    <3>2. QED
      BY <1>5, <3>1 DEF Tells
  <2>2. CASE \E v \in history : Tells(timeline, undated, v, LastSave)
    BY <1>3, <2>2
  <2>3. QED
    BY <2>1, <2>2
<1>10. LastSave' = LastSave
  BY DEF LastSave
<1>11. QED
  BY <1>4, <1>6, <1>7, <1>8, <1>9, <1>10 DEF DateInv

(* A later save changes nothing about what was dated before it. *)
LEMMA LaterSave ==
  ASSUME NEW saves, NEW more, NEW n, DOMAIN more = DOMAIN saves \cup {n},
         \A i \in DOMAIN saves : more[i] = saves[i],
         NEW v, ~(more[n].time <= v.date)
  PROVE  \A t : SavedAt(more, v, t) <=> SavedAt(saves, v, t)
<1>1. \A k \in DOMAIN more : more[k].time <= v.date => k \in DOMAIN saves /\ more[k] = saves[k]
  OBVIOUS
<1>2. QED
  BY <1>1 DEF SavedAt

LEMMA WriteDate ==
  ASSUME Inv, DateInv, NEW u \in Users, Write(u)
  PROVE  DateInv'
<1> DEFINE new == [text |-> page'.text, author |-> page'.author, by |-> u, kind |-> op[u].kind, time |-> clock + 1]
<1>1. /\ op[u].stage = "archived" /\ clock' = clock + 1 /\ page'.date = clock + 1
      /\ timeline' = Append(timeline, new) /\ UNCHANGED <<history, undated>>
      /\ lost \subseteq lost' /\ (op[u].seen # LastSave => LastSave \in lost')
      /\ timeline \in Seq(Changes) /\ op \in [Users -> Ops]
  BY DEF Write, Inv, TypeOK, Changes
<1>2. op[u] \in [stage : {"fetched", "archived", "written"}, kind : Kinds,
                 text : 0..MaxTime, og : Versions, seen : Times]
  BY <1>1, OpTypes DEF Inv
<1>3. op'[u].stage \notin {"fetched", "archived"} /\ \A w \in Users \ {u} : op'[w] = op[w]
  <2>1. op'[u] = Idle \/ op'[u] = [op[u] EXCEPT !.stage = "written"]
    BY <1>1 DEF Write
  <2>2. op'[u].stage \in {"idle", "written"}
    BY <1>2, <2>1 DEF Idle
  <2>3. QED
    BY <1>1, <2>2 DEF Write
<1>4. new.time = clock + 1 /\ new.text = page'.text
  OBVIOUS
<1> HIDE DEF new
<1> DEFINE n == Len(timeline) + 1
<1>5. /\ Len(timeline') = n /\ DOMAIN timeline' = DOMAIN timeline \cup {n} /\ n \notin DOMAIN timeline
      /\ \A i \in DOMAIN timeline : timeline'[i] = timeline[i]
      /\ timeline'[n] = new
  <2>1. timeline' = Append(timeline, new) /\ timeline \in Seq(Changes)
    BY <1>1
  <2>2. /\ Len(timeline') = n /\ Len(timeline) \in Nat /\ DOMAIN timeline = 1..Len(timeline)
        /\ DOMAIN timeline' = 1..n
        /\ timeline'[n] = new /\ \A i \in 1..Len(timeline) : timeline'[i] = timeline[i]
    BY <2>1
  <2>3. QED
    BY <2>2
<1> HIDE DEF n
<1>6. LastSave' = clock + 1
  BY <1>4, <1>5 DEF LastSave
<1>7. ASSUME NEW v, v.date \in Nat, v.date <= clock
      PROVE  /\ \A t : SavedAt(timeline', v, t) <=> SavedAt(timeline, v, t)
             /\ \A t : Tells(timeline, undated, v, t) => Tells(timeline', undated, v, t)
             /\ Shows(timeline, clock, v) => Shows(timeline', clock', v)
  <2>1. ~(timeline'[n].time <= v.date)
    BY <1>4, <1>5, <1>7, DateTypes
  <2>2. \A t : SavedAt(timeline', v, t) <=> SavedAt(timeline, v, t)
    BY <1>5, <2>1, LaterSave
  <2>3. v.date <= clock'
    BY <1>1, <1>7, DateTypes
  <2>4. QED
    BY <1>5, <2>2, <2>3 DEF Tells, Shows
<1>8. \A v \in history : v.date \in Nat /\ v.date <= clock /\ Shows(timeline, clock, v)
  BY DateTypes DEF DateInv, Shows
<1>9. \A v \in history : Shows(timeline', clock', v)
  BY <1>7, <1>8
<1>10. SavedAt(timeline', page', clock + 1)
  <2>1. \A k \in DOMAIN timeline' : timeline'[k].time <= clock + 1
    BY <1>4, <1>5, DateTypes
  <2>2. clock + 1 <= page'.date
    BY <1>1, DateTypes
  <2>3. QED
    BY <2>1, <2>2 DEF SavedAt
<1>11. Shows(timeline', clock', page')
  <2>1. n \in DOMAIN timeline' /\ timeline'[n].text = page'.text /\ timeline'[n].time = clock + 1 /\ page'.date <= clock'
    BY <1>1, <1>4, <1>5, DateTypes
  <2>2. QED
    BY <1>10, <2>1 DEF Shows
<1>12. Tells(timeline', undated, page', LastSave')
  BY <1>1, <1>6, <1>10 DEF Tells
<1>13. ASSUME NEW t, Told(timeline, undated, history, lost, t)
       PROVE  Told(timeline', undated, history, lost', t)
  BY <1>1, <1>7, <1>8, <1>13 DEF Told
<1>14. ASSUME NEW i \in DOMAIN timeline', i # Len(timeline')
       PROVE  Told(timeline', undated, history, lost', timeline'[i].time)
  <2>1. i \in DOMAIN timeline /\ timeline'[i] = timeline[i]
    BY <1>5, <1>14
  <2> DEFINE t == timeline[i].time
  <2>2. i = Len(timeline) => t = LastSave
    BY <2>1, DateTypes
  <2>3. CASE Told(timeline, undated, history, lost, t)
    BY <1>13, <2>1, <2>3
  <2>4. CASE i = Len(timeline) /\ op[u].seen # LastSave
    BY <1>1, <2>1, <2>2, <2>4 DEF Told
  <2>5. CASE i = Len(timeline) /\ op[u].seen = LastSave
    <3>1. op[u].og \in history
      BY <1>1 DEF Inv, ArchivedIsVersion
    <3>2. \E v \in history \cup {op[u].og} : Tells(timeline, undated, v, op[u].seen)
      BY <1>1 DEF DateInv, FetchTells
    <3>3. Told(timeline, undated, history, lost, t)
      BY <2>2, <2>5, <3>1, <3>2 DEF Told
    <3>4. QED
      BY <1>13, <2>1, <3>3
  <2>6. QED
    BY <2>1, <2>3, <2>4, <2>5 DEF DateInv
<1>15. ASSUME NEW w \in Users
       PROVE  FetchTells(timeline', undated, clock', history, op'[w])
  <2>1. CASE op'[w].stage \notin {"fetched", "archived"}
    BY <2>1 DEF FetchTells
  <2>2. CASE op'[w] = op[w] /\ op[w].stage \in {"fetched", "archived"}
    <3> DEFINE og == op[w].og
               seen == op[w].seen
    <3>1. /\ og.date \in Nat /\ og.date <= clock /\ SavedAt(timeline, og, seen)
          /\ \E v \in history \cup {og} : Tells(timeline, undated, v, seen)
      BY <2>2, DateTypes DEF DateInv, FetchTells
    <3> HIDE DEF og, seen
    <3>2. og.date <= clock' /\ SavedAt(timeline', og, seen)
      BY <1>1, <1>7, <3>1, DateTypes
    <3>3. \E v \in history \cup {og} : Tells(timeline', undated, v, seen)
      BY <1>7, <1>8, <3>1
    <3>4. QED
      BY <2>2, <3>2, <3>3 DEF FetchTells, og, seen
  <2>3. QED
    BY <1>3, <2>1, <2>2
<1>16. QED
  BY <1>1, <1>9, <1>11, <1>12, <1>14, <1>15 DEF DateInv

LEMMA NextDate == Inv /\ DateInv /\ [Next]_vars => DateInv'
<1> SUFFICES ASSUME Inv, DateInv, [Next]_vars PROVE DateInv'
  OBVIOUS
<1>1. ASSUME NEW u \in Users, UNCHANGED <<clock, page, history, timeline, undated, lost>>,
             \E o : op' = [op EXCEPT ![u] = o] /\ o.stage \notin {"fetched", "archived"}
      PROVE  DateInv'
  <2>1. \A w \in Users : op'[w] = op[w] \/ op'[w].stage \notin {"fetched", "archived"}
    BY <1>1 DEF Inv, TypeOK
  <2>2. QED
    BY <1>1, <2>1, QuietDate
<1>2. ASSUME NEW u \in Users, NEW kind, NEW text, Start(u, kind, text)
      PROVE  DateInv'
  <2>1. [stage |-> "started", kind |-> kind, text |-> text].stage \notin {"fetched", "archived"}
    OBVIOUS
  <2>2. QED
    BY <1>1, <1>2, <2>1 DEF Start, Ghosts
<1>3. CASE ReconnectLinks
  <2>1. /\ Touch /\ UNCHANGED <<history, timeline, lost, op>>
        /\ undated \subseteq undated' /\ KeptText \in undated'
    BY <1>3 DEF ReconnectLinks
  <2>2. QED
    BY <2>1, TouchDate
<1>4. ASSUME NEW u \in Users, UserStep(u)
      PROVE  DateInv'
  <2>1. CASE StartEdit(u) \/ StartConvert(u) \/ StartMove(u) \/ StartRestore(u) \/ StartRevert(u)
    BY <1>2, <2>1 DEF StartEdit, StartConvert, StartMove, StartRestore, StartRevert
  <2>2. CASE Fetch(u)
    BY <2>2, FetchDate
  <2>3. CASE Archive(u)
    BY <2>3, ArchiveDate
  <2>4. CASE Write(u)
    BY <2>4, WriteDate
  <2>5. CASE Fails(u)
    <3>1. Idle.stage \notin {"fetched", "archived"}
      BY DEF Idle
    <3>2. QED
      BY <1>1, <2>5, <3>1 DEF Fails, Ghosts
  <2>6. CASE Render(u)
    <3>1. /\ Touch /\ UNCHANGED <<history, timeline, lost>>
          /\ undated \subseteq undated' /\ KeptText \in undated'
      BY <2>6 DEF Render
    <3>2. \A w \in Users : op'[w] = op[w] \/ op'[w].stage \notin {"fetched", "archived"}
      BY <2>6 DEF Render, Idle, Inv, TypeOK
    <3>3. QED
      BY <3>1, <3>2, TouchDate
  <2>7. CASE Move(u)
    <3>1. /\ Touch /\ UNCHANGED <<history, timeline, lost>> /\ op[u].stage = "archived"
          /\ undated \subseteq undated' /\ (op[u].seen = LastSave \/ KeptText \in undated')
      BY <2>7 DEF Move
    <3>2. \A w \in Users : op'[w] = op[w] \/ op'[w].stage \notin {"fetched", "archived"}
      BY <2>7 DEF Move, Idle, Inv, TypeOK
    <3>3. op[u].og \in history
      BY <3>1 DEF Inv, ArchivedIsVersion
    <3>4. \E v \in history \cup {op[u].og} : Tells(timeline, undated, v, op[u].seen)
      BY <3>1 DEF DateInv, FetchTells
    <3>5. KeptText \in undated' \/ \E v \in history : Tells(timeline, undated, v, LastSave)
      BY <3>1, <3>3, <3>4
    <3>6. QED
      BY <3>1, <3>2, <3>5, TouchDate
  <2>8. QED
    BY <1>4, <2>1, <2>2, <2>3, <2>4, <2>5, <2>6, <2>7 DEF UserStep
<1>5. CASE UNCHANGED vars
  <2>1. UNCHANGED <<clock, page, history, timeline, undated, lost>> /\ op' = op
    BY <1>5 DEF vars
  <2>2. QED
    BY <2>1, QuietDate
<1>6. QED
  BY <1>3, <1>4, <1>5 DEF Next

LEMMA DatesHold == Spec => [](Inv /\ DateInv)
  BY InitInv, NextInv, InitDate, NextDate, PTL DEF Spec

(***************************************************************************)
(* What a plan to revert does.                                             *)
(***************************************************************************)
States == history \cup {page}
Older(s) == {v \in States : ~(v.date >= s)}

(* The version a plan names, and what it found to plan so. *)
LEMMA PlanMeans ==
  ASSUME NEW a, NEW s, NEW others \in BOOLEAN
  PROVE  /\ PlanRevert(a, s, others).status = "untouched" =>
              \A v \in States : v.date >= s => v.author # a
         /\ PlanRevert(a, s, others).status = "revert" =>
              /\ Older(s) # {} /\ PlanRevert(a, s, others).baseline = Latest(Older(s))
              /\ ~others => \A v \in States : v.date >= s => v.author = a
<1> DEFINE changes == {v \in States : v.date >= s}
<1>1. Older(s) = States \ changes
  BY DEF Older
<1>2. PlanRevert(a, s, others) =
        [status |-> IF \A v \in changes : v.author # a THEN "untouched"
                    ELSE IF Older(s) = {} THEN "created"
                    ELSE IF ~others /\ \E v \in changes : v.author # a THEN "conflict"
                    ELSE "revert",
         baseline |-> IF Older(s) = {} THEN page ELSE Latest(Older(s))]
  BY <1>1 DEF PlanRevert, States
<1> HIDE DEF States, Older
<1>3. QED
  BY <1>2

(* Some version is the latest of any: their dates are bounded. *)
LEMMA LatestIsLatest ==
  ASSUME NEW versions \in SUBSET Versions, versions # {}
  PROVE  Latest(versions) \in versions /\ \A w \in versions : w.date <= Latest(versions).date
<1> DEFINE dates == {v.date : v \in versions}
<1>1. MaxTime \in Nat /\ dates \in SUBSET (1..MaxTime) /\ dates # {}
  BY HistoryAssumption DEF Versions, Times
<1>2. \E d \in dates : \A e \in dates : e <= d
  <2> HIDE DEF dates
  <2>1. QED
    BY <1>1, LastIndex
<1>3. \E v \in versions : \A w \in versions : w.date <= v.date
  BY <1>2
<1>4. QED
  BY <1>3 DEF Latest

(* Of the saves before a time, the page showed the last. *)
LEMMA BeforeIsLast ==
  ASSUME Inv, NEW s \in Nat, NEW k \in DOMAIN timeline, timeline[k].time < s
  PROVE  \E m \in DOMAIN timeline :
           /\ Before(s) = timeline[m] /\ timeline[m].time < s
           /\ \A i \in DOMAIN timeline : timeline[i].time < s => timeline[i].time <= timeline[m].time
<1> DEFINE before == {i \in DOMAIN timeline : timeline[i].time < s}
<1>1. /\ DOMAIN timeline = 1..Len(timeline) /\ Len(timeline) \in Nat
      /\ before \in SUBSET (1..Len(timeline)) /\ before # {}
  BY DateTypes
<1>2. PICK m \in before : \A i \in before : i <= m
  <2> HIDE DEF before
  <2>1. QED
    BY <1>1, LastIndex
<1>3. m \in Nat /\ m \in 1..Len(timeline) /\ timeline[m].time < s
  BY <1>1, <1>2
<1>4. \A i \in DOMAIN timeline : timeline[i].time \in Nat /\ (i < m => timeline[i].time < timeline[m].time)
  BY <1>1, <1>3, DateTypes
<1>5. before = 1..m
  <2>1. \A i \in 1..m : i \in before
    BY <1>1, <1>3, <1>4
  <2>2. \A i \in before : i \in 1..m
    BY <1>1, <1>2, <1>3
  <2>3. QED
    BY <2>1, <2>2
<1>6. Cardinality(before) = m
  <2>1. Cardinality(1..m) = IF 1 > m THEN 0 ELSE m - 1 + 1
    BY <1>3, FS_Interval
  <2>2. m >= 1
    BY <1>3
  <2>3. Cardinality(1..m) = m
    BY ONLY <1>3, <2>1, <2>2
  <2>4. Cardinality(before) = Cardinality(1..m)
    BY <1>5
  <2>5. QED
    BY ONLY <2>3, <2>4
<1>7. Before(s) = timeline[m]
  BY <1>6 DEF Before
<1>8. \A i \in DOMAIN timeline : timeline[i].time < s => timeline[i].time <= timeline[m].time
  BY <1>1, <1>3, <1>4, <1>5
<1>9. QED
  BY <1>1, <1>3, <1>7, <1>8

(* A page its user changed since the date is never reported untouched,      *)
(* unless that change was lost or was a conversion of another's text, which *)
(* the row goes on crediting to the other (pages.js:627-631).               *)
THEOREM PlansMissNothing == Spec => []PlanMissesNoChange
<1>1. ASSUME Inv, OnlyUnseenTextsAreLost PROVE PlanMissesNoChange
  <2> SUFFICES ASSUME NEW a \in Users, NEW s \in 1..clock,
                      PlanRevert(a, s, FALSE).status = "untouched",
                      NEW j \in DOMAIN timeline, timeline[j].time >= s, timeline[j].time \notin lost
               PROVE  timeline[j].by # a \/ (timeline[j].kind = "convert" /\ timeline[j].author # a)
    BY DEF PlanMissesNoChange, Since
  <2>1. \A v \in States : v.date >= s => v.author # a
    BY PlanMeans
  <2>2. PICK v \in States : v.author = timeline[j].author /\ v.date >= timeline[j].time
    BY <1>1 DEF OnlyUnseenTextsAreLost, States
  <2>3. v.date >= s
    BY <1>1, <2>2, DateTypes DEF States
  <2>4. timeline[j].kind # "convert" => timeline[j].author = timeline[j].by
    BY <1>1 DEF Inv, TimelineGrows
  <2>5. QED
    BY <2>1, <2>2, <2>3, <2>4
<1>2. QED
  BY <1>1, Invariance, LossOnlyUnseen, PTL

(* A plan that may not undo what others did undoes no change of anybody     *)
(* else, but for lost ones and conversions of the user's own text, and      *)
(* names a version from before the date, which a page created since then    *)
(* has not.                                                                 *)
THEOREM OthersKeepTheirSaves == Spec => []RevertKeepsOthers
<1>1. ASSUME Inv, OnlyUnseenTextsAreLost PROVE RevertKeepsOthers
  <2> SUFFICES ASSUME NEW a \in Users, NEW s \in 1..clock, PlanRevert(a, s, FALSE).status = "revert"
               PROVE  /\ s > timeline[1].time
                      /\ \A c \in Since(s) : c.by = a \/ c.time \in lost \/ (c.kind = "convert" /\ c.author = a)
    BY DEF RevertKeepsOthers
  <2>1. Older(s) # {} /\ \A v \in States : v.date >= s => v.author = a
    BY PlanMeans
  <2>2. s > timeline[1].time
    <3>1. PICK v \in States : ~(v.date >= s)
      BY <2>1 DEF Older
    <3>2. PICK i \in DOMAIN timeline : timeline[i].time <= v.date
      BY <1>1 DEF Inv, VersionsAreTrue, States
    <3>3. 1 \in DOMAIN timeline /\ i >= 1 /\ timeline[1].time <= timeline[i].time
      BY <1>1, DateTypes
    <3>4. timeline[1].time \in Nat /\ timeline[i].time \in Nat /\ v.date \in Nat
      BY <1>1, <3>3, DateTypes DEF States
    <3>5. QED
      BY <3>1, <3>2, <3>3, <3>4
  <2>3. ASSUME NEW j \in DOMAIN timeline, timeline[j].time >= s, timeline[j].time \notin lost
        PROVE  timeline[j].by = a \/ (timeline[j].kind = "convert" /\ timeline[j].author = a)
    <3>1. PICK v \in States : v.author = timeline[j].author /\ v.date >= timeline[j].time
      BY <1>1, <2>3 DEF OnlyUnseenTextsAreLost, States
    <3>2. v.date >= s
      BY <1>1, <2>3, <3>1, DateTypes DEF States
    <3>3. timeline[j].kind # "convert" => timeline[j].author = timeline[j].by
      BY <1>1 DEF Inv, TimelineGrows
    <3>4. QED
      BY <2>1, <3>1, <3>2, <3>3
  <2>4. QED
    BY <2>2, <2>3 DEF Since
<1>2. QED
  BY <1>1, Invariance, LossOnlyUnseen, PTL

(* As long as updatedAt tells saves from rerenders and the version was not  *)
(* lost, a plan to revert names the text the page had just before the date, *)
(* whatever moves, restores and conversions there were.                     *)
THEOREM RevertsFindTheBaseline == Spec => []RevertRestoresBaseline
<1>1. ASSUME Inv, DateInv PROVE RevertRestoresBaseline
  <2> SUFFICES ASSUME NEW a \in Users, NEW s \in 2..clock, NEW others \in BOOLEAN,
                      PlanRevert(a, s, others).status = "revert", DatesTell(s), Before(s).time \notin lost
               PROVE  PlanRevert(a, s, others).baseline.text = Before(s).text
    BY DEF RevertRestoresBaseline
  <2>1. Older(s) # {} /\ PlanRevert(a, s, others).baseline = Latest(Older(s))
    BY PlanMeans
  <2>2. s \in Nat /\ \A v \in States : v.date \in Nat
    BY <1>1, DateTypes DEF States
  <2>3. States \subseteq Versions
    BY <1>1 DEF Inv, TypeOK, States
  <2> DEFINE b == Latest(Older(s))
  <2>4. b \in Older(s) /\ \A w \in Older(s) : w.date <= b.date
    BY <2>1, <2>3, LatestIsLatest DEF Older
  <2> HIDE DEF b
  <2>5. b \in States /\ b.date < s
    BY <2>2, <2>4 DEF Older
  <2>6. PICK i \in DOMAIN timeline : timeline[i].text = b.text /\ SavedAt(timeline, b, timeline[i].time)
    BY <1>1, <2>5 DEF DateInv, Shows, States
  <2>7. timeline[i].time <= b.date /\ timeline[i].time < s /\ timeline[i].time \in Nat
    <3>1. timeline[i].time \in Nat /\ b.date \in Nat
      BY <1>1, <2>2, <2>5, DateTypes
    <3>2. timeline[i].time <= b.date
      BY <2>6 DEF SavedAt
    <3>3. QED
      BY <2>2, <2>5, <3>1, <3>2
  <2>8. PICK m \in DOMAIN timeline :
          /\ Before(s) = timeline[m] /\ timeline[m].time < s
          /\ \A k \in DOMAIN timeline : timeline[k].time < s => timeline[k].time <= timeline[m].time
    BY <1>1, <2>2, <2>7, BeforeIsLast
  <2> DEFINE t == timeline[m].time
  <2>9. t \in Nat
    BY <1>1, DateTypes
  (* Some version tells when that save was, and it dates from before s. *)
  <2>10. \E v \in States : Tells(timeline, undated, v, t)
    <3>1. CASE m = Len(timeline)
      BY <1>1, <3>1, DateTypes DEF DateInv, States
    <3>2. CASE m # Len(timeline)
      BY <1>1, <2>8, <3>2 DEF DateInv, Told, States
    <3>3. QED
      BY <3>1, <3>2
  <2>11. PICK v \in States : Tells(timeline, undated, v, t)
    BY <2>10
  <2>12. v \in Older(s)
    <3>1. CASE v.date = t
      BY <2>2, <2>8, <2>9, <3>1 DEF Older
    <3>2. CASE [saved |-> t, at |-> v.date] \in undated
      <4> DEFINE w == [saved |-> t, at |-> v.date]
      <4>1. ~(w.saved < s /\ w.at >= s)
        BY <3>2 DEF DatesTell
      <4>2. ~(v.date >= s)
        BY <2>8, <4>1
      <4>3. QED
        BY <4>2 DEF Older
    <3>3. QED
      BY <2>11, <3>1, <3>2 DEF Tells
  <2>13. t <= b.date
    <3>1. t <= v.date /\ v.date <= b.date
      BY <2>4, <2>11, <2>12 DEF Tells, SavedAt
    <3>2. QED
      BY <2>2, <2>5, <2>9, <3>1
  <2>14. t = timeline[i].time
    <3>1. t <= timeline[i].time
      BY <2>6, <2>13 DEF SavedAt
    <3>2. timeline[i].time <= t
      BY <2>7, <2>8
    <3>3. QED
      BY <2>7, <2>9, <3>1, <3>2
  <2>15. i = m
    <3>1. i \in Nat /\ m \in Nat /\ ~(i < m) /\ ~(m < i)
      BY <1>1, <2>7, <2>14, DateTypes
    <3>2. QED
      BY <3>1
  <2>16. QED
    BY <2>1, <2>6, <2>8, <2>15 DEF b
<1>2. QED
  BY <1>1, DatesHold, PTL
=============================================================================
