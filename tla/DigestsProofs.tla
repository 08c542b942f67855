--------------------------- MODULE DigestsProofs ---------------------------
(***************************************************************************)
(* Theorems about Digests, for any users, pages, watches and runs: nobody  *)
(* is mailed of an event twice, and those who are to be mailed are.        *)
(***************************************************************************)
EXTENDS Digests, TLAPS

Rows == [status : {"new", "there", "gone"}, path : Paths, hidden : BOOLEAN]
Events == [id : Ids, page : Pages, author : Users, path : Paths, paths : SUBSET Paths,
           hidden : BOOLEAN, sync : BOOLEAN, claim : Runs \cup {Unclaimed}]
RunStates == [step : {"idle", "claimed", "mailing", "done"}, digests : [Users -> SUBSET Ids]]

Types ==
  /\ pages \in [Pages -> Rows]
  /\ acts \subseteq Events /\ activity \subseteq Events
  /\ watches \subseteq PageWatches \cup PathWatches
  /\ run \in [Runs -> RunStates]
  /\ mail \in BOOLEAN
  /\ changes \in 0..MaxChanges /\ watchings \in 0..MaxWatching /\ mishaps \in 0..MaxMishaps
  /\ told \subseteq Users \X Ids /\ due \subseteq Users \X Ids /\ twice = {}

(* Every operation has a number of its own, whether recorded or not. *)
Numbered ==
  /\ \A e \in acts : e.claim = Unclaimed /\ e \notin activity
  /\ \A e \in acts \cup activity : e.id <= changes
  /\ \A e, f \in acts \cup activity : e.id = f.id => e = f

ClaimsAreMade == \A e \in activity : e.claim \in Runs => run[e.claim].step # "idle"

(* A run mails events that it claimed, and of which it told nobody yet. *)
DigestsAreOwn ==
  \A r \in Runs, u \in Users, id \in Ids : id \in run[r].digests[u] =>
    run[r].step = "mailing" /\ <<u, id>> \notin told /\ \E e \in activity : e.id = id /\ e.claim = r
ToldByARun ==
  \A d \in told : \E e \in activity : e.id = d[2] /\ e.claim \in Runs /\ run[e.claim].step \in {"mailing", "done"}

(* One who is to be mailed watches the page until the run has read the      *)
(* watches, and then is in its digest until told.                           *)
Settled(e, d, runs, watching, mailed) ==
  /\ e.claim \notin Runs \/ runs[e.claim].step = "claimed" => d[1] \in Recipients(e, watching)
  /\ e.claim \in Runs =>
       /\ runs[e.claim].step = "mailing" => d \in mailed \/ d[2] \in runs[e.claim].digests[d[1]]
       /\ runs[e.claim].step = "done" => d \in mailed
DueIsKept ==
  /\ \A d \in due : \E e \in activity : e.id = d[2]
  /\ \A e \in activity, d \in due : e.id = d[2] => Settled(e, d, run, watches, told)

(* The inductive invariant. *)
DigestsInv == Types /\ Numbered /\ ClaimsAreMade /\ DigestsAreOwn /\ ToldByARun /\ DueIsKept

LEMMA InitInv == Init => DigestsInv
<1> SUFFICES ASSUME Init PROVE DigestsInv
  OBVIOUS
<1>1. run = [r \in Runs |-> Idle] /\ Idle.step = "idle" /\ Idle.digests = [u \in Users |-> {}] /\ Idle \in RunStates
  BY DEF Init, Idle, RunStates
<1>2. \A r \in Runs, u \in Users : run[r].digests[u] = {}
  BY <1>1
<1>3. Types
  <2>1. pages \in [Pages -> Rows]
    BY DEF Init, Rows
  <2>2. mail \in BOOLEAN
    BY DEF Init
  <2>3. run \in [Runs -> RunStates]
    BY <1>1
  <2>4. changes \in 0..MaxChanges /\ watchings \in 0..MaxWatching /\ mishaps \in 0..MaxMishaps
    BY DigestsAssumption DEF Init
  <2>5. QED
    BY <2>1, <2>2, <2>3, <2>4 DEF Init, Types
<1>4. Numbered /\ ClaimsAreMade /\ DigestsAreOwn /\ ToldByARun /\ DueIsKept
  BY <1>2 DEF Init, Numbered, ClaimsAreMade, DigestsAreOwn, ToldByARun, DueIsKept
<1>5. QED
  BY <1>3, <1>4 DEF DigestsInv

(***************************************************************************)
(* Lemmas.                                                                 *)
(***************************************************************************)

(* A user who watches more is told of more. *)
LEMMA MoreWatches ==
  ASSUME NEW e, NEW fewer, NEW more, fewer \subseteq more
  PROVE  Recipients(e, fewer) \subseteq Recipients(e, more)
BY DEF Recipients

(* What a run has of an event and of somebody who is to be told. *)
LEMMA Facts ==
  ASSUME DigestsInv
  PROVE  /\ \A e, f \in activity : e.id = f.id => e = f
         /\ \A e \in activity : e.id \in Ids /\ e.id \in Nat /\ e.id <= changes /\ (e.claim = Unclaimed \/ e.claim \in Runs)
         /\ Unclaimed \notin Runs
         /\ \A d \in due \cup told : d[1] \in Users /\ d[2] \in Ids /\ d = <<d[1], d[2]>>
         /\ \A r \in Runs : run[r] \in RunStates
         /\ \A r \in Runs, u \in Users : run[r].step # "mailing" => run[r].digests[u] = {}
         /\ changes \in Nat
<1>1. ASSUME NEW r \in Runs, NEW u \in Users, run[r].step # "mailing"
      PROVE  run[r].digests[u] = {}
  <2>1. run[r].digests[u] \subseteq Ids
    BY DEF DigestsInv, Types, RunStates
  <2>2. QED
    BY <1>1, <2>1 DEF DigestsInv, DigestsAreOwn
<1>2. \A e, f \in activity : e.id = f.id => e = f
  BY DEF DigestsInv, Numbered
<1>3. ASSUME NEW e \in activity
      PROVE  e.id \in Ids /\ e.id \in Nat /\ e.id <= changes /\ (e.claim = Unclaimed \/ e.claim \in Runs)
  <2>1. e \in Events
    BY DEF DigestsInv, Types
  <2>2. e.id \in Ids /\ (e.claim = Unclaimed \/ e.claim \in Runs)
    BY <2>1 DEF Events
  <2>3. e.id <= changes
    BY DEF DigestsInv, Numbered
  <2>4. QED
    BY <2>2, <2>3 DEF Ids
<1>4. Unclaimed \notin Runs
  BY DigestsAssumption DEF Unclaimed
<1>5. /\ \A d \in due \cup told : d[1] \in Users /\ d[2] \in Ids /\ d = <<d[1], d[2]>>
      /\ \A r \in Runs : run[r] \in RunStates
      /\ changes \in Nat
  BY DEF DigestsInv, Types
<1>6. QED
  BY <1>1, <1>2, <1>3, <1>4, <1>5

(* While the run has not read the watches, who is told depends on those     *)
(* that are left.                                                           *)
LEMMA StillDueWatches ==
  ASSUME DigestsInv, NEW watching, NEW d \in StillDue(watching), NEW e \in activity, e.id = d[2],
         e.claim \notin Runs \/ run[e.claim].step = "claimed"
  PROVE  d[1] \in Recipients(e, watching)
<1>1. d \in due /\ d[1] \in Users /\ d[2] \in Ids /\ d = <<d[1], d[2]>>
  BY Facts DEF StillDue
<1>2. d \notin told
  BY Facts DEF DigestsInv, ToldByARun
<1>3. ASSUME NEW r \in Runs, d[2] \in run[r].digests[d[1]]
      PROVE  FALSE
  <2>1. run[r].step = "mailing" /\ \E f \in activity : f.id = d[2] /\ f.claim = r
    BY <1>1, <1>3 DEF DigestsInv, DigestsAreOwn
  <2>2. QED
    BY <2>1, Facts
<1>4. PICK f \in activity : f.id = d[2] /\ d[1] \in Recipients(f, watching)
  BY <1>2, <1>3 DEF StillDue
<1>5. QED
  BY <1>4, Facts

(***************************************************************************)
(* Operations on pages and on watches.                                     *)
(***************************************************************************)
LEMMA WritesInv ==
  ASSUME DigestsInv, NEW u \in Users, NEW p \in Pages, NEW row \in Rows, NEW previous \in Paths,
         NEW sync \in BOOLEAN, Writes(u, p, row, previous, sync)
  PROVE  DigestsInv'
<1> DEFINE new == [id |-> changes + 1, page |-> p, author |-> u, path |-> row.path, paths |-> {row.path, previous},
                   hidden |-> row.hidden, sync |-> sync, claim |-> Unclaimed]
<1>1. /\ changes < MaxChanges /\ changes' = changes + 1 /\ pages' = [pages EXCEPT ![p] = row]
      /\ acts' = acts \cup {new}
      /\ UNCHANGED <<activity, watches, run, mail, watchings, mishaps, told, twice, due>>
  BY DEF Writes, bounds, hist
<1>2. changes \in Nat /\ changes + 1 \in Ids /\ changes + 1 \in 0..MaxChanges
  BY <1>1, DigestsAssumption DEF DigestsInv, Types, Ids
<1>3. new \in Events /\ new.id = changes + 1 /\ new.claim = Unclaimed
  BY <1>2 DEF Events, Rows
<1> HIDE DEF new
<1>4. Types'
  BY <1>1, <1>2, <1>3 DEF DigestsInv, Types
<1>5. \A e \in acts \cup activity : e.id \in Nat /\ e.id <= changes /\ e.id # changes + 1
  <2>1. \A e \in acts \cup activity : e.id \in Nat /\ e.id <= changes
    BY DEF DigestsInv, Types, Events, Ids, Numbered
  <2>2. QED
    BY <1>2, <2>1
<1>6. Numbered'
  <2>1. \A e \in acts' : e.claim = Unclaimed /\ e \notin activity
    BY <1>1, <1>3, <1>5 DEF DigestsInv, Numbered
  <2>2. \A e \in acts' \cup activity : e.id <= changes + 1
    BY <1>1, <1>2, <1>3, <1>5
  <2>3. \A e, f \in acts' \cup activity : e.id = f.id => e = f
    BY <1>1, <1>3, <1>5 DEF DigestsInv, Numbered
  <2>4. QED
    BY <1>1, <2>1, <2>2, <2>3 DEF Numbered
<1>7. (ClaimsAreMade /\ DigestsAreOwn /\ ToldByARun /\ DueIsKept)'
  BY <1>1 DEF DigestsInv, ClaimsAreMade, DigestsAreOwn, ToldByARun, DueIsKept
<1>8. QED
  BY <1>4, <1>6, <1>7 DEF DigestsInv

LEMMA PageStepInv ==
  ASSUME DigestsInv, NEW u \in Users, NEW p \in Pages, NEW sync \in BOOLEAN,
         NEW hidden \in BOOLEAN, NEW path \in Paths,
         \/ UpdatePage(u, p, hidden, sync) \/ CreatePage(u, p, path, hidden, sync)
         \/ MovePage(u, p, path, sync) \/ DeletePage(u, p, sync)
  PROVE  DigestsInv'
<1>1. pages[p] \in Rows
  BY DEF DigestsInv, Types
<1>2. /\ [status |-> "there", path |-> path, hidden |-> hidden] \in Rows
      /\ [pages[p] EXCEPT !.hidden = hidden] \in Rows
      /\ [pages[p] EXCEPT !.path = path] \in Rows
      /\ [pages[p] EXCEPT !.status = "gone"] \in Rows
      /\ pages[p].path \in Paths
  BY <1>1 DEF Rows
<1>3. QED
  BY <1>2, WritesInv DEF UpdatePage, CreatePage, MovePage, DeletePage

LEMMA RecordInv ==
  ASSUME DigestsInv, NEW e \in acts, Record(e)
  PROVE  DigestsInv'
<1>1. /\ acts' = acts \ {e} /\ activity' = activity \cup {e}
      /\ due' = due \cup (Recipients(e, watches) \X {e.id})
      /\ UNCHANGED <<pages, watches, run, mail, changes, watchings, mishaps, told, twice>>
  BY DEF Record, bounds, hist
<1>2. e \in Events /\ e.id \in Ids /\ e.claim = Unclaimed /\ Unclaimed \notin Runs /\ e \notin activity
  BY Facts DEF DigestsInv, Types, Numbered, Events
<1>3. \A f \in activity : f.id # e.id
  BY <1>2 DEF DigestsInv, Numbered
<1>4. Types'
  <2>1. Recipients(e, watches) \subseteq Users
    BY DEF Recipients
  <2>2. due' \subseteq Users \X Ids
    BY <1>1, <1>2, <2>1 DEF DigestsInv, Types
  <2>3. QED
    BY <1>1, <1>2, <2>2 DEF DigestsInv, Types
<1>5. Numbered'
  BY <1>1, <1>2 DEF DigestsInv, Numbered
<1>6. (ClaimsAreMade /\ DigestsAreOwn /\ ToldByARun)'
  BY <1>1, <1>2 DEF DigestsInv, ClaimsAreMade, DigestsAreOwn, ToldByARun
<1>7. DueIsKept'
  <2>1. ASSUME NEW d \in due' PROVE \E f \in activity' : f.id = d[2]
    BY <1>1, <2>1 DEF DigestsInv, DueIsKept
  <2>2. ASSUME NEW f \in activity', NEW d \in due', f.id = d[2]
        PROVE  Settled(f, d, run, watches, told)
    <3>1. CASE d \in due
      <4>1. f \in activity
        BY <1>1, <1>3, <2>2, <3>1 DEF DigestsInv, DueIsKept
      <4>2. QED
        BY <2>2, <3>1, <4>1 DEF DigestsInv, DueIsKept
    <3>2. CASE d \in Recipients(e, watches) \X {e.id}
      <4>1. d[1] \in Recipients(e, watches) /\ d[2] = e.id /\ f = e
        BY <1>1, <1>3, <2>2, <3>2
      <4>2. QED
        BY <1>2, <4>1 DEF Settled
    <3>3. QED
      BY <1>1, <3>1, <3>2
  <2>3. QED
    BY <1>1, <2>1, <2>2 DEF DueIsKept
<1>8. QED
  BY <1>4, <1>5, <1>6, <1>7 DEF DigestsInv

LEMMA MishapTypes ==
  ASSUME DigestsInv, Mishap
  PROVE  mishaps' \in 0..MaxMishaps
BY DigestsAssumption DEF DigestsInv, Types, Mishap

LEMMA RecordFailsInv ==
  ASSUME DigestsInv, NEW e \in acts, RecordFails(e)
  PROVE  DigestsInv'
<1>1. /\ acts' = acts \ {e} /\ mishaps' \in 0..MaxMishaps
      /\ UNCHANGED <<activity, due, pages, watches, run, mail, changes, watchings, told, twice>>
  BY MishapTypes DEF RecordFails, hist
<1>2. Types' /\ Numbered'
  BY <1>1 DEF DigestsInv, Types, Numbered
<1>3. (ClaimsAreMade /\ DigestsAreOwn /\ ToldByARun /\ DueIsKept)'
  BY <1>1 DEF DigestsInv, ClaimsAreMade, DigestsAreOwn, ToldByARun, DueIsKept
<1>4. QED
  BY <1>2, <1>3 DEF DigestsInv

LEMMA WatchInv ==
  ASSUME DigestsInv, Watching, NEW w \in PageWatches \cup PathWatches, watches' = watches \cup {w},
         UNCHANGED <<pages, acts, activity, run, mail, changes, mishaps, told, twice, due>>
  PROVE  DigestsInv'
<1>1. watchings' \in 0..MaxWatching
  BY DigestsAssumption DEF DigestsInv, Types, Watching
<1>2. Types' /\ Numbered'
  BY <1>1 DEF DigestsInv, Types, Numbered
<1>3. (ClaimsAreMade /\ DigestsAreOwn /\ ToldByARun)'
  BY DEF DigestsInv, ClaimsAreMade, DigestsAreOwn, ToldByARun
<1>4. \A e : Recipients(e, watches) \subseteq Recipients(e, watches')
  BY MoreWatches
<1>5. DueIsKept'
  BY <1>4 DEF DigestsInv, DueIsKept, Settled
<1>6. QED
  BY <1>2, <1>3, <1>5 DEF DigestsInv

LEMMA RemoveWatchInv ==
  ASSUME DigestsInv, NEW w \in watches, RemoveWatch(w)
  PROVE  DigestsInv'
<1>1. /\ watchings' \in 0..MaxWatching /\ watches' \subseteq watches /\ due' = StillDue(watches')
      /\ UNCHANGED <<pages, acts, activity, run, mail, changes, mishaps, told, twice>>
  BY DigestsAssumption DEF DigestsInv, Types, Watching, RemoveWatch, hist
<1>2. due' \subseteq due
  BY <1>1 DEF StillDue
<1>3. Types' /\ Numbered'
  BY <1>1, <1>2 DEF DigestsInv, Types, Numbered
<1>4. (ClaimsAreMade /\ DigestsAreOwn /\ ToldByARun)'
  BY <1>1 DEF DigestsInv, ClaimsAreMade, DigestsAreOwn, ToldByARun
<1>5. ASSUME NEW e \in activity, NEW d \in due', e.id = d[2]
      PROVE  Settled(e, d, run, watches', told)
  <2>1. Settled(e, d, run, watches, told)
    BY <1>2, <1>5 DEF DigestsInv, DueIsKept
  <2>2. e.claim \notin Runs \/ run[e.claim].step = "claimed" => d[1] \in Recipients(e, watches')
    BY <1>1, <1>5, StillDueWatches
  <2>3. QED
    BY <2>1, <2>2 DEF Settled
<1>6. DueIsKept'
  BY <1>1, <1>2, <1>5 DEF DigestsInv, DueIsKept
<1>7. QED
  BY <1>3, <1>4, <1>6 DEF DigestsInv

(***************************************************************************)
(* The job.                                                                *)
(***************************************************************************)
LEMMA ClaimInv ==
  ASSUME DigestsInv, NEW r \in Runs, Claim(r)
  PROVE  DigestsInv'
<1> DEFINE After(e) == IF e.claim = Unclaimed THEN [e EXCEPT !.claim = r] ELSE e
<1>1. /\ run[r].step = "idle" /\ activity' = {After(e) : e \in activity}
      /\ run' = [run EXCEPT ![r].step = "claimed"]
      /\ UNCHANGED <<pages, acts, watches, mail, changes, watchings, mishaps, told, twice, due>>
  BY DEF Claim, bounds, hist
<1>2. ASSUME NEW e \in activity
      PROVE  /\ After(e) \in Events /\ After(e).id = e.id
             /\ After(e).claim = IF e.claim = Unclaimed THEN r ELSE e.claim
             /\ Recipients(After(e), watches) = Recipients(e, watches)
  <2>1. e \in Events
    BY DEF DigestsInv, Types
  <2>2. CASE e.claim # Unclaimed
    BY <2>1, <2>2
  <2>3. CASE e.claim = Unclaimed
    <3>1. After(e) = [e EXCEPT !.claim = r]
      BY <2>3
    <3>2. /\ After(e) \in Events /\ After(e).claim = r
          /\ After(e).id = e.id /\ After(e).page = e.page /\ After(e).author = e.author /\ After(e).path = e.path
          /\ After(e).paths = e.paths /\ After(e).hidden = e.hidden /\ After(e).sync = e.sync
      BY <2>1, <3>1 DEF Events
    <3> HIDE DEF After
    <3>3. Recipients(After(e), watches) = Recipients(e, watches)
      BY <3>2 DEF Recipients, CanSeeEvent, MatchesWatch
    <3>4. QED
      BY <2>3, <3>2, <3>3
  <2>4. QED
    BY <2>2, <2>3
<1> HIDE DEF After
<1>3. /\ run'[r].step = "claimed" /\ run'[r].digests = run[r].digests /\ run'[r] \in RunStates
      /\ \A q \in Runs \ {r} : run'[q] = run[q]
      /\ run' \in [Runs -> RunStates]
  <2>1. run \in [Runs -> RunStates] /\ run[r] \in RunStates
    BY DEF DigestsInv, Types
  <2>2. [run[r] EXCEPT !.step = "claimed"] \in RunStates
    BY <2>1 DEF RunStates
  <2>3. QED
    BY <1>1, <2>1, <2>2 DEF RunStates
<1>4. \A e \in activity : e.claim # r /\ e.claim \in Runs \cup {Unclaimed} /\ Unclaimed # r
  BY <1>1, Facts DEF DigestsInv, ClaimsAreMade
<1>5. Types'
  BY <1>1, <1>2, <1>3 DEF DigestsInv, Types
<1>6. Numbered'
  <2>1. \A e \in acts : e.claim = Unclaimed /\ e \in Events
    BY DEF DigestsInv, Types, Numbered
  <2>2. \A e \in acts, f \in activity : e.id # After(f).id
    BY <1>2 DEF DigestsInv, Numbered
  <2>3. \A e \in acts : e \notin activity'
    BY <1>1, <2>2
  <2>4. \A e, f \in acts \cup activity' : e.id = f.id => e = f
    BY <1>1, <1>2, <2>2 DEF DigestsInv, Numbered
  <2>5. \A e \in acts \cup activity' : e.id <= changes
    BY <1>1, <1>2 DEF DigestsInv, Numbered
  <2>6. QED
    BY <1>1, <2>1, <2>3, <2>4, <2>5 DEF Numbered
<1>7. ClaimsAreMade'
  BY <1>1, <1>2, <1>3 DEF DigestsInv, ClaimsAreMade
<1>8. DigestsAreOwn'
  <2> SUFFICES ASSUME NEW q \in Runs, NEW u \in Users, NEW id \in Ids, id \in run'[q].digests[u]
               PROVE  run'[q].step = "mailing" /\ <<u, id>> \notin told /\ \E e \in activity' : e.id = id /\ e.claim = q
    BY <1>1 DEF DigestsAreOwn
  <2>1. q # r /\ run'[q] = run[q] /\ id \in run[q].digests[u]
    BY <1>1, <1>3, Facts
  <2>2. PICK e \in activity : e.id = id /\ e.claim = q
    <3>1. id \in run[q].digests[u]
      BY <2>1
    <3>2. QED
      BY ONLY <3>1, DigestsInv DEF DigestsInv, DigestsAreOwn
  <2>3. After(e) \in activity' /\ After(e).id = id /\ After(e).claim = q
    BY <1>1, <1>2, <2>2, Facts
  <2>4. QED
    BY <2>1, <2>3 DEF DigestsInv, DigestsAreOwn
<1>9. ToldByARun'
  <2> SUFFICES ASSUME NEW d \in told
               PROVE  \E e \in activity' : e.id = d[2] /\ e.claim \in Runs /\ run'[e.claim].step \in {"mailing", "done"}
    BY <1>1 DEF ToldByARun
  <2>1. PICK e \in activity : e.id = d[2] /\ e.claim \in Runs /\ run[e.claim].step \in {"mailing", "done"}
    BY DEF DigestsInv, ToldByARun
  <2>2. After(e) \in activity' /\ After(e).id = d[2] /\ After(e).claim = e.claim
    BY <1>1, <1>2, <2>1, Facts
  <2>3. QED
    BY <1>3, <1>4, <2>1, <2>2
<1>10. DueIsKept'
  <2>1. \A d \in due : \E e \in activity' : e.id = d[2]
    BY <1>1, <1>2 DEF DigestsInv, DueIsKept
  <2>2. ASSUME NEW e \in activity, NEW d \in due, e.id = d[2]
        PROVE  Settled(After(e), d, run', watches, told)
    <3>1. Settled(e, d, run, watches, told)
      BY <2>2 DEF DigestsInv, DueIsKept
    <3>2. CASE e.claim = Unclaimed
      <4>1. After(e).claim = r /\ d[1] \in Recipients(After(e), watches)
        BY <1>2, <1>4, <3>1, <3>2, Facts DEF Settled
      <4>2. QED
        BY <1>3, <4>1 DEF Settled
    <3>3. CASE e.claim # Unclaimed
      <4>1. After(e).claim = e.claim /\ e.claim \in Runs /\ run'[e.claim] = run[e.claim]
        BY <1>2, <1>3, <1>4, <3>3
      <4>2. QED
        BY <1>2, <3>1, <4>1 DEF Settled
    <3>4. QED
      BY <3>2, <3>3
  <2>3. \A f \in activity', d \in due : f.id = d[2] => Settled(f, d, run', watches, told)
    BY <1>1, <1>2, <2>2
  <2>4. QED
    BY <1>1, <2>1, <2>3 DEF DueIsKept
<1>11. QED
  BY <1>5, <1>6, <1>7, <1>8, <1>9, <1>10 DEF DigestsInv

LEMMA ReadWatchesInv ==
  ASSUME DigestsInv, NEW r \in Runs, ReadWatches(r)
  PROVE  DigestsInv'
<1> DEFINE digests == [u \in Users |-> {e.id : e \in {f \in OfRun(r) : u \in Recipients(f, watches)}}]
<1>1. /\ run[r].step = "claimed" /\ run' = [run EXCEPT ![r] = [step |-> "mailing", digests |-> digests]]
      /\ UNCHANGED <<pages, acts, activity, watches, mail, changes, watchings, mishaps, told, twice, due>>
  BY DEF ReadWatches, bounds, hist
<1>2. \A u \in Users : \A id : id \in digests[u] <=> \E e \in activity : e.id = id /\ e.claim = r /\ u \in Recipients(e, watches)
  BY DEF OfRun
<1>3. digests \in [Users -> SUBSET Ids]
  BY <1>2, Facts DEF OfRun
<1> HIDE DEF digests
<1>4. /\ run'[r].step = "mailing" /\ run'[r].digests = digests
      /\ \A q \in Runs \ {r} : run'[q] = run[q]
      /\ run' \in [Runs -> RunStates]
  <2>1. run \in [Runs -> RunStates] /\ [step |-> "mailing", digests |-> digests] \in RunStates
    BY <1>3 DEF DigestsInv, Types, RunStates
  <2>2. QED
    BY <1>1, <2>1
<1>5. Types' /\ Numbered'
  BY <1>1, <1>4 DEF DigestsInv, Types, Numbered
<1>6. ClaimsAreMade'
  BY <1>1, <1>4 DEF DigestsInv, ClaimsAreMade
<1>7. DigestsAreOwn'
  <2> SUFFICES ASSUME NEW q \in Runs, NEW u \in Users, NEW id \in Ids, id \in run'[q].digests[u]
               PROVE  run'[q].step = "mailing" /\ <<u, id>> \notin told /\ \E e \in activity : e.id = id /\ e.claim = q
    BY <1>1 DEF DigestsAreOwn
  <2>1. CASE q # r
    BY <1>4, <2>1 DEF DigestsInv, DigestsAreOwn
  <2>2. CASE q = r
    <3>1. PICK e \in activity : e.id = id /\ e.claim = r
      BY <1>2, <1>4, <2>2
    <3>2. <<u, id>> \notin told
      <4>1. SUFFICES ASSUME <<u, id>> \in told PROVE FALSE
        OBVIOUS
      <4>2. PICK f \in activity : f.id = <<u, id>>[2] /\ f.claim \in Runs /\ run[f.claim].step \in {"mailing", "done"}
        BY <4>1 DEF DigestsInv, ToldByARun
      <4>3. f = e
        BY <3>1, <4>2, Facts
      <4>4. QED
        BY <1>1, <3>1, <4>2, <4>3
    <3>3. QED
      BY <1>4, <2>2, <3>1, <3>2
  <2>3. QED
    BY <2>1, <2>2
<1>8. ToldByARun'
  BY <1>1, <1>4 DEF DigestsInv, ToldByARun
<1>9. DueIsKept'
  <2>1. ASSUME NEW e \in activity, NEW d \in due, e.id = d[2]
        PROVE  Settled(e, d, run', watches, told)
    <3>1. Settled(e, d, run, watches, told) /\ d[1] \in Users
      BY <2>1, Facts DEF DigestsInv, DueIsKept
    <3>2. CASE e.claim # r
      <4>1. e.claim \in Runs => run'[e.claim] = run[e.claim]
        BY <1>4, <3>2
      <4>2. QED
        BY <3>1, <4>1 DEF Settled
    <3>3. CASE e.claim = r
      <4>1. d[1] \in Recipients(e, watches)
        BY <1>1, <3>1, <3>3 DEF Settled
      <4>2. d[2] \in digests[d[1]]
        BY <1>2, <2>1, <3>1, <3>3, <4>1
      <4>3. QED
        BY <1>4, <3>3, <4>2 DEF Settled
    <3>4. QED
      BY <3>2, <3>3
  <2>2. QED
    BY <1>1, <2>1 DEF DigestsInv, DueIsKept
<1>10. QED
  BY <1>5, <1>6, <1>7, <1>8, <1>9 DEF DigestsInv

(* A run goes on without a mail: those it leaves out are no longer due, and *)
(* those who are due still watch.                                           *)
LEMMA GoesOnInv ==
  ASSUME DigestsInv, NEW r \in Runs, run[r].step \in {"claimed", "mailing"},
         run' \in [Runs -> RunStates], \A q \in Runs \ {r} : run'[q] = run[q],
         run'[r].step \in {"mailing", "done"}, \A u \in Users : run'[r].digests[u] = {},
         UNCHANGED <<pages, acts, activity, mail, changes, watchings, told, twice>>, mishaps' \in 0..MaxMishaps,
         watches' \subseteq watches, due' \subseteq due,
         \A e \in activity, d \in due' : e.id = d[2] =>
           /\ e.claim = r => d \in told
           /\ e.claim # r => Settled(e, d, run, watches', told)
  PROVE  DigestsInv'
<1>1. Types' /\ Numbered'
  BY DEF DigestsInv, Types, Numbered
<1>2. ClaimsAreMade'
  BY DEF DigestsInv, ClaimsAreMade
<1>3. DigestsAreOwn'
  <2>1. ASSUME NEW q \in Runs, NEW u \in Users, NEW id \in Ids, id \in run'[q].digests[u]
        PROVE  q # r /\ run'[q] = run[q]
    BY <2>1
  <2>2. QED
    BY <2>1 DEF DigestsInv, DigestsAreOwn
<1>4. ToldByARun'
  BY DEF DigestsInv, ToldByARun
<1>5. DueIsKept'
  <2>1. ASSUME NEW e \in activity, NEW d \in due', e.id = d[2]
        PROVE  Settled(e, d, run', watches', told)
    <3>1. CASE e.claim # r
      <4>1. e.claim \in Runs => run'[e.claim] = run[e.claim]
        BY <3>1
      <4>2. Settled(e, d, run, watches', told)
        BY <2>1, <3>1
      <4>3. QED
        BY <4>1, <4>2 DEF Settled
    <3>2. CASE e.claim = r
      <4>1. d \in told /\ run'[r].step # "claimed"
        BY <2>1, <3>2
      <4>2. QED
        BY <3>2, <4>1 DEF Settled
    <3>3. QED
      BY <3>1, <3>2
  <2>2. QED
    BY <2>1 DEF DigestsInv, DueIsKept
<1>6. QED
  BY <1>1, <1>2, <1>3, <1>4, <1>5 DEF DigestsInv

LEMMA NotSentInv ==
  ASSUME DigestsInv, NEW r \in Runs, NotSent(r)
  PROVE  DigestsInv'
<1>1. /\ run[r].step = "claimed" /\ run' = [run EXCEPT ![r].step = "mailing"]
      /\ due' = due \ (Users \X {e.id : e \in OfRun(r)})
      /\ UNCHANGED <<pages, acts, activity, watches, mail, changes, watchings, mishaps, told, twice>>
  BY DEF NotSent, bounds, hist
<1>2. run \in [Runs -> RunStates] /\ \A u \in Users : run[r].digests[u] = {}
  BY <1>1, Facts DEF DigestsInv, Types
<1>3. /\ run' \in [Runs -> RunStates] /\ \A q \in Runs \ {r} : run'[q] = run[q]
      /\ run'[r].step = "mailing" /\ \A u \in Users : run'[r].digests[u] = {}
  <2>1. run[r] \in RunStates /\ [run[r] EXCEPT !.step = "mailing"] \in RunStates
    BY <1>2 DEF RunStates
  <2>2. QED
    BY <1>1, <1>2, <2>1 DEF RunStates
<1>4. mishaps' \in 0..MaxMishaps /\ due' \subseteq due
  BY <1>1 DEF DigestsInv, Types
<1>5. ASSUME NEW e \in activity, NEW d \in due', e.id = d[2]
      PROVE  e.claim # r /\ Settled(e, d, run, watches, told)
  <2>1. e.claim # r
    <3>1. SUFFICES ASSUME e.claim = r PROVE FALSE
      OBVIOUS
    <3>2. d[1] \in Users /\ d = <<d[1], d[2]>> /\ d[2] \in {f.id : f \in OfRun(r)}
      BY <1>4, <1>5, <3>1, Facts DEF OfRun
    <3>3. QED
      BY <1>1, <3>2
  <2>2. QED
    BY <1>4, <1>5, <2>1 DEF DigestsInv, DueIsKept
<1>6. QED
  BY <1>1, <1>2, <1>3, <1>4, <1>5, GoesOnInv

LEMMA StopsInv ==
  ASSUME DigestsInv, NEW r \in Runs, Stops(r)
  PROVE  DigestsInv'
<1>1. /\ run[r].step \in {"claimed", "mailing"} /\ run' = [run EXCEPT ![r] = [Idle EXCEPT !.step = "done"]]
      /\ due' = due \ ((Users \X {e.id : e \in OfRun(r)}) \ told) /\ mishaps' \in 0..MaxMishaps
      /\ UNCHANGED <<pages, acts, activity, watches, mail, changes, watchings, told, twice>>
  BY MishapTypes DEF Stops, hist
<1>2. Idle \in RunStates /\ \A u \in Users : Idle.digests[u] = {}
  BY DEF Idle, RunStates
<1>3. /\ run' \in [Runs -> RunStates] /\ \A q \in Runs \ {r} : run'[q] = run[q]
      /\ run'[r].step = "done" /\ \A u \in Users : run'[r].digests[u] = {}
  <2>1. run \in [Runs -> RunStates] /\ [Idle EXCEPT !.step = "done"] \in RunStates
    BY <1>2 DEF DigestsInv, Types, RunStates
  <2>2. QED
    BY <1>1, <1>2, <2>1 DEF RunStates
<1>4. due' \subseteq due
  BY <1>1
<1>5. ASSUME NEW e \in activity, NEW d \in due', e.id = d[2]
      PROVE  (e.claim = r => d \in told) /\ Settled(e, d, run, watches, told)
  <2>1. ASSUME e.claim = r, d \notin told PROVE FALSE
    <3>1. d[1] \in Users /\ d = <<d[1], d[2]>> /\ d[2] \in {f.id : f \in OfRun(r)}
      BY <1>4, <1>5, <2>1, Facts DEF OfRun
    <3>2. QED
      BY <1>1, <2>1, <3>1
  <2>2. QED
    BY <1>4, <1>5, <2>1 DEF DigestsInv, DueIsKept
<1>6. QED
  BY <1>1, <1>2, <1>3, <1>4, <1>5, GoesOnInv

LEMMA CleanUpInv ==
  ASSUME DigestsInv, NEW r \in Runs, CleanUp(r)
  PROVE  DigestsInv'
<1>1. /\ run[r].step = "mailing" /\ run' = [run EXCEPT ![r].step = "done"] /\ \A u \in Users : run[r].digests[u] = {}
      /\ due' = StillDue(watches') /\ watches' \subseteq watches
      /\ UNCHANGED <<pages, acts, activity, mail, changes, watchings, mishaps, told, twice>>
  BY DEF CleanUp, bounds, hist
<1>2. run \in [Runs -> RunStates] /\ \A u \in Users : run[r].digests[u] = {}
  BY <1>1, Facts DEF DigestsInv, Types
<1>3. /\ run' \in [Runs -> RunStates] /\ \A q \in Runs \ {r} : run'[q] = run[q]
      /\ run'[r].step = "done" /\ \A u \in Users : run'[r].digests[u] = {}
  <2>1. run[r] \in RunStates /\ [run[r] EXCEPT !.step = "done"] \in RunStates
    BY <1>2 DEF RunStates
  <2>2. QED
    BY <1>1, <1>2, <2>1 DEF RunStates
<1>4. mishaps' \in 0..MaxMishaps /\ due' \subseteq due
  BY <1>1 DEF DigestsInv, Types, StillDue
<1>5. ASSUME NEW e \in activity, NEW d \in due', e.id = d[2]
      PROVE  (e.claim = r => d \in told) /\ Settled(e, d, run, watches', told)
  <2>1. Settled(e, d, run, watches, told)
    BY <1>4, <1>5 DEF DigestsInv, DueIsKept
  <2>2. e.claim = r => d \in told
    BY <1>1, <1>4, <2>1, Facts DEF Settled
  <2>3. e.claim \notin Runs \/ run[e.claim].step = "claimed" => d[1] \in Recipients(e, watches')
    BY <1>1, <1>5, StillDueWatches
  <2>4. QED
    BY <2>1, <2>2, <2>3 DEF Settled
<1>6. QED
  BY <1>1, <1>2, <1>3, <1>4, <1>5, GoesOnInv

(* One mail is sent, or fails and is due no longer. *)
LEMMA MailedInv ==
  ASSUME DigestsInv, NEW r \in Runs, NEW u \in Users, Mailed(r, u), mishaps' \in 0..MaxMishaps,
         told' \in {told, told \cup Digest(r, u)}, twice' = {}, due' \subseteq due, due' \cap Digest(r, u) \subseteq told'
  PROVE  DigestsInv'
<1>1. /\ run[r].step = "mailing" /\ run' = [run EXCEPT ![r].digests[u] = {}]
      /\ UNCHANGED <<pages, acts, activity, watches, mail, changes, watchings>>
  BY DEF Mailed
<1>2. run \in [Runs -> RunStates] /\ run[r] \in RunStates /\ run[r].digests \in [Users -> SUBSET Ids]
  BY DEF DigestsInv, Types, RunStates
<1>3. /\ run'[r].step = "mailing" /\ run'[r].digests = [run[r].digests EXCEPT ![u] = {}]
      /\ \A q \in Runs \ {r} : run'[q] = run[q]
      /\ run' \in [Runs -> RunStates]
  <2>1. run'[r] = [run[r] EXCEPT !.digests = [run[r].digests EXCEPT ![u] = {}]]
    BY <1>1, <1>2
  <2>2. [run[r].digests EXCEPT ![u] = {}] \in [Users -> SUBSET Ids]
    BY <1>2
  <2>3. run'[r] \in RunStates /\ run'[r].step = "mailing" /\ run'[r].digests = [run[r].digests EXCEPT ![u] = {}]
    BY <1>1, <1>2, <2>1, <2>2 DEF RunStates
  <2>4. QED
    BY <1>1, <1>2, <2>3
<1>4. \A q \in Runs : run'[q].step = run[q].step
  BY <1>1, <1>3
<1>5. ASSUME NEW q \in Runs, NEW w \in Users
      PROVE  run'[q].digests[w] = IF q = r /\ w = u THEN {} ELSE run[q].digests[w]
  BY <1>2, <1>3
<1>6. \A id : id \in run[r].digests[u] => id \in Ids
  BY <1>2
<1>7. told' \subseteq Users \X Ids
  BY <1>6 DEF DigestsInv, Types, Digest
<1>8. Types' /\ Numbered'
  BY <1>1, <1>3, <1>7 DEF DigestsInv, Types, Numbered
<1>9. ClaimsAreMade'
  BY <1>1, <1>4 DEF DigestsInv, ClaimsAreMade
<1>10. DigestsAreOwn'
  <2> SUFFICES ASSUME NEW q \in Runs, NEW w \in Users, NEW id \in Ids, id \in run'[q].digests[w]
               PROVE  run'[q].step = "mailing" /\ <<w, id>> \notin told' /\ \E e \in activity : e.id = id /\ e.claim = q
    BY <1>1 DEF DigestsAreOwn
  <2>1. id \in run[q].digests[w] /\ ~(q = r /\ w = u)
    BY <1>5
  <2>2. run[q].step = "mailing" /\ <<w, id>> \notin told /\ \E e \in activity : e.id = id /\ e.claim = q
    BY ONLY <2>1, DigestsInv DEF DigestsInv, DigestsAreOwn
  <2>3. <<w, id>> \notin Digest(r, u)
    <3>1. SUFFICES ASSUME w = u, id \in run[r].digests[u] PROVE FALSE
      BY DEF Digest
    <3>2. \E e \in activity : e.id = id /\ e.claim = r
      BY ONLY <3>1, DigestsInv, r \in Runs, u \in Users, id \in Ids DEF DigestsInv, DigestsAreOwn
    <3>3. QED
      BY <2>1, <2>2, <3>1, <3>2, Facts
  <2>4. QED
    BY <1>4, <2>2, <2>3
<1>11. ToldByARun'
  <2> SUFFICES ASSUME NEW d \in told'
               PROVE  \E e \in activity : e.id = d[2] /\ e.claim \in Runs /\ run'[e.claim].step \in {"mailing", "done"}
    BY <1>1 DEF ToldByARun
  <2>1. CASE d \in told
    BY <1>4, <2>1 DEF DigestsInv, ToldByARun
  <2>2. CASE d \in Digest(r, u)
    <3>1. d[2] \in run[r].digests[u] /\ d[2] \in Ids
      BY <1>6, <2>2 DEF Digest
    <3>2. \E e \in activity : e.id = d[2] /\ e.claim = r
      <4>1. \A id \in Ids : id \in run[r].digests[u] => \E e \in activity : e.id = id /\ e.claim = r
        BY ONLY DigestsInv, r \in Runs, u \in Users DEF DigestsInv, DigestsAreOwn
      <4>2. QED
        BY ONLY <3>1, <4>1
    <3>3. QED
      BY <1>3, <3>2
  <2>3. QED
    BY <2>1, <2>2
<1>12. DueIsKept'
  <2>1. ASSUME NEW e \in activity, NEW d \in due', e.id = d[2]
        PROVE  Settled(e, d, run', watches, told')
    <3>1. Settled(e, d, run, watches, told) /\ d[1] \in Users /\ d = <<d[1], d[2]>> /\ told \subseteq told'
      BY <2>1, Facts DEF DigestsInv, DueIsKept
    <3>2. CASE e.claim = r /\ d \in told'
      BY <1>3, <3>2 DEF Settled
    <3>3. CASE e.claim = r /\ d \notin told'
      <4>1. d[2] \in run[r].digests[d[1]]
        BY <1>1, <3>1, <3>3 DEF Settled
      <4>2. d[1] # u
        BY <3>1, <3>3, <4>1 DEF Digest
      <4>3. d[2] \in run'[r].digests[d[1]]
        BY <1>5, <3>1, <4>1, <4>2
      <4>4. QED
        BY <1>3, <3>3, <4>3 DEF Settled
    <3>4. CASE e.claim # r
      <4>1. e.claim \in Runs => run'[e.claim] = run[e.claim]
        BY <1>3, <3>4
      <4>2. QED
        BY <3>1, <4>1 DEF Settled
    <3>5. QED
      BY <3>2, <3>3, <3>4
  <2>2. QED
    BY <1>1, <2>1 DEF DigestsInv, DueIsKept
<1>13. QED
  BY <1>8, <1>9, <1>10, <1>11, <1>12 DEF DigestsInv

LEMMA SendMailInv ==
  ASSUME DigestsInv, NEW r \in Runs, NEW u \in Users, SendMail(r, u)
  PROVE  DigestsInv'
<1>1. /\ Mailed(r, u) /\ told' = told \cup Digest(r, u)
      /\ twice' = twice \cup (Digest(r, u) \cap told) /\ UNCHANGED <<mishaps, due>>
  BY DEF SendMail
<1>2. Digest(r, u) \cap told = {}
  <2>1. ASSUME NEW id \in run[r].digests[u] PROVE <<u, id>> \notin told
    <3>1. id \in Ids
      BY DEF DigestsInv, Types, RunStates
    <3>2. QED
      BY <3>1 DEF DigestsInv, DigestsAreOwn
  <2>2. QED
    BY <2>1 DEF Digest
<1>3. twice' = {} /\ mishaps' \in 0..MaxMishaps
  BY <1>1, <1>2 DEF DigestsInv, Types
<1>4. due' \subseteq due /\ due' \cap Digest(r, u) \subseteq told'
  BY <1>1
<1>5. QED
  BY <1>1, <1>3, <1>4, MailedInv

LEMMA MailFailsInv ==
  ASSUME DigestsInv, NEW r \in Runs, NEW u \in Users, MailFails(r, u)
  PROVE  DigestsInv'
<1>1. Mailed(r, u) /\ due' = due \ Digest(r, u) /\ UNCHANGED <<told, twice>> /\ Mishap
  BY DEF MailFails, hist
<1>2. twice' = {} /\ mishaps' \in 0..MaxMishaps
  BY <1>1, MishapTypes DEF DigestsInv, Types
<1>3. due' \subseteq due /\ due' \cap Digest(r, u) \subseteq told'
  BY <1>1
<1>4. QED
  BY <1>1, <1>2, <1>3, MailedInv

LEMMA QuietInv ==
  ASSUME DigestsInv, mail' \in BOOLEAN,
         UNCHANGED <<pages, acts, activity, watches, run, changes, watchings, mishaps, told, twice, due>>
  PROVE  DigestsInv'
<1>1. Types' /\ Numbered'
  BY DEF DigestsInv, Types, Numbered
<1>2. (ClaimsAreMade /\ DigestsAreOwn /\ ToldByARun /\ DueIsKept)'
  BY DEF DigestsInv, ClaimsAreMade, DigestsAreOwn, ToldByARun, DueIsKept
<1>3. QED
  BY <1>1, <1>2 DEF DigestsInv

(***************************************************************************)
(* The theorems.                                                           *)
(***************************************************************************)
LEMMA NextInv == DigestsInv /\ [Next]_vars => DigestsInv'
<1> SUFFICES ASSUME DigestsInv, [Next]_vars PROVE DigestsInv'
  OBVIOUS
<1>1. ASSUME NEW u \in Users, NEW p \in Pages, NEW sync \in BOOLEAN,
             \/ \E hidden \in BOOLEAN : UpdatePage(u, p, hidden, sync) \/ \E path \in Paths : CreatePage(u, p, path, hidden, sync)
             \/ \E path \in Paths : MovePage(u, p, path, sync)
             \/ DeletePage(u, p, sync)
      PROVE  DigestsInv'
  <2>1. PICK path \in Paths : TRUE
    <3>1. pages[p].path \in Paths
      BY DEF DigestsInv, Types, Rows
    <3>2. QED
      BY <3>1
  <2>2. CASE \E hidden \in BOOLEAN : UpdatePage(u, p, hidden, sync)
    BY <2>1, <2>2, PageStepInv
  <2>3. CASE \E hidden \in BOOLEAN, to \in Paths : CreatePage(u, p, to, hidden, sync)
    BY <2>3, PageStepInv
  <2>4. CASE \E to \in Paths : MovePage(u, p, to, sync)
    BY <2>4, PageStepInv
  <2>5. CASE DeletePage(u, p, sync)
    BY <2>1, <2>5, PageStepInv
  <2>6. QED
    BY <1>1, <2>2, <2>3, <2>4, <2>5
<1>2. ASSUME NEW e \in acts, Record(e) \/ RecordFails(e)
      PROVE  DigestsInv'
  BY <1>2, RecordInv, RecordFailsInv
<1>3. ASSUME NEW u \in Users, NEW p \in Pages, WatchPage(u, p)
      PROVE  DigestsInv'
  <2> DEFINE w == [user |-> u, kind |-> "page", page |-> p]
  <2>1. w \in PageWatches
    BY DEF PageWatches
  <2>2. /\ Watching /\ watches' = watches \cup {w}
        /\ UNCHANGED <<pages, acts, activity, run, mail, changes, mishaps, told, twice, due>>
    BY <1>3 DEF WatchPage, hist
  <2> HIDE DEF w
  <2>3. QED
    BY <2>1, <2>2, WatchInv
<1>4. ASSUME NEW u \in Users, NEW folder \in Folders, WatchPath(u, folder)
      PROVE  DigestsInv'
  <2> DEFINE w == [user |-> u, kind |-> "path", path |-> folder]
  <2>1. w \in PathWatches
    BY DEF PathWatches
  <2>2. /\ Watching /\ watches' = watches \cup {w}
        /\ UNCHANGED <<pages, acts, activity, run, mail, changes, mishaps, told, twice, due>>
    BY <1>4 DEF WatchPath, hist
  <2> HIDE DEF w
  <2>3. QED
    BY <2>1, <2>2, WatchInv
<1>5. ASSUME NEW w \in watches, RemoveWatch(w)
      PROVE  DigestsInv'
  BY <1>5, RemoveWatchInv
<1>6. ASSUME NEW r \in Runs, Claim(r) \/ ReadWatches(r) \/ NotSent(r) \/ CleanUp(r) \/ Stops(r)
      PROVE  DigestsInv'
  BY <1>6, ClaimInv, ReadWatchesInv, NotSentInv, CleanUpInv, StopsInv
<1>7. ASSUME NEW r \in Runs, NEW u \in Users, SendMail(r, u) \/ MailFails(r, u)
      PROVE  DigestsInv'
  BY <1>7, SendMailInv, MailFailsInv
<1>8. CASE ConfigureMail
  BY <1>8, QuietInv DEF ConfigureMail, bounds, hist
<1>9. CASE UNCHANGED vars
  BY <1>9, QuietInv DEF vars, DigestsInv, Types
<1>10. QED
  BY <1>1, <1>2, <1>3, <1>4, <1>5, <1>6, <1>7, <1>8, <1>9 DEF Next

LEMMA Invariance == Spec => []DigestsInv
  BY InitInv, NextInv, PTL DEF Spec

(* Type correctness: events are recorded once and claimed by runs that have *)
(* begun, and a digest is of events that its run claimed.                   *)
THEOREM TypeCorrect == Spec => []TypeOK
<1>1. ASSUME DigestsInv PROVE TypeOK
  <2>1. \A p \in Pages : pages[p].status \in {"new", "there", "gone"} /\ pages[p].path \in Paths
    BY <1>1 DEF DigestsInv, Types, Rows
  <2>2. {e.id : e \in acts} \cap {e.id : e \in activity} = {}
    BY <1>1 DEF DigestsInv, Numbered
  <2>3. {e.id : e \in acts \cup activity} \subseteq 1..changes
    <3>1. \A e \in acts \cup activity : e.id \in Ids /\ e.id <= changes
      BY <1>1 DEF DigestsInv, Types, Numbered, Events
    <3>2. changes \in Nat
      BY <1>1, Facts
    <3>3. QED
      BY <3>1, <3>2 DEF Ids
  <2>4. \A e \in activity : e.claim # Unclaimed => run[e.claim].step # "idle"
    BY <1>1, Facts DEF DigestsInv, ClaimsAreMade
  <2>5. \A w \in watches : w \in IF w.kind = "page" THEN PageWatches ELSE PathWatches
    BY <1>1 DEF DigestsInv, Types, PageWatches, PathWatches
  <2>6. \A r \in Runs : run[r].step \in {"idle", "claimed", "mailing", "done"}
    BY <1>1, Facts DEF RunStates
  <2>7. ASSUME NEW r \in Runs, NEW u \in Users
        PROVE  run[r].digests[u] \subseteq {e.id : e \in {f \in activity : f.claim = r}}
    <3>1. run[r].digests[u] \subseteq Ids
      BY <1>1, Facts DEF RunStates
    <3>2. QED
      BY <1>1, <3>1 DEF DigestsInv, DigestsAreOwn
  <2>8. /\ mail \in BOOLEAN /\ {told, twice, due} \subseteq SUBSET (Users \X Ids)
        /\ changes \in 0..MaxChanges /\ watchings \in 0..MaxWatching /\ mishaps \in 0..MaxMishaps
    BY <1>1 DEF DigestsInv, Types
  <2>9. QED
    BY <2>1, <2>2, <2>3, <2>4, <2>5, <2>6, <2>7, <2>8 DEF TypeOK
<1>2. QED
  BY <1>1, Invariance, PTL

(* However many runs overlap, nobody is mailed of an event twice; and when  *)
(* the run that claimed an event has ended, all who are still to be told of *)
(* it were.                                                                 *)
THEOREM WatchersAreToldOnce == Spec => []MailedExactlyOnce
<1>1. ASSUME DigestsInv PROVE MailedExactlyOnce
  <2>1. NobodyToldTwice
    BY <1>1 DEF DigestsInv, Types, NobodyToldTwice
  <2>2. ASSUME NEW e \in activity, NEW r \in Runs, e.claim = r, run[r].step = "done", NEW d \in due, d[2] = e.id
        PROVE  d \in told
    <3>1. Settled(e, d, run, watches, told)
      BY <1>1, <2>2 DEF DigestsInv, DueIsKept
    <3>2. QED
      BY <2>2, <3>1 DEF Settled
  <2>3. WatchersTold
    BY <2>2 DEF WatchersTold
  <2>4. QED
    BY <2>1, <2>3 DEF MailedExactlyOnce
<1>2. QED
  BY <1>1, Invariance, PTL
=============================================================================
