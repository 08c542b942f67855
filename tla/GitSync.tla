------------------------------- MODULE GitSync -------------------------------
(***************************************************************************)
(* The git storage target, server/modules/storage/git/storage.js: page     *)
(* events written to a working copy and committed, and the periodic sync   *)
(* that absorbs leftovers, rebases on the remote branch, imports what the  *)
(* remote changed into the database, and pushes.  All of it runs under one *)
(* FIFO mutex (helpers/mutex.js); the wiki saves pages and other people    *)
(* push to the remote meanwhile.                                           *)
(*                                                                         *)
(* The text of a page is a number: 0 stands for "no such page", and every  *)
(* edit anybody makes gets a number of its own.  A commit is the text it   *)
(* gives to one page; a branch is a list of commits on top of a tree.      *)
(***************************************************************************)
EXTENDS Integers, Sequences, FiniteSets, SequencesExt

CONSTANTS
  Pages,        \* pages, each of them one file of the repository
  Mode,         \* the target's mode: "sync", "pull" or "push"
  MaxEdits,     \* bound: edits made in the wiki and on the remote together
  MaxFaults,    \* bound: git commands and imports that fail, and restarts
  MaxQueue      \* bound: tasks behind the mutex

ASSUME GitAssumption ==
  /\ Pages # {} /\ IsFiniteSet(Pages)
  /\ Mode \in {"sync", "pull", "push"}
  /\ {MaxEdits, MaxFaults, MaxQueue} \subseteq Nat
  /\ MaxEdits > 0 /\ MaxQueue > 0

VARIABLES
  db,        \* the text of each page in the wiki's database
  saved,     \* edits in the database whose storage event is yet to be dispatched
  target,    \* the target in storage.targets, see SyncEnds
  queue,     \* the mutex: tasks in the order runExclusive was called, holder first
  step,      \* where the holder is in its task
  tree,      \* the files of the working copy
  local,     \* commits of the local branch that the remote does not have
  base,      \* the remote commit the local branch is built on
  halfDone,  \* the rebase .git/rebase-merge tells of: where HEAD is meanwhile
  remote,    \* the remote branch: the tree of each of its commits
  tracking,  \* refs/remotes/origin/<branch>
  marker,    \* lastProcessedHash of .git/wikijs-sync.json, 0 if there is none
  todo,      \* files of the diff processFiles has not reached yet
  edits,     \* how many edits were made so far
  byOthers,  \* history: the commits others pushed to the remote
  imported,  \* history: the commits of the remote processFiles has dealt with
  baseline,  \* history: those the first sync took for known, see Absorb
  mishaps,   \* history: what happened that the target does not recover from
  faults     \* commands and imports that failed, and restarts, so far

vars == <<db, saved, target, queue, step, tree, local, base, halfDone, remote, tracking,
          marker, todo, edits, byOthers, imported, baseline, mishaps, faults>>

wikiVars == <<db, saved>>
lockVars == <<queue, step, target>>
repoVars == <<tree, local, base, halfDone>>
originVars == <<remote, tracking>>
syncVars == <<marker, todo>>
ghostVars == <<byOthers, imported, baseline, mishaps>>
boundVars == <<edits, faults>>

Texts == 0..MaxEdits
Trees == [Pages -> Texts]
Commits == [page : Pages, text : Texts]
Writes == [op : {"write"}, page : Pages, text : Texts]
SyncTask == [op |-> "sync"]
NoRebase == [base |-> 0, commits |-> <<>>, conflict |-> FALSE]
Mishaps == {"deletion", "import given up", "abort failed", "restart"}
Steps == {"start", "written", "repaired", "absorbed", "pulled", "processing", "processed",
          "rejected", "repulled", "reprocessing", "reprocessed"}

TypeOK ==
  /\ db \in Trees /\ tree \in Trees
  /\ saved \subseteq Commits
  /\ target \in {"starting", "operational", "failed"}
  /\ queue \in Seq(Writes \cup {SyncTask}) /\ Len(queue) <= MaxQueue
  /\ step \in Steps
  /\ local \in Seq(Commits)
  /\ remote \in Seq(Trees)
  /\ base \in 1..Len(remote) /\ tracking \in 1..Len(remote) /\ marker \in 0..tracking
  /\ halfDone \in {NoRebase} \cup [base : 1..Len(remote), commits : Seq(Commits), conflict : BOOLEAN]
  /\ todo \subseteq Pages
  /\ edits \in Texts /\ faults \in 0..MaxFaults
  /\ byOthers \subseteq Commits /\ imported \subseteq Commits /\ baseline \subseteq Commits /\ mishaps \subseteq Mishaps

FirstPage == CHOOSE p \in Pages : TRUE

(* A new target: the repository is checked out and init holds the mutex for *)
(* its first sync (storage.js:25-137).  One page is in the database, in the *)
(* working copy and on the remote, the others are nowhere yet.              *)
Init ==
  /\ LET t == [p \in Pages |-> IF p = FirstPage THEN 1 ELSE 0]
     IN  db = t /\ tree = t /\ remote = <<t>>
  /\ target = "starting" /\ queue = <<SyncTask>> /\ step = "start"
  /\ saved = {} /\ local = <<>> /\ base = 1 /\ tracking = 1 /\ marker = 0
  /\ halfDone = NoRebase /\ todo = {}
  /\ edits = 1 /\ faults = 0
  /\ byOthers = {} /\ imported = {} /\ baseline = {} /\ mishaps = {}

-----------------------------------------------------------------------------
(* What git makes of commits. *)

CommitsOf(t) == {[page |-> p, text |-> t[p]] : p \in Pages}

(* The last commit of a page gives it its text. *)
Of(p, commits) == {i \in DOMAIN commits : commits[i].page = p}
Apply(t, commits) ==
  [p \in Pages |-> IF Of(p, commits) = {} THEN t[p] ELSE commits[CHOOSE i \in Of(p, commits) : \A j \in Of(p, commits) : j <= i].text]
BranchTree == Apply(remote[base], local)

(* While a rebase lies half done, HEAD is where it got to: on a commit of   *)
(* the remote, with some commits on top.  The branch is what it was.        *)
Rebasing == halfDone # NoRebase
HeadTree == IF Rebasing THEN Apply(remote[halfDone.base], halfDone.commits) ELSE BranchTree
Dirty == {p \in Pages : tree[p] # HeadTree[p]}
Tip == Last(remote)

(* Replaying commit c, made on top of parent, onto ours stops where one     *)
(* side deleted a file the other changed.                                   *)
ModifyDelete(c, parent, ours) ==
  /\ parent[c.page] \notin {0, ours[c.page]}
  /\ ours[c.page] # c.text
  /\ 0 \in {c.text, ours[c.page]}

(* -X ours would keep the remote's text. *)
Rebase_RemoteWins(onto) ==
  LET lost == {p \in Pages : onto[p] # remote[base][p]}
      kept == SelectSeq(local, LAMBDA c : c.page \notin lost)
  IN  [conflict |-> FALSE, parent |-> onto, ours |-> Apply(onto, kept), commits |-> kept]

(* The local commits replayed onto another tree with                        *)
(* --strategy-option=theirs: where both sides changed a text, the replayed  *)
(* commit's text wins.  A commit that changes nothing any more is dropped.  *)
Replay(r, c) ==
  [conflict |-> r.conflict \/ ModifyDelete(c, r.parent, r.ours),
   parent   |-> [r.parent EXCEPT ![c.page] = c.text],
   ours     |-> [r.ours EXCEPT ![c.page] = c.text],
   commits  |-> IF r.ours[c.page] = c.text THEN r.commits ELSE Append(r.commits, c)]

Replayed(onto) ==
  LET replayed[n \in 0..Len(local)] ==
        IF n = 0 THEN [conflict |-> FALSE, parent |-> remote[base], ours |-> onto, commits |-> <<>>]
        ELSE Replay(replayed[n - 1], local[n])
  IN  replayed

Rebase(onto) == Replayed(onto)[Len(local)]

(* A rebase onto another tree that got no further than its first n commits: *)
(* the files are those of HEAD, but for a conflict the next commit ends in, *)
(* where git leaves the text of the side that did not delete the page.      *)
Interrupted(onto, n) ==
  LET r == Replayed(onto)[n]
      stopped == n < Len(local) /\ Replayed(onto)[n + 1].conflict
  IN  [commits |-> r.commits, conflict |-> stopped,
       tree |-> IF stopped /\ local[n + 1].text # 0
                  THEN [r.ours EXCEPT ![local[n + 1].page] = local[n + 1].text]
                  ELSE r.ours]

(* It lies half done in the working copy, where git could not abort it.     *)
Reached(onto) == {n \in 0..Len(local) : ~Replayed(onto)[n].conflict}
LeftHalfDone(i) ==
  /\ halfDone' = [base |-> Len(remote), commits |-> i.commits, conflict |-> i.conflict]
  /\ tree' = i.tree
  /\ UNCHANGED <<local, base>>

(* git rebase --abort: back to the branch.  Commits made on HEAD since are  *)
(* dropped, and so are uncommitted changes, except files git never tracked. *)
Aborted ==
  /\ halfDone' = NoRebase
  /\ \E untracked \in SUBSET {p \in Pages : HeadTree[p] = 0 /\ BranchTree[p] = 0} :
       tree' = [p \in Pages |-> IF p \in untracked THEN tree[p] ELSE BranchTree[p]]
  /\ UNCHANGED <<local, base>>

(* A failing abort is logged and swallowed (storage.js:184-188, 258-262).   *)
AbortFails ==
  /\ faults < MaxFaults
  /\ faults' = faults + 1
  /\ mishaps' = mishaps \cup {"abort failed"}

AbortSucceeds == UNCHANGED <<faults, mishaps>>

-----------------------------------------------------------------------------
(* The wiki and the other users of the remote. *)

(* pages.createPage / updatePage: the row is written, the storage event     *)
(* follows after the render.                                                *)
WikiSaves(p) ==
  /\ edits < MaxEdits
  /\ edits' = edits + 1
  /\ db' = [db EXCEPT ![p] = edits + 1]
  /\ saved' = saved \cup {[page |-> p, text |-> edits + 1]}
  /\ UNCHANGED <<lockVars, repoVars, originVars, syncVars, ghostVars, faults>>

(* pages.deletePage. *)
WikiDeletes(p) ==
  /\ edits < MaxEdits
  /\ db[p] # 0
  /\ edits' = edits + 1
  /\ db' = [db EXCEPT ![p] = 0]
  /\ saved' = saved \cup {[page |-> p, text |-> 0]}
  /\ mishaps' = mishaps \cup {"deletion"}
  /\ UNCHANGED <<lockVars, repoVars, originVars, syncVars, byOthers, imported, baseline, faults>>

(* storage.pageEvent: created, updated or deleted queues behind the mutex;  *)
(* a target whose init failed is not among the targets.                     *)
EventDispatched(e) ==
  /\ e \in saved
  /\ saved' = saved \ {e}
  /\ IF target = "failed" THEN UNCHANGED queue
     ELSE /\ Len(queue) < MaxQueue
          /\ queue' = Append(queue, [op |-> "write", page |-> e.page, text |-> e.text])
  /\ UNCHANGED <<db, step, target, repoVars, originVars, syncVars, ghostVars, boundVars>>

(* The sync-storage job, registered once init succeeded; the scheduler      *)
(* re-arms it only when it has ended.                                       *)
SyncDue ==
  /\ target = "operational"
  /\ Len(queue) < MaxQueue
  /\ \A i \in DOMAIN queue : queue[i].op # "sync"
  /\ queue' = Append(queue, SyncTask)
  /\ UNCHANGED <<wikiVars, step, target, repoVars, originVars, syncVars, ghostVars, boundVars>>

(* Someone else pushes an edit of one page, or its deletion. *)
RemoteEdit(p) ==
  /\ edits < MaxEdits
  /\ edits' = edits + 1
  /\ \E text \in {0, edits + 1} :
       /\ Tip[p] # text
       /\ remote' = Append(remote, [Tip EXCEPT ![p] = text])
       /\ byOthers' = byOthers \cup {[page |-> p, text |-> text]}
       /\ mishaps' = IF text = 0 THEN mishaps \cup {"deletion"} ELSE mishaps
  /\ UNCHANGED <<wikiVars, lockVars, repoVars, tracking, syncVars, imported, baseline, faults>>

-----------------------------------------------------------------------------
(* Page events: write the file, then commit it. *)

Holder(op) == queue # <<>> /\ queue[1].op = op

(* The holder's promise settles, the next one in the chain starts. *)
Release == queue' = Tail(queue) /\ step' = "start"

EventWrites ==
  /\ Holder("write") /\ step = "start"
  /\ tree' = [tree EXCEPT ![queue[1].page] = queue[1].text]
  /\ step' = "written"
  /\ UNCHANGED <<wikiVars, queue, target, local, base, halfDone, originVars, syncVars,
                 ghostVars, boundVars>>

(* git commit of that one file onto HEAD; nothing to commit is no commit.   *)
(* Within a conflict git refuses to commit a single file.                   *)
EventCommits ==
  /\ Holder("write") /\ step = "written"
  /\ LET p == queue[1].page
         c == [page |-> p, text |-> tree[p]]
     IN  IF p \notin Dirty \/ halfDone.conflict THEN UNCHANGED <<local, halfDone>>
         ELSE IF Rebasing THEN halfDone' = [halfDone EXCEPT !.commits = Append(@, c)] /\ UNCHANGED local
         ELSE local' = Append(local, c) /\ UNCHANGED halfDone
  /\ Release
  /\ UNCHANGED <<wikiVars, target, tree, base, originVars, syncVars, ghostVars, boundVars>>

(* A git command fails: dispatchEvent logs it, the file stays uncommitted.  *)
EventFails ==
  /\ Holder("write") /\ step = "written"
  /\ faults < MaxFaults
  /\ faults' = faults + 1
  /\ Release
  /\ UNCHANGED <<wikiVars, target, repoVars, originVars, syncVars, ghostVars, edits>>

-----------------------------------------------------------------------------
(* syncInternal. *)

(* The sync's promise settles: resolved or rejected.  The first one decides *)
(* whether the target stays among the targets (initTargets).                *)
SyncSettles(outcome) ==
  /\ Release
  /\ target' = IF target = "starting" THEN outcome ELSE target
SyncEnds == SyncSettles("operational")
SyncThrows == SyncSettles("failed")

(* repairAndAbsorb: abort an interrupted rebase ... *)
Repair ==
  /\ Holder("sync") /\ step = "start"
  /\ step' = "repaired"
  /\ \/ ~Rebasing /\ AbortSucceeds /\ UNCHANGED repoVars
     \/ Rebasing /\ AbortSucceeds /\ Aborted
     \/ Rebasing /\ AbortFails /\ UNCHANGED repoVars
  /\ UNCHANGED <<wikiVars, queue, target, originVars, syncVars, byOthers, imported, baseline, edits>>

(* No status check: leftovers stay uncommitted. *)
Leftovers_None == <<>>

Leftovers == SetToSeq({c \in CommitsOf(tree) : c.page \in Dirty})

(* ... and commit whatever is in the working copy.  The very first sync     *)
(* also sets the marker: what is on the remote by then is taken for known,  *)
(* processFiles never gets to see it (storage.js:218-219).                  *)
Absorb ==
  /\ Holder("sync") /\ step = "repaired"
  /\ IF Rebasing
       THEN /\ halfDone' = [halfDone EXCEPT !.commits = @ \o Leftovers, !.conflict = @ /\ Dirty = {}]
            /\ UNCHANGED local
       ELSE local' = local \o Leftovers /\ UNCHANGED halfDone
  /\ IF Mode = "push"
       THEN step' = "processed" /\ UNCHANGED <<marker, baseline>>
       ELSE /\ step' = "absorbed"
            /\ IF marker = 0
                 THEN marker' = tracking /\ baseline' = CommitsOf(remote[tracking])
                 ELSE UNCHANGED <<marker, baseline>>
  /\ UNCHANGED <<wikiVars, queue, target, tree, base, originVars, todo, byOthers, imported, mishaps, boundVars>>

(* pullWithRecovery: the fetch moves the tracking branch, then git replays  *)
(* the local commits on it.                                                 *)
Conflicts == base # Len(remote) /\ Rebase(Tip).conflict
PullRebases ==
  LET r == Rebase(Tip)
  IN  /\ ~Rebasing /\ Dirty = {} /\ ~Conflicts
      /\ base' = Len(remote) /\ local' = r.commits /\ tree' = r.ours
      /\ UNCHANGED halfDone

(* Within a rebase that could not be aborted git refuses another one, but   *)
(* where HEAD is a commit of the remote there is nothing to replay: it is   *)
(* fast-forwarded, and the branch is not.                                   *)
OnRemote == Rebasing /\ halfDone.commits = <<>> /\ ~halfDone.conflict
PullFastForwards ==
  /\ OnRemote /\ Dirty = {}
  /\ halfDone' = [halfDone EXCEPT !.base = Len(remote)] /\ tree' = Tip
  /\ UNCHANGED <<local, base>>

(* git refuses, or stops at a conflict the strategy option does not solve.  *)
(* The rebase is then aborted, in which git may fail as well.               *)
PullStops ==
  \/ /\ ~Rebasing /\ (Dirty # {} \/ Conflicts)
     /\ \/ AbortSucceeds /\ UNCHANGED repoVars
        \/ Conflicts /\ AbortFails /\ \E n \in Reached(Tip) : Interrupted(Tip, n).conflict /\ LeftHalfDone(Interrupted(Tip, n))
  \/ /\ Rebasing /\ ~(OnRemote /\ Dirty = {})
     /\ \/ AbortSucceeds /\ Aborted
        \/ AbortFails /\ UNCHANGED repoVars

Pulling == Holder("sync") /\ step \in {"absorbed", "rejected"}

Pull ==
  /\ Pulling
  /\ tracking' = Len(remote)
  /\ \/ /\ PullRebases \/ PullFastForwards
        /\ step' = IF step = "absorbed" THEN "pulled" ELSE "repulled"
        /\ AbortSucceeds /\ UNCHANGED <<queue, target>>
     \/ PullStops /\ SyncThrows
  /\ UNCHANGED <<wikiVars, remote, syncVars, byOthers, imported, baseline, edits>>

(* The marker is written before the files are processed. *)
Diff_MarksFirst ==
  /\ Holder("sync") /\ step \in {"pulled", "repulled"}
  /\ todo' = {p \in Pages : remote[marker][p] # remote[tracking][p]}
  /\ marker' = tracking
  /\ step' = IF step = "pulled" THEN "processing" ELSE "reprocessing"
  /\ UNCHANGED <<wikiVars, queue, target, repoVars, originVars, ghostVars, boundVars>>

(* processRemoteChanges, up to the diff of the remote range. *)
Diff ==
  /\ Holder("sync") /\ step \in {"pulled", "repulled"}
  /\ todo' = {p \in Pages : remote[marker][p] # remote[tracking][p]}
  /\ step' = IF step = "pulled" THEN "processing" ELSE "reprocessing"
  /\ UNCHANGED <<wikiVars, queue, target, repoVars, originVars, marker, ghostVars, boundVars>>

Processing == Holder("sync") /\ step \in {"processing", "reprocessing"}

Dealt(p) ==
  /\ todo' = todo \ {p}
  /\ imported' = imported \cup {[page |-> p, text |-> remote[tracking][p]]}

(* processFiles: a file that is gone deletes its page, any other is imported *)
(* by processPage, which skips a page that has the file's text already.      *)
ImportFile(p) ==
  /\ Processing /\ p \in todo
  /\ tree[p] = 0 => db[p] # 0
  /\ db' = [db EXCEPT ![p] = tree[p]]
  /\ Dealt(p)
  /\ UNCHANGED <<saved, lockVars, repoVars, originVars, marker, byOthers, baseline, mishaps, boundVars>>

(* deletePage finds no such page and throws; processFiles does not catch it. *)
DeleteThrows(p) ==
  /\ Processing /\ p \in todo
  /\ tree[p] = 0 /\ db[p] = 0
  /\ todo' = {}
  /\ SyncThrows
  /\ UNCHANGED <<wikiVars, repoVars, originVars, marker, ghostVars, boundVars>>

(* processPage throws: logged, and the sync goes on without the page. *)
ImportFails(p) ==
  /\ Processing /\ p \in todo
  /\ tree[p] \notin {0, db[p]}
  /\ faults < MaxFaults
  /\ faults' = faults + 1
  /\ mishaps' = mishaps \cup {"import given up"}
  /\ Dealt(p)
  /\ UNCHANGED <<wikiVars, lockVars, repoVars, originVars, marker, byOthers, baseline, edits>>

(* The marker taken from where the remote is now, not from what was diffed. *)
MarkProcessed_AtTip ==
  /\ Processing /\ todo = {}
  /\ marker' = Len(remote)
  /\ step' = IF step = "processing" THEN "processed" ELSE "reprocessed"
  /\ UNCHANGED <<wikiVars, queue, target, repoVars, originVars, todo, ghostVars, boundVars>>

MarkProcessed ==
  /\ Processing /\ todo = {}
  /\ marker' = tracking
  /\ IF Mode = "pull" THEN SyncEnds
     ELSE /\ step' = IF step = "processing" THEN "processed" ELSE "reprocessed"
          /\ UNCHANGED <<queue, target>>
  /\ UNCHANGED <<wikiVars, repoVars, originVars, todo, ghostVars, boundVars>>

Pushing == Holder("sync") /\ step \in {"processed", "reprocessed"}

Accepted_Forced == TRUE

(* The remote takes a push as a fast-forward only, unless mode "push"       *)
(* forces it.                                                               *)
Accepted == Mode = "push" \/ base = Len(remote)

RemoteTakes ==
  IF local = <<>> /\ base = Len(remote)
    THEN UNCHANGED <<remote, base, local>>
    ELSE /\ remote' = Append(remote, BranchTree)
         /\ base' = Len(remote) + 1
         /\ local' = <<>>

(* A successful push moves the tracking branch too. *)
Push ==
  /\ Pushing /\ Accepted
  /\ RemoteTakes
  /\ tracking' = Len(remote')
  /\ SyncEnds
  /\ UNCHANGED <<wikiVars, tree, halfDone, syncVars, ghostVars, boundVars>>

(* A failed push is answered by one more round of pull, import and push.    *)
RetryOrFail ==
  IF Mode = "sync" /\ step = "processed"
    THEN step' = "rejected" /\ UNCHANGED <<queue, target>>
    ELSE SyncThrows

(* The remote moved since the pull. *)
PushRejected ==
  /\ Pushing /\ ~Accepted
  /\ RetryOrFail
  /\ UNCHANGED <<wikiVars, repoVars, originVars, syncVars, ghostVars, boundVars>>

(* The push fails for any other reason: before the remote took it or after. *)
PushFails ==
  /\ Pushing
  /\ faults < MaxFaults
  /\ faults' = faults + 1
  /\ \/ Accepted /\ RemoteTakes
     \/ UNCHANGED <<remote, base, local>>
  /\ RetryOrFail
  /\ UNCHANGED <<wikiVars, tree, halfDone, tracking, syncVars, ghostVars, edits>>

(* A pull that breaks off may have fetched and begun to rebase by then.     *)
HasToRebase == ~Rebasing /\ local # <<>> /\ base # Len(remote)
BreaksOff == Pulling /\ HasToRebase /\ \E n \in Reached(Tip) : LeftHalfDone(Interrupted(Tip, n))

(* Any other command of the sync fails: it is given up where it stands.     *)
(* Where a pull fails, a rebase it began is aborted, unless that fails too. *)
SyncFails ==
  /\ Holder("sync") /\ ~Pushing
  /\ faults < MaxFaults
  /\ faults' = faults + 1
  /\ todo' = {}
  /\ \/ tracking' \in (IF Pulling THEN {tracking, Len(remote)} ELSE {tracking}) /\ UNCHANGED <<repoVars, mishaps>>
     \/ tracking' = Len(remote) /\ BreaksOff /\ mishaps' = mishaps \cup {"abort failed"}
  /\ SyncThrows
  /\ UNCHANGED <<wikiVars, remote, marker, byOthers, imported, baseline, edits>>

(* The server restarts: whatever was queued or in flight is gone.  init     *)
(* fetches, checks the branch out and starts over (storage.js:118-131).     *)
Restarts ==
  /\ faults < MaxFaults
  /\ faults' = faults + 1
  /\ mishaps' = mishaps \cup {"restart"}
  /\ saved' = {} /\ todo' = {} /\ step' = "start"
  /\ tracking' = Len(remote)
  /\ UNCHANGED <<db, base, local, remote, marker, byOthers, imported, baseline, edits>>

StartsOver == target' = "starting" /\ queue' = <<SyncTask>>

Crash == Restarts /\ ~Rebasing /\ StartsOver /\ UNCHANGED <<tree, halfDone>>

(* A rebase lies half done, of before or of the pull the restart broke off. *)
(* The checkout leaves the rebase as it is and goes to the branch, unless   *)
(* there is a conflict or a changed file in its way: the target fails.      *)
ChecksOut(i, onto) ==
  LET head == Apply(remote[onto], i.commits)
      changed == {p \in Pages : i.tree[p] # head[p]}
  IN  IF i.conflict \/ \E p \in changed : head[p] # BranchTree[p]
        THEN /\ target' = "failed" /\ queue' = <<>>
             /\ tree' = i.tree
             /\ halfDone' = [base |-> onto, commits |-> i.commits, conflict |-> i.conflict]
        ELSE /\ StartsOver
             /\ tree' = [p \in Pages |-> IF p \in changed THEN i.tree[p] ELSE BranchTree[p]]
             /\ halfDone' = [base |-> base, commits |-> local, conflict |-> FALSE]

CrashInRebase ==
  /\ Restarts
  /\ \/ Rebasing /\ ChecksOut([commits |-> halfDone.commits, conflict |-> halfDone.conflict, tree |-> tree], halfDone.base)
     \/ Pulling /\ HasToRebase /\ \E n \in Reached(Tip) : ChecksOut(Interrupted(Tip, n), Len(remote))

-----------------------------------------------------------------------------
SyncStep ==
  \/ Repair \/ Absorb \/ Pull \/ Diff \/ MarkProcessed \/ Push \/ PushRejected
  \/ \E p \in Pages : ImportFile(p) \/ DeleteThrows(p)

Next ==
  \/ \E p \in Pages : WikiSaves(p) \/ WikiDeletes(p) \/ RemoteEdit(p) \/ ImportFails(p)
  \/ \E e \in saved : EventDispatched(e)
  \/ SyncDue
  \/ EventWrites \/ EventCommits \/ EventFails
  \/ SyncStep \/ PushFails \/ SyncFails
  \/ Crash \/ CrashInRebase

Spec == Init /\ [][Next]_vars

(* Promises under way settle and the sync timer keeps firing. Nobody has to *)
(* edit, and nothing has to fail.                                           *)
Fairness ==
  /\ WF_vars(\E e \in saved : EventDispatched(e))
  /\ WF_vars(SyncDue)
  /\ WF_vars(EventWrites \/ EventCommits)
  /\ WF_vars(SyncStep)

FairSpec == Spec /\ Fairness

-----------------------------------------------------------------------------
(* Properties. *)

(* The working copy is clean from the absorbing of leftovers to the end of  *)
(* the sync, whatever failed before and whatever events arrive meanwhile    *)
(* (storage.js:176-179).  No rebase lies half done in it by then, unless    *)
(* the abort failed: in that case the branch is behind the remote, so that  *)
(* the remote takes no push of this sync.                                   *)
CleanDuringSync ==
  Holder("sync") /\ step \notin {"start", "repaired"} =>
    /\ Dirty = {}
    /\ Rebasing => "abort failed" \in mishaps /\ ~Accepted

(* The marker never passes a page that others changed on the remote and     *)
(* processFiles did not get to see: not across failed pushes, retries, lost *)
(* answers, or a restart between two steps (storage.js:213-214, 290).  What *)
(* was on the remote when the first sync set the marker is an exception: it *)
(* is taken to be in the database (storage.js:218-219), though others may   *)
(* have pushed it since the database and the remote last agreed.            *)
NoRemoteChangeSkipped ==
  marker # 0 => CommitsOf(remote[marker]) \cap byOthers \subseteq imported \cup baseline

(* A push changes no page that the local branch has no commit of: what      *)
(* others pushed since the pull is never taken back (only mode "push"       *)
(* forces).                                                                 *)
PushKeepsOthersWork ==
  [][Mode # "push" /\ remote' # remote /\ edits' = edits =>
       \A p \in Pages : Last(remote')[p] # Tip[p] => \E i \in DOMAIN local : local[i].page = p]_vars

(* "On conflicting changes the local wiki edit wins": a pull leaves every   *)
(* page that has a local commit as the wiki wrote it (storage.js:248-250).  *)
(* A pull within a rebase that could not be aborted rebases nothing.        *)
WikiEditWins ==
  [][Holder("sync") /\ step' \in {"pulled", "repulled"} /\ ~Rebasing =>
       \A i \in DOMAIN local : LET p == local[i].page IN tree'[p] = tree[p]]_vars

(* Failed git commands, conflicting edits, lost answers, restarts and       *)
(* interrupted rebases heal: once edits cease, working copy and remote      *)
(* agree for good, as long as nothing was deleted and the target did not    *)
(* fail at its last start (README.md:36 "self-healing").                    *)
WorkingCopyReachesRemote ==
  []("deletion" \notin mishaps) /\ <>[](target = "operational") => <>[](tree = Tip /\ Dirty = {})


(* "The wiki's own commits (rebased on top, or already pushed) are already  *)
(* in the DB and must not be re-imported" (storage.js:269-271): whatever    *)
(* processFiles would change in the database was pushed by others.          *)
OwnCommitsNotReimported ==
  Processing => \A p \in todo :
    tree[p] = 0 \/ tree[p] # db[p] => [page |-> p, text |-> tree[p]] \in byOthers
===============================================================================
