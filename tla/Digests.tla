------------------------------ MODULE Digests ------------------------------
(***************************************************************************)
(* From a change of a page to the mail that tells its watchers             *)
(* (server/jobs/send-page-digests.js, models/pageActivity.js,              *)
(* helpers/notifications.js, graph/resolvers/watch.js).  An operation on a *)
(* page writes the row first and records its event last.  The job runs     *)
(* every ten minutes on every instance, and when an administrator asks for *)
(* it; a run claims the events that nobody has claimed, mails their        *)
(* watchers and cleans up.                                                 *)
(*                                                                         *)
(* Runs overlap, and stop anywhere when their server does.  One locale,    *)
(* active users with fixed permissions, a mail is the set of its events.   *)
(***************************************************************************)
EXTENDS Integers, FiniteSets, SequencesExt

CONSTANTS
  Users, Pages,
  Paths,        \* where pages can be: sequences
  Folders,      \* paths that can be watched; the empty one covers the locale
  Sees, Edits,  \* the paths each user may read and write
  Runs,         \* bound: runs of the job
  MaxChanges,   \* bound: operations on pages
  MaxWatching,  \* bound: changes of watches
  MaxMishaps    \* bound: restarts, failed mails and records

ASSUME DigestsAssumption ==
  /\ Sees \in [Users -> SUBSET (Paths \cup Folders)] /\ Edits \in [Users -> SUBSET Paths]
  /\ IsFiniteSet(Runs) /\ "none" \notin Runs /\ {MaxChanges, MaxWatching, MaxMishaps} \subseteq Nat

VARIABLES
  pages,      \* rows of pages
  acts,       \* operations that have written the row and not recorded their event
  activity,   \* rows of pageActivity
  watches,    \* rows of userWatches
  run,        \* runs of the job
  mail,       \* whether mail is configured
  changes, watchings, mishaps,  \* bounds: those so far
  told,       \* history: who was mailed of which event
  twice,      \* history: those mailed again
  due         \* history: who watched the page when its event was recorded, and is to be mailed

vars == <<pages, acts, activity, watches, run, mail, changes, watchings, mishaps, told, twice, due>>

-----------------------------------------------------------------------------
Unclaimed == "none"
Ids == 1..MaxChanges
PageWatches == [user : Users, kind : {"page"}, page : Pages]
PathWatches == [user : Users, kind : {"path"}, path : Folders]
There(p) == pages[p].status = "there"

(* matchesWatch: page watches follow the page, path watches cover where the *)
(* page is and where it was. *)
Covers(folder, paths) == \E path \in paths : IsPrefix(folder, path)
MatchesWatch(w, e) == IF w.kind = "page" THEN w.page = e.page ELSE Covers(w.path, e.paths)

(* canSeeEvent: drafts and templates are for those who can edit them. *)
CanSeeEvent(u, e) == e.path \in Sees[u] /\ (e.hidden => e.path \in Edits[u])

Recipients(e, watching) ==
  IF e.sync THEN {} ELSE {u \in Users \ {e.author} : CanSeeEvent(u, e) /\ \E w \in watching : w.user = u /\ MatchesWatch(w, e)}

Idle == [step |-> "idle", digests |-> [u \in Users |-> {}]]

TypeOK ==
  /\ \A p \in Pages : pages[p].status \in {"new", "there", "gone"} /\ pages[p].path \in Paths
  /\ {e.id : e \in acts} \cap {e.id : e \in activity} = {} /\ {e.id : e \in acts \cup activity} \subseteq 1..changes
  /\ \A e \in activity : e.claim # Unclaimed => run[e.claim].step # "idle"
  /\ \A w \in watches : w \in IF w.kind = "page" THEN PageWatches ELSE PathWatches
  /\ \A r \in Runs : run[r].step \in {"idle", "claimed", "mailing", "done"}
  /\ \A r \in Runs, u \in Users : run[r].digests[u] \subseteq {e.id : e \in {f \in activity : f.claim = r}}
  /\ mail \in BOOLEAN /\ changes \in 0..MaxChanges /\ watchings \in 0..MaxWatching /\ mishaps \in 0..MaxMishaps
  /\ {told, twice, due} \subseteq SUBSET (Users \X Ids)

Init ==
  /\ pages \in [Pages -> [status : {"new", "there"}, path : Paths, hidden : {FALSE}]]
  /\ \A p, q \in Pages : p # q => pages[p].path # pages[q].path
  /\ acts = {} /\ activity = {} /\ watches = {}
  /\ run = [r \in Runs |-> Idle]
  /\ mail \in BOOLEAN
  /\ changes = 0 /\ watchings = 0 /\ mishaps = 0
  /\ told = {} /\ twice = {} /\ due = {}

bounds == <<watchings, mishaps>>
hist == <<told, twice>>

-----------------------------------------------------------------------------
(* Operations on pages: the row first.  sync: made by a storage target. *)

Free(path) == \A p \in Pages : There(p) => pages[p].path # path

Writes(u, p, row, previous, sync) ==
  /\ changes < MaxChanges /\ changes' = changes + 1
  /\ pages' = [pages EXCEPT ![p] = row]
  /\ acts' = acts \cup {[id |-> changes + 1, page |-> p, author |-> u, path |-> row.path, paths |-> {row.path, previous},
                         hidden |-> row.hidden, sync |-> sync, claim |-> Unclaimed]}
  /\ UNCHANGED <<activity, watches, run, mail, bounds, hist, due>>

CreatePage(u, p, path, hidden, sync) ==
  /\ pages[p].status = "new" /\ Free(path) /\ path \in Edits[u]
  /\ Writes(u, p, [status |-> "there", path |-> path, hidden |-> hidden], path, sync)

UpdatePage(u, p, hidden, sync) ==
  /\ There(p) /\ pages[p].path \in Edits[u]
  /\ Writes(u, p, [pages[p] EXCEPT !.hidden = hidden], pages[p].path, sync)

MovePage(u, p, path, sync) ==
  /\ There(p) /\ Free(path) /\ {pages[p].path, path} \subseteq Edits[u]
  /\ Writes(u, p, [pages[p] EXCEPT !.path = path], pages[p].path, sync)

DeletePage(u, p, sync) ==
  /\ There(p) /\ pages[p].path \in Edits[u]
  /\ Writes(u, p, [pages[p] EXCEPT !.status = "gone"], pages[p].path, sync)

Mishap == mishaps < MaxMishaps /\ mishaps' = mishaps + 1

(* PageActivity.record *)
Record(e) ==
  /\ e \in acts
  /\ acts' = acts \ {e}
  /\ activity' = activity \cup {e}
  /\ due' = due \cup (Recipients(e, watches) \X {e.id})
  /\ UNCHANGED <<pages, watches, run, mail, changes, bounds, hist>>

(* The insertion fails, or the operation does before it comes that far. *)
RecordFails(e) ==
  /\ Mishap
  /\ e \in acts /\ acts' = acts \ {e}
  /\ UNCHANGED <<pages, activity, watches, run, mail, changes, watchings, hist, due>>

-----------------------------------------------------------------------------
(* Watches *)

Watching == watchings < MaxWatching /\ watchings' = watchings + 1

(* What is not in a mail yet is no longer due when the watch is gone. *)
StillDue(watching) ==
  {d \in due : \/ d \in told \/ \E r \in Runs : d[2] \in run[r].digests[d[1]]
               \/ \E e \in activity : e.id = d[2] /\ d[1] \in Recipients(e, watching)}

WatchPage(u, p) ==
  /\ Watching
  /\ There(p) /\ pages[p].path \in Sees[u]
  /\ watches' = watches \cup {[user |-> u, kind |-> "page", page |-> p]}
  /\ UNCHANGED <<pages, acts, activity, run, mail, changes, mishaps, hist, due>>

WatchPath(u, folder) ==
  /\ Watching
  /\ folder \in Sees[u]
  /\ watches' = watches \cup {[user |-> u, kind |-> "path", path |-> folder]}
  /\ UNCHANGED <<pages, acts, activity, run, mail, changes, mishaps, hist, due>>

RemoveWatch(w) ==
  /\ Watching
  /\ w \in watches /\ watches' = watches \ {w}
  /\ due' = StillDue(watches')
  /\ UNCHANGED <<pages, acts, activity, run, mail, changes, mishaps, hist>>

-----------------------------------------------------------------------------
(* The job.  A run is the three stretches between its awaits that matter:   *)
(* the claim, the reading of watches, and the mails one after the other.    *)

OfRun(r) == {e \in activity : e.claim = r}

(* Mutant: all events are claimed, not only those that nobody has. *)
ClaimAgain(r) ==
  /\ run[r].step = "idle"
  /\ activity' = {[e EXCEPT !.claim = r] : e \in activity}
  /\ run' = [run EXCEPT ![r].step = "claimed"]
  /\ UNCHANGED <<pages, acts, watches, mail, changes, bounds, hist, due>>

Claim(r) ==
  /\ run[r].step = "idle"
  /\ activity' = {IF e.claim = Unclaimed THEN [e EXCEPT !.claim = r] ELSE e : e \in activity}
  /\ run' = [run EXCEPT ![r].step = "claimed"]
  /\ UNCHANGED <<pages, acts, watches, mail, changes, bounds, hist, due>>

(* Mutant: the events are read without their claim. *)
ReadWatchesOfAll(r) ==
  /\ run[r].step = "claimed" /\ mail
  /\ run' = [run EXCEPT ![r] = [step |-> "mailing", digests |-> [u \in Users |-> {e.id : e \in {f \in activity : u \in Recipients(f, watches)}}]]]
  /\ UNCHANGED <<pages, acts, activity, watches, mail, changes, bounds, hist, due>>

(* sendDigests up to its first mail *)
ReadWatches(r) ==
  /\ run[r].step = "claimed" /\ mail
  /\ run' = [run EXCEPT ![r] = [step |-> "mailing", digests |-> [u \in Users |-> {e.id : e \in {f \in OfRun(r) : u \in Recipients(f, watches)}}]]]
  /\ UNCHANGED <<pages, acts, activity, watches, mail, changes, bounds, hist, due>>

(* "Page change notifications are not sent: mail is not configured." *)
NotSent(r) ==
  /\ run[r].step = "claimed" /\ ~mail
  /\ run' = [run EXCEPT ![r].step = "mailing"]
  /\ due' = due \ (Users \X {e.id : e \in OfRun(r)})
  /\ UNCHANGED <<pages, acts, activity, watches, mail, changes, bounds, hist>>

Digest(r, u) == {u} \X run[r].digests[u]

Mailed(r, u) ==
  /\ run[r].step = "mailing" /\ run[r].digests[u] # {}
  /\ run' = [run EXCEPT ![r].digests[u] = {}]
  /\ UNCHANGED <<pages, acts, activity, watches, mail, changes, watchings>>

SendMail(r, u) ==
  /\ Mailed(r, u)
  /\ told' = told \cup Digest(r, u) /\ twice' = twice \cup (Digest(r, u) \cap told)
  /\ UNCHANGED <<mishaps, due>>

MailFails(r, u) ==
  /\ Mishap
  /\ Mailed(r, u)
  /\ due' = due \ Digest(r, u)
  /\ UNCHANGED hist

(* Watches of pages without a row are removed, whether or not the deletion  *)
(* was recorded and notified by then. *)
CleanUp(r) ==
  /\ run[r].step = "mailing" /\ \A u \in Users : run[r].digests[u] = {}
  /\ watches' = {w \in watches : w.kind = "page" => There(w.page)}
  /\ run' = [run EXCEPT ![r].step = "done"]
  /\ due' = StillDue(watches')
  /\ UNCHANGED <<pages, acts, activity, mail, changes, bounds, hist>>

(* The server of a run stops, or the database fails it. *)
Stops(r) ==
  /\ Mishap
  /\ run[r].step \in {"claimed", "mailing"}
  /\ run' = [run EXCEPT ![r] = [Idle EXCEPT !.step = "done"]]
  /\ due' = due \ ((Users \X {e.id : e \in OfRun(r)}) \ told)
  /\ UNCHANGED <<pages, acts, activity, watches, mail, changes, watchings, hist>>

ConfigureMail ==
  /\ ~mail /\ mail' = TRUE
  /\ UNCHANGED <<pages, acts, activity, watches, run, changes, bounds, hist, due>>

-----------------------------------------------------------------------------
Next ==
  \/ \E u \in Users, p \in Pages, sync \in BOOLEAN :
       \/ \E hidden \in BOOLEAN : UpdatePage(u, p, hidden, sync) \/ \E path \in Paths : CreatePage(u, p, path, hidden, sync)
       \/ \E path \in Paths : MovePage(u, p, path, sync)
       \/ DeletePage(u, p, sync)
  \/ \E e \in acts : Record(e) \/ RecordFails(e)
  \/ \E u \in Users : (\E p \in Pages : WatchPage(u, p)) \/ (\E folder \in Folders : WatchPath(u, folder))
  \/ \E w \in watches : RemoveWatch(w)
  \/ \E r \in Runs : Claim(r) \/ ReadWatches(r) \/ NotSent(r) \/ CleanUp(r) \/ Stops(r) \/ (\E u \in Users : SendMail(r, u) \/ MailFails(r, u))
  \/ ConfigureMail

Spec == Init /\ [][Next]_vars

-----------------------------------------------------------------------------
(* Properties *)

NobodyToldTwice == twice = {}
WatchersTold == \A e \in activity : \A r \in Runs : e.claim = r /\ run[r].step = "done" => {d \in due : d[2] = e.id} \subseteq told

(* However runs overlap, nobody is mailed of an event twice; and when the   *)
(* run that claimed an event has ended, all who watched the page when it    *)
(* was recorded were mailed, unless the run was stopped, mail is not        *)
(* configured or failed, or the watch was gone when the run read it:        *)
(* removed by the user, or, for a deletion recorded after the claim of an   *)
(* earlier run, by the cleanup of that run                                  *)
(* (send-page-digests.js:17-35, pages.js:834).                              *)
MailedExactlyOnce == NobodyToldTwice /\ WatchersTold

=============================================================================
