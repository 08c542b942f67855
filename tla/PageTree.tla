------------------------------ MODULE PageTree ------------------------------
(***************************************************************************)
(* Where pages are: the paths of the rows of table pages, and all that is  *)
(* keyed by path and follows them: the table pageTree that the worker job  *)
(* rebuild-tree empties and fills again, the search index and the files of *)
(* a storage target (disk; one object per page in S3 and Azure).           *)
(* createPage, movePage, deletePage and updatePage await each of these in  *)
(* turn, and other requests run meanwhile.  A save that also moves is a    *)
(* save and a move.                                                        *)
(*                                                                         *)
(* A path is a sequence of names, and names are numbers in the order in    *)
(* which the database sorts them.  One locale.  Foreign keys as in         *)
(* PostgreSQL.                                                             *)
(***************************************************************************)
EXTENDS Integers, Sequences, FiniteSets, SequencesExt

CONSTANTS
  Paths,        \* the paths that pages may have
  Titles,       \* titles that users give; those that are names are numbers like names
  Requests,     \* bound: requests, each made once
  InitialPages, \* bound: pages to begin with
  InitialTitles, \* bound: what these are titled
  ChunkSize,    \* rows per INSERT (60 or 100)
  MaxFailures   \* bound: jobs and requests that fail by themselves

ASSUME TreeAssumption ==
  /\ Paths \subseteq Seq(Nat) \ {<<>>} /\ IsFiniteSet(Paths) /\ Titles \subseteq Nat /\ InitialTitles \subseteq Titles /\ IsFiniteSet(Requests)
  /\ InitialPages \in Nat /\ ChunkSize \in Nat \ {0} /\ MaxFailures \in Nat

VARIABLES
  pages,     \* rows of pages; text is the create or save that wrote text and title
  tree,      \* rows of pageTree
  search,    \* the text at each path in the search index, 0 for none
  files,     \* and in the storage target
  req,       \* requests
  job,       \* the rebuild job each of them started
  failures,  \* bound: failures so far
  excused,   \* history: paths of requests that overlapped or threw
  treeRace   \* history: since the last undisturbed rebuild, one was disturbed

vars == <<pages, tree, search, files, req, job, failures, excused, treeRace>>

MaxId == InitialPages + Cardinality(Requests)

-----------------------------------------------------------------------------
(* The algorithm of the job: every part of every path, in the order of the  *)
(* paths, is looked up by its path and added if it is not there.            *)

Before(p, q) ==
  \/ IsStrictPrefix(p, q)
  \/ \E i \in 1..Len(p) : i <= Len(q) /\ p[i] < q[i] /\ SubSeq(p, 1, i - 1) = SubSeq(q, 1, i - 1)

RowBefore(a, b) == Before(a.path, b.path) \/ (a.path = b.path /\ a.id < b.id)
OrderByPath(rows) ==
  [i \in 1..Cardinality(rows) |-> CHOOSE a \in rows : Cardinality({b \in rows : RowBefore(b, a)}) = i - 1]

(* Mutant: an entry that is found does not become a folder. *)
AddPartOnce(state, page, depth) ==
  LET path == SubSeq(page.path, 1, depth)
      isFolder == depth < Len(page.path)
      found == {i \in DOMAIN state.tree : state.tree[i].path = path}
      id == IF found = {} THEN Len(state.tree) + 1 ELSE CHOOSE i \in found : TRUE
      entry == [id |-> id, path |-> path, isFolder |-> isFolder,
                title |-> IF isFolder THEN 0 ELSE page.title,
                pageId |-> IF isFolder THEN 0 ELSE page.id,
                parent |-> state.parent, ancestors |-> state.ancestors]
  IN [tree |-> IF found = {} THEN Append(state.tree, entry) ELSE state.tree,
      parent |-> id,
      ancestors |-> Append(state.ancestors, id)]

(* state: the tree so far, the parent and the ancestors in this path *)
AddPart(state, page, depth) ==
  LET path == SubSeq(page.path, 1, depth)
      isFolder == depth < Len(page.path)
      found == {i \in DOMAIN state.tree : state.tree[i].path = path}
      id == IF found = {} THEN Len(state.tree) + 1 ELSE CHOOSE i \in found : TRUE
      entry == [id |-> id, path |-> path, isFolder |-> isFolder,
                title |-> IF isFolder THEN 0 ELSE page.title,
                pageId |-> IF isFolder THEN 0 ELSE page.id,
                parent |-> state.parent, ancestors |-> state.ancestors]
  IN [tree |-> IF found = {} THEN Append(state.tree, entry)
               ELSE [state.tree EXCEPT ![id].isFolder = @ \/ isFolder],
      parent |-> id,
      ancestors |-> Append(state.ancestors, id)]

(* The states after each part of the path *)
PartsAdded(entries, page) ==
  LET state[depth \in 0..Len(page.path)] ==
        IF depth = 0 THEN [tree |-> entries, parent |-> 0, ancestors |-> <<>>]
        ELSE AddPart(state[depth - 1], page, depth)
  IN  state
AddPage(entries, page) == PartsAdded(entries, page)[Len(page.path)].tree

(* The trees after each page *)
PagesAdded(ordered) ==
  LET built[n \in 0..Len(ordered)] == IF n = 0 THEN <<>> ELSE AddPage(built[n - 1], ordered[n])
  IN  built
BuildTree(rows) == LET ordered == OrderByPath(rows) IN PagesAdded(ordered)[Len(ordered)]

(* What a tree of these pages is, however it was computed: an entry for     *)
(* each path of a page and each folder above it, numbered, each below the   *)
(* entry of the folder it is in.                                            *)
AllPrefixes(rows) == UNION {{SubSeq(a.path, 1, d) : d \in 1..Len(a.path)} : a \in rows}
IsTreeOf(entries, rows) ==
  /\ {e.path : e \in entries} = AllPrefixes(rows)
  /\ Cardinality(entries) = Cardinality(AllPrefixes(rows))
  /\ {e.id : e \in entries} = 1..Cardinality(entries)
  /\ \A e \in entries :
       /\ e.isFolder <=> \E a \in rows : IsStrictPrefix(e.path, a.path)
       /\ IF \E a \in rows : a.path = e.path
          THEN \E a \in rows : a.path = e.path /\ e.pageId = a.id /\ e.title = a.title
          ELSE e.pageId = 0 /\ e.title = 0
       /\ IF Len(e.path) = 1
          THEN e.parent = 0 /\ e.ancestors = <<>>
          ELSE \E f \in entries : f.path = Front(e.path) /\ e.parent = f.id /\ e.ancestors = Append(f.ancestors, f.id)

-----------------------------------------------------------------------------
(* A folder without a page has title 0 for its name.  listed is history:    *)
(* the page never was a template.                                           *)
AllTitles == Titles \cup {Last(p) : p \in Paths}
Rows == [id : 1..MaxId, path : Paths, title : AllTitles, text : 1..MaxId, listed : BOOLEAN]
Row(id) == {a \in pages : a.id = id}
RowsAt(p) == {a \in pages : a.path = p}

Steps == {"new", "checked", "written", "rebuilding", "index", "store", "title", "done", "threw"}
NoPath == <<>>
NoRequest == [step |-> "new", kind |-> "none", id |-> 0, path |-> NoPath, to |-> NoPath, title |-> 0, text |-> 0, template |-> FALSE]
NoJob == [stage |-> "none", plan |-> <<>>, inserted |-> 0]

TypeOK ==
  /\ pages \subseteq Rows /\ \A a, b \in pages : a.id = b.id => a = b
  /\ \A e \in tree : e.pageId \in {a.id : a \in pages} \cup {0} /\ e.parent \in {f.id : f \in tree} \cup {0}
  /\ \A e, f \in tree : e.id = f.id => e = f
  /\ search \in [Paths -> 0..MaxId] /\ files \in [Paths -> 0..MaxId]
  /\ \A r \in Requests :
       /\ req[r].step \in Steps /\ req[r].kind \in {"none", "create", "move", "delete", "save"}
       /\ req[r].id \in 0..MaxId /\ req[r].path \in Paths \cup {NoPath} /\ req[r].to \in Paths \cup {NoPath}
       /\ req[r].title \in AllTitles \cup {0} /\ req[r].text \in 0..MaxId /\ req[r].template \in BOOLEAN
       /\ job[r].stage \in {"none", "queued", "forked", "read", "filling", "done", "failed"}
       /\ job[r].inserted \in 0..Len(job[r].plan)
  /\ failures \in 0..MaxFailures /\ excused \subseteq Paths /\ treeRace \in BOOLEAN

(* What rows hold at each path *)
Follows(rows) == [p \in Paths |-> IF \E a \in rows : a.path = p THEN (CHOOSE a \in rows : a.path = p).text ELSE 0]
Listed(rows) == {a \in rows : a.listed}

Init ==
  /\ \E at \in [1..InitialPages -> Paths], titles \in [1..InitialPages -> InitialTitles] :
       /\ \A i, j \in 1..InitialPages : i < j => Before(at[i], at[j])
       /\ pages = {[id |-> i, path |-> at[i], title |-> titles[i], text |-> i, listed |-> TRUE] : i \in 1..InitialPages}
  /\ tree = ToSet(BuildTree(pages))
  /\ search = Follows(Listed(pages)) /\ files = Follows(pages)
  /\ req = [r \in Requests |-> NoRequest]
  /\ job = [r \in Requests |-> NoJob]
  /\ failures = 0 /\ excused = {} /\ treeRace = FALSE

Active == {r \in Requests : req[r].step \notin {"new", "done", "threw"}}
PathsOf(r) == {req[r].path, req[r].to} \ {NoPath}
NextNumber == InitialPages + Cardinality({r \in Requests : req[r].kind \in {"create", "save"}}) + 1

outlets == <<search, files>>

(* History: the paths of this request and of those it overlaps; what is     *)
(* wrong at one of its paths may be moved to the other.                     *)
Overlapping(ps) ==
  excused' = excused \cup (IF ps \cap excused # {} THEN ps ELSE {})
                     \cup UNION {ps \cup PathsOf(s) : s \in {q \in Active : PathsOf(q) \cap ps # {}}}

-----------------------------------------------------------------------------
(* The requests, up to the write of the row. *)

(* createPage finds no page at the path. *)
CheckFree(r, p) ==
  /\ req[r].step = "new" /\ RowsAt(p) = {}
  /\ \E title \in Titles, template \in BOOLEAN :
       req' = [req EXCEPT ![r] = [step |-> "checked", kind |-> "create", id |-> 0, path |-> p, to |-> NoPath,
                                 title |-> title, text |-> NextNumber, template |-> template]]
  /\ Overlapping({p})
  /\ UNCHANGED <<pages, tree, outlets, job, failures, treeRace>>

(* A page titled by its name is titled by its new name. *)
MovedTitle(a, to) == IF a.title = Last(a.path) THEN Last(to) ELSE a.title

(* Mutant: the destination is not looked at. *)
SkipDestination(r, a, to) ==
  /\ req[r].step = "new"
  /\ req' = [req EXCEPT ![r] = [step |-> "checked", kind |-> "move", id |-> a.id, path |-> a.path, to |-> to,
                               title |-> MovedTitle(a, to), text |-> 0, template |-> FALSE]]
  /\ Overlapping({a.path, to})
  /\ UNCHANGED <<pages, tree, outlets, job, failures, treeRace>>

(* movePage fetches the page and finds none at the destination. *)
CheckDestination(r, a, to) ==
  /\ req[r].step = "new" /\ RowsAt(to) = {}
  /\ req' = [req EXCEPT ![r] = [step |-> "checked", kind |-> "move", id |-> a.id, path |-> a.path, to |-> to,
                               title |-> MovedTitle(a, to), text |-> 0, template |-> FALSE]]
  /\ Overlapping({a.path, to})
  /\ UNCHANGED <<pages, tree, outlets, job, failures, treeRace>>

(* deletePage fetches the page. *)
FetchToDelete(r, a) ==
  /\ req[r].step = "new"
  /\ req' = [req EXCEPT ![r] = [step |-> "checked", kind |-> "delete", id |-> a.id, path |-> a.path, to |-> NoPath,
                               title |-> 0, text |-> 0, template |-> FALSE]]
  /\ Overlapping({a.path})
  /\ UNCHANGED <<pages, tree, outlets, job, failures, treeRace>>

(* updatePage patches the row, fetches it again and renders it. *)
Save(r, a) ==
  /\ req[r].step = "new"
  /\ \E title \in Titles, template \in BOOLEAN :
       /\ pages' = (pages \ {a}) \cup {[id |-> a.id, path |-> a.path, title |-> title, text |-> NextNumber,
                                       listed |-> a.listed /\ ~template]}
       /\ req' = [req EXCEPT ![r] = [step |-> "index", kind |-> "save", id |-> a.id, path |-> a.path, to |-> NoPath,
                                    title |-> title, text |-> NextNumber, template |-> template]]
  /\ Overlapping({a.path})
  /\ UNCHANGED <<tree, outlets, job, failures, treeRace>>

Insert(r) ==
  /\ req[r].step = "checked" /\ req[r].kind = "create"
  /\ pages' = pages \cup {[id |-> req[r].text, path |-> req[r].path, title |-> req[r].title,
                           text |-> req[r].text, listed |-> ~req[r].template]}
  /\ req' = [req EXCEPT ![r].step = "written", ![r].id = req[r].text]
  /\ UNCHANGED <<tree, outlets, job, failures, excused, treeRace>>

(* The patch has the title of the row that was fetched; that of a page      *)
(* which was deleted meanwhile changes no row.                              *)
MoveRow(r) ==
  /\ req[r].step = "checked" /\ req[r].kind = "move"
  /\ pages' = {IF a.id = req[r].id THEN [a EXCEPT !.path = req[r].to, !.title = req[r].title] ELSE a : a \in pages}
  /\ req' = [req EXCEPT ![r].step = "written"]
  /\ UNCHANGED <<tree, outlets, job, failures, excused, treeRace>>

(* Mutant: the page's entry stays. *)
DeleteRowOnly(r) ==
  /\ req[r].step = "checked" /\ req[r].kind = "delete"
  /\ pages' = pages \ Row(req[r].id)
  /\ req' = [req EXCEPT ![r].step = "written"]
  /\ UNCHANGED <<tree, outlets, job, failures, excused, treeRace>>

(* The foreign keys of pageTree delete the page's entry and all below it,   *)
(* that is, all that have no chain of parents up to the root any more.      *)
WithParents(entries) == UNION {kept \in SUBSET entries : \A e \in kept : e.parent \in {0} \cup {f.id : f \in kept}}
DeleteRow(r) ==
  /\ req[r].step = "checked" /\ req[r].kind = "delete"
  /\ pages' = pages \ Row(req[r].id)
  /\ tree' = WithParents({e \in tree : e.pageId # req[r].id})
  /\ req' = [req EXCEPT ![r].step = "written"]
  /\ UNCHANGED <<outlets, job, failures, excused, treeRace>>

-----------------------------------------------------------------------------
(* The rebuild. *)

(* Mutant: no job is registered while another one is under way. *)
RebuildTreeOnce(r) ==
  /\ req[r].step = "written"
  /\ IF \E s \in Requests : job[s].stage \in {"queued", "forked", "read", "filling"}
     THEN UNCHANGED job /\ req' = [req EXCEPT ![r].step = "index"]
     ELSE /\ job' = [job EXCEPT ![r].stage = "forked"]
          /\ req' = [req EXCEPT ![r].step = "rebuilding"]
  /\ UNCHANGED <<pages, tree, outlets, failures, excused, treeRace>>

(* With every worker slot taken the job is queued and its caller goes on. *)
RebuildTree(r) ==
  /\ req[r].step = "written"
  /\ \E queued \in BOOLEAN :
       /\ job' = [job EXCEPT ![r].stage = IF queued THEN "queued" ELSE "forked"]
       /\ req' = [req EXCEPT ![r].step = IF queued THEN "index" ELSE "rebuilding"]
  /\ UNCHANGED <<pages, tree, outlets, failures, excused, treeRace>>

Fork(r) ==
  /\ job[r].stage = "queued"
  /\ job' = [job EXCEPT ![r].stage = "forked"]
  /\ UNCHANGED <<pages, tree, outlets, req, failures, excused, treeRace>>

InWindow == {r \in Requests : job[r].stage \in {"read", "filling"}}

ReadPages(r) ==
  /\ job[r].stage = "forked"
  /\ job' = [job EXCEPT ![r] = [stage |-> "read", plan |-> BuildTree(pages), inserted |-> 0]]
  /\ treeRace' = (InWindow # {})
  /\ UNCHANGED <<pages, tree, outlets, req, failures, excused>>

EndsJob(r, stage) == job' = [job EXCEPT ![r] = [NoJob EXCEPT !.stage = stage]]

Truncate(r) ==
  /\ job[r].stage = "read"
  /\ tree' = {}
  /\ IF job[r].plan = <<>> THEN EndsJob(r, "done") ELSE job' = [job EXCEPT ![r].stage = "filling"]
  /\ UNCHANGED <<pages, outlets, req, failures, excused, treeRace>>

Chunk(r) ==
  {job[r].plan[i] : i \in {k \in DOMAIN job[r].plan :
                             job[r].inserted < k /\ k <= job[r].inserted + ChunkSize}}

(* The primary key, and the foreign keys to pages and to the parent entry. *)
KeysHold(chunk) ==
  /\ \A e \in chunk, f \in tree : e.id # f.id
  /\ \A e \in chunk :
       /\ e.pageId \in {a.id : a \in pages} \cup {0}
       /\ e.parent \in {f.id : f \in tree \cup chunk} \cup {0}

InsertChunk(r) ==
  /\ job[r].stage = "filling" /\ KeysHold(Chunk(r))
  /\ tree' = tree \cup Chunk(r)
  /\ LET inserted == job[r].inserted + Cardinality(Chunk(r)) IN
       IF inserted = Len(job[r].plan) THEN EndsJob(r, "done")
       ELSE job' = [job EXCEPT ![r].inserted = inserted]
  /\ UNCHANGED <<pages, outlets, req, failures, excused, treeRace>>

InsertFails(r) ==
  /\ job[r].stage = "filling" /\ ~KeysHold(Chunk(r))
  /\ EndsJob(r, "failed")
  /\ treeRace' = TRUE
  /\ UNCHANGED <<pages, tree, outlets, req, failures, excused>>

(* The fork fails, or the child is killed after ten minutes. *)
JobFails(r) ==
  /\ job[r].stage \in {"forked", "read", "filling"} /\ failures < MaxFailures
  /\ failures' = failures + 1
  /\ EndsJob(r, "failed")
  /\ treeRace' = TRUE
  /\ UNCHANGED <<pages, tree, outlets, req, excused>>

-----------------------------------------------------------------------------
(* The requests, from the rebuild on. *)

Goes(r, step) ==
  req' = [req EXCEPT ![r] = IF step = "done" THEN [NoRequest EXCEPT !.step = step, !.kind = req[r].kind]
                           ELSE [req[r] EXCEPT !.step = step]]
Throws(r) ==
  /\ req' = [req EXCEPT ![r] = [NoRequest EXCEPT !.step = "threw", !.kind = req[r].kind]]
  /\ excused' = excused \cup PathsOf(r)

(* A failed job rejects: the page is there, but the index, the storage and  *)
(* the log are not told.                                                    *)
Rebuilt(r) ==
  /\ req[r].step = "rebuilding"
  /\ \/ job[r].stage = "done" /\ Goes(r, "index") /\ UNCHANGED excused
     \/ job[r].stage = "failed" /\ Throws(r)
  /\ UNCHANGED <<pages, tree, outlets, job, failures, treeRace>>

(* getSafeContent of a page that is gone throws. *)
PageGone(r) ==
  /\ req[r].step = "index" /\ req[r].kind # "delete" /\ Row(req[r].id) = {}
  /\ Throws(r)
  /\ UNCHANGED <<pages, tree, outlets, job, failures, treeRace>>

(* Mutant: what was at the old path stays there. *)
Copied(store, from, to) == IF store[from] = 0 THEN store ELSE [store EXCEPT ![to] = store[from]]

Renamed(store, from, to) ==
  IF store[from] = 0 THEN store ELSE [store EXCEPT ![to] = store[from], ![from] = 0]

(* The search engine is told: of a template, that the page was deleted, and *)
(* of a page that is none any more, to update an entry that is not there.   *)
Index(r) ==
  /\ req[r].step = "index" /\ (req[r].kind = "delete" \/ Row(req[r].id) # {})
  /\ LET p == req[r].path IN
       search' = CASE req[r].kind = "create" -> IF req[r].template THEN search ELSE [search EXCEPT ![p] = req[r].text]
                   [] req[r].kind = "save" -> [search EXCEPT ![p] = IF @ = 0 \/ req[r].template THEN 0 ELSE req[r].text]
                   [] req[r].kind = "delete" -> [search EXCEPT ![p] = 0]
                   [] req[r].kind = "move" -> Renamed(search, p, req[r].to)
  /\ Goes(r, "store")
  /\ UNCHANGED <<pages, tree, files, job, failures, excused, treeRace>>

(* The storage target is told.  A missing file is an error, which           *)
(* dispatchEvent logs.                                                      *)
Store(r) ==
  /\ req[r].step = "store"
  /\ LET p == req[r].path IN
       files' = CASE req[r].kind \in {"create", "save"} -> [files EXCEPT ![p] = req[r].text]
                  [] req[r].kind = "delete" -> [files EXCEPT ![p] = 0]
                  [] req[r].kind = "move" -> Renamed(files, p, req[r].to)
  /\ Goes(r, IF req[r].kind = "save" THEN "title" ELSE "done")
  /\ UNCHANGED <<pages, tree, search, job, failures, excused, treeRace>>

(* The storage target fails, which dispatchEvent logs as well. *)
TargetFails(r) ==
  /\ req[r].step = "store" /\ failures < MaxFailures
  /\ failures' = failures + 1
  /\ Goes(r, IF req[r].kind = "save" THEN "title" ELSE "done")
  /\ excused' = excused \cup PathsOf(r)
  /\ UNCHANGED <<pages, tree, outlets, job, treeRace>>

(* updatePage ends with the title of the page's entry, which a rebuild      *)
(* under way does not know.                                                 *)
UpdateTitle(r) ==
  /\ req[r].step = "title"
  /\ tree' = {IF e.pageId = req[r].id THEN [e EXCEPT !.title = req[r].title] ELSE e : e \in tree}
  /\ treeRace' = \/ treeRace
                 \/ \E s \in InWindow : \E i \in DOMAIN job[s].plan :
                      job[s].plan[i].pageId = req[r].id /\ job[s].plan[i].title # req[r].title
                 \/ \E a \in Row(req[r].id) : a.title # req[r].title
  /\ Goes(r, "done")
  /\ UNCHANGED <<pages, outlets, job, failures, excused>>

(* The database, the render job or the search engine fails the request,     *)
(* which leaves the tree behind if it was yet to be rebuilt or retitled.    *)
RequestFails(r) ==
  /\ req[r].step \in {"checked", "written", "index", "title"} /\ failures < MaxFailures
  /\ failures' = failures + 1
  /\ Throws(r)
  /\ treeRace' = (treeRace \/ req[r].step = "written" \/ req[r].kind = "save")
  /\ UNCHANGED <<pages, tree, outlets, job>>

-----------------------------------------------------------------------------
RequestStep(r) ==
  \/ \E p \in Paths : CheckFree(r, p)
  \/ \E a \in pages : (\E to \in Paths : CheckDestination(r, a, to)) \/ FetchToDelete(r, a) \/ Save(r, a)
  \/ Insert(r) \/ MoveRow(r) \/ DeleteRow(r) \/ RebuildTree(r) \/ Rebuilt(r) \/ PageGone(r)
  \/ Index(r) \/ Store(r) \/ TargetFails(r) \/ UpdateTitle(r) \/ RequestFails(r)
JobStep(r) ==
  Fork(r) \/ ReadPages(r) \/ Truncate(r) \/ InsertChunk(r) \/ InsertFails(r) \/ JobFails(r)

Next == \E r \in Requests : RequestStep(r) \/ JobStep(r)
Spec == Init /\ [][Next]_vars

-----------------------------------------------------------------------------
(* Properties *)

AtRest == Active = {} /\ \A r \in Requests : job[r].stage \in {"none", "done", "failed"}

(* Whatever pages there are, the job computes their tree (rebuild-tree.js   *)
(* 13-55).                                                                  *)
RebuildIsCorrect == IsTreeOf(ToSet(BuildTree(pages)), pages)

(* At rest the table is the tree of the pages, titles included, however     *)
(* requests and rebuilds interleaved, unless since the last undisturbed     *)
(* rebuild one overlapped another or failed, a request threw between its    *)
(* write and its rebuild or title, or a save set its title while a rebuild  *)
(* had read another one or after somebody else had changed the row's        *)
(* (rebuild-tree.js:57-70, pages.js:314, 464-468, 716-726).                 *)
TreeMatchesPages == AtRest /\ ~treeRace => IsTreeOf(tree, pages)

(* While no request concerns a path, the storage and the search index hold  *)
(* there the text that a create or a save gave the page, and the title with *)
(* it: not the one that a move gives it, which reaches neither.  A page     *)
(* that is or ever was a template is not in the index.  Excepted are paths  *)
(* of requests that overlapped, threw or met a storage target that failed:  *)
(* requests about other pages do not disturb them (pages.js:310-328,        *)
(* 423-437, 729-753, 816-825; engine.js:111-156).                           *)
OutletsFollowPages ==
  \A p \in Paths \ excused :
    (\A r \in Active : p \notin PathsOf(r)) => search[p] = Follows(Listed(pages))[p] /\ files[p] = Follows(pages)[p]

(* Two pages share a path only if requests for that path overlapped         *)
(* between check and write (pages.js:260-264, 697-704).                     *)
PathsAreUnique ==
  \A a, b \in pages : a # b /\ a.path = b.path => a.path \in excused

=============================================================================
