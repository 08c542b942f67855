------------------------------ MODULE PageCache ------------------------------
(***************************************************************************)
(* What readers see of one page: its row in table pages, the render jobs   *)
(* that fill its column render, the pageLinks they maintain, and the cache *)
(* file that every instance of the server keeps on its own disk            *)
(* (server/models/pages.js, server/jobs/render-page.js, html-core).        *)
(* Instances tell each other to drop a file by NOTIFY (server/core/db.js), *)
(* which is not delivered while the listener of the other one reconnects.  *)
(*                                                                         *)
(* Requests are handled concurrently: another one may run at every await,  *)
(* and a render job runs in a process of its own.  Awaits between which    *)
(* nothing here changes are one step.                                      *)
(***************************************************************************)
EXTENDS Integers, FiniteSets

CONSTANTS
  Instances,    \* servers that share the database
  Nowhere,      \* the instance of a request that is not being handled
  Requests,     \* bound: requests that change something, each made once
  MaxFailures,  \* bound: renders that fail or are not asked for
  MaxMissed     \* bound: notifications that are not delivered

ASSUME CacheAssumption == Nowhere \notin Instances /\ IsFiniteSet(Requests) /\ MaxFailures \in Nat /\ MaxMissed \in Nat

VARIABLES
  row,       \* the page: its id, text, and the render of some text
  target,    \* does the page exist that linked texts link to?
  links,     \* has pageLinks an entry from this page to the target?
  cache,     \* the page's cache file on each instance
  reader,    \* on each instance, what a request within getPage has read
  inbox,     \* notifications on their way to each instance
  req,       \* the requests that change something
  job,       \* the render job each of them started
  failures,  \* bound: jobs that failed, and saves that threw before their job
  missed,    \* bound: notifications lost
  why,       \* history: what left a stale cache file on an instance
  overlap,   \* history: two render jobs of the page were under way at once
  linkRace   \* history: a link was not updated, or while a job knew its old state

vars == <<row, target, links, cache, reader, inbox, req, job, failures, missed, why, overlap, linkRace>>

-----------------------------------------------------------------------------
MaxText == Cardinality(Requests) + 1

(* Texts are numbered as they are saved; linked tells if the text holds a   *)
(* link to the target.  valid is the class of that link in a render.        *)
Texts == [n : 1..MaxText, linked : BOOLEAN]
Renders == [n : 1..MaxText, linked : BOOLEAN, valid : BOOLEAN]
NoRender == [n |-> 0, linked |-> FALSE, valid |-> FALSE]
NoRow == [id |-> 0, text |-> NoRender, render |-> NoRender]
NoFile == NoRender
RenderOf(text, valid) == [n |-> text.n, linked |-> text.linked, valid |-> text.linked /\ valid]

Exists == row # NoRow
Kinds == {"create", "save", "rerender", "delete", "flush", "link", "convert"}
JobStages == {"none", "queued", "forked", "read", "looked", "linked", "patched", "done", "failed"}
Reasons == {"none", "late write", "missed", "silent", "killed", "unlinked", "threw"}
At == Instances \cup {Nowhere}

TypeOK ==
  /\ row \in [id : 0..MaxText, text : Texts \cup {NoRender}, render : Renders \cup {NoRender}]
  /\ target \in BOOLEAN /\ links \in BOOLEAN
  /\ cache \in [Instances -> Renders \cup {NoFile}]
  /\ reader \in [Instances -> Renders \cup {NoRender}]
  /\ inbox \in [Instances -> 0..Cardinality(Requests)]
  /\ \A r \in Requests :
       /\ req[r].step \in {"new", "rendering", "reconnecting", "replaced", "looking", "dropping", "done", "threw"}
       /\ req[r].kind \in Kinds \cup {"none"} /\ req[r].at \in At
       /\ req[r].n \in 0..MaxText /\ req[r].valid \in BOOLEAN
       /\ job[r].stage \in JobStages /\ job[r].id \in 0..MaxText /\ job[r].at \in At
       /\ job[r].text \in Texts \cup {NoRender} /\ job[r].valid \in BOOLEAN /\ job[r].past \in BOOLEAN
  /\ failures \in 0..MaxFailures /\ missed \in 0..MaxMissed
  /\ why \in [Instances -> Reasons]
  /\ overlap \in BOOLEAN /\ linkRace \in BOOLEAN

NoRequest == [step |-> "new", kind |-> "none", at |-> Nowhere, n |-> 0, valid |-> FALSE]
(* valid: what the job found of the target; past: that pageLinks named it *)
NoJob == [stage |-> "none", at |-> Nowhere, id |-> 0, text |-> NoRender, valid |-> FALSE, past |-> FALSE]

(* A page that was saved, rendered and not yet read, or none. *)
Init ==
  /\ \E linked \in BOOLEAN, exists \in BOOLEAN :
       LET text == [n |-> 1, linked |-> linked] IN
       /\ target \in BOOLEAN
       /\ row = IF exists THEN [id |-> 1, text |-> text, render |-> RenderOf(text, target)] ELSE NoRow
       /\ links = (exists /\ linked)
  /\ cache = [i \in Instances |-> NoFile]
  /\ reader = [i \in Instances |-> NoRender]
  /\ inbox = [i \in Instances |-> 0]
  /\ req = [r \in Requests |-> NoRequest]
  /\ job = [r \in Requests |-> NoJob]
  /\ failures = 0 /\ missed = 0
  /\ why = [i \in Instances |-> "none"]
  /\ overlap = FALSE /\ linkRace = FALSE

Started == {r \in Requests : req[r].step # "new"}
NextText == Cardinality({r \in Started : req[r].kind \in {"create", "save"}}) + 2

-----------------------------------------------------------------------------
(* Cache files and the notifications about them. *)

(* savePageToCache *)
SaveToCache(i, render) ==
  /\ cache' = [cache EXCEPT ![i] = render]
  /\ why' = [why EXCEPT ![i] = IF row.render = render THEN "none" ELSE "late write"]

(* A stale file is left on these instances, and nothing under way will drop it. *)
Blame(instances, reason) ==
  why' = [i \in Instances |-> IF i \in instances /\ cache[i] \notin {NoFile, row'.render} THEN reason ELSE why[i]]

(* deletePageFromCache, or flushCache as far as this page goes *)
DropFromCache(i) ==
  /\ cache' = [cache EXCEPT ![i] = NoFile]
  /\ why' = [why EXCEPT ![i] = "none"]

(* Mutant: an event is published twice. *)
EmitTwice(i) == inbox' = [j \in Instances |-> IF j = i THEN inbox[j] ELSE inbox[j] + 2]

(* WIKI.events.outbound.emit, and notifyViaDB *)
Emit(i) == inbox' = [j \in Instances |-> IF j = i THEN inbox[j] ELSE inbox[j] + 1]

EventArrives(i) ==
  /\ inbox[i] > 0
  /\ inbox' = [inbox EXCEPT ![i] = @ - 1]
  /\ DropFromCache(i)
  /\ UNCHANGED <<row, target, links, reader, req, job, failures, missed, overlap, linkRace>>

EventMissed(i) ==
  /\ inbox[i] > 0 /\ missed < MaxMissed
  /\ inbox' = [inbox EXCEPT ![i] = @ - 1]
  /\ missed' = missed + 1
  /\ UNCHANGED row /\ Blame({i}, "missed")
  /\ UNCHANGED <<target, links, cache, reader, req, job, failures, overlap, linkRace>>

-----------------------------------------------------------------------------
(* Reading: getPage looks for the file, then for the row, then writes the   *)
(* file.                                                                    *)

writeVars == <<row, target, links, inbox, req, job, failures, missed, overlap, linkRace>>

(* No file, so the row.  A page that is missing gives 404, one without a    *)
(* render an error; neither is cached.                                      *)
ReadRow(i) ==
  /\ reader[i] = NoRender /\ cache[i] = NoFile
  /\ reader' = [reader EXCEPT ![i] = row.render]
  /\ UNCHANGED <<writeVars, cache, why>>

FillCache(i) ==
  /\ reader[i] # NoRender
  /\ SaveToCache(i, reader[i])
  /\ reader' = [reader EXCEPT ![i] = NoRender]
  /\ UNCHANGED writeVars

-----------------------------------------------------------------------------
(* A request starts at an instance.  renderPage registers a job: with every *)
(* worker slot taken it is queued, and its caller goes on at once           *)
(* (Scheduler!CallerAfterRegister), which for a save is its notification.   *)

Starts(r, kind, i, step) ==
  /\ req[r].step = "new"
  /\ req' = [req EXCEPT ![r] = [step |-> step, kind |-> kind, at |-> i, n |-> row'.text.n, valid |-> target']]

Ends(r, kind, step) ==
  req' = [req EXCEPT ![r] = [NoRequest EXCEPT !.step = step, !.kind = kind]]

RenderPage(r, kind, i) ==
  \E queued \in BOOLEAN :
    /\ job' = [job EXCEPT ![r] = [NoJob EXCEPT !.stage = IF queued THEN "queued" ELSE "forked", !.at = i, !.id = row'.id]]
    /\ req[r].step = "new"
    /\ IF queued THEN Ends(r, kind, "done") ELSE Starts(r, kind, i, "rendering")
    /\ IF queued /\ kind # "create" THEN Emit(i) ELSE UNCHANGED inbox

boundVars == <<failures, missed>>
raceVars == <<overlap, linkRace>>

InsertRow ==
  /\ ~Exists
  /\ \E linked \in BOOLEAN : row' = [id |-> NextText, text |-> [n |-> NextText, linked |-> linked], render |-> NoRender]

PatchRow ==
  /\ Exists
  /\ \E linked \in BOOLEAN : row' = [row EXCEPT !.text = [n |-> NextText, linked |-> linked]]

Create(r, i) ==
  /\ InsertRow
  /\ UNCHANGED target
  /\ RenderPage(r, "create", i)
  /\ UNCHANGED <<links, cache, reader, boundVars, why, raceVars>>

(* Jobs between what they read and what they write. *)
Rendering == {r \in Requests : job[r].stage \in {"read", "looked", "linked"}}

(* Mutant: no job is registered while one renders the page. *)
SaveJoins(r, i) ==
  /\ PatchRow
  /\ UNCHANGED target
  /\ IF Rendering # {}
     THEN /\ req[r].step = "new"
          /\ Ends(r, "save", "done") /\ Emit(i) /\ UNCHANGED job
     ELSE RenderPage(r, "save", i)
  /\ UNCHANGED <<links, cache, reader, boundVars, why, raceVars>>

(* updatePage from its patch on *)
Save(r, i) ==
  /\ PatchRow
  /\ UNCHANGED target
  /\ RenderPage(r, "save", i)
  /\ UNCHANGED <<links, cache, reader, boundVars, why, raceVars>>

(* The row is read again and its tags are saved before the page is          *)
(* rendered; either may throw.                                              *)
WriteThrows(r) ==
  /\ InsertRow \/ PatchRow
  /\ failures < MaxFailures /\ failures' = failures + 1
  /\ req[r].step = "new" /\ Ends(r, IF Exists THEN "save" ELSE "create", "threw")
  /\ UNCHANGED <<target, links, cache, reader, inbox, job, missed, why, raceVars>>

(* The administrator renders the page again. *)
Rerender(r, i) ==
  /\ Exists
  /\ UNCHANGED <<row, target>>
  /\ RenderPage(r, "rerender", i)
  /\ UNCHANGED <<links, cache, reader, boundVars, why, raceVars>>

(* convertPage from its patch on: the text is in another markup, and what   *)
(* it says and its render are those of before.                              *)
Convert(r, i) ==
  /\ Exists
  /\ UNCHANGED <<row, target>>
  /\ Starts(r, "convert", i, "dropping")
  /\ UNCHANGED <<links, cache, reader, inbox, job, boundVars, why, raceVars>>

(* The row goes, and its pageLinks with it. *)
Delete(r, i) ==
  /\ Exists
  /\ row' = NoRow /\ links' = FALSE
  /\ UNCHANGED target
  /\ Starts(r, "delete", i, "dropping")
  /\ UNCHANGED <<cache, reader, inbox, job, boundVars, why, raceVars>>

FlushCache(r, i) ==
  /\ UNCHANGED <<row, target>>
  /\ req[r].step = "new" /\ Ends(r, "flush", "done")
  /\ DropFromCache(i) /\ Emit(i)
  /\ UNCHANGED <<links, reader, job, boundVars, raceVars>>

(* The page that linked texts link to is created or deleted. *)
ChangeTarget(r, i) ==
  /\ target' = ~target
  /\ UNCHANGED row
  /\ Starts(r, "link", i, "reconnecting")
  /\ UNCHANGED <<links, cache, reader, inbox, job, boundVars, why, raceVars>>

-----------------------------------------------------------------------------
(* How a request goes on. *)

Step(r, step) == req' = [req EXCEPT ![r].step = step]

(* Mutant: only links to a page that was created are brought up to date. *)
ReplaceInCreated(r) ==
  /\ req[r].step = "reconnecting"
  /\ IF links
     THEN /\ row' = IF row.render.linked /\ req[r].valid THEN [row EXCEPT !.render.valid = TRUE] ELSE row
          /\ Step(r, "replaced")
     ELSE UNCHANGED row /\ Step(r, "looking")
  /\ linkRace' = \/ linkRace
                  \/ req[r].valid # target
                  \/ \E s \in Requests : job[s].stage \in {"looked", "linked"} /\ job[s].text.linked /\ job[s].valid # req[r].valid
  /\ UNCHANGED <<target, links, cache, reader, inbox, job, boundVars, why, overlap>>

(* reconnectLinks replaces the class of the link in the render of every     *)
(* page that pageLinks names; a job that looked before may bring back the   *)
(* old one.                                                                 *)
ReplaceLinks(r) ==
  /\ req[r].step = "reconnecting"
  /\ IF links
     THEN /\ row' = IF row.render.linked THEN [row EXCEPT !.render.valid = req[r].valid] ELSE row
          /\ Step(r, "replaced")
     ELSE UNCHANGED row /\ Step(r, "looking")
  /\ linkRace' = \/ linkRace
                  \/ req[r].valid # target
                  \/ \E s \in Requests : job[s].stage \in {"looked", "linked"} /\ job[s].text.linked /\ job[s].valid # req[r].valid
  /\ UNCHANGED <<target, links, cache, reader, inbox, job, boundVars, why, overlap>>

(* Then it looks up which pages these are.  The file of one that a job has  *)
(* taken out of pageLinks in between is left as it is.                      *)
FindLinking(r) ==
  /\ req[r].step \in {"replaced", "looking"}
  /\ IF links THEN Step(r, "dropping") ELSE Ends(r, "link", "done")
  /\ UNCHANGED row
  /\ Blame(IF req[r].step = "replaced" /\ ~links THEN Instances ELSE {}, "unlinked")
  /\ UNCHANGED <<target, links, cache, reader, inbox, job, boundVars, raceVars>>

(* Whatever comes between the write of a row and the files may throw: the   *)
(* tree, the index or the storage before reconnectLinks, a query in it, or  *)
(* the file system.                                                         *)
RequestThrows(r) ==
  /\ req[r].step \in {"reconnecting", "replaced", "looking", "dropping"}
  /\ Ends(r, req[r].kind, "threw")
  /\ UNCHANGED row
  /\ Blame(IF req[r].step \in {"replaced", "dropping"} THEN Instances ELSE {}, "threw")
  /\ linkRace' = (linkRace \/ req[r].step = "reconnecting")
  /\ UNCHANGED <<target, links, cache, reader, inbox, job, boundVars, overlap>>

(* deletePageFromCache here, and the notification for the other instances *)
DropAndNotify(r) ==
  /\ req[r].step = "dropping"
  /\ Ends(r, req[r].kind, "done")
  /\ DropFromCache(req[r].at) /\ Emit(req[r].at)
  /\ UNCHANGED <<row, target, links, reader, job, boundVars, raceVars>>

(* Mutant: the other instances are not told of a save. *)
CallerForgetsEvent(r) ==
  /\ req[r].step = "rendering"
  /\ \/ job[r].stage = "done" /\ Ends(r, req[r].kind, "done")
     \/ job[r].stage = "failed" /\ Ends(r, req[r].kind, "threw")
  /\ UNCHANGED <<row, target, links, cache, reader, inbox, job, boundVars, why, raceVars>>

(* The job has ended.  A failed one rejects, which skips the rest of the    *)
(* request, its notification included.                                      *)
CallerResumes(r) ==
  /\ req[r].step = "rendering"
  /\ \/ /\ job[r].stage = "done"
        /\ Ends(r, req[r].kind, "done")
        /\ IF req[r].kind = "create" THEN UNCHANGED inbox ELSE Emit(req[r].at)
     \/ /\ job[r].stage = "failed"
        /\ Ends(r, req[r].kind, "threw")
        /\ UNCHANGED inbox
  /\ UNCHANGED <<row, target, links, cache, reader, job, boundVars, why, raceVars>>

-----------------------------------------------------------------------------
(* The render job. *)

JobStep(r, from, to) ==
  /\ job[r].stage = from
  /\ job' = [job EXCEPT ![r].stage = to]
JobEnds(r, stage) == job' = [job EXCEPT ![r] = [NoJob EXCEPT !.stage = stage, !.id = job[r].id]]
Mine(r) == row.id = job[r].id

Fork(r) ==
  /\ JobStep(r, "queued", "forked")
  /\ UNCHANGED <<row, target, links, cache, reader, inbox, req, boundVars, why, raceVars>>

(* getPageFromDb; a page that is gone is an "Invalid Page Id". *)
ReadPage(r) ==
  /\ job[r].stage = "forked"
  /\ IF Mine(r) THEN job' = [job EXCEPT ![r].stage = "read", ![r].text = row.text] ELSE JobEnds(r, "failed")
  /\ overlap' = (overlap \/ (Mine(r) /\ Rendering # {}))
  /\ UNCHANGED <<row, target, links, cache, reader, inbox, req, boundVars, why, linkRace>>

(* html-core looks up what pageLinks names and which pages linked to exist. *)
FindLinks(r) ==
  /\ job[r].stage = "read"
  /\ job' = [job EXCEPT ![r].stage = "looked", ![r].valid = job[r].text.linked /\ target, ![r].past = links /\ Mine(r)]
  /\ UNCHANGED <<row, target, links, cache, reader, inbox, req, boundVars, why, raceVars>>

(* Then it inserts an entry that is missing, which violates the foreign key *)
(* if the page is gone, or deletes the one that it found; another job may   *)
(* have inserted a second one.                                              *)
UpdateLinks(r) ==
  LET inserts == job[r].text.linked /\ ~job[r].past
      deletes == ~job[r].text.linked /\ job[r].past
  IN
  /\ job[r].stage = "looked"
  /\ IF inserts /\ ~Mine(r) THEN JobEnds(r, "failed") ELSE JobStep(r, "looked", "linked")
  /\ \/ inserts /\ links' = (links \/ Mine(r))
     \/ deletes /\ links' \in IF Mine(r) THEN {FALSE, links /\ overlap} ELSE {links}
     \/ ~inserts /\ ~deletes /\ UNCHANGED links
  /\ UNCHANGED <<row, target, cache, reader, inbox, req, boundVars, why, raceVars>>

Rendered(r) == RenderOf(job[r].text, job[r].valid)

(* No notification follows the render of a page that was created, nor one   *)
(* whose caller has gone on.                                                *)
Silent(r) == req[r].step # "rendering" \/ req[r].kind = "create"

PatchRender(r) ==
  /\ JobStep(r, "linked", "patched")
  /\ row' = IF Mine(r) THEN [row EXCEPT !.render = Rendered(r)] ELSE row
  /\ Blame(IF Silent(r) THEN Instances \ {job[r].at} ELSE {}, "silent")
  /\ UNCHANGED <<target, links, cache, reader, inbox, req, boundVars, raceVars>>

(* Mutant: the job leaves the old file in place. *)
KeepCacheFile(r) ==
  /\ job[r].stage = "patched"
  /\ JobEnds(r, "done")
  /\ UNCHANGED <<row, target, links, cache, reader, inbox, req, boundVars, why, raceVars>>

WriteCacheFile(r) ==
  /\ job[r].stage = "patched"
  /\ JobEnds(r, "done")
  /\ SaveToCache(job[r].at, Rendered(r))
  /\ UNCHANGED <<row, target, links, reader, inbox, req, boundVars, raceVars>>

(* The fork or the renderer fails, or the child is killed. *)
JobFails(r) ==
  /\ job[r].stage \in {"forked", "read", "looked", "linked", "patched"} /\ failures < MaxFailures
  /\ failures' = failures + 1
  /\ JobEnds(r, "failed")
  /\ UNCHANGED row
  /\ Blame(IF job[r].stage = "patched" THEN Instances ELSE {}, "killed")
  /\ UNCHANGED <<target, links, cache, reader, inbox, req, missed, raceVars>>

-----------------------------------------------------------------------------
Next ==
  \/ \E r \in Requests :
       \/ \E i \in Instances :
            Create(r, i) \/ Save(r, i) \/ Rerender(r, i) \/ Convert(r, i) \/ Delete(r, i)
              \/ FlushCache(r, i) \/ ChangeTarget(r, i)
       \/ WriteThrows(r) \/ ReplaceLinks(r) \/ FindLinking(r) \/ RequestThrows(r) \/ DropAndNotify(r) \/ CallerResumes(r)
       \/ Fork(r) \/ ReadPage(r) \/ FindLinks(r) \/ UpdateLinks(r) \/ PatchRender(r) \/ WriteCacheFile(r) \/ JobFails(r)
  \/ \E i \in Instances :
       EventArrives(i) \/ EventMissed(i) \/ ReadRow(i) \/ FillCache(i)

Spec == Init /\ [][Next]_vars

-----------------------------------------------------------------------------
(* Properties *)

(* Nothing is under way. *)
AtRest ==
  /\ \A r \in Requests : req[r].step \in {"new", "done", "threw"} /\ job[r].stage \in {"none", "done", "failed"}
  /\ \A i \in Instances : inbox[i] = 0 /\ reader[i] = NoRender

(* At rest an instance has no file of the page or the one of its render     *)
(* (and none of a page that is gone), but for six reasons: the file was     *)
(* written by somebody who had read the page before it changed; a           *)
(* notification was missed; a render was followed by no notification, its   *)
(* job having been queued or its page new; a job was killed between the     *)
(* database and the file; a job took the page out of pageLinks after its    *)
(* links were replaced and before it was looked up; a request threw between *)
(* its write and the files (pages.js:421, 635, 724, 811, 886-896;           *)
(* render-page.js:72-86; renderer.js:195).                                  *)
CacheCurrent ==
  AtRest => \A i \in Instances :
    \/ cache[i] = NoFile
    \/ Exists /\ cache[i] = row.render
    \/ why[i] # "none"

(* At rest the render is that of the text, unless two jobs of the page      *)
(* overlapped, one failed, or a save threw before its job was registered:   *)
(* every other one is followed by a job that reads its text or a newer one  *)
(* (pages.js:395-420).                                                      *)
RenderCurrent ==
  AtRest /\ Exists /\ ~overlap /\ failures = 0 => row.render.n = row.text.n

(* At rest a link is shown valid exactly if its target exists, unless the   *)
(* target changed while a job or another change still knew it otherwise, or *)
(* the request that changed it threw before the links were replaced         *)
(* (pages.js:311-328, 814-825), two jobs of the page overlapped, one        *)
(* failed, or a save threw before its job (html-core's link states,         *)
(* reconnectLinks).                                                         *)
LinksCurrent ==
  AtRest /\ row.render.linked /\ ~linkRace /\ ~overlap /\ failures = 0 => row.render.valid = target

(* A save that waited for its job has its text, or a newer one, in the      *)
(* render when it returns, and the file of its own instance is not older,   *)
(* if no job overlapped and nobody wrote that file late (pages.js:420).     *)
SavedTextIsShown ==
  [][\A r \in Requests :
       CallerResumes(r) /\ job[r].stage = "done" /\ req[r].kind = "save" /\ Mine(r) /\ ~overlap =>
         /\ row.render.n >= req[r].n
         /\ why[req[r].at] # "none" \/ cache[req[r].at].n >= req[r].n \/ cache[req[r].at] = NoFile]_vars

=============================================================================
