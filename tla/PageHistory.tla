----------------------------- MODULE PageHistory -----------------------------
(***************************************************************************)
(* One page and its versions: the row of table pages, the rows of          *)
(* pageHistory that updatePage, convertPage and movePage archive before    *)
(* they write (server/models/pages.js), the patches of render-page and     *)
(* reconnectLinks, and what pageHistory.planRevert makes of it all.        *)
(* Every operation awaits the database between reading the row, archiving  *)
(* it and writing it, and nothing locks the row meanwhile.                 *)
(*                                                                         *)
(* Time is counted in writes of updatedAt, which $beforeUpdate sets on     *)
(* every patch (pages.js:118).  A text is the content of the page, named   *)
(* by the time of its first save; titles are not told apart (a move also   *)
(* patches the title, as it was when the move read the row: see PageTree). *)
(***************************************************************************)
EXTENDS Integers, Sequences, FiniteSets

CONSTANTS
  Users,        \* users who edit the page
  MaxTime,      \* bound: writes of the page's row
  MaxFailures   \* bound: operations that stop half way

ASSUME HistoryAssumption == Users # {} /\ MaxTime \in Nat \ {0} /\ MaxFailures \in Nat

VARIABLES
  clock,     \* writes so far
  page,      \* the live row: [text, author, date], date being updatedAt
  history,   \* rows of pageHistory: [text, author, date], date being versionDate
  op,        \* the operation each user has under way
  timeline,  \* history: the content changes that really happened, oldest first: by
             \* whom and when, and the author the row names then
  undated,   \* history: [saved, at], a write at time `at` that kept a text saved
             \* before, and no version tells
  lost,      \* history: times of saves overwritten by one that had not seen them
  failures   \* bound: operations that stopped half way

vars == <<clock, page, history, op, timeline, undated, lost, failures>>

Times == 1..MaxTime
Versions == [text : Times, author : Users, date : Times]
Kinds == {"edit", "restore", "convert", "move"}
Changes == [text : Times, author : Users, by : Users, kind : Kinds \ {"move"}, time : Times]
Idle == [stage |-> "idle"]
Ops == {Idle} \cup
  [stage : {"started"}, kind : Kinds, text : 0..MaxTime] \cup
  [stage : {"fetched", "archived", "written"}, kind : Kinds, text : 0..MaxTime, og : Versions, seen : Times]

TypeOK ==
  /\ clock \in Times
  /\ page \in Versions /\ page.date = clock
  /\ history \subseteq Versions
  /\ op \in [Users -> Ops]
  /\ timeline \in Seq(Changes)
  /\ undated \subseteq [saved : Times, at : Times]
  /\ lost \subseteq Times
  /\ failures \in 0..MaxFailures

(* createPage: one row, no version yet. *)
Init ==
  /\ clock = 1
  /\ \E u \in Users :
       /\ page = [text |-> 1, author |-> u, date |-> 1]
       /\ timeline = <<[text |-> 1, author |-> u, by |-> u, kind |-> "edit", time |-> 1]>>
  /\ history = {} /\ undated = {} /\ lost = {}
  /\ failures = 0
  /\ op = [u \in Users |-> Idle]

Ghosts == <<timeline, undated, lost>>

-----------------------------------------------------------------------------
(* The operations.  A text of 0 is one that does not exist yet. *)

Start(u, kind, text) ==
  /\ op[u] = Idle
  /\ op' = [op EXCEPT ![u] = [stage |-> "started", kind |-> kind, text |-> text]]
  /\ UNCHANGED <<clock, page, history, Ghosts, failures>>

StartEdit(u) == Start(u, "edit", 0)
StartConvert(u) == Start(u, "convert", 0)
StartMove(u) == Start(u, "move", 0)

(* restoreVersion fetches the version, then calls updatePage. *)
StartRestore(u) == \E v \in history : Start(u, "restore", v.text)

(* When the text of the row was saved. *)
LastSave == timeline[Len(timeline)].time

(* The original page is fetched. *)
Fetch(u) ==
  /\ op[u].stage = "started"
  /\ op' = [op EXCEPT ![u] = [stage |-> "fetched", kind |-> op[u].kind, text |-> op[u].text,
                             og |-> page, seen |-> LastSave]]
  /\ UNCHANGED <<clock, page, history, Ghosts, failures>>

Archive_WithNewAuthor(u) ==
  /\ op[u].stage = "fetched"
  /\ history' = history \cup {[op[u].og EXCEPT !.author = u]}
  /\ op' = [op EXCEPT ![u].stage = "archived"]
  /\ UNCHANGED <<clock, page, Ghosts, failures>>

Archive_Nothing(u) ==
  /\ op[u].stage = "fetched"
  /\ op' = [op EXCEPT ![u].stage = "archived"]
  /\ UNCHANGED <<clock, page, history, Ghosts, failures>>

(* addVersion: the fetched page becomes a version of its date. *)
Archive(u) ==
  /\ op[u].stage = "fetched"
  /\ history' = history \cup {op[u].og}
  /\ op' = [op EXCEPT ![u].stage = "archived"]
  /\ UNCHANGED <<clock, page, Ghosts, failures>>

(* updatePage and convertPage patch the row.  convertPage leaves authorId   *)
(* as it is (pages.js:627-631): the row still names the author of the text  *)
(* that u converts.                                                         *)
Write(u) ==
  /\ op[u].stage = "archived" /\ op[u].kind # "move"
  /\ clock < MaxTime
  /\ clock' = clock + 1
  /\ page' = [text   |-> IF op[u].text = 0 THEN clock + 1 ELSE op[u].text,
              author |-> IF op[u].kind = "convert" THEN page.author ELSE u,
              date   |-> clock + 1]
  /\ timeline' = Append(timeline, [text |-> page'.text, author |-> page'.author,
                                   by |-> u, kind |-> op[u].kind, time |-> clock + 1])
  /\ lost' = IF op[u].seen = LastSave THEN lost ELSE lost \cup {LastSave}
  /\ op' = [op EXCEPT ![u] = IF op[u].kind = "convert" THEN Idle ELSE [op[u] EXCEPT !.stage = "written"]]
  /\ UNCHANGED <<history, undated, failures>>

Touch_KeepsDate ==
  /\ clock < MaxTime
  /\ clock' = clock + 1
  /\ UNCHANGED page

(* The row is written again with the text it has. *)
Touch ==
  /\ clock < MaxTime
  /\ clock' = clock + 1
  /\ page' = [page EXCEPT !.date = clock + 1]

KeptText == [saved |-> LastSave, at |-> clock + 1]

(* The render-page job that updatePage waits for patches render and toc.    *)
Render(u) ==
  /\ op[u].stage = "written"
  /\ Touch
  /\ undated' = undated \cup {KeptText}
  /\ op' = [op EXCEPT ![u] = Idle]
  /\ UNCHANGED <<history, timeline, lost, failures>>

(* movePage patches path, locale, title and hash. *)
Move(u) ==
  /\ op[u].stage = "archived" /\ op[u].kind = "move"
  /\ Touch
  /\ undated' = IF op[u].seen = LastSave THEN undated ELSE undated \cup {KeptText}
  /\ op' = [op EXCEPT ![u] = Idle]
  /\ UNCHANGED <<history, timeline, lost, failures>>

(* Access is refused, the destination exists, a query fails or the server   *)
(* goes down: what was archived and written stays.  An operation whose      *)
(* render job fails ends here too, and one whose job is still queued: the   *)
(* job's patch then comes later, as one of ReconnectLinks.                  *)
Fails(u) ==
  /\ op[u].stage \in {"fetched", "archived", "written"}
  /\ failures < MaxFailures
  /\ failures' = failures + 1
  /\ op' = [op EXCEPT ![u] = Idle]
  /\ UNCHANGED <<clock, page, history, Ghosts>>

(* Another page is created, moved or deleted: reconnectLinks patches the    *)
(* render of the pages that link to it.  A rerender by an administrator, a  *)
(* late render job and a conversion to an editor of the same content type   *)
(* do as much.                                                              *)
ReconnectLinks ==
  /\ Touch
  /\ undated' = undated \cup {KeptText}
  /\ UNCHANGED <<history, op, timeline, lost, failures>>

-----------------------------------------------------------------------------
(* pageHistory.planRevert, for the changes of user a since time s. *)

Latest(versions) == CHOOSE v \in versions : \A w \in versions : w.date <= v.date

PlanRevert_InclusiveBaseline(a, s, includeOthers) ==
  LET states == history \cup {page}
      changes == {v \in states : v.date >= s}
      older == {v \in states : v.date <= s}
  IN  [status |-> IF \A v \in changes : v.author # a THEN "untouched"
                  ELSE IF older = {} THEN "created"
                  ELSE IF ~includeOthers /\ \E v \in changes : v.author # a THEN "conflict"
                  ELSE "revert",
       baseline |-> IF older = {} THEN page ELSE Latest(older)]

PlanRevert_LiveOnly(a, s, includeOthers) ==
  LET older == {v \in history : v.date < s}
  IN  [status |-> IF page.date < s \/ page.author # a THEN "untouched"
                  ELSE IF older = {} THEN "created" ELSE "revert",
       baseline |-> IF older = {} THEN page ELSE Latest(older)]

PlanRevert(a, s, includeOthers) ==
  LET states == history \cup {page}
      changes == {v \in states : v.date >= s}
      older == states \ changes
  IN  [status |-> IF \A v \in changes : v.author # a THEN "untouched"
                  ELSE IF older = {} THEN "created"
                  ELSE IF ~includeOthers /\ \E v \in changes : v.author # a THEN "conflict"
                  ELSE "revert",
       baseline |-> IF older = {} THEN page ELSE Latest(older)]

(* revertChanges, asked of u for the changes of a: the plan of the moment,  *)
(* whose version, if it is there, is restored with the awaits of any        *)
(* restore, and whatever others save meanwhile.                             *)
StartRevert(u) ==
  \E a \in Users, s \in Times, includeOthers \in BOOLEAN :
    LET plan == PlanRevert(a, s, includeOthers) IN
      /\ plan.status = "revert" /\ plan.baseline \in history
      /\ Start(u, "restore", plan.baseline.text)

-----------------------------------------------------------------------------
UserStep(u) ==
  \/ StartEdit(u) \/ StartConvert(u) \/ StartMove(u) \/ StartRestore(u) \/ StartRevert(u)
  \/ Fetch(u) \/ Archive(u) \/ Write(u) \/ Render(u) \/ Move(u)
  \/ Fails(u)

Next == ReconnectLinks \/ \E u \in Users : UserStep(u)

Spec == Init /\ [][Next]_vars

-----------------------------------------------------------------------------
(* Properties. *)

(* The live page and every version are states the page really was in, with  *)
(* the author it had then, at that date or before: archiving what was read  *)
(* earlier never mixes a text with another save's author or an older date   *)
(* (pages.js:379-385, pageHistory.js:304-306).                              *)
VersionsAreTrue ==
  \A v \in history \cup {page} : \E i \in DOMAIN timeline :
    timeline[i].text = v.text /\ timeline[i].author = v.author /\ timeline[i].time <= v.date

(* A save archives what it overwrites, if it has seen it: what is in        *)
(* neither the row nor the versions was overwritten by a save that had read *)
(* the row before.                                                          *)
OnlyUnseenTextsAreLost ==
  \A i \in DOMAIN timeline :
    \/ timeline[i].time \in lost
    \/ \E v \in history \cup {page} :
         v.text = timeline[i].text /\ v.author = timeline[i].author /\ v.date >= timeline[i].time

(* The save the page showed just before time s, and those since then. *)
Before(s) == timeline[Cardinality({i \in DOMAIN timeline : timeline[i].time < s})]
Since(s) == {timeline[i] : i \in {j \in DOMAIN timeline : timeline[j].time >= s}}

(* No write at s or later dated a text anew that was saved before s. *)
DatesTell(s) == \A w \in undated : ~(w.saved < s /\ w.at >= s)

(* A plan to revert names the version the page had just before the date,    *)
(* as long as updatedAt tells saves from rerenders and that version was not *)
(* lost; moves, restores and conversions in between do not mislead it       *)
(* (pageHistory.js:302-333).                                                *)
RevertRestoresBaseline ==
  \A a \in Users, s \in 2..clock, others \in BOOLEAN :
    LET plan == PlanRevert(a, s, others)
    IN  plan.status = "revert" /\ DatesTell(s) /\ Before(s).time \notin lost =>
          plan.baseline.text = Before(s).text

(* "Pages that other users edited afterwards are listed but left alone",    *)
(* "pages the user created in that period are never touched"                *)
(* (CHANGELOG.md:11): a plan to revert undoes no change anybody else made,  *)
(* and never a page that did not exist at the date.  Two exceptions: a save *)
(* that was lost, and a conversion of the user's own text, which the row    *)
(* goes on crediting to that user (pages.js:627-631), whoever converted it. *)
RevertKeepsOthers ==
  \A a \in Users, s \in 1..clock :
    PlanRevert(a, s, FALSE).status = "revert" =>
      /\ s > timeline[1].time
      /\ \A c \in Since(s) : c.by = a \/ c.time \in lost \/ (c.kind = "convert" /\ c.author = a)

(* A page its user changed since the date is never reported untouched,      *)
(* unless that change was lost, or was a conversion of somebody else's text *)
(* (pages.js:627-631).                                                      *)
PlanMissesNoChange ==
  \A a \in Users, s \in 1..clock :
    PlanRevert(a, s, FALSE).status = "untouched" =>
      \A c \in Since(s) : c.by # a \/ c.time \in lost \/ (c.kind = "convert" /\ c.author # a)

(* "Every history entry is a past state of the page (created at versionDate *)
(* by authorId)" (pageHistory.js:305-306): only changes made at or after    *)
(* the date are rolled back.                                                *)
OnlyRecentChangesReverted ==
  \A a \in Users, s \in 1..clock :
    PlanRevert(a, s, FALSE).status = "revert" => \E c \in Since(s) : c.author = a

(* "The overwritten live state becomes a new history entry, so a restore    *)
(* can itself be undone" (pageHistory.js:277): the state a restore          *)
(* overwrites is there to be restored.                                      *)
OverwrittenBecomesVersion ==
  \A i \in 2..Len(timeline) : timeline[i].kind = "restore" =>
    \E v \in history \cup {page} : v.text = timeline[i - 1].text
===============================================================================
