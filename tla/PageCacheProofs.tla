-------------------------- MODULE PageCacheProofs --------------------------
(***************************************************************************)
(* Proofs about PageCache: whatever instances and requests there are, at   *)
(* rest every cache file, render and link is current, or one of the        *)
(* reasons the properties name applies.                                    *)
(***************************************************************************)
EXTENDS PageCache, FiniteSetTheorems, TLAPS

(* The values of the variables *)
Rows == [id : 0..MaxText, text : Texts \cup {NoRender}, render : Renders \cup {NoRender}]
ReqStates ==
  [step : {"new", "rendering", "reconnecting", "replaced", "looking", "dropping", "done", "threw"},
   kind : Kinds \cup {"none"}, at : At, n : 0..MaxText, valid : BOOLEAN]
Jobs == [stage : JobStages, at : At, id : 0..MaxText, text : Texts \cup {NoRender}, valid : BOOLEAN, past : BOOLEAN]

Shape ==
  /\ row \in Rows /\ (Exists <=> row.id # 0) /\ (Exists => row.text \in Texts)
  /\ target \in BOOLEAN /\ links \in BOOLEAN /\ overlap \in BOOLEAN /\ linkRace \in BOOLEAN
  /\ cache \in [Instances -> Renders \cup {NoFile}] /\ reader \in [Instances -> Renders \cup {NoRender}]
  /\ inbox \in [Instances -> Nat] /\ why \in [Instances -> Reasons]
  /\ req \in [Requests -> ReqStates] /\ job \in [Requests -> Jobs]
  /\ failures \in 0..MaxFailures /\ missed \in 0..MaxMissed

(* A request that is over has notified every instance at most once. *)
Over == {r \in Requests : req[r].step \in {"done", "threw"}}
Notified == \A i \in Instances : inbox[i] <= Cardinality(Over)

(* What a request or its job is at, and that its numbers were given out *)
Writers == {r \in Started : req[r].kind \in {"create", "save"}}
Orderly(r) ==
  /\ req[r].step \in {"dropping", "rendering", "reconnecting", "replaced", "looking"} => req[r].at \in Instances
  /\ req[r].step = "new" => job[r].stage = "none"
  /\ req[r].step \in {"reconnecting", "replaced", "looking"} => req[r].kind = "link"
  /\ req[r].step = "rendering" => job[r].stage \in {"forked", "read", "looked", "linked", "patched", "done", "failed"}
  /\ job[r].stage \in {"queued", "forked", "read", "looked", "linked", "patched"} => job[r].at \in Instances
  /\ job[r].stage # "none" => job[r].id # 0
  /\ job[r].stage \in {"read", "looked", "linked", "patched"} => job[r].text \in Texts
  /\ req[r].step = "rendering" /\ job[r].stage \in {"forked", "read", "looked", "linked", "patched"} => req[r].at = job[r].at
  /\ {job[r].id, job[r].text.n} \subseteq 0..(NextText - 1)

Fresh == {row.id, row.text.n} \subseteq 0..(NextText - 1)

(* Something under way will yet drop or write the file on instance i. *)
Told(r, i) ==
  \/ req[r].step \in {"replaced", "dropping"}
  \/ job[r].stage = "patched" /\ job[r].at = i
  \/ job[r].stage \in {"patched", "done"} /\ ~Silent(r) /\ req[r].at # i
FileInv(i) ==
  \/ cache[i] \in {NoFile, row.render}
  \/ why[i] # "none"
  \/ inbox[i] > 0
  \/ \E r \in Requests : Told(r, i)

(* One job renders at a time, as long as none overlap. *)
OneRendering == ~overlap => \A r, s \in Rendering : r = s

(* A text without its render has a job that will read it or has read it. *)
WillRender(r) ==
  Mine(r) /\ (job[r].stage \in {"queued", "forked"} \/ (job[r].stage \in {"read", "looked", "linked"} /\ job[r].text = row.text))
Behind == row.render.n # row.text.n \/ \E r \in Rendering : Mine(r) /\ job[r].text # row.text
RenderInv == Exists /\ ~overlap /\ failures = 0 /\ Behind => \E r \in Requests : WillRender(r)

(* A link shown wrongly will be shown anew, or brought up to date in the    *)
(* render, where pageLinks names the page.                                  *)
WillRelink(r) ==
  Mine(r) /\ \/ job[r].stage \in {"queued", "forked", "read"}
             \/ job[r].stage \in {"looked", "linked"} /\ (job[r].text.linked => job[r].valid = target)
WillReconnect(r) == req[r].step = "reconnecting" /\ req[r].valid = target
LinkInv ==
  Exists /\ ~linkRace /\ ~overlap /\ failures = 0 =>
    /\ \A r \in Requests : job[r].stage \in {"looked", "linked"} /\ Mine(r) =>
         /\ job[r].stage = "looked" => job[r].past = links
         /\ job[r].stage = "linked" => links = job[r].text.linked
         /\ job[r].text.linked /\ job[r].valid # target => \E s \in Requests : WillReconnect(s)
    /\ row.render.linked /\ ~links => \E r \in Requests : Mine(r) /\ job[r].stage = "linked" /\ ~job[r].text.linked
    /\ row.render.linked /\ row.render.valid # target =>
         (\E r \in Requests : WillRelink(r)) \/ (links /\ \E r \in Requests : WillReconnect(r))

(* A save that waits finds its text in what its job has read, and then in   *)
(* the render and in the file of its instance.                              *)
Waiting(r) == req[r].step = "rendering" /\ req[r].kind = "save" /\ Mine(r)
SaveInv(r) ==
  Waiting(r) =>
    /\ req[r].n <= row.text.n
    /\ job[r].stage \in {"read", "looked", "linked", "patched"} => req[r].n <= job[r].text.n
    /\ job[r].stage \in {"patched", "done"} /\ ~overlap =>
         /\ req[r].n <= row.render.n
         /\ \A s \in Rendering : Mine(s) => req[r].n <= job[s].text.n
    /\ job[r].stage = "done" /\ ~overlap =>
         \/ why[req[r].at] # "none" \/ cache[req[r].at] = NoFile \/ req[r].n <= cache[req[r].at].n

CacheInv ==
  /\ Shape /\ Notified /\ Fresh /\ OneRendering /\ RenderInv /\ LinkInv
  /\ \A r \in Requests : Orderly(r) /\ SaveInv(r)
  /\ \A i \in Instances : FileInv(i)

-----------------------------------------------------------------------------
(* Types and numbers *)

LEMMA Sizes ==
  /\ Cardinality(Requests) \in Nat /\ IsFiniteSet(Requests) /\ MaxText \in Nat /\ MaxText = Cardinality(Requests) + 1
  /\ MaxFailures \in Nat /\ MaxMissed \in Nat /\ Nowhere \in At /\ Instances \subseteq At /\ NoRender.n = 0 /\ ~NoRender.linked
  /\ NoRow \in Rows /\ NoRow.id = 0 /\ NoRow.render = NoRender /\ NoRow.text = NoRender /\ NoFile = NoRender
  /\ NoRequest \in ReqStates /\ NoJob \in Jobs /\ NoRender \notin Texts
<1>1. Cardinality(Requests) \in Nat /\ IsFiniteSet(Requests)
  BY CacheAssumption, FS_CardinalityType
<1>2. MaxText \in Nat /\ MaxText = Cardinality(Requests) + 1 /\ 0 \in 0..MaxText
  BY <1>1 DEF MaxText
<1>3. NoRow \in Rows /\ NoRow.id = 0 /\ NoRow.render = NoRender /\ NoRow.text = NoRender
  BY <1>2 DEF NoRow, Rows
<1>4. NoRequest \in ReqStates /\ NoJob \in Jobs
  BY <1>2 DEF NoRequest, ReqStates, NoJob, Jobs, At, JobStages
<1>5. NoRender \notin Texts /\ NoRender.n = 0 /\ ~NoRender.linked
  BY DEF NoRender, Texts
<1>6. QED
  BY <1>1, <1>2, <1>3, <1>4, <1>5, CacheAssumption DEF At, NoFile

LEMMA RowTypes ==
  ASSUME Shape
  PROVE  /\ row \in Rows /\ row.id \in 0..MaxText /\ row.id \in Nat /\ row.text \in Texts \cup {NoRender} /\ row.text.n \in 0..MaxText
         /\ row.text.n \in Nat /\ row.render \in Renders \cup {NoRender} /\ row.render.n \in Nat /\ row.render.n \in 0..MaxText
         /\ row.render.linked \in BOOLEAN /\ row.render.valid \in BOOLEAN
         /\ row = [id |-> row.id, text |-> row.text, render |-> row.render]
         /\ failures \in Nat /\ missed \in Nat
<1>1. row \in Rows /\ MaxText \in Nat /\ NoRender.n = 0
  BY Sizes DEF Shape
<1>2. row.id \in 0..MaxText /\ row.text \in Texts \cup {NoRender} /\ row.render \in Renders \cup {NoRender}
      /\ row = [id |-> row.id, text |-> row.text, render |-> row.render]
  BY <1>1 DEF Rows
<1>3. \A t \in Texts : t.n \in 1..MaxText
  BY DEF Texts
<1>4. \A t \in Renders : t.n \in 1..MaxText /\ t.linked \in BOOLEAN /\ t.valid \in BOOLEAN
  BY DEF Renders
<1>5. NoRender.linked \in BOOLEAN /\ NoRender.valid \in BOOLEAN
  BY DEF NoRender
<1>6. failures \in Nat /\ missed \in Nat
  BY Sizes DEF Shape
<1>7. row.text.n \in 0..MaxText
  BY <1>1, <1>2, <1>3
<1>8. row.render.n \in 0..MaxText
  BY <1>1, <1>2, <1>4
<1>9. row.render.linked \in BOOLEAN /\ row.render.valid \in BOOLEAN
  BY <1>2, <1>4, <1>5
<1>10. QED
  BY <1>1, <1>2, <1>6, <1>7, <1>8, <1>9

LEMMA Types ==
  ASSUME Shape, NEW r \in Requests
  PROVE  /\ req[r] \in ReqStates /\ job[r] \in Jobs
         /\ req[r].step \in {"new", "rendering", "reconnecting", "replaced", "looking", "dropping", "done", "threw"}
         /\ req[r].kind \in Kinds \cup {"none"} /\ req[r].at \in At /\ req[r].n \in 0..MaxText /\ req[r].n \in Nat /\ req[r].valid \in BOOLEAN
         /\ job[r].stage \in JobStages /\ job[r].at \in At /\ job[r].id \in 0..MaxText /\ job[r].id \in Nat
         /\ job[r].text \in Texts \cup {NoRender} /\ job[r].text.n \in Nat /\ job[r].valid \in BOOLEAN /\ job[r].past \in BOOLEAN
<1>1. req[r] \in ReqStates /\ job[r] \in Jobs /\ MaxText \in Nat /\ NoRender.n = 0
  BY Sizes DEF Shape
<1>2. /\ req[r].step \in {"new", "rendering", "reconnecting", "replaced", "looking", "dropping", "done", "threw"}
      /\ req[r].kind \in Kinds \cup {"none"} /\ req[r].at \in At /\ req[r].n \in 0..MaxText /\ req[r].valid \in BOOLEAN
  BY <1>1 DEF ReqStates
<1>3. /\ job[r].stage \in JobStages /\ job[r].at \in At /\ job[r].id \in 0..MaxText
      /\ job[r].text \in Texts \cup {NoRender} /\ job[r].valid \in BOOLEAN /\ job[r].past \in BOOLEAN
  BY <1>1 DEF Jobs
<1>4. \A t \in Texts : t.n \in 1..MaxText
  BY DEF Texts
<1>5. job[r].text.n \in Nat
  BY <1>1, <1>3, <1>4
<1>6. QED
  BY <1>1, <1>2, <1>3, <1>5

LEMMA Numbers ==
  ASSUME Shape
  PROVE  /\ IsFiniteSet(Writers) /\ Cardinality(Writers) \in Nat /\ NextText = Cardinality(Writers) + 2 /\ NextText \in Nat
         /\ \A r \in Requests : req[r].step = "new" => NextText <= MaxText
<1>1. Writers \subseteq Requests /\ IsFiniteSet(Requests)
  BY Sizes DEF Writers, Started
<1>2. IsFiniteSet(Writers) /\ Cardinality(Writers) \in Nat /\ NextText = Cardinality(Writers) + 2
  BY <1>1, FS_Subset, FS_CardinalityType DEF NextText, Writers
<1>3. ASSUME NEW r \in Requests, req[r].step = "new"
      PROVE  NextText <= MaxText
  <2>1. Writers \subseteq Requests \ {r}
    BY <1>3 DEF Writers, Started
  <2>2. IsFiniteSet(Requests \ {r}) /\ Cardinality(Requests \ {r}) = Cardinality(Requests) - 1
    BY <1>1, FS_RemoveElement
  <2>3. Cardinality(Writers) <= Cardinality(Requests) - 1
    BY <2>1, <2>2, FS_Subset
  <2>4. QED
    BY <1>2, <2>3, Sizes
<1>4. QED
  BY <1>2, <1>3

LEMMA NumbersSame ==
  ASSUME Shape, NEW r \in Requests, \A s \in Requests \ {r} : req'[s] = req[s],
         \/ req[r].step # "new" /\ req'[r].step # "new" /\ req'[r].kind = req[r].kind
         \/ req[r].step = "new" /\ req'[r].kind \notin {"create", "save"}
  PROVE  NextText' = NextText
<1>1. Writers' = Writers
  BY DEF Writers, Started
<1>2. QED
  BY <1>1 DEF NextText, Writers

LEMMA NumbersGrow ==
  ASSUME Shape, NEW r \in Requests, \A s \in Requests \ {r} : req'[s] = req[s],
         req[r].step = "new", req'[r].step # "new", req'[r].kind \in {"create", "save"}
  PROVE  NextText' = NextText + 1
<1>1. Writers' = Writers \cup {r} /\ r \notin Writers
  BY DEF Writers, Started
<1>2. Cardinality(Writers') = Cardinality(Writers) + 1
  BY <1>1, Numbers, FS_AddElement
<1>3. NextText' = Cardinality(Writers') + 2
  BY DEF NextText, Writers
<1>4. QED
  BY <1>2, <1>3, Numbers

LEMMA NotifiedKept ==
  ASSUME Shape, Notified, inbox' \in [Instances -> Nat], \A i \in Instances : inbox'[i] <= inbox[i],
         \A r \in Requests : req[r].step \in {"done", "threw"} => req'[r].step \in {"done", "threw"}
  PROVE  Notified'
<1>1. Over \subseteq Over' /\ IsFiniteSet(Over')
  BY Sizes, FS_Subset DEF Over
<1>2. Cardinality(Over) <= Cardinality(Over') /\ Cardinality(Over) \in Nat /\ Cardinality(Over') \in Nat
  BY <1>1, FS_Subset, FS_CardinalityType
<1>3. \A i \in Instances : inbox[i] \in Nat /\ inbox'[i] \in Nat
  BY DEF Shape
<1>4. QED
  BY <1>2, <1>3 DEF Notified

LEMMA NotifiedOnce ==
  ASSUME Shape, Notified, inbox' \in [Instances -> Nat], \A i \in Instances : inbox'[i] <= inbox[i] + 1,
         NEW r \in Requests, req[r].step \notin {"done", "threw"}, req'[r].step \in {"done", "threw"},
         \A s \in Requests \ {r} : req'[s] = req[s]
  PROVE  Notified'
<1>1. Over' = Over \cup {r} /\ r \notin Over /\ IsFiniteSet(Over)
  BY Sizes, FS_Subset DEF Over
<1>2. Cardinality(Over') = Cardinality(Over) + 1 /\ Cardinality(Over) \in Nat
  BY <1>1, FS_AddElement, FS_CardinalityType
<1>3. \A i \in Instances : inbox[i] \in Nat /\ inbox'[i] \in Nat
  BY DEF Shape
<1>4. QED
  BY <1>2, <1>3 DEF Notified

LEMMA EmitEffect ==
  ASSUME Shape, NEW i, Emit(i)
  PROVE  /\ inbox' \in [Instances -> Nat]
         /\ \A j \in Instances : inbox'[j] <= inbox[j] + 1 /\ inbox'[j] >= inbox[j] /\ (j # i => inbox'[j] > 0)
<1>1. inbox \in [Instances -> Nat] /\ inbox' = [j \in Instances |-> IF j = i THEN inbox[j] ELSE inbox[j] + 1]
  BY DEF Shape, Emit
<1>2. QED
  BY <1>1

-----------------------------------------------------------------------------
(* What actions leave alone *)

LEMMA OrderlyKept ==
  ASSUME Shape, NextText' \in Nat, NextText' >= NextText, NEW r \in Requests, Orderly(r), req'[r] = req[r], job'[r] = job[r]
  PROVE  Orderly(r)'
<1>1. NextText \in Nat /\ job[r].id \in Nat /\ job[r].text.n \in Nat
  BY Numbers, Types
<1>2. {job[r].id, job[r].text.n} \subseteq 0..(NextText' - 1)
  BY <1>1 DEF Orderly
<1>3. QED
  BY <1>2 DEF Orderly

LEMMA FreshKept ==
  ASSUME Shape, Fresh, NextText' = NextText, row'.id \in {row.id, 0}, row'.text.n \in {row.text.n, 0}
  PROVE  Fresh'
<1>1. NextText \in Nat /\ row.id \in Nat /\ row.text.n \in Nat
  BY Numbers, RowTypes
<1>2. QED
  BY <1>1 DEF Fresh

LEMMA FileKept ==
  ASSUME CacheInv, NEW i \in Instances,
         (cache'[i] = cache[i] /\ row'.render = row.render) \/ cache'[i] = NoFile \/ why'[i] # "none",
         why'[i] = why[i] \/ why'[i] # "none",
         inbox[i] > 0 => inbox'[i] > 0,
         \A r \in Requests : Told(r, i) => inbox'[i] > 0 \/ Told(r, i)'
  PROVE  FileInv(i)'
<1>1. FileInv(i)
  BY DEF CacheInv
<1>2. QED
  BY <1>1 DEF FileInv

Dead == {"none", "patched", "done", "failed"}
JobsKept == \A r \in Requests : job'[r] = job[r] \/ {job[r].stage, job'[r].stage} \subseteq Dead

LEMMA OneKept ==
  ASSUME CacheInv, JobsKept, overlap => overlap'
  PROVE  OneRendering' /\ Rendering' = Rendering
<1>1. Rendering' = Rendering
  BY DEF JobsKept, Dead, Rendering
<1>2. QED
  BY <1>1 DEF CacheInv, OneRendering

LEMMA RenderKept ==
  ASSUME CacheInv, JobsKept, overlap => overlap', failures' = 0 => failures = 0, Exists' => Exists,
         row'.id = row.id, row'.text = row.text, row'.render.n = row.render.n
  PROVE  RenderInv'
<1>1. Rendering' = Rendering
  BY OneKept
<1>2. \A r \in Rendering : job'[r] = job[r]
  BY DEF JobsKept, Dead, Rendering
<1>3. Behind' => Behind
  BY <1>1, <1>2 DEF Behind, Mine, Rendering
<1>4. ASSUME NEW r \in Requests, WillRender(r)
      PROVE  WillRender(r)'
  BY <1>4 DEF WillRender, JobsKept, Dead, Mine
<1>5. QED
  BY <1>3, <1>4 DEF CacheInv, RenderInv

LEMMA LinkKept ==
  ASSUME CacheInv, JobsKept, overlap => overlap', failures' = 0 => failures = 0, linkRace => linkRace', Exists' => Exists,
         row'.id = row.id, row'.render = row.render, target' = target, links' = links,
         \A r \in Requests : req[r].step = "reconnecting" => req'[r] = req[r]
  PROVE  LinkInv'
<1>1. ASSUME NEW r \in Requests
      PROVE  /\ WillReconnect(r) => WillReconnect(r)'
             /\ WillRelink(r) => WillRelink(r)'
             /\ Mine(r) /\ job[r].stage = "linked" => Mine(r)' /\ job'[r].stage = "linked" /\ job'[r].text = job[r].text
             /\ Mine(r)' /\ job'[r].stage \in {"looked", "linked"} => job'[r] = job[r] /\ Mine(r)
  BY DEF WillReconnect, WillRelink, JobsKept, Dead, Mine
<1>2. QED
  BY <1>1 DEF CacheInv, LinkInv

LEMMA SaveKept ==
  ASSUME CacheInv, JobsKept, overlap => overlap', NEW r \in Requests, job'[r] = job[r],
         row'.id = row.id, row'.text = row.text, row'.render.n = row.render.n,
         req'[r] = req[r] \/ req'[r].step # "rendering",
         \A i \in Instances : \/ cache'[i] = cache[i] /\ (why'[i] = why[i] \/ why'[i] # "none")
                              \/ cache'[i] = NoFile
                              \/ why'[i] # "none" \/ cache'[i].n = row.render.n
  PROVE  SaveInv(r)'
<1>1. CASE ~Waiting(r)'
  BY <1>1 DEF SaveInv
<1>2. CASE Waiting(r)'
  <2>1. Waiting(r) /\ req'[r] = req[r] /\ SaveInv(r) /\ Orderly(r)
    BY <1>2 DEF Waiting, Mine, CacheInv
  <2>2. Rendering' = Rendering /\ \A s \in Rendering : job'[s] = job[s]
    BY OneKept DEF JobsKept, Dead, Rendering
  <2>3. ASSUME NEW s \in Rendering', Mine(s)'
        PROVE  s \in Rendering /\ Mine(s) /\ job'[s].text.n = job[s].text.n
    BY <2>2, <2>3 DEF Mine
  <2>4. req[r].at \in Instances
    BY <2>1 DEF Orderly, Waiting
  <2>5. job'[r].stage = "done" /\ ~overlap' =>
          why'[req'[r].at] # "none" \/ cache'[req'[r].at] = NoFile \/ req'[r].n <= cache'[req'[r].at].n
    BY <2>1, <2>4 DEF SaveInv
  <2>6. QED
    BY <2>1, <2>3, <2>5 DEF SaveInv
<1>3. QED
  BY <1>1, <1>2

LEMMA EndsEffect ==
  ASSUME Shape, NEW r \in Requests, NEW kind \in Kinds \cup {"none"},
         NEW step \in {"new", "rendering", "reconnecting", "replaced", "looking", "dropping", "done", "threw"}, Ends(r, kind, step)
  PROVE  /\ req' \in [Requests -> ReqStates] /\ req'[r].step = step /\ req'[r].kind = kind
         /\ \A s \in Requests \ {r} : req'[s] = req[s]
<1> DEFINE new == [NoRequest EXCEPT !.step = step, !.kind = kind]
<1>1. new \in ReqStates /\ new.step = step /\ new.kind = kind
  BY Sizes DEF NoRequest, ReqStates
<1>2. req \in [Requests -> ReqStates] /\ req' = [req EXCEPT ![r] = new]
  BY DEF Shape, Ends
<1> HIDE DEF new
<1>3. QED
  BY <1>1, <1>2

LEMMA StartsEffect ==
  ASSUME Shape, Shape', NEW r \in Requests, NEW kind \in Kinds, NEW i \in Instances,
         NEW step \in {"rendering", "reconnecting", "dropping"}, Starts(r, kind, i, step)
  PROVE  /\ req[r].step = "new" /\ req'[r].step = step /\ req'[r].kind = kind /\ req'[r].at = i
         /\ req'[r].n = row'.text.n /\ req'[r].valid = target'
         /\ \A s \in Requests \ {r} : req'[s] = req[s]
  BY DEF Shape, Starts

LEMMA StartsTypes ==
  ASSUME Shape, NEW r \in Requests, NEW kind \in Kinds, NEW i \in Instances, row'.text.n \in 0..MaxText, target' \in BOOLEAN,
         NEW step \in {"rendering", "reconnecting", "dropping"}, Starts(r, kind, i, step)
  PROVE  req' \in [Requests -> ReqStates]
<1>1. [step |-> step, kind |-> kind, at |-> i, n |-> row'.text.n, valid |-> target'] \in ReqStates
  BY DEF ReqStates, At
<1>2. QED
  BY <1>1 DEF Shape, Starts

-----------------------------------------------------------------------------
(* Steps that leave the page and the jobs alone *)

LEMMA AsideKeeps ==
  ASSUME CacheInv, UNCHANGED <<row, target, links, job, failures, overlap, linkRace>>, NextText' = NextText,
         \A r \in Requests : req'[r] = req[r] \/ (req[r].step # "reconnecting" /\ req'[r].step \in {"done", "threw"}),
         \A i \in Instances : \/ cache'[i] = cache[i] /\ (why'[i] = why[i] \/ why'[i] # "none")
                              \/ cache'[i] = NoFile
                              \/ why'[i] # "none" \/ cache'[i].n = row.render.n
  PROVE  Fresh' /\ OneRendering' /\ RenderInv' /\ LinkInv' /\ \A r \in Requests : Orderly(r)' /\ SaveInv(r)'
<1>1. Shape /\ Fresh /\ JobsKept /\ (Exists' => Exists)
  BY DEF CacheInv, JobsKept, Exists
<1>2. Fresh'
  BY <1>1, FreshKept
<1>3. OneRendering'
  BY <1>1, OneKept
<1>4. RenderInv'
  BY <1>1, RenderKept
<1>5. \A r \in Requests : req[r].step = "reconnecting" => req'[r] = req[r]
  OBVIOUS
<1>6. LinkInv'
  BY <1>1, <1>5, LinkKept
<1>7. ASSUME NEW r \in Requests
      PROVE  Orderly(r)'
  <2>1. Orderly(r)
    BY DEF CacheInv
  <2>2. CASE req'[r] = req[r]
    <3>1. NextText' \in Nat /\ NextText' >= NextText
      BY <1>1, Numbers
    <3>2. QED
      BY <1>1, <2>1, <2>2, <3>1, OrderlyKept
  <2>3. CASE req'[r].step \in {"done", "threw"}
    BY <2>1, <2>3 DEF Orderly
  <2>4. QED
    BY <2>2, <2>3
<1>8. ASSUME NEW r \in Requests
      PROVE  SaveInv(r)'
  <2>1. req'[r] = req[r] \/ req'[r].step # "rendering"
    OBVIOUS
  <2>2. QED
    BY <1>1, <2>1, SaveKept
<1>9. QED
  BY <1>2, <1>3, <1>4, <1>6, <1>7, <1>8

LEMMA DropEffect ==
  ASSUME Shape, NEW i \in Instances, DropFromCache(i)
  PROVE  /\ cache' \in [Instances -> Renders \cup {NoFile}] /\ why' \in [Instances -> Reasons]
         /\ cache'[i] = NoFile /\ \A j \in Instances \ {i} : cache'[j] = cache[j] /\ why'[j] = why[j]
  BY DEF Shape, DropFromCache, Reasons

LEMMA FlushCacheKeeps ==
  ASSUME CacheInv, NEW r \in Requests, NEW i \in Instances, FlushCache(r, i)
  PROVE  CacheInv'
<1>1. Shape /\ Notified /\ req[r].step = "new" /\ Ends(r, "flush", "done") /\ DropFromCache(i) /\ Emit(i)
      /\ UNCHANGED <<row, target, links, reader, job, failures, missed, overlap, linkRace>>
  BY DEF CacheInv, FlushCache, boundVars, raceVars
<1>2. /\ req' \in [Requests -> ReqStates] /\ req'[r].step = "done" /\ req'[r].kind = "flush"
      /\ \A s \in Requests \ {r} : req'[s] = req[s]
  BY <1>1, EndsEffect DEF Kinds
<1>3. /\ cache' \in [Instances -> Renders \cup {NoFile}] /\ why' \in [Instances -> Reasons]
      /\ cache'[i] = NoFile /\ \A j \in Instances \ {i} : cache'[j] = cache[j] /\ why'[j] = why[j]
  BY <1>1, DropEffect
<1>4. /\ inbox' \in [Instances -> Nat]
      /\ \A j \in Instances : inbox'[j] <= inbox[j] + 1 /\ inbox'[j] >= inbox[j] /\ (j # i => inbox'[j] > 0)
  BY <1>1, EmitEffect
<1>5. Shape'
  BY <1>1, <1>2, <1>3, <1>4 DEF Shape, Exists
<1>6. Notified'
  BY <1>1, <1>2, <1>4, NotifiedOnce
<1>7. NextText' = NextText
  BY <1>1, <1>2, NumbersSame
<1>8. Fresh' /\ OneRendering' /\ RenderInv' /\ LinkInv' /\ \A s \in Requests : Orderly(s)' /\ SaveInv(s)'
  BY <1>1, <1>2, <1>3, <1>7, AsideKeeps
<1>9. ASSUME NEW j \in Instances
      PROVE  FileInv(j)'
  BY <1>3, <1>4 DEF FileInv
<1>10. QED
  BY <1>5, <1>6, <1>8, <1>9 DEF CacheInv

LEMMA DropAndNotifyKeeps ==
  ASSUME CacheInv, NEW r \in Requests, DropAndNotify(r)
  PROVE  CacheInv'
<1> DEFINE i == req[r].at
<1>1. Shape /\ Notified /\ req[r].step = "dropping" /\ Ends(r, req[r].kind, "done") /\ DropFromCache(i) /\ Emit(i)
      /\ UNCHANGED <<row, target, links, reader, job, failures, missed, overlap, linkRace>>
  BY DEF CacheInv, DropAndNotify, boundVars, raceVars
<1>2. i \in Instances /\ req[r].kind \in Kinds \cup {"none"}
  BY <1>1, Types DEF CacheInv, Orderly
<1> HIDE DEF i
<1>3. /\ req' \in [Requests -> ReqStates] /\ req'[r].step = "done" /\ req'[r].kind = req[r].kind
      /\ \A s \in Requests \ {r} : req'[s] = req[s]
  BY <1>1, <1>2, EndsEffect
<1>4. /\ cache' \in [Instances -> Renders \cup {NoFile}] /\ why' \in [Instances -> Reasons]
      /\ cache'[i] = NoFile /\ \A j \in Instances \ {i} : cache'[j] = cache[j] /\ why'[j] = why[j]
  BY <1>1, <1>2, DropEffect
<1>5. /\ inbox' \in [Instances -> Nat]
      /\ \A j \in Instances : inbox'[j] <= inbox[j] + 1 /\ inbox'[j] >= inbox[j] /\ (j # i => inbox'[j] > 0)
  BY <1>1, <1>2, EmitEffect
<1>6. Shape'
  BY <1>1, <1>3, <1>4, <1>5 DEF Shape, Exists
<1>7. Notified'
  BY <1>1, <1>3, <1>5, NotifiedOnce
<1>8. NextText' = NextText
  BY <1>1, <1>3, NumbersSame
<1>9. Fresh' /\ OneRendering' /\ RenderInv' /\ LinkInv' /\ \A s \in Requests : Orderly(s)' /\ SaveInv(s)'
  BY <1>1, <1>2, <1>3, <1>4, <1>8, AsideKeeps
<1>10. ASSUME NEW j \in Instances
       PROVE  FileInv(j)'
  BY <1>4, <1>5 DEF FileInv
<1>11. QED
  BY <1>6, <1>7, <1>9, <1>10 DEF CacheInv

LEMMA CallerResumesKeeps ==
  ASSUME CacheInv, NEW r \in Requests, CallerResumes(r)
  PROVE  CacheInv'
<1>1. Shape /\ Notified /\ req[r].step = "rendering"
      /\ UNCHANGED <<row, target, links, cache, reader, job, failures, missed, why, overlap, linkRace>>
      /\ req[r].kind \in Kinds \cup {"none"} /\ inbox \in [Instances -> Nat]
  BY Types DEF CacheInv, CallerResumes, boundVars, raceVars, Shape
<1>2. \/ /\ job[r].stage = "done" /\ Ends(r, req[r].kind, "done")
         /\ \/ req[r].kind = "create" /\ inbox' = inbox
            \/ req[r].kind # "create" /\ Emit(req[r].at)
      \/ job[r].stage = "failed" /\ Ends(r, req[r].kind, "threw") /\ inbox' = inbox
  BY DEF CallerResumes
<1>3. /\ req' \in [Requests -> ReqStates] /\ req'[r].step \in {"done", "threw"} /\ req'[r].kind = req[r].kind
      /\ \A s \in Requests \ {r} : req'[s] = req[s]
  BY <1>1, <1>2, EndsEffect
<1>4. /\ inbox' \in [Instances -> Nat]
      /\ \A j \in Instances : inbox'[j] <= inbox[j] + 1 /\ inbox'[j] >= inbox[j]
      /\ job[r].stage # "failed" /\ req[r].kind # "create" => \A j \in Instances : j # req[r].at => inbox'[j] > 0
  <2>1. CASE inbox' = inbox /\ (job[r].stage = "failed" \/ req[r].kind = "create")
    BY <1>1, <2>1
  <2>2. CASE Emit(req[r].at)
    BY <1>1, <2>2, EmitEffect
  <2>3. QED
    BY <1>2, <2>1, <2>2
<1>5. Shape'
  BY <1>1, <1>3, <1>4 DEF Shape, Exists
<1>6. Notified'
  BY <1>1, <1>3, <1>4, NotifiedOnce
<1>7. NextText' = NextText
  BY <1>1, <1>3, NumbersSame
<1>8. Fresh' /\ OneRendering' /\ RenderInv' /\ LinkInv' /\ \A s \in Requests : Orderly(s)' /\ SaveInv(s)'
  BY <1>1, <1>3, <1>7, AsideKeeps
<1>9. ASSUME NEW j \in Instances
      PROVE  FileInv(j)'
  <2>1. ASSUME NEW s \in Requests, Told(s, j)
        PROVE  inbox'[j] > 0 \/ Told(s, j)'
    <3>1. CASE s = r
      BY <1>1, <1>2, <1>4, <2>1, <3>1 DEF Told, Silent
    <3>2. CASE s # r
      BY <1>1, <1>3, <2>1, <3>2 DEF Told, Silent
    <3>3. QED
      BY <3>1, <3>2
  <2>2. inbox[j] \in Nat /\ inbox'[j] \in Nat /\ (inbox[j] > 0 => inbox'[j] > 0)
    BY <1>1, <1>4
  <2>3. QED
    BY <1>1, <2>1, <2>2, FileKept
<1>10. QED
  BY <1>5, <1>6, <1>8, <1>9 DEF CacheInv

LEMMA EventArrivesKeeps ==
  ASSUME CacheInv, NEW i \in Instances, EventArrives(i)
  PROVE  CacheInv'
<1>1. Shape /\ Notified /\ inbox[i] > 0 /\ inbox' = [inbox EXCEPT ![i] = @ - 1] /\ DropFromCache(i)
      /\ UNCHANGED <<row, target, links, reader, req, job, failures, missed, overlap, linkRace>>
  BY DEF CacheInv, EventArrives
<1>2. /\ cache' \in [Instances -> Renders \cup {NoFile}] /\ why' \in [Instances -> Reasons]
      /\ cache'[i] = NoFile /\ \A j \in Instances \ {i} : cache'[j] = cache[j] /\ why'[j] = why[j]
  BY <1>1, DropEffect
<1>3. inbox' \in [Instances -> Nat] /\ inbox'[i] <= inbox[i] /\ \A j \in Instances \ {i} : inbox'[j] = inbox[j]
  BY <1>1 DEF Shape
<1>4. \A j \in Instances : inbox[j] \in Nat /\ inbox'[j] <= inbox[j]
  BY <1>1, <1>3 DEF Shape
<1>5. Shape'
  BY <1>1, <1>2, <1>3 DEF Shape, Exists
<1>6. Notified'
  BY <1>1, <1>3, <1>4, NotifiedKept
<1>7. NextText' = NextText
  BY <1>1 DEF NextText, Started
<1>8. Fresh' /\ OneRendering' /\ RenderInv' /\ LinkInv' /\ \A s \in Requests : Orderly(s)' /\ SaveInv(s)'
  BY <1>1, <1>2, <1>7, AsideKeeps
<1>9. ASSUME NEW j \in Instances
      PROVE  FileInv(j)'
  <2>1. CASE j = i
    BY <1>2, <2>1 DEF FileInv
  <2>2. CASE j # i
    BY <1>1, <1>2, <1>3, <2>2 DEF CacheInv, FileInv, Told, Silent
  <2>3. QED
    BY <2>1, <2>2
<1>10. QED
  BY <1>5, <1>6, <1>8, <1>9 DEF CacheInv

LEMMA BlameEffect ==
  ASSUME Shape, NEW blamed \in SUBSET Instances, NEW reason \in Reasons \ {"none"}, Blame(blamed, reason)
  PROVE  /\ why' \in [Instances -> Reasons]
         /\ \A j \in Instances : why'[j] = why[j] \/ why'[j] # "none"
         /\ \A j \in blamed : cache[j] \in {NoFile, row'.render} \/ why'[j] # "none"
<1>1. why' = [i \in Instances |-> IF i \in blamed /\ cache[i] \notin {NoFile, row'.render} THEN reason ELSE why[i]]
  BY DEF Blame
<1>2. why \in [Instances -> Reasons]
  BY DEF Shape
<1>3. QED
  BY <1>1, <1>2

LEMMA EventMissedKeeps ==
  ASSUME CacheInv, NEW i \in Instances, EventMissed(i)
  PROVE  CacheInv'
<1>1. Shape /\ Notified /\ inbox[i] > 0 /\ inbox' = [inbox EXCEPT ![i] = @ - 1] /\ missed < MaxMissed /\ missed' = missed + 1
      /\ UNCHANGED row /\ Blame({i}, "missed")
      /\ UNCHANGED <<target, links, cache, reader, req, job, failures, overlap, linkRace>>
  BY DEF CacheInv, EventMissed
<1>2. /\ why' \in [Instances -> Reasons]
      /\ \A j \in Instances : why'[j] = why[j] \/ why'[j] # "none"
      /\ cache[i] \in {NoFile, row'.render} \/ why'[i] # "none"
  <2>1. {i} \in SUBSET Instances /\ "missed" \in Reasons \ {"none"}
    BY DEF Reasons
  <2>2. QED
    BY <1>1, <2>1, BlameEffect
<1>3. inbox' \in [Instances -> Nat] /\ inbox'[i] <= inbox[i] /\ \A j \in Instances \ {i} : inbox'[j] = inbox[j]
  BY <1>1 DEF Shape
<1>4. \A j \in Instances : inbox[j] \in Nat /\ inbox'[j] <= inbox[j]
  BY <1>1, <1>3 DEF Shape
<1>5. missed' \in 0..MaxMissed
  BY <1>1, RowTypes, Sizes
<1>6. Shape'
  BY <1>1, <1>2, <1>3, <1>5 DEF Shape, Exists
<1>7. Notified'
  BY <1>1, <1>3, <1>4, NotifiedKept
<1>8. NextText' = NextText
  BY <1>1 DEF NextText, Started
<1>9. Fresh' /\ OneRendering' /\ RenderInv' /\ LinkInv' /\ \A s \in Requests : Orderly(s)' /\ SaveInv(s)'
  BY <1>1, <1>2, <1>8, AsideKeeps
<1>10. ASSUME NEW j \in Instances
       PROVE  FileInv(j)'
  <2>1. CASE j = i
    BY <1>1, <1>2, <2>1 DEF FileInv
  <2>2. CASE j # i
    <3>1. FileInv(j) /\ inbox'[j] = inbox[j]
      BY <1>3, <2>2 DEF CacheInv
    <3>2. QED
      BY <1>1, <1>2, <3>1 DEF FileInv, Told, Silent
  <2>3. QED
    BY <2>1, <2>2
<1>11. QED
  BY <1>6, <1>7, <1>9, <1>10 DEF CacheInv

LEMMA ReadRowKeeps ==
  ASSUME CacheInv, NEW i \in Instances, ReadRow(i)
  PROVE  CacheInv'
<1>1. Shape /\ reader' = [reader EXCEPT ![i] = row.render]
      /\ UNCHANGED <<row, target, links, cache, why, inbox, req, job, failures, missed, overlap, linkRace>>
  BY DEF CacheInv, ReadRow, writeVars
<1>2. reader' \in [Instances -> Renders \cup {NoRender}]
  BY <1>1, RowTypes DEF Shape
<1>3. Shape'
  BY <1>1, <1>2 DEF Shape, Exists
<1>4. NextText' = NextText
  BY <1>1 DEF NextText, Started
<1>5. Fresh' /\ OneRendering' /\ RenderInv' /\ LinkInv' /\ \A s \in Requests : Orderly(s)' /\ SaveInv(s)'
  BY <1>1, <1>4, AsideKeeps
<1>6. Notified' /\ \A j \in Instances : FileInv(j)'
  BY <1>1 DEF CacheInv, Notified, Over, FileInv, Told, Silent
<1>7. QED
  BY <1>3, <1>5, <1>6 DEF CacheInv

LEMMA SaveEffect ==
  ASSUME Shape, NEW i \in Instances, NEW render \in Renders \cup {NoFile}, SaveToCache(i, render)
  PROVE  /\ cache' \in [Instances -> Renders \cup {NoFile}] /\ why' \in [Instances -> Reasons]
         /\ cache'[i] = render /\ (render = row.render \/ why'[i] # "none")
         /\ \A j \in Instances \ {i} : cache'[j] = cache[j] /\ why'[j] = why[j]
  BY DEF Shape, SaveToCache, Reasons

LEMMA FillCacheKeeps ==
  ASSUME CacheInv, NEW i \in Instances, FillCache(i)
  PROVE  CacheInv'
<1>1. Shape /\ SaveToCache(i, reader[i]) /\ reader' = [reader EXCEPT ![i] = NoRender]
      /\ UNCHANGED <<row, target, links, inbox, req, job, failures, missed, overlap, linkRace>>
  BY DEF CacheInv, FillCache, writeVars
<1>2. reader[i] \in Renders \cup {NoFile} /\ reader' \in [Instances -> Renders \cup {NoRender}]
  BY <1>1, Sizes DEF Shape
<1>3. /\ cache' \in [Instances -> Renders \cup {NoFile}] /\ why' \in [Instances -> Reasons]
      /\ (cache'[i] = row.render \/ why'[i] # "none")
      /\ \A j \in Instances \ {i} : cache'[j] = cache[j] /\ why'[j] = why[j]
  BY <1>1, <1>2, SaveEffect
<1>4. Shape'
  BY <1>1, <1>2, <1>3 DEF Shape, Exists
<1>5. NextText' = NextText
  BY <1>1 DEF NextText, Started
<1>6. Fresh' /\ OneRendering' /\ RenderInv' /\ LinkInv' /\ \A s \in Requests : Orderly(s)' /\ SaveInv(s)'
  BY <1>1, <1>3, <1>5, AsideKeeps
<1>7. Notified'
  BY <1>1 DEF CacheInv, Notified, Over
<1>8. ASSUME NEW j \in Instances
      PROVE  FileInv(j)'
  BY <1>1, <1>3 DEF CacheInv, FileInv, Told, Silent
<1>9. QED
  BY <1>4, <1>6, <1>7, <1>8 DEF CacheInv

-----------------------------------------------------------------------------
(* The steps of a render job *)

LEMMA JobEndsEffect ==
  ASSUME Shape, NEW r \in Requests, NEW stage \in {"done", "failed"}, JobEnds(r, stage)
  PROVE  /\ job' \in [Requests -> Jobs] /\ job'[r].stage = stage /\ job'[r].id = job[r].id /\ job'[r].text.n = 0
         /\ \A s \in Requests \ {r} : job'[s] = job[s]
<1> DEFINE new == [NoJob EXCEPT !.stage = stage, !.id = job[r].id]
<1>1. job[r].id \in 0..MaxText /\ NoRender.n = 0 /\ NoJob \in Jobs /\ NoJob.text = NoRender
  BY Types, Sizes DEF NoJob
<1>2. new \in Jobs /\ new.stage = stage /\ new.id = job[r].id /\ new.text = NoJob.text
  BY <1>1 DEF Jobs, JobStages
<1>3. new \in Jobs /\ new.stage = stage /\ new.id = job[r].id /\ new.text.n = 0
  BY <1>1, <1>2
<1>4. job \in [Requests -> Jobs] /\ job' = [job EXCEPT ![r] = new]
  BY DEF Shape, JobEnds
<1> HIDE DEF new
<1>5. QED
  BY <1>3, <1>4

LEMMA JobStepEffect ==
  ASSUME Shape, NEW r \in Requests, NEW from, NEW to \in JobStages, JobStep(r, from, to)
  PROVE  /\ job' \in [Requests -> Jobs] /\ job[r].stage = from /\ job'[r].stage = to /\ job'[r].id = job[r].id
         /\ job'[r].at = job[r].at /\ job'[r].text = job[r].text /\ job'[r].valid = job[r].valid
         /\ \A s \in Requests \ {r} : job'[s] = job[s]
<1> DEFINE new == [job[r] EXCEPT !.stage = to]
<1>1. job \in [Requests -> Jobs] /\ job[r] \in Jobs /\ job[r].stage = from /\ job' = [job EXCEPT ![r] = new]
  BY DEF Shape, JobStep
<1>2. /\ new \in Jobs /\ new.stage = to /\ new.id = job[r].id /\ new.at = job[r].at
      /\ new.text = job[r].text /\ new.valid = job[r].valid
  BY <1>1 DEF Jobs
<1> HIDE DEF new
<1>3. QED
  BY <1>1, <1>2

LEMMA JobSide ==
  ASSUME CacheInv, UNCHANGED <<req, inbox>>, row'.id = row.id, row'.text = row.text
  PROVE  Notified' /\ NextText' = NextText /\ Fresh'
<1>1. Notified' /\ NextText' = NextText
  BY DEF CacheInv, Notified, Over, NextText, Started
<1>2. QED
  BY <1>1, FreshKept DEF CacheInv

LEMMA OrderlyOthers ==
  ASSUME CacheInv, UNCHANGED req, NextText' = NextText, NEW r \in Requests, \A s \in Requests \ {r} : job'[s] = job[s],
         Orderly(r)'
  PROVE  \A s \in Requests : Orderly(s)'
<1>1. Shape /\ NextText' \in Nat /\ NextText' >= NextText
  BY Numbers DEF CacheInv
<1>2. ASSUME NEW s \in Requests \ {r}
      PROVE  Orderly(s)'
  <2>1. Orderly(s) /\ job'[s] = job[s] /\ req'[s] = req[s]
    BY DEF CacheInv
  <2>2. QED
    BY <1>1, <2>1, OrderlyKept
<1>3. QED
  BY <1>2

LEMMA ForkKeeps ==
  ASSUME CacheInv, NEW r \in Requests, Fork(r)
  PROVE  CacheInv'
<1>1. Shape /\ JobStep(r, "queued", "forked") /\ Orderly(r)
      /\ UNCHANGED <<row, target, links, cache, reader, inbox, req, failures, missed, why, overlap, linkRace>>
  BY DEF CacheInv, Fork, boundVars, raceVars
<1>2. /\ job' \in [Requests -> Jobs] /\ job[r].stage = "queued" /\ job'[r].stage = "forked" /\ job'[r].id = job[r].id
      /\ job'[r].at = job[r].at /\ job'[r].text = job[r].text
      /\ \A s \in Requests \ {r} : job'[s] = job[s]
  BY <1>1, JobStepEffect DEF JobStages
<1>3. Shape'
  BY <1>1, <1>2 DEF Shape, Exists
<1>4. Notified' /\ NextText' = NextText /\ Fresh'
  BY <1>1, JobSide
<1>5. Orderly(r)'
  BY <1>1, <1>2, <1>4 DEF Orderly
<1>6. \A s \in Requests : Orderly(s)'
  BY <1>1, <1>2, <1>4, <1>5, OrderlyOthers
<1>7. Rendering' = Rendering /\ r \notin Rendering
  BY <1>2 DEF Rendering
<1>8. OneRendering'
  BY <1>1, <1>7 DEF CacheInv, OneRendering
<1>9. Behind' => Behind
  BY <1>1, <1>2, <1>7 DEF Behind, Mine, Rendering
<1>10. ASSUME NEW s \in Requests
       PROVE  /\ WillRender(s) => WillRender(s)'
              /\ WillRelink(s) => WillRelink(s)'
              /\ WillReconnect(s) => WillReconnect(s)'
              /\ Mine(s)' <=> Mine(s)
              /\ {job[s].stage, job'[s].stage} \cap {"looked", "linked"} # {} => job'[s] = job[s]
  BY <1>1, <1>2 DEF WillRender, WillRelink, WillReconnect, Mine
<1>11. RenderInv'
  BY <1>1, <1>9, <1>10 DEF CacheInv, RenderInv, Exists
<1>12. LinkInv'
  BY <1>1, <1>10 DEF CacheInv, LinkInv, Exists
<1>13. ASSUME NEW s \in Requests
       PROVE  SaveInv(s)'
  <2>1. SaveInv(s)
    BY DEF CacheInv
  <2>2. CASE s = r
    BY <1>1, <1>2, <2>1, <2>2 DEF SaveInv, Waiting, Mine
  <2>3. CASE s # r
    <3>1. job'[s] = job[s] /\ \A q \in Rendering' : q \in Rendering /\ job'[q] = job[q]
      BY <1>2, <1>7, <2>3 DEF Rendering
    <3>2. QED
      BY <1>1, <2>1, <3>1 DEF SaveInv, Waiting, Mine
  <2>4. QED
    BY <2>2, <2>3
<1>14. ASSUME NEW j \in Instances
       PROVE  FileInv(j)'
  <2>1. ASSUME NEW s \in Requests, Told(s, j)
        PROVE  Told(s, j)'
    BY <1>1, <1>2, <2>1 DEF Told, Silent
  <2>2. QED
    BY <1>1, <2>1, FileKept
<1>15. QED
  BY <1>3, <1>4, <1>6, <1>8, <1>11, <1>12, <1>13, <1>14 DEF CacheInv

LEMMA ReadPageKeeps ==
  ASSUME CacheInv, NEW r \in Requests, ReadPage(r)
  PROVE  CacheInv'
<1>1. Shape /\ job[r].stage = "forked" /\ overlap' = (overlap \/ (Mine(r) /\ Rendering # {})) /\ Orderly(r)
      /\ UNCHANGED <<row, target, links, cache, reader, inbox, req, failures, missed, why, linkRace>>
  BY DEF CacheInv, ReadPage, boundVars
<1>2. row.id \in Nat /\ row.text.n \in Nat /\ overlap' \in BOOLEAN
  BY <1>1, RowTypes DEF Shape
<1>3. Notified' /\ NextText' = NextText /\ Fresh'
  BY <1>1, JobSide
<1>4. r \notin Rendering /\ \A s \in Requests : Mine(s) /\ s # r /\ job'[s] = job[s] => Mine(s)'
  BY <1>1 DEF Rendering, Mine
<1>5. CASE Mine(r)
  <2>1. Exists /\ row.text \in Texts /\ {row.text.n} \subseteq 0..(NextText - 1)
    BY <1>1, <1>5 DEF Mine, Orderly, Shape, CacheInv, Fresh
  <2> DEFINE new == [job[r] EXCEPT !.stage = "read", !.text = row.text]
  <2>2. job \in [Requests -> Jobs] /\ job[r] \in Jobs /\ job' = [job EXCEPT ![r] = new]
    BY <1>1, <1>5 DEF Shape, ReadPage
  <2>3. new \in Jobs /\ new.stage = "read" /\ new.text = row.text /\ new.id = job[r].id /\ new.at = job[r].at
    BY <2>1, <2>2 DEF Jobs, JobStages
  <2> HIDE DEF new
  <2>4. /\ job' \in [Requests -> Jobs] /\ job'[r].stage = "read" /\ job'[r].text = row.text /\ job'[r].id = job[r].id
        /\ job'[r].at = job[r].at /\ \A s \in Requests \ {r} : job'[s] = job[s]
    BY <2>2, <2>3
  <2>5. Shape'
    BY <1>1, <1>2, <2>4 DEF Shape, Exists
  <2>6. Orderly(r)'
    BY <1>1, <1>3, <2>1, <2>4 DEF Orderly
  <2>7. \A s \in Requests : Orderly(s)'
    BY <1>1, <1>3, <2>4, <2>6, OrderlyOthers
  <2>8. Rendering' = Rendering \cup {r}
    BY <2>4 DEF Rendering
  <2>9. OneRendering'
    BY <1>1, <1>5, <2>8 DEF OneRendering
  <2>10. WillRender(r)' /\ WillRelink(r)'
    BY <1>1, <1>5, <2>4 DEF WillRender, WillRelink, Mine
  <2>11. RenderInv'
    BY <2>10 DEF RenderInv
  <2>12. ASSUME NEW s \in Requests
         PROVE  /\ WillRelink(s) => WillRelink(s)'
                /\ WillReconnect(s) => WillReconnect(s)'
                /\ Mine(s)' <=> Mine(s)
                /\ {job[s].stage, job'[s].stage} \cap {"looked", "linked"} # {} => job'[s] = job[s]
    BY <1>1, <2>4, <2>10 DEF WillRelink, WillReconnect, Mine
  <2>13. LinkInv'
    BY <1>1, <2>12 DEF CacheInv, LinkInv, Exists
  <2>14. ASSUME NEW s \in Requests
         PROVE  SaveInv(s)'
    <3>1. SaveInv(s)
      BY DEF CacheInv
    <3>2. CASE s = r
      BY <1>1, <2>4, <3>1, <3>2 DEF SaveInv, Waiting, Mine
    <3>3. CASE s # r
      <4>1. job'[s] = job[s] /\ \A q \in Rendering' : q = r \/ (q \in Rendering /\ job'[q] = job[q])
        BY <2>4, <2>8, <3>3 DEF Rendering
      <4>2. QED
        BY <1>1, <2>4, <3>1, <4>1 DEF SaveInv, Waiting, Mine
    <3>4. QED
      BY <3>2, <3>3
  <2>15. ASSUME NEW j \in Instances
         PROVE  FileInv(j)'
    <3>1. ASSUME NEW s \in Requests, Told(s, j)
          PROVE  Told(s, j)'
      BY <1>1, <2>4, <3>1 DEF Told, Silent
    <3>2. QED
      BY <1>1, <3>1, FileKept
  <2>16. QED
    BY <1>3, <2>5, <2>7, <2>9, <2>11, <2>13, <2>14, <2>15 DEF CacheInv
<1>6. CASE ~Mine(r)
  <2>1. JobEnds(r, "failed") /\ overlap' = overlap
    <3>1. JobEnds(r, "failed")
      BY <1>6 DEF ReadPage
    <3>2. overlap' = overlap
      BY <1>1, <1>6 DEF Shape
    <3>3. QED
      BY <3>1, <3>2
  <2>2. /\ job' \in [Requests -> Jobs] /\ job'[r].stage = "failed" /\ job'[r].id = job[r].id /\ job'[r].text.n = 0
        /\ \A s \in Requests \ {r} : job'[s] = job[s]
    BY <1>1, <2>1, JobEndsEffect
  <2>3. Shape'
    BY <1>1, <1>2, <2>2 DEF Shape, Exists
  <2>4. Orderly(r)'
    BY <1>1, <1>3, <2>2, Numbers DEF Orderly
  <2>5. \A s \in Requests : Orderly(s)'
    BY <1>1, <1>3, <2>2, <2>4, OrderlyOthers
  <2>6. Rendering' = Rendering
    BY <1>1, <2>2 DEF Rendering
  <2>7. OneRendering'
    BY <2>1, <2>6 DEF CacheInv, OneRendering
  <2>8. ASSUME NEW s \in Requests
        PROVE  /\ WillRender(s) => WillRender(s)'
               /\ WillRelink(s) => WillRelink(s)'
               /\ WillReconnect(s) => WillReconnect(s)'
               /\ Mine(s)' <=> Mine(s)
               /\ {job[s].stage, job'[s].stage} \cap {"looked", "linked"} # {} => job'[s] = job[s]
    BY <1>1, <1>6, <2>2 DEF WillRender, WillRelink, WillReconnect, Mine
  <2>9. Behind' => Behind
    BY <1>1, <1>4, <2>2, <2>6, <2>8 DEF Behind, Rendering
  <2>10. RenderInv'
    BY <1>1, <2>1, <2>8, <2>9 DEF CacheInv, RenderInv, Exists
  <2>11. LinkInv'
    BY <1>1, <2>1, <2>8 DEF CacheInv, LinkInv, Exists
  <2>12. ASSUME NEW s \in Requests
         PROVE  SaveInv(s)'
    <3>1. SaveInv(s) /\ \A q \in Rendering' : q \in Rendering /\ job'[q] = job[q]
      BY <1>4, <2>2, <2>6 DEF CacheInv, Rendering
    <3>2. QED
      BY <1>1, <1>6, <2>1, <2>2, <3>1 DEF SaveInv, Waiting, Mine
  <2>13. ASSUME NEW j \in Instances
         PROVE  FileInv(j)'
    <3>1. ASSUME NEW s \in Requests, Told(s, j)
          PROVE  Told(s, j)'
      BY <1>1, <2>2, <3>1 DEF Told, Silent
    <3>2. QED
      BY <1>1, <3>1, FileKept
  <2>14. QED
    BY <1>3, <2>3, <2>5, <2>7, <2>10, <2>11, <2>12, <2>13 DEF CacheInv
<1>7. QED
  BY <1>5, <1>6

LEMMA FindLinksKeeps ==
  ASSUME CacheInv, NEW r \in Requests, FindLinks(r)
  PROVE  CacheInv'
<1> DEFINE valid == job[r].text.linked /\ target
<1> DEFINE past == links /\ Mine(r)
<1> DEFINE new == [job[r] EXCEPT !.stage = "looked", !.valid = valid, !.past = past]
<1>1. Shape /\ job[r].stage = "read" /\ Orderly(r) /\ job' = [job EXCEPT ![r] = new]
      /\ UNCHANGED <<row, target, links, cache, reader, inbox, req, failures, missed, why, overlap, linkRace>>
  BY DEF CacheInv, FindLinks, boundVars, raceVars
<1>2. /\ r \in Rendering /\ job[r].text \in Texts /\ job[r].text.linked \in BOOLEAN /\ target \in BOOLEAN /\ links \in BOOLEAN
      /\ valid \in BOOLEAN /\ past \in BOOLEAN /\ job \in [Requests -> Jobs] /\ job[r] \in Jobs
  BY <1>1 DEF Rendering, Orderly, Texts, Shape
<1>3. (job[r].text.linked => valid = target) /\ (Mine(r) => past = links)
  BY <1>2
<1> HIDE DEF valid, past
<1>4. /\ new \in Jobs /\ new.stage = "looked" /\ new.text = job[r].text /\ new.id = job[r].id /\ new.at = job[r].at
      /\ new.valid = valid /\ new.past = past
  BY <1>2 DEF Jobs, JobStages
<1> HIDE DEF new
<1>5. /\ job' \in [Requests -> Jobs] /\ job'[r].stage = "looked" /\ job'[r].text = job[r].text /\ job'[r].id = job[r].id
      /\ job'[r].at = job[r].at /\ job'[r].valid = valid /\ job'[r].past = past /\ \A s \in Requests \ {r} : job'[s] = job[s]
  BY <1>1, <1>2, <1>4
<1>6. Notified' /\ NextText' = NextText /\ Fresh'
  BY <1>1, JobSide
<1>7. Shape'
  BY <1>1, <1>5 DEF Shape, Exists
<1>8. Orderly(r)'
  BY <1>1, <1>5, <1>6 DEF Orderly
<1>9. \A s \in Requests : Orderly(s)'
  BY <1>1, <1>5, <1>6, <1>8, OrderlyOthers
<1>10. Rendering' = Rendering /\ \A s \in Requests : job'[s].text = job[s].text /\ (Mine(s)' <=> Mine(s))
  BY <1>1, <1>5 DEF Rendering, Mine
<1>11. OneRendering'
  BY <1>1, <1>10 DEF CacheInv, OneRendering
<1>12. Behind' => Behind
  BY <1>1, <1>10 DEF Behind, Rendering
<1>13. ASSUME NEW s \in Requests
       PROVE  /\ WillRender(s) => WillRender(s)'
              /\ WillReconnect(s) => WillReconnect(s)'
              /\ WillRelink(s) => WillRelink(s)'
  <2>1. WillRender(s) => WillRender(s)'
    BY <1>1, <1>5, <1>10 DEF WillRender
  <2>2. WillReconnect(s) => WillReconnect(s)'
    BY <1>1 DEF WillReconnect
  <2>3. WillRelink(s) => WillRelink(s)'
    BY <1>1, <1>3, <1>5, <1>10 DEF WillRelink
  <2>4. QED
    BY <2>1, <2>2, <2>3
<1>14. RenderInv'
  BY <1>1, <1>12, <1>13 DEF CacheInv, RenderInv, Exists
<1>15. LinkInv'
  <2>1. SUFFICES ASSUME Exists, ~linkRace, ~overlap, failures = 0
                 PROVE  LinkInv'
    BY <1>1 DEF LinkInv, Exists
  <2>2. ASSUME NEW s \in Requests, job'[s].stage \in {"looked", "linked"}, Mine(s)'
        PROVE  /\ job'[s].stage = "looked" => job'[s].past = links'
               /\ job'[s].stage = "linked" => links' = job'[s].text.linked
               /\ job'[s].text.linked /\ job'[s].valid # target' => \E q \in Requests : WillReconnect(q)'
    <3>1. CASE s = r
      <4>1. Mine(r)
        BY <1>10, <2>2, <3>1
      <4>2. QED
        BY <1>1, <1>3, <1>5, <3>1, <4>1
    <3>2. CASE s # r
      BY <1>1, <1>5, <1>10, <1>13, <2>1, <2>2, <3>2 DEF CacheInv, LinkInv
    <3>3. QED
      BY <3>1, <3>2
  <2>3. row.render.linked /\ ~links => \E q \in Requests : Mine(q)' /\ job'[q].stage = "linked" /\ ~job'[q].text.linked
    <3>1. ASSUME NEW q \in Requests, Mine(q), job[q].stage = "linked"
          PROVE  Mine(q)' /\ job'[q] = job[q]
      BY <1>1, <1>5, <1>10, <3>1
    <3>2. QED
      BY <2>1, <3>1 DEF CacheInv, LinkInv
  <2>4. row.render.linked /\ row.render.valid # target =>
          (\E q \in Requests : WillRelink(q)') \/ (links /\ \E q \in Requests : WillReconnect(q)')
    BY <1>13, <2>1 DEF CacheInv, LinkInv
  <2>5. QED
    BY <1>1, <2>2, <2>3, <2>4 DEF LinkInv
<1>16. ASSUME NEW s \in Requests
       PROVE  SaveInv(s)'
  <2>1. SaveInv(s) /\ job'[s].text = job[s].text /\ (job'[s].stage = job[s].stage \/ (job[s].stage = "read" /\ job'[s].stage = "looked"))
    BY <1>1, <1>5 DEF CacheInv
  <2>2. \A q \in Rendering' : q \in Requests /\ q \in Rendering /\ job'[q].text = job[q].text /\ (Mine(q)' => Mine(q))
    BY <1>10 DEF Rendering
  <2>3. Waiting(s)' => Waiting(s)
    BY <1>1, <1>10 DEF Waiting
  <2>4. QED
    BY <1>1, <2>1, <2>2, <2>3 DEF SaveInv
<1>17. ASSUME NEW j \in Instances
       PROVE  FileInv(j)'
  <2>1. ASSUME NEW s \in Requests, Told(s, j)
        PROVE  Told(s, j)'
    BY <1>1, <1>5, <2>1 DEF Told, Silent
  <2>2. QED
    BY <1>1, <2>1, FileKept
<1>18. QED
  BY <1>6, <1>7, <1>9, <1>11, <1>14, <1>15, <1>16, <1>17 DEF CacheInv

LEMMA UpdateLinksKeeps ==
  ASSUME CacheInv, NEW r \in Requests, UpdateLinks(r)
  PROVE  CacheInv'
<1> DEFINE inserts == job[r].text.linked /\ ~job[r].past
<1> DEFINE deletes == ~job[r].text.linked /\ job[r].past
<1>1. Shape /\ job[r].stage = "looked" /\ Orderly(r)
      /\ (IF inserts /\ ~Mine(r) THEN JobEnds(r, "failed") ELSE JobStep(r, "looked", "linked"))
      /\ UNCHANGED <<row, target, cache, reader, inbox, req, failures, missed, why, overlap, linkRace>>
  BY DEF CacheInv, UpdateLinks, boundVars, raceVars
<1>2. /\ r \in Rendering /\ job[r].text \in Texts /\ job[r].text.linked \in BOOLEAN /\ job[r].past \in BOOLEAN
      /\ links \in BOOLEAN /\ overlap \in BOOLEAN /\ Mine(r) \in BOOLEAN
  BY <1>1, Types DEF Rendering, Orderly, Texts, Shape, Mine
<1>3. \/ inserts /\ links' = (links \/ Mine(r))
      \/ deletes /\ links' \in IF Mine(r) THEN {FALSE, links /\ overlap} ELSE {links}
      \/ ~inserts /\ ~deletes /\ links' = links
  BY DEF UpdateLinks
<1>4. /\ links' \in BOOLEAN
      /\ ~Mine(r) => links' = links
      /\ Mine(r) /\ ~overlap /\ job[r].past = links => links' = job[r].text.linked
  BY <1>2, <1>3
<1>5. Notified' /\ NextText' = NextText /\ Fresh'
  BY <1>1, JobSide
<1>6. CASE ~(inserts /\ ~Mine(r))
  <2>1. JobStep(r, "looked", "linked")
    BY <1>1, <1>6
  <2> HIDE DEF inserts, deletes
  <2>2. /\ job' \in [Requests -> Jobs] /\ job'[r].stage = "linked" /\ job'[r].text = job[r].text /\ job'[r].id = job[r].id
        /\ job'[r].at = job[r].at /\ job'[r].valid = job[r].valid /\ \A s \in Requests \ {r} : job'[s] = job[s]
    BY <1>1, <2>1, JobStepEffect DEF JobStages
  <2>3. Shape'
    BY <1>1, <1>4, <2>2 DEF Shape, Exists
  <2>4. Orderly(r)'
    BY <1>1, <1>5, <2>2 DEF Orderly
  <2>5. \A s \in Requests : Orderly(s)'
    BY <1>1, <1>5, <2>2, <2>4, OrderlyOthers
  <2>6. Rendering' = Rendering /\ \A s \in Requests : job'[s].text = job[s].text /\ (Mine(s)' <=> Mine(s))
    BY <1>1, <2>2 DEF Rendering, Mine
  <2>7. OneRendering'
    BY <1>1, <2>6 DEF CacheInv, OneRendering
  <2>8. Behind' => Behind
    BY <1>1, <2>6 DEF Behind, Rendering
  <2>9. ASSUME NEW s \in Requests
        PROVE  /\ WillRender(s) => WillRender(s)'
               /\ WillReconnect(s) => WillReconnect(s)'
               /\ WillRelink(s) => WillRelink(s)'
    <3>1. WillRender(s) => WillRender(s)'
      BY <1>1, <2>2, <2>6 DEF WillRender
    <3>2. WillReconnect(s) => WillReconnect(s)'
      BY <1>1 DEF WillReconnect
    <3>3. WillRelink(s) => WillRelink(s)'
      BY <1>1, <2>2, <2>6 DEF WillRelink
    <3>4. QED
      BY <3>1, <3>2, <3>3
  <2>10. RenderInv'
    BY <1>1, <2>8, <2>9 DEF CacheInv, RenderInv, Exists
  <2>11. LinkInv'
    <3>1. SUFFICES ASSUME Exists, ~linkRace, ~overlap, failures = 0
                   PROVE  LinkInv'
      BY <1>1 DEF LinkInv, Exists
    <3>2. CASE Mine(r)
      <4>1. /\ job[r].past = links
            /\ job[r].text.linked /\ job[r].valid # target => \E s \in Requests : WillReconnect(s)
        BY <1>1, <3>1, <3>2 DEF CacheInv, LinkInv
      <4>2. links' = job[r].text.linked
        BY <1>4, <3>1, <3>2, <4>1
      <4>3. ASSUME NEW s \in Requests, job'[s].stage \in {"looked", "linked"}
            PROVE  s = r
        <5>1. s \in Rendering
          BY <2>6, <4>3 DEF Rendering
        <5>2. QED
          BY <1>2, <3>1, <5>1 DEF CacheInv, OneRendering
      <4>4. Mine(r)' /\ job'[r].stage = "linked" /\ job'[r].text = job[r].text /\ job'[r].valid = job[r].valid
        BY <2>2, <2>6, <3>2
      <4>5. job[r].text.linked /\ job[r].valid # target => \E s \in Requests : WillReconnect(s)'
        BY <2>9, <4>1
      <4>6. ~(job[r].text.linked /\ job[r].valid # target) => WillRelink(r)'
        BY <1>1, <1>2, <4>4 DEF WillRelink
      <4>7. QED
        BY <1>1, <1>2, <4>2, <4>3, <4>4, <4>5, <4>6 DEF LinkInv
    <3>3. CASE ~Mine(r)
      <4>1. links' = links
        BY <1>4, <3>3
      <4>2. ASSUME NEW s \in Requests, Mine(s)
            PROVE  job'[s] = job[s]
        BY <2>2, <3>3, <4>2
      <4>3. QED
        BY <1>1, <2>6, <2>9, <3>1, <4>1, <4>2 DEF CacheInv, LinkInv, Exists
    <3>4. QED
      BY <3>2, <3>3
  <2>12. ASSUME NEW s \in Requests
         PROVE  SaveInv(s)'
    <3>1. SaveInv(s) /\ job'[s].text = job[s].text /\ (job'[s].stage = job[s].stage \/ (job[s].stage = "looked" /\ job'[s].stage = "linked"))
      BY <1>1, <2>2 DEF CacheInv
    <3>2. \A q \in Rendering' : q \in Requests /\ q \in Rendering /\ job'[q].text = job[q].text /\ (Mine(q)' => Mine(q))
      BY <2>6 DEF Rendering
    <3>3. Waiting(s)' => Waiting(s)
      BY <1>1, <2>6 DEF Waiting
    <3>4. QED
      BY <1>1, <3>1, <3>2, <3>3 DEF SaveInv
  <2>13. ASSUME NEW j \in Instances
         PROVE  FileInv(j)'
    <3>1. ASSUME NEW s \in Requests, Told(s, j)
          PROVE  Told(s, j)'
      BY <1>1, <2>2, <3>1 DEF Told, Silent
    <3>2. QED
      BY <1>1, <3>1, FileKept
  <2>14. QED
    BY <1>5, <2>3, <2>5, <2>7, <2>10, <2>11, <2>12, <2>13 DEF CacheInv
<1>7. CASE inserts /\ ~Mine(r)
  <2>1. JobEnds(r, "failed") /\ links' = links /\ ~Mine(r)
    BY <1>1, <1>4, <1>7
  <2> HIDE DEF inserts, deletes
  <2>2. /\ job' \in [Requests -> Jobs] /\ job'[r].stage = "failed" /\ job'[r].id = job[r].id /\ job'[r].text.n = 0
        /\ \A s \in Requests \ {r} : job'[s] = job[s]
    BY <1>1, <2>1, JobEndsEffect
  <2>3. Shape'
    BY <1>1, <1>2, <2>1, <2>2 DEF Shape, Exists
  <2>4. Orderly(r)'
    BY <1>1, <1>5, <2>2, Numbers DEF Orderly
  <2>5. \A s \in Requests : Orderly(s)'
    BY <1>1, <1>5, <2>2, <2>4, OrderlyOthers
  <2>6. \A s \in Rendering' : s \in Rendering /\ job'[s] = job[s]
    BY <1>1, <2>2 DEF Rendering
  <2>7. OneRendering'
    BY <1>1, <2>6 DEF CacheInv, OneRendering
  <2>8. ASSUME NEW s \in Requests
        PROVE  /\ WillRender(s) => WillRender(s)'
               /\ WillRelink(s) => WillRelink(s)'
               /\ WillReconnect(s) => WillReconnect(s)'
               /\ Mine(s)' <=> Mine(s)
               /\ job'[s].stage \in {"looked", "linked"} => job'[s] = job[s]
               /\ Mine(s) => job'[s] = job[s]
    BY <1>1, <2>1, <2>2 DEF WillRender, WillRelink, WillReconnect, Mine
  <2>9. Behind' => Behind
    BY <1>1, <2>6, <2>8 DEF Behind, Rendering
  <2>10. RenderInv'
    BY <1>1, <2>8, <2>9 DEF CacheInv, RenderInv, Exists
  <2>11. LinkInv'
    BY <1>1, <2>1, <2>8 DEF CacheInv, LinkInv, Exists
  <2>12. ASSUME NEW s \in Requests
         PROVE  SaveInv(s)'
    <3>1. SaveInv(s)
      BY DEF CacheInv
    <3>2. QED
      BY <1>1, <2>1, <2>2, <2>6, <3>1 DEF SaveInv, Waiting, Mine
  <2>13. ASSUME NEW j \in Instances
         PROVE  FileInv(j)'
    <3>1. ASSUME NEW s \in Requests, Told(s, j)
          PROVE  Told(s, j)'
      BY <1>1, <2>2, <3>1 DEF Told, Silent
    <3>2. QED
      BY <1>1, <2>1, <3>1, FileKept
  <2>14. QED
    BY <1>5, <2>3, <2>5, <2>7, <2>10, <2>11, <2>12, <2>13 DEF CacheInv
<1>8. QED
  BY <1>6, <1>7

LEMMA JobFailsKeeps ==
  ASSUME CacheInv, NEW r \in Requests, JobFails(r)
  PROVE  CacheInv'
<1> DEFINE blamed == IF job[r].stage = "patched" THEN Instances ELSE {}
<1>1. Shape /\ job[r].stage \in {"forked", "read", "looked", "linked", "patched"} /\ failures < MaxFailures /\ failures' = failures + 1
      /\ JobEnds(r, "failed") /\ Blame(blamed, "killed") /\ Orderly(r)
      /\ UNCHANGED <<row, target, links, cache, reader, inbox, req, missed, overlap, linkRace>>
  BY DEF CacheInv, JobFails, raceVars
<1>2. /\ job' \in [Requests -> Jobs] /\ job'[r].stage = "failed" /\ job'[r].id = job[r].id /\ job'[r].text.n = 0
      /\ \A s \in Requests \ {r} : job'[s] = job[s]
  BY <1>1, JobEndsEffect
<1>3. blamed \in SUBSET Instances /\ "killed" \in Reasons \ {"none"}
  BY DEF Reasons
<1> HIDE DEF blamed
<1>4. /\ why' \in [Instances -> Reasons]
      /\ \A j \in Instances : why'[j] = why[j] \/ why'[j] # "none"
      /\ \A j \in blamed : cache[j] \in {NoFile, row'.render} \/ why'[j] # "none"
  BY <1>1, <1>3, BlameEffect
<1>5. failures' \in 0..MaxFailures /\ failures' # 0
  BY <1>1, RowTypes, Sizes
<1>6. Shape'
  BY <1>1, <1>2, <1>4, <1>5 DEF Shape, Exists
<1>7. Notified' /\ NextText' = NextText /\ Fresh'
  BY <1>1, JobSide
<1>8. Orderly(r)'
  BY <1>1, <1>2, <1>7, Numbers DEF Orderly
<1>9. \A s \in Requests : Orderly(s)'
  BY <1>1, <1>2, <1>7, <1>8, OrderlyOthers
<1>10. \A s \in Rendering' : s \in Rendering /\ job'[s] = job[s]
  BY <1>2 DEF Rendering
<1>11. OneRendering'
  BY <1>1, <1>10 DEF CacheInv, OneRendering
<1>12. RenderInv' /\ LinkInv'
  BY <1>5 DEF RenderInv, LinkInv
<1>13. ASSUME NEW s \in Requests
       PROVE  SaveInv(s)'
  <2>1. SaveInv(s) /\ Orderly(s)
    BY DEF CacheInv
  <2>2. Waiting(s)' => Waiting(s) /\ req[s].at \in Instances
    BY <1>1, <1>2, <2>1 DEF Waiting, Mine, Orderly
  <2>3. CASE s = r
    BY <1>1, <1>2, <2>1, <2>2, <2>3 DEF SaveInv
  <2>4. CASE s # r
    <3>1. job'[s] = job[s]
      BY <1>2, <2>4
    <3>2. \A q \in Rendering' : q \in Rendering /\ job'[q] = job[q] /\ (Mine(q)' => Mine(q))
      BY <1>1, <1>10 DEF Mine
    <3>3. QED
      BY <1>1, <1>4, <2>1, <2>2, <3>1, <3>2 DEF SaveInv
  <2>5. QED
    BY <2>3, <2>4
<1>14. ASSUME NEW j \in Instances
       PROVE  FileInv(j)'
  <2>1. CASE job[r].stage = "patched"
    BY <1>1, <1>4, <2>1 DEF blamed, FileInv
  <2>2. CASE job[r].stage # "patched"
    <3>1. ASSUME NEW s \in Requests, Told(s, j)
          PROVE  Told(s, j)'
      BY <1>1, <1>2, <2>2, <3>1 DEF Told, Silent
    <3>2. QED
      BY <1>1, <1>4, <3>1, FileKept
  <2>3. QED
    BY <2>1, <2>2
<1>15. QED
  BY <1>6, <1>7, <1>9, <1>11, <1>12, <1>13, <1>14 DEF CacheInv

LEMMA RenderedType ==
  ASSUME Shape, NEW r \in Requests, job[r].text \in Texts
  PROVE  /\ Rendered(r) \in Renders /\ Rendered(r).n = job[r].text.n /\ Rendered(r).linked = job[r].text.linked
         /\ Rendered(r).valid = (job[r].text.linked /\ job[r].valid)
<1>1. job[r].text.n \in 1..MaxText /\ job[r].text.linked \in BOOLEAN /\ job[r].valid \in BOOLEAN
  BY Types DEF Texts
<1>2. QED
  BY <1>1 DEF Rendered, RenderOf, Renders

LEMMA PatchRenderKeeps ==
  ASSUME CacheInv, NEW r \in Requests, PatchRender(r)
  PROVE  CacheInv'
<1> DEFINE blamed == IF Silent(r) THEN Instances \ {job[r].at} ELSE {}
<1>1. Shape /\ JobStep(r, "linked", "patched") /\ Blame(blamed, "silent") /\ Orderly(r)
      /\ row' = (IF Mine(r) THEN [row EXCEPT !.render = Rendered(r)] ELSE row)
      /\ UNCHANGED <<target, links, cache, reader, inbox, req, failures, missed, overlap, linkRace>>
  BY DEF CacheInv, PatchRender, boundVars, raceVars
<1>2. /\ job' \in [Requests -> Jobs] /\ job[r].stage = "linked" /\ job'[r].stage = "patched" /\ job'[r].id = job[r].id
      /\ job'[r].at = job[r].at /\ job'[r].text = job[r].text /\ \A s \in Requests \ {r} : job'[s] = job[s]
  BY <1>1, JobStepEffect DEF JobStages
<1>3. job[r].text \in Texts /\ job[r].at \in Instances /\ job[r].id # 0 /\ r \in Rendering
  BY <1>1, <1>2 DEF Orderly, Rendering
<1>4. blamed \in SUBSET Instances /\ "silent" \in Reasons \ {"none"}
  BY DEF Reasons
<1>5. /\ why' \in [Instances -> Reasons]
      /\ \A j \in Instances : why'[j] = why[j] \/ why'[j] # "none"
      /\ \A j \in Instances \ {job[r].at} : Silent(r) => cache[j] \in {NoFile, row'.render} \/ why'[j] # "none"
  <2> HIDE DEF blamed
  <2>1. /\ why' \in [Instances -> Reasons]
        /\ \A j \in Instances : why'[j] = why[j] \/ why'[j] # "none"
        /\ \A j \in blamed : cache[j] \in {NoFile, row'.render} \/ why'[j] # "none"
    BY <1>1, <1>4, BlameEffect
  <2>2. QED
    BY <2>1 DEF blamed
<1>6. /\ row' \in Rows /\ row'.id = row.id /\ row'.text = row.text
      /\ Mine(r) => row'.render = Rendered(r)
      /\ ~Mine(r) => row' = row
  BY <1>1, <1>3, RowTypes, RenderedType DEF Rows
<1>7. Exists' <=> Exists
  <2>1. CASE Mine(r)
    <3>1. row.id # 0
      BY <1>3, <2>1 DEF Mine
    <3>2. Exists
      BY <1>1, <3>1 DEF Shape
    <3>3. row' # NoRow
      BY <1>6, <3>1, Sizes
    <3>4. QED
      BY <3>2, <3>3 DEF Exists
  <2>2. CASE ~Mine(r)
    BY <1>6, <2>2 DEF Exists
  <2>3. QED
    BY <2>1, <2>2
<1>8. Shape'
  BY <1>1, <1>2, <1>5, <1>6, <1>7 DEF Shape
<1>9. Notified' /\ NextText' = NextText /\ Fresh'
  BY <1>1, <1>6, JobSide
<1>10. Orderly(r)'
  BY <1>1, <1>2, <1>3, <1>9 DEF Orderly
<1>11. \A s \in Requests : Orderly(s)'
  BY <1>1, <1>2, <1>9, <1>10, OrderlyOthers
<1>12. \A s \in Rendering' : s \in Rendering /\ s # r /\ job'[s] = job[s] /\ (Mine(s)' <=> Mine(s))
  BY <1>2, <1>6 DEF Rendering, Mine
<1>13. OneRendering'
  BY <1>1, <1>12 DEF CacheInv, OneRendering
<1>14. ~overlap => Rendering' = {}
  BY <1>3, <1>12 DEF CacheInv, OneRendering
<1>15. RenderInv'
  <2>1. SUFFICES ASSUME Exists, ~overlap, failures = 0, Behind'
                 PROVE  \E s \in Requests : WillRender(s)'
    BY <1>1, <1>7 DEF RenderInv
  <2>2. row'.render.n # row.text.n
    BY <1>6, <1>14, <2>1 DEF Behind
  <2>3. Behind
    <3>1. CASE Mine(r)
      <4>1. job[r].text # row.text
        BY <1>3, <1>6, <2>2, <3>1, RenderedType, <1>1
      <4>2. QED
        BY <1>3, <3>1, <4>1 DEF Behind
    <3>2. CASE ~Mine(r)
      BY <1>6, <2>2, <3>2 DEF Behind
    <3>3. QED
      BY <3>1, <3>2
  <2>4. PICK s \in Requests : WillRender(s)
    BY <2>1, <2>3 DEF CacheInv, RenderInv
  <2>5. s # r
    <3>1. CASE Mine(r)
      BY <1>1, <1>2, <1>3, <1>6, <2>2, <2>4, <3>1, RenderedType DEF WillRender
    <3>2. CASE ~Mine(r)
      BY <2>4, <3>2 DEF WillRender
    <3>3. QED
      BY <3>1, <3>2
  <2>6. QED
    BY <1>2, <1>6, <2>4, <2>5 DEF WillRender, Mine
<1>16. LinkInv'
  <2>1. SUFFICES ASSUME Exists, ~linkRace, ~overlap, failures = 0
                 PROVE  LinkInv'
    BY <1>1, <1>7 DEF LinkInv
  <2>2. \A s \in Requests : job'[s].stage \notin {"looked", "linked"}
    BY <1>14, <2>1 DEF Rendering
  <2>3. \A s \in Requests : WillReconnect(s) => WillReconnect(s)'
    BY <1>1 DEF WillReconnect
  <2>4. CASE Mine(r)
    <3>1. /\ links = job[r].text.linked
          /\ job[r].text.linked /\ job[r].valid # target => \E s \in Requests : WillReconnect(s)
      BY <1>2, <2>1, <2>4 DEF CacheInv, LinkInv
    <3>2. row'.render.linked = job[r].text.linked /\ row'.render.valid = (job[r].text.linked /\ job[r].valid)
      BY <1>1, <1>3, <1>6, <2>4, RenderedType
    <3>3. links' = links /\ target' = target /\ links \in BOOLEAN /\ job[r].valid \in BOOLEAN /\ target \in BOOLEAN
      BY <1>1, Types DEF Shape
    <3>4. row'.render.linked => links'
      BY <3>1, <3>2, <3>3
    <3>5. row'.render.linked /\ row'.render.valid # target' => links' /\ \E s \in Requests : WillReconnect(s)'
      BY <2>3, <3>1, <3>2, <3>3
    <3>6. QED
      BY <2>2, <3>4, <3>5 DEF LinkInv
  <2>5. CASE ~Mine(r)
    <3>1. \A s \in Requests : /\ WillRelink(s) => WillRelink(s)'
                              /\ Mine(s) => Mine(s)' /\ job'[s] = job[s]
      BY <1>1, <1>2, <1>6, <2>5 DEF WillRelink, Mine
    <3>2. QED
      BY <1>1, <1>6, <2>1, <2>2, <2>3, <2>5, <3>1 DEF CacheInv, LinkInv, Exists
  <2>6. QED
    BY <2>4, <2>5
<1>17. ASSUME NEW s \in Requests
       PROVE  SaveInv(s)'
  <2>1. SUFFICES ASSUME Waiting(s)'
                 PROVE  SaveInv(s)'
    BY DEF SaveInv
  <2>2. SaveInv(s) /\ Waiting(s) /\ Orderly(s)
    BY <1>1, <1>2, <1>6, <2>1 DEF CacheInv, Waiting, Mine
  <2>3. req[s].at \in Instances /\ Rendered(r).n = job[r].text.n
    BY <1>1, <1>3, <2>2, RenderedType DEF Waiting, Orderly
  <2>4. req'[s].n <= row'.text.n /\ (job'[s].stage \in {"read", "looked", "linked", "patched"} => req'[s].n <= job'[s].text.n)
    BY <1>1, <1>2, <1>6, <2>2 DEF SaveInv
  <2>5. ASSUME job'[s].stage \in {"patched", "done"}, ~overlap'
        PROVE  req'[s].n <= row'.render.n
    <3>1. CASE s = r
      <4>1. Mine(r) /\ req[r].n <= job[r].text.n
        BY <1>2, <2>2, <3>1 DEF SaveInv, Waiting
      <4>2. QED
        BY <1>1, <1>6, <2>3, <3>1, <4>1
    <3>2. CASE s # r
      <4>1. req[s].n <= row.render.n /\ (Mine(r) => req[s].n <= job[r].text.n)
        BY <1>1, <1>2, <1>3, <2>2, <2>5, <3>2 DEF SaveInv
      <4>2. QED
        BY <1>1, <1>6, <2>3, <4>1
    <3>3. QED
      BY <3>1, <3>2
  <2>6. ~overlap' => Rendering' = {}
    BY <1>1, <1>14
  <2>7. job'[s].stage = "done" /\ ~overlap' =>
          why'[req'[s].at] # "none" \/ cache'[req'[s].at] = NoFile \/ req'[s].n <= cache'[req'[s].at].n
    BY <1>1, <1>2, <1>5, <2>2, <2>3 DEF SaveInv
  <2>8. QED
    BY <2>4, <2>5, <2>6, <2>7 DEF SaveInv
<1>18. ASSUME NEW j \in Instances
       PROVE  FileInv(j)'
  <2>1. CASE j = job[r].at
    BY <1>2, <2>1 DEF FileInv, Told
  <2>2. CASE j # job[r].at /\ Silent(r)
    BY <1>1, <1>5, <2>2 DEF FileInv
  <2>3. CASE j # job[r].at /\ ~Silent(r)
    <3>1. req[r].at = job[r].at /\ ~Silent(r)'
      BY <1>1, <1>2, <2>3 DEF Silent, Orderly
    <3>2. Told(r, j)'
      BY <1>1, <1>2, <2>3, <3>1 DEF Told
    <3>3. QED
      BY <3>2 DEF FileInv
  <2>4. QED
    BY <2>1, <2>2, <2>3
<1>19. QED
  BY <1>8, <1>9, <1>11, <1>13, <1>15, <1>16, <1>17, <1>18 DEF CacheInv

LEMMA WriteCacheFileKeeps ==
  ASSUME CacheInv, NEW r \in Requests, WriteCacheFile(r)
  PROVE  CacheInv'
<1> DEFINE i == job[r].at
<1>1. Shape /\ job[r].stage = "patched" /\ JobEnds(r, "done") /\ SaveToCache(i, Rendered(r)) /\ Orderly(r)
      /\ UNCHANGED <<row, target, links, reader, inbox, req, failures, missed, overlap, linkRace>>
  BY DEF CacheInv, WriteCacheFile, boundVars, raceVars
<1>2. i \in Instances /\ job[r].text \in Texts
  BY <1>1 DEF Orderly
<1> HIDE DEF i
<1>3. Rendered(r) \in Renders \cup {NoFile}
  BY <1>1, <1>2, RenderedType
<1>4. /\ cache' \in [Instances -> Renders \cup {NoFile}] /\ why' \in [Instances -> Reasons]
      /\ (cache'[i] = row.render \/ why'[i] # "none")
      /\ \A j \in Instances \ {i} : cache'[j] = cache[j] /\ why'[j] = why[j]
  BY <1>1, <1>2, <1>3, SaveEffect
<1>5. /\ job' \in [Requests -> Jobs] /\ job'[r].stage = "done" /\ job'[r].id = job[r].id /\ job'[r].text.n = 0
      /\ \A s \in Requests \ {r} : job'[s] = job[s]
  BY <1>1, JobEndsEffect
<1>6. Shape'
  BY <1>1, <1>4, <1>5 DEF Shape, Exists
<1>7. Notified' /\ NextText' = NextText /\ Fresh'
  BY <1>1, JobSide
<1>8. Orderly(r)'
  BY <1>1, <1>5, <1>7, Numbers DEF Orderly
<1>9. \A s \in Requests : Orderly(s)'
  BY <1>1, <1>5, <1>7, <1>8, OrderlyOthers
<1>10. JobsKept /\ (Exists' => Exists)
  BY <1>1, <1>5 DEF JobsKept, Dead, Exists
<1>11. OneRendering' /\ Rendering' = Rendering
  BY <1>1, <1>10, OneKept
<1>12. RenderInv'
  BY <1>1, <1>10, RenderKept
<1>13. LinkInv'
  BY <1>1, <1>10, LinkKept
<1>14. ASSUME NEW s \in Requests
       PROVE  SaveInv(s)'
  <2>1. CASE s # r
    <3>1. job'[s] = job[s] /\ (req'[s] = req[s] \/ req'[s].step # "rendering")
      BY <1>1, <1>5, <2>1
    <3>2. \A j \in Instances : \/ cache'[j] = cache[j] /\ (why'[j] = why[j] \/ why'[j] # "none")
                               \/ cache'[j] = NoFile
                               \/ why'[j] # "none" \/ cache'[j].n = row.render.n
      BY <1>4
    <3>3. QED
      BY <1>1, <1>10, <3>1, <3>2, SaveKept
  <2>2. CASE s = r
    <3>1. SUFFICES ASSUME Waiting(r)'
                   PROVE  SaveInv(r)'
      BY <2>2 DEF SaveInv
    <3>2. SaveInv(r) /\ Waiting(r) /\ req[r].at = i
      BY <1>1, <1>5, <3>1 DEF CacheInv, Waiting, Mine, Orderly, i
    <3>3. \A q \in Rendering' : job'[q] = job[q] /\ (Mine(q)' => Mine(q))
      BY <1>1, <1>5, <1>11 DEF Rendering, Mine
    <3>4. ~overlap' => req'[r].n <= row'.render.n /\ \A q \in Rendering' : Mine(q)' => req'[r].n <= job'[q].text.n
      BY <1>1, <1>11, <3>2, <3>3 DEF SaveInv
    <3>5. ~overlap' => why'[i] # "none" \/ req'[r].n <= cache'[i].n
      BY <1>1, <1>4, <3>4
    <3>6. req'[r].n <= row'.text.n
      BY <1>1, <3>2 DEF SaveInv
    <3>7. QED
      BY <1>1, <1>5, <3>2, <3>4, <3>5, <3>6 DEF SaveInv
  <2>3. QED
    BY <2>1, <2>2
<1>15. ASSUME NEW j \in Instances
       PROVE  FileInv(j)'
  <2>1. CASE j = i
    BY <1>1, <1>4, <2>1 DEF FileInv
  <2>2. CASE j # i
    <3>1. ASSUME NEW s \in Requests, Told(s, j)
          PROVE  Told(s, j)'
      BY <1>1, <1>5, <2>2, <3>1 DEF Told, Silent, i
    <3>2. QED
      BY <1>1, <1>4, <2>2, <3>1, FileKept
  <2>3. QED
    BY <2>1, <2>2
<1>16. QED
  BY <1>6, <1>7, <1>9, <1>11, <1>12, <1>13, <1>14, <1>15 DEF CacheInv

-----------------------------------------------------------------------------
(* The steps that start or go on with a request *)

LEMMA RenderPageEffect ==
  ASSUME CacheInv, row' \in Rows, row'.text.n \in 0..MaxText, target' \in BOOLEAN,
         NEW r \in Requests, NEW kind \in Kinds, NEW i \in Instances, RenderPage(r, kind, i)
  PROVE  /\ req[r].step = "new" /\ req' \in [Requests -> ReqStates] /\ req'[r].kind = kind
         /\ \A s \in Requests \ {r} : req'[s] = req[s]
         /\ job' \in [Requests -> Jobs] /\ job'[r].at = i /\ job'[r].id = row'.id /\ job'[r].text.n = 0
         /\ \A s \in Requests \ {r} : job'[s] = job[s]
         /\ \/ req'[r].step = "done" /\ job'[r].stage = "queued"
            \/ req'[r].step = "rendering" /\ job'[r].stage = "forked" /\ req'[r].at = i /\ req'[r].n = row'.text.n
         /\ inbox' \in [Instances -> Nat] /\ (\A j \in Instances : inbox'[j] >= inbox[j]) /\ Notified'
<1>1. PICK queued \in BOOLEAN :
        /\ job' = [job EXCEPT ![r] = [NoJob EXCEPT !.stage = IF queued THEN "queued" ELSE "forked", !.at = i, !.id = row'.id]]
        /\ req[r].step = "new"
        /\ IF queued THEN Ends(r, kind, "done") ELSE Starts(r, kind, i, "rendering")
        /\ IF queued /\ kind # "create" THEN Emit(i) ELSE UNCHANGED inbox
  BY DEF RenderPage
<1> DEFINE stage == IF queued THEN "queued" ELSE "forked"
<1> DEFINE new == [NoJob EXCEPT !.stage = stage, !.at = i, !.id = row'.id]
<1>2. Shape /\ Notified /\ job \in [Requests -> Jobs] /\ inbox \in [Instances -> Nat] /\ NoJob \in Jobs /\ NoJob.text.n = 0 /\ row'.id \in 0..MaxText
  BY Sizes DEF CacheInv, Shape, NoJob, Rows
<1>3. stage \in JobStages /\ (queued => stage = "queued") /\ (~queued => stage = "forked") /\ i \in At
  BY DEF JobStages, At
<1>4. job' = [job EXCEPT ![r] = new]
  BY <1>1
<1> HIDE DEF stage
<1>5. new \in Jobs /\ new.stage = stage /\ new.at = i /\ new.id = row'.id /\ new.text = NoJob.text
  BY <1>2, <1>3 DEF Jobs
<1> HIDE DEF new
<1>6. /\ job' \in [Requests -> Jobs] /\ job'[r].at = i /\ job'[r].id = row'.id /\ job'[r].text.n = 0 /\ job'[r].stage = stage
      /\ \A s \in Requests \ {r} : job'[s] = job[s]
  BY <1>2, <1>4, <1>5
<1>7. CASE queued
  <2>1. Ends(r, kind, "done") /\ (Emit(i) \/ inbox' = inbox)
    BY <1>1, <1>7
  <2>2. /\ req' \in [Requests -> ReqStates] /\ req'[r].step = "done" /\ req'[r].kind = kind
        /\ \A s \in Requests \ {r} : req'[s] = req[s]
    BY <1>2, <2>1, EndsEffect
  <2>3. inbox' \in [Instances -> Nat] /\ \A j \in Instances : inbox'[j] >= inbox[j] /\ inbox'[j] <= inbox[j] + 1
    <3>1. CASE Emit(i)
      BY <1>2, <3>1, EmitEffect
    <3>2. CASE inbox' = inbox
      BY <1>2, <3>2
    <3>3. QED
      BY <2>1, <3>1, <3>2
  <2>4. Notified'
    BY <1>1, <1>2, <2>2, <2>3, NotifiedOnce
  <2>5. QED
    BY <1>1, <1>3, <1>6, <1>7, <2>2, <2>3, <2>4
<1>8. CASE ~queued
  <2>1. Starts(r, kind, i, "rendering") /\ inbox' = inbox
    BY <1>1, <1>8
  <2>2. req' \in [Requests -> ReqStates]
    BY <1>2, <2>1, StartsTypes
  <2>3. /\ req'[r].step = "rendering" /\ req'[r].kind = kind /\ req'[r].at = i /\ req'[r].n = row'.text.n
        /\ \A s \in Requests \ {r} : req'[s] = req[s]
    BY <1>2, <2>1 DEF Starts, Shape
  <2>4. inbox' \in [Instances -> Nat] /\ \A j \in Instances : inbox'[j] >= inbox[j] /\ inbox'[j] <= inbox[j]
    BY <1>2, <2>1
  <2>5. Notified'
    BY <1>1, <1>2, <2>3, <2>4, NotifiedKept
  <2>6. QED
    BY <1>1, <1>3, <1>6, <1>8, <2>2, <2>3, <2>4, <2>5
<1>9. QED
  BY <1>7, <1>8

LEMMA RegisterKeeps ==
  ASSUME CacheInv, NEW r \in Requests, NEW i \in Instances, NEW kind \in {"create", "save", "rerender"}, RenderPage(r, kind, i),
         UNCHANGED <<target, links, cache, reader, failures, missed, why, overlap, linkRace>>,
         row' \in Rows, row'.text \in Texts, row'.render = row.render, row' # NoRow,
         \/ Exists /\ row'.id = row.id
         \/ ~Exists /\ kind = "create" /\ row'.id = NextText,
         row'.text.n >= row.text.n, NextText' \in Nat, NextText' >= NextText, row'.id \in 1..(NextText' - 1), row'.text.n \in 0..(NextText' - 1)
  PROVE  CacheInv'
<1>1. Shape /\ kind \in Kinds /\ row'.text.n \in 0..MaxText /\ target' \in BOOLEAN /\ Orderly(r) /\ row'.id # 0 /\ row.text.n \in Nat
      /\ row'.text.n \in Nat /\ NextText \in Nat
  BY RowTypes, Numbers DEF CacheInv, Shape, Kinds, Texts
<1>2. /\ req[r].step = "new" /\ req' \in [Requests -> ReqStates] /\ req'[r].kind = kind
      /\ \A s \in Requests \ {r} : req'[s] = req[s]
      /\ job' \in [Requests -> Jobs] /\ job'[r].at = i /\ job'[r].id = row'.id /\ job'[r].text.n = 0
      /\ \A s \in Requests \ {r} : job'[s] = job[s]
      /\ \/ req'[r].step = "done" /\ job'[r].stage = "queued"
         \/ req'[r].step = "rendering" /\ job'[r].stage = "forked" /\ req'[r].at = i /\ req'[r].n = row'.text.n
      /\ inbox' \in [Instances -> Nat] /\ (\A j \in Instances : inbox'[j] >= inbox[j]) /\ Notified'
  BY <1>1, RenderPageEffect
<1>3. job[r].stage = "none"
  BY <1>1, <1>2 DEF Orderly
<1>4. Shape'
  BY <1>1, <1>2 DEF Shape, Exists
<1>5. Fresh'
  BY DEF Fresh
<1>6. Orderly(r)'
  BY <1>1, <1>2 DEF Orderly
<1>7. \A s \in Requests : Orderly(s)'
  <2>1. ASSUME NEW s \in Requests \ {r}
        PROVE  Orderly(s)'
    <3>1. Orderly(s) /\ req'[s] = req[s] /\ job'[s] = job[s]
      BY <1>2 DEF CacheInv
    <3>2. QED
      BY <1>1, <3>1, OrderlyKept
  <2>2. QED
    BY <1>6, <2>1
<1>8. Rendering' = Rendering /\ r \notin Rendering
  BY <1>2, <1>3 DEF Rendering
<1>9. OneRendering'
  BY <1>8 DEF CacheInv, OneRendering
<1>10. WillRender(r)' /\ WillRelink(r)'
  BY <1>2 DEF WillRender, WillRelink, Mine
<1>11. RenderInv'
  BY <1>10 DEF RenderInv
<1>12. ASSUME NEW s \in Requests, s # r
       PROVE  Mine(s)' => Exists /\ Mine(s)
  <2>1. Orderly(s) /\ job'[s] = job[s] /\ NextText \in Nat /\ job[s].id \in 0..(NextText - 1)
    BY <1>1, <1>2, <1>12 DEF CacheInv, Orderly
  <2>2. job[s].id # NextText
    BY <2>1
  <2>3. QED
    BY <2>1, <2>2 DEF Mine
<1>13. \A s \in Requests : WillReconnect(s) => WillReconnect(s)'
  BY <1>2 DEF WillReconnect
<1>14. LinkInv'
  <2>1. SUFFICES ASSUME ~linkRace, ~overlap, failures = 0
                 PROVE  LinkInv'
    BY DEF LinkInv
  <2>2. ASSUME NEW s \in Requests, job'[s].stage \in {"looked", "linked"}, Mine(s)'
        PROVE  s # r /\ job'[s] = job[s] /\ Mine(s) /\ Exists
    BY <1>2, <1>12, <2>2
  <2>3. ASSUME NEW s \in Requests, job'[s].stage \in {"looked", "linked"}, Mine(s)'
        PROVE  /\ job'[s].stage = "looked" => job'[s].past = links'
               /\ job'[s].stage = "linked" => links' = job'[s].text.linked
               /\ job'[s].text.linked /\ job'[s].valid # target' => \E q \in Requests : WillReconnect(q)'
    BY <1>13, <2>1, <2>2, <2>3 DEF CacheInv, LinkInv
  <2>4. row'.render.linked /\ ~links' => \E q \in Requests : Mine(q)' /\ job'[q].stage = "linked" /\ ~job'[q].text.linked
    <3>1. CASE Exists
      <4>1. ASSUME NEW q \in Requests, Mine(q), job[q].stage = "linked"
            PROVE  Mine(q)' /\ job'[q] = job[q]
        BY <1>2, <1>3, <3>1, <4>1 DEF Mine
      <4>2. QED
        BY <2>1, <3>1, <4>1 DEF CacheInv, LinkInv
    <3>2. CASE ~Exists
      BY <3>2, Sizes DEF Exists
    <3>3. QED
      BY <3>1, <3>2
  <2>5. QED
    BY <1>10, <2>3, <2>4 DEF LinkInv
<1>15. ASSUME NEW s \in Requests
       PROVE  SaveInv(s)'
  <2>1. CASE s = r
    BY <1>1, <1>2, <2>1 DEF SaveInv, Waiting
  <2>2. CASE s # r
    <3>1. SUFFICES ASSUME Waiting(s)'
                   PROVE  SaveInv(s)'
      BY DEF SaveInv
    <3>2. SaveInv(s) /\ Waiting(s) /\ req'[s] = req[s] /\ job'[s] = job[s] /\ req[s].n \in Nat
      BY <1>1, <1>2, <1>12, <2>2, <3>1, Types DEF CacheInv, Waiting
    <3>3. \A q \in Rendering' : q \in Rendering /\ job'[q] = job[q] /\ (Mine(q)' => Mine(q))
      BY <1>2, <1>8, <1>12 DEF Rendering
    <3>4. req'[s].n <= row'.text.n
      BY <1>1, <3>2 DEF SaveInv
    <3>5. QED
      BY <3>2, <3>3, <3>4 DEF SaveInv
  <2>3. QED
    BY <2>1, <2>2
<1>16. ASSUME NEW j \in Instances
       PROVE  FileInv(j)'
  <2>1. ASSUME NEW s \in Requests, Told(s, j)
        PROVE  Told(s, j)'
    BY <1>2, <1>3, <2>1 DEF Told, Silent
  <2>2. inbox[j] > 0 => inbox'[j] > 0
    BY <1>1, <1>2 DEF Shape
  <2>3. QED
    BY <2>1, <2>2, FileKept
<1>17. QED
  BY <1>2, <1>4, <1>5, <1>7, <1>9, <1>11, <1>14, <1>15, <1>16 DEF CacheInv

LEMMA CreateKeeps ==
  ASSUME CacheInv, NEW r \in Requests, NEW i \in Instances, Create(r, i)
  PROVE  CacheInv'
<1>1. Shape /\ ~Exists /\ RenderPage(r, "create", i)
      /\ UNCHANGED <<target, links, cache, reader, failures, missed, why, overlap, linkRace>>
  BY DEF CacheInv, Create, InsertRow, boundVars, raceVars
<1>2. PICK linked \in BOOLEAN : row' = [id |-> NextText, text |-> [n |-> NextText, linked |-> linked], render |-> NoRender]
  BY DEF Create, InsertRow
<1>3. req[r].step = "new"
  BY <1>1 DEF RenderPage
<1>4. NextText \in 2..MaxText /\ MaxText \in Nat
  BY <1>1, <1>3, Numbers, Sizes
<1>5. [n |-> NextText, linked |-> linked] \in Texts
  BY <1>4 DEF Texts
<1>6. row' \in Rows /\ row'.text \in Texts /\ row'.text.n = NextText /\ row'.id = NextText /\ row'.render = NoRender
  BY <1>2, <1>4, <1>5 DEF Rows
<1>7. row = NoRow /\ row.render = NoRender /\ row.text.n = 0 /\ row' # NoRow
  BY <1>1, <1>4, <1>6, Sizes DEF Exists
<1>8. target' \in BOOLEAN /\ row'.text.n \in 0..MaxText
  BY <1>1, <1>4, <1>6 DEF Shape
<1>9. req'[r].step \in {"done", "rendering"} /\ req'[r].kind = "create" /\ \A s \in Requests \ {r} : req'[s] = req[s]
  BY <1>1, <1>6, <1>8, RenderPageEffect DEF Kinds
<1>10. NextText' = NextText + 1
  BY <1>1, <1>3, <1>9, NumbersGrow
<1>11. NextText' \in Nat /\ NextText' >= NextText /\ row'.id \in 1..(NextText' - 1) /\ row'.text.n \in 0..(NextText' - 1) /\ row'.text.n >= row.text.n
  BY <1>4, <1>6, <1>7, <1>10
<1>12. QED
  BY <1>1, <1>6, <1>7, <1>11, RegisterKeeps

LEMMA ExistsFacts ==
  ASSUME Shape, Fresh, Exists
  PROVE  row.id \in 1..(NextText - 1) /\ row.text \in Texts /\ row.text.n \in 0..(NextText - 1) /\ NextText \in Nat
<1>1. row.id # 0 /\ row.id \in Nat /\ row.text \in Texts /\ NextText \in Nat /\ row.id \in 0..(NextText - 1) /\ row.text.n \in 0..(NextText - 1)
  BY RowTypes, Numbers DEF Shape, Fresh
<1>2. QED
  BY <1>1

LEMMA SaveKeeps ==
  ASSUME CacheInv, NEW r \in Requests, NEW i \in Instances, Save(r, i)
  PROVE  CacheInv'
<1>1. Shape /\ Fresh /\ Exists /\ RenderPage(r, "save", i)
      /\ UNCHANGED <<target, links, cache, reader, failures, missed, why, overlap, linkRace>>
  BY DEF CacheInv, Save, PatchRow, boundVars, raceVars
<1>2. PICK linked \in BOOLEAN : row' = [row EXCEPT !.text = [n |-> NextText, linked |-> linked]]
  BY DEF Save, PatchRow
<1>3. req[r].step = "new"
  BY <1>1 DEF RenderPage
<1>4. NextText \in 2..MaxText /\ MaxText \in Nat
  BY <1>1, <1>3, Numbers, Sizes
<1> DEFINE text == [n |-> NextText, linked |-> linked]
<1>5. text \in Texts /\ text.n = NextText
  BY <1>4 DEF Texts
<1>6. row' = [row EXCEPT !.text = text] /\ row \in Rows
  BY <1>1, <1>2, RowTypes
<1> HIDE DEF text
<1>7. row' \in Rows /\ row'.text = text /\ row'.id = row.id /\ row'.render = row.render
  BY <1>5, <1>6 DEF Rows
<1>8. row.id \in 1..(NextText - 1) /\ row.text.n \in 0..(NextText - 1)
  BY <1>1, ExistsFacts
<1>9. row' # NoRow
  BY <1>7, <1>8, Sizes
<1>10. target' \in BOOLEAN /\ row'.text.n \in 0..MaxText /\ row'.text \in Texts /\ row'.text.n = NextText
  BY <1>1, <1>4, <1>5, <1>7 DEF Shape
<1>11. req'[r].step \in {"done", "rendering"} /\ req'[r].kind = "save" /\ \A s \in Requests \ {r} : req'[s] = req[s]
  BY <1>1, <1>7, <1>10, RenderPageEffect DEF Kinds
<1>12. NextText' = NextText + 1
  BY <1>1, <1>3, <1>11, NumbersGrow
<1>13. NextText' \in Nat /\ NextText' >= NextText /\ row'.id \in 1..(NextText' - 1) /\ row'.text.n \in 0..(NextText' - 1) /\ row'.text.n >= row.text.n
  BY <1>4, <1>7, <1>8, <1>10, <1>12
<1>14. QED
  BY <1>1, <1>7, <1>9, <1>10, <1>13, RegisterKeeps

LEMMA RerenderKeeps ==
  ASSUME CacheInv, NEW r \in Requests, NEW i \in Instances, Rerender(r, i)
  PROVE  CacheInv'
<1>1. Shape /\ Fresh /\ Exists /\ RenderPage(r, "rerender", i) /\ row' = row
      /\ UNCHANGED <<target, links, cache, reader, failures, missed, why, overlap, linkRace>>
  BY DEF CacheInv, Rerender, boundVars, raceVars
<1>2. row \in Rows /\ row.text.n \in 0..MaxText /\ target' \in BOOLEAN
  BY <1>1, RowTypes DEF Shape
<1>3. req[r].step = "new" /\ req'[r].step \in {"done", "rendering"} /\ req'[r].kind = "rerender" /\ \A s \in Requests \ {r} : req'[s] = req[s]
  BY <1>1, <1>2, RenderPageEffect DEF Kinds
<1>4. NextText' = NextText
  BY <1>1, <1>3, NumbersSame
<1>5. row.id \in 1..(NextText - 1) /\ row.text \in Texts /\ row.text.n \in 0..(NextText - 1) /\ NextText \in Nat
  BY <1>1, ExistsFacts
<1>6. row' # NoRow /\ row'.text.n >= row.text.n
  BY <1>1, <1>5 DEF Exists
<1>7. QED
  BY <1>1, <1>2, <1>4, <1>5, <1>6, RegisterKeeps

LEMMA StartSide ==
  ASSUME CacheInv, NEW r \in Requests, NEW i \in Instances, NEW kind \in Kinds \ {"create", "save"},
         NEW step \in {"reconnecting", "dropping"}, step = "reconnecting" => kind = "link", Starts(r, kind, i, step),
         row'.id \in {row.id, 0}, row'.text.n \in {row.text.n, 0}, target' \in BOOLEAN, UNCHANGED <<inbox, job>>
  PROVE  /\ req' \in [Requests -> ReqStates] /\ req[r].step = "new" /\ req'[r].step = step /\ req'[r].valid = target'
         /\ \A s \in Requests \ {r} : req'[s] = req[s]
         /\ Notified' /\ Fresh' /\ \A s \in Requests : Orderly(s)'
<1>1. Shape /\ Notified /\ Fresh /\ Orderly(r) /\ row'.text.n \in 0..MaxText /\ inbox \in [Instances -> Nat] /\ req \in [Requests -> ReqStates]
  BY RowTypes, Sizes DEF CacheInv, Shape
<1>2. req' \in [Requests -> ReqStates]
  BY <1>1, StartsTypes
<1>3. req[r].step = "new" /\ req'[r].step = step /\ req'[r].kind = kind /\ req'[r].at = i /\ req'[r].valid = target'
      /\ \A s \in Requests \ {r} : req'[s] = req[s]
  BY <1>1 DEF Starts
<1>4. NextText' = NextText /\ NextText \in Nat
  BY <1>1, <1>3, NumbersSame, Numbers
<1>5. Fresh'
  BY <1>1, <1>4, FreshKept
<1>6. inbox' \in [Instances -> Nat] /\ \A j \in Instances : inbox'[j] <= inbox[j]
  BY <1>1
<1>7. Notified'
  BY <1>1, <1>3, <1>6, NotifiedKept
<1>8. Orderly(r)'
  BY <1>1, <1>3, <1>4 DEF Orderly
<1>9. ASSUME NEW s \in Requests \ {r}
      PROVE  Orderly(s)'
  <2>1. Orderly(s) /\ NextText' >= NextText
    BY <1>4 DEF CacheInv
  <2>2. QED
    BY <1>1, <1>3, <1>4, <2>1, OrderlyKept
<1>10. QED
  BY <1>2, <1>3, <1>5, <1>7, <1>8, <1>9

LEMMA ConvertKeeps ==
  ASSUME CacheInv, NEW r \in Requests, NEW i \in Instances, Convert(r, i)
  PROVE  CacheInv'
<1>1. Shape /\ Starts(r, "convert", i, "dropping")
      /\ UNCHANGED <<row, target, links, cache, reader, inbox, job, failures, missed, why, overlap, linkRace>>
  BY DEF CacheInv, Convert, boundVars, raceVars
<1>2. /\ req' \in [Requests -> ReqStates] /\ req[r].step = "new" /\ req'[r].step = "dropping"
      /\ \A s \in Requests \ {r} : req'[s] = req[s]
      /\ Notified' /\ Fresh' /\ \A s \in Requests : Orderly(s)'
  BY <1>1, StartSide DEF Kinds, Shape
<1>3. Shape'
  BY <1>1, <1>2 DEF Shape, Exists
<1>4. JobsKept /\ (Exists' => Exists)
  BY <1>1 DEF JobsKept, Exists
<1>5. OneRendering'
  BY <1>1, <1>4, OneKept
<1>6. RenderInv'
  BY <1>1, <1>4, RenderKept
<1>7. \A s \in Requests : req[s].step = "reconnecting" => req'[s] = req[s]
  BY <1>2
<1>8. LinkInv'
  BY <1>1, <1>4, <1>7, LinkKept
<1>9. ASSUME NEW s \in Requests
      PROVE  SaveInv(s)'
  <2>1. job'[s] = job[s] /\ (req'[s] = req[s] \/ req'[s].step # "rendering")
    BY <1>1, <1>2
  <2>2. QED
    BY <1>1, <1>4, <2>1, SaveKept
<1>10. \A j \in Instances : FileInv(j)'
  BY <1>2 DEF FileInv, Told
<1>11. QED
  BY <1>2, <1>3, <1>5, <1>6, <1>8, <1>9, <1>10 DEF CacheInv

LEMMA DeleteKeeps ==
  ASSUME CacheInv, NEW r \in Requests, NEW i \in Instances, Delete(r, i)
  PROVE  CacheInv'
<1>1. Shape /\ Starts(r, "delete", i, "dropping") /\ row' = NoRow /\ links' = FALSE
      /\ UNCHANGED <<target, cache, reader, inbox, job, failures, missed, why, overlap, linkRace>>
  BY DEF CacheInv, Delete, boundVars, raceVars
<1>2. row'.id = 0 /\ row'.text.n = 0 /\ row' \in Rows
  BY <1>1, Sizes
<1>3. /\ req' \in [Requests -> ReqStates] /\ req[r].step = "new" /\ req'[r].step = "dropping"
      /\ \A s \in Requests \ {r} : req'[s] = req[s]
      /\ Notified' /\ Fresh' /\ \A s \in Requests : Orderly(s)'
  BY <1>1, <1>2, StartSide DEF Kinds, Shape
<1>4. ~Exists'
  BY <1>1 DEF Exists
<1>5. Shape'
  BY <1>1, <1>2, <1>3, <1>4 DEF Shape
<1>6. OneRendering'
  BY <1>1 DEF CacheInv, OneRendering, Rendering
<1>7. RenderInv' /\ LinkInv'
  BY <1>4 DEF RenderInv, LinkInv
<1>8. ASSUME NEW s \in Requests
      PROVE  SaveInv(s)'
  <2>1. Orderly(s)'
    BY <1>3
  <2>2. QED
    BY <1>2, <2>1 DEF SaveInv, Waiting, Mine, Orderly
<1>9. \A j \in Instances : FileInv(j)'
  BY <1>3 DEF FileInv, Told
<1>10. QED
  BY <1>3, <1>5, <1>6, <1>7, <1>8, <1>9 DEF CacheInv

LEMMA ChangeTargetKeeps ==
  ASSUME CacheInv, NEW r \in Requests, NEW i \in Instances, ChangeTarget(r, i)
  PROVE  CacheInv'
<1>1. Shape /\ Starts(r, "link", i, "reconnecting") /\ target' = ~target
      /\ UNCHANGED <<row, links, cache, reader, inbox, job, failures, missed, why, overlap, linkRace>>
  BY DEF CacheInv, ChangeTarget, boundVars, raceVars
<1>2. /\ req' \in [Requests -> ReqStates] /\ req[r].step = "new" /\ req'[r].step = "reconnecting" /\ req'[r].valid = target'
      /\ \A s \in Requests \ {r} : req'[s] = req[s]
      /\ Notified' /\ Fresh' /\ \A s \in Requests : Orderly(s)'
  BY <1>1, StartSide DEF Kinds, Shape
<1>3. Shape'
  BY <1>1, <1>2 DEF Shape, Exists
<1>4. JobsKept /\ (Exists' => Exists)
  BY <1>1 DEF JobsKept, Exists
<1>5. OneRendering'
  BY <1>1, <1>4, OneKept
<1>6. RenderInv'
  BY <1>1, <1>4, RenderKept
<1>7. LinkInv'
  <2>1. SUFFICES ASSUME Exists, ~linkRace, ~overlap, failures = 0
                 PROVE  LinkInv'
    BY <1>1, <1>4 DEF LinkInv
  <2>2. WillReconnect(r)'
    BY <1>2 DEF WillReconnect
  <2>3. \A s \in Requests : job[s].stage \in {"looked", "linked"} /\ Mine(s) =>
          /\ job[s].stage = "looked" => job[s].past = links
          /\ job[s].stage = "linked" => links = job[s].text.linked
    BY <2>1 DEF CacheInv, LinkInv
  <2>4. row.render.linked /\ ~links => \E s \in Requests : Mine(s) /\ job[s].stage = "linked" /\ ~job[s].text.linked
    BY <2>1 DEF CacheInv, LinkInv
  <2>5. row.render.linked => links \/ \E s \in Requests : WillRelink(s)'
    BY <1>1, <2>4 DEF WillRelink, Mine
  <2>6. QED
    BY <1>1, <2>2, <2>3, <2>4, <2>5 DEF LinkInv, Mine
<1>8. ASSUME NEW s \in Requests
      PROVE  SaveInv(s)'
  <2>1. job'[s] = job[s] /\ (req'[s] = req[s] \/ req'[s].step # "rendering")
    BY <1>1, <1>2
  <2>2. QED
    BY <1>1, <1>4, <2>1, SaveKept
<1>9. ASSUME NEW j \in Instances
      PROVE  FileInv(j)'
  <2>1. ASSUME NEW s \in Requests, Told(s, j)
        PROVE  Told(s, j)'
    BY <1>1, <1>2, <2>1 DEF Told, Silent
  <2>2. QED
    BY <1>1, <2>1, FileKept
<1>10. QED
  BY <1>2, <1>3, <1>5, <1>6, <1>7, <1>8, <1>9 DEF CacheInv

LEMMA ReplaceLinksKeeps ==
  ASSUME CacheInv, NEW r \in Requests, ReplaceLinks(r)
  PROVE  CacheInv'
<1> DEFINE valid == req[r].valid
<1> DEFINE step == IF links THEN "replaced" ELSE "looking"
<1>1. Shape /\ Notified /\ Fresh /\ Orderly(r) /\ req[r].step = "reconnecting" /\ valid \in BOOLEAN
      /\ linkRace' = (\/ linkRace
                      \/ valid # target
                      \/ \E s \in Requests : job[s].stage \in {"looked", "linked"} /\ job[s].text.linked /\ job[s].valid # valid)
      /\ UNCHANGED <<target, links, cache, reader, inbox, job, failures, missed, why, overlap>>
  BY Types DEF CacheInv, ReplaceLinks, boundVars
<1>2. /\ req' = [req EXCEPT ![r].step = step]
      /\ row' = IF links /\ row.render.linked THEN [row EXCEPT !.render.valid = valid] ELSE row
  BY DEF ReplaceLinks, Step
<1> HIDE DEF valid
<1>3. linkRace' \in BOOLEAN /\ links \in BOOLEAN /\ req \in [Requests -> ReqStates] /\ req[r] \in ReqStates
  BY <1>1 DEF Shape
<1>4. step \in {"replaced", "looking"} /\ (links => step = "replaced")
  OBVIOUS
<1> DEFINE new == [req[r] EXCEPT !.step = step]
<1>5. req' = [req EXCEPT ![r] = new]
  BY <1>2
<1> HIDE DEF step
<1>6. new \in ReqStates /\ new.step = step /\ new.kind = req[r].kind /\ new.at = req[r].at
  BY <1>3, <1>4 DEF ReqStates
<1> HIDE DEF new
<1>7. /\ req' \in [Requests -> ReqStates] /\ req'[r].step = step /\ req'[r].kind = req[r].kind /\ req'[r].at = req[r].at
      /\ \A s \in Requests \ {r} : req'[s] = req[s]
  BY <1>3, <1>5, <1>6
<1>8. /\ row' \in Rows /\ row'.id = row.id /\ row'.text = row.text /\ row'.render.n = row.render.n
      /\ row'.render.linked = row.render.linked /\ (Exists' <=> Exists)
      /\ links /\ row.render.linked => row'.render.valid = valid
      /\ ~links => row' = row
  <2>1. CASE links /\ row.render.linked
    <3>1. row \in Rows /\ row.render \in Renders /\ row.id # 0
      BY <1>1, <2>1, RowTypes, Sizes DEF Shape, Exists
    <3> DEFINE render == [row.render EXCEPT !.valid = valid]
    <3>2. render \in Renders /\ render.n = row.render.n /\ render.linked = row.render.linked /\ render.valid = valid
      BY <1>1, <3>1 DEF Renders
    <3>3. row' = [row EXCEPT !.render = render]
      BY <1>2, <2>1
    <3> HIDE DEF render
    <3>4. row' \in Rows /\ row'.id = row.id /\ row'.text = row.text /\ row'.render = render
      BY <3>1, <3>2, <3>3 DEF Rows
    <3>5. Exists' /\ Exists
      BY <1>1, <3>1, <3>4, Sizes DEF Exists, Shape
    <3>6. QED
      BY <2>1, <3>2, <3>4, <3>5
  <2>2. CASE ~(links /\ row.render.linked)
    BY <1>1, <1>2, <2>2, RowTypes DEF Exists
  <2>3. QED
    BY <2>1, <2>2
<1>9. Shape'
  BY <1>1, <1>3, <1>7, <1>8 DEF Shape
<1>10. NextText' = NextText /\ NextText \in Nat /\ NextText' >= NextText
  <2>1. NextText' = NextText
    BY <1>1, <1>4, <1>7, NumbersSame
  <2>2. QED
    BY <1>1, <2>1, Numbers
<1>11. Fresh'
  BY <1>1, <1>8, <1>10, FreshKept
<1>12. Notified'
  <2>1. inbox' \in [Instances -> Nat] /\ \A j \in Instances : inbox'[j] <= inbox[j]
    BY <1>1 DEF Shape
  <2>2. QED
    BY <1>1, <1>7, <2>1, NotifiedKept
<1>13. Orderly(r)'
  BY <1>1, <1>4, <1>7, <1>10 DEF Orderly
<1>14. ASSUME NEW s \in Requests \ {r}
       PROVE  Orderly(s)'
  <2>1. Orderly(s) /\ job'[s] = job[s]
    BY <1>1 DEF CacheInv
  <2>2. QED
    BY <1>1, <1>7, <1>10, <2>1, OrderlyKept
<1>15. JobsKept
  BY <1>1 DEF JobsKept
<1>16. OneRendering'
  BY <1>1, <1>15, OneKept
<1>17. RenderInv'
  BY <1>1, <1>8, <1>15, RenderKept
<1>18. LinkInv'
  <2>1. SUFFICES ASSUME Exists, ~linkRace', ~overlap, failures = 0
                 PROVE  LinkInv'
    BY <1>1, <1>8 DEF LinkInv
  <2>2. ~linkRace /\ valid = target
        /\ \A s \in Requests : job[s].stage \in {"looked", "linked"} /\ job[s].text.linked => job[s].valid = target
    BY <1>1, <2>1
  <2>3. /\ \A s \in Requests : job[s].stage \in {"looked", "linked"} /\ Mine(s) =>
             /\ job[s].stage = "looked" => job[s].past = links
             /\ job[s].stage = "linked" => links = job[s].text.linked
        /\ row.render.linked /\ ~links => \E s \in Requests : Mine(s) /\ job[s].stage = "linked" /\ ~job[s].text.linked
        /\ row.render.linked /\ row.render.valid # target => links \/ \E s \in Requests : WillRelink(s)
    BY <2>1, <2>2 DEF CacheInv, LinkInv
  <2>4. \A s \in Requests : (Mine(s)' <=> Mine(s)) /\ (WillRelink(s) => WillRelink(s)')
    BY <1>1, <1>8 DEF WillRelink, Mine
  <2>5. row'.render.linked /\ row'.render.valid # target => \E s \in Requests : WillRelink(s)'
    <3>1. CASE links
      BY <1>8, <2>2, <3>1
    <3>2. CASE ~links
      BY <1>8, <2>3, <2>4, <3>2
    <3>3. QED
      BY <3>1, <3>2
  <2>6. QED
    BY <1>1, <1>8, <2>2, <2>3, <2>4, <2>5 DEF LinkInv
<1>19. ASSUME NEW s \in Requests
       PROVE  SaveInv(s)'
  <2>1. job'[s] = job[s] /\ (req'[s] = req[s] \/ req'[s].step # "rendering")
    BY <1>1, <1>4, <1>7
  <2>2. QED
    BY <1>1, <1>8, <1>15, <2>1, SaveKept
<1>20. ASSUME NEW j \in Instances
       PROVE  FileInv(j)'
  <2>1. CASE links
    BY <1>4, <1>7, <2>1 DEF FileInv, Told
  <2>2. CASE ~links
    <3>1. ASSUME NEW s \in Requests, Told(s, j)
          PROVE  Told(s, j)'
      BY <1>1, <1>4, <1>7, <3>1 DEF Told, Silent
    <3>2. QED
      BY <1>1, <1>8, <2>2, <3>1, FileKept
  <2>3. QED
    BY <2>1, <2>2
<1>21. QED
  BY <1>9, <1>11, <1>12, <1>13, <1>14, <1>16, <1>17, <1>18, <1>19, <1>20 DEF CacheInv

(* What is common to the steps after the links were replaced *)
LEMMA EndKeeps ==
  ASSUME CacheInv, NEW r \in Requests, NEW step \in {"replaced", "looking", "dropping", "done", "threw"},
         req' \in [Requests -> ReqStates], \A s \in Requests \ {r} : req'[s] = req[s],
         req[r].step \in {"reconnecting", "replaced", "looking", "dropping"},
         req'[r].step = step, req'[r].kind = req[r].kind, step \in {"done", "threw"} \/ (req[r].kind = "link" /\ req'[r].at = req[r].at),
         UNCHANGED <<row, target, links, cache, reader, inbox, job, failures, missed, overlap>>,
         linkRace' \in BOOLEAN, linkRace => linkRace', req[r].step = "reconnecting" => linkRace',
         why' \in [Instances -> Reasons], \A j \in Instances : why'[j] = why[j] \/ why'[j] # "none",
         \A j \in Instances : Told(r, j) => cache[j] \in {NoFile, row.render} \/ why'[j] # "none" \/ Told(r, j)'
  PROVE  CacheInv'
<1>1. Shape /\ Notified /\ Fresh /\ Orderly(r) /\ JobsKept /\ (Exists' => Exists)
  BY DEF CacheInv, JobsKept, Exists
<1>2. Shape'
  BY <1>1 DEF Shape, Exists
<1>3. NextText' = NextText
  BY <1>1, NumbersSame
<1>4. NextText' \in Nat /\ NextText' >= NextText
  BY <1>1, <1>3, Numbers
<1>5. Fresh'
  BY <1>1, <1>3, FreshKept
<1>6. Notified'
  <2>1. inbox' \in [Instances -> Nat] /\ \A j \in Instances : inbox'[j] <= inbox[j]
    BY <1>1 DEF Shape
  <2>2. \A s \in Requests : req[s].step \in {"done", "threw"} => req'[s].step \in {"done", "threw"}
    OBVIOUS
  <2>3. QED
    BY <1>1, <2>1, <2>2, NotifiedKept
<1>7. OneRendering' /\ RenderInv'
  BY <1>1, OneKept, RenderKept
<1>8. LinkInv'
  <2>1. CASE linkRace'
    BY <2>1 DEF LinkInv
  <2>2. CASE ~linkRace'
    <3>1. \A s \in Requests : req[s].step = "reconnecting" => req'[s] = req[s]
      BY <2>2
    <3>2. QED
      BY <1>1, <3>1, LinkKept
  <2>3. QED
    BY <2>1, <2>2
<1>9. ASSUME NEW s \in Requests
      PROVE  Orderly(s)'
  <2>1. CASE s # r
    <3>1. Orderly(s) /\ req'[s] = req[s] /\ job'[s] = job[s]
      BY <2>1 DEF CacheInv
    <3>2. QED
      BY <1>1, <1>4, <3>1, OrderlyKept
  <2>2. CASE s = r
    BY <1>1, <1>3, <2>2 DEF Orderly
  <2>3. QED
    BY <2>1, <2>2
<1>10. ASSUME NEW s \in Requests
       PROVE  SaveInv(s)'
  <2>1. job'[s] = job[s] /\ (req'[s] = req[s] \/ req'[s].step # "rendering")
    OBVIOUS
  <2>2. QED
    BY <1>1, <2>1, SaveKept
<1>11. ASSUME NEW j \in Instances
       PROVE  FileInv(j)'
  <2>1. FileInv(j) /\ (why'[j] = why[j] \/ why'[j] # "none")
    BY DEF CacheInv
  <2>2. ASSUME NEW s \in Requests, s # r, Told(s, j)
        PROVE  Told(s, j)'
    BY <2>2 DEF Told, Silent
  <2>3. QED
    BY <2>1, <2>2 DEF FileInv
<1>12. QED
  BY <1>2, <1>5, <1>6, <1>7, <1>8, <1>9, <1>10, <1>11 DEF CacheInv

LEMMA FindLinkingKeeps ==
  ASSUME CacheInv, NEW r \in Requests, FindLinking(r)
  PROVE  CacheInv'
<1> DEFINE blamed == IF req[r].step = "replaced" /\ ~links THEN Instances ELSE {}
<1>1. Shape /\ Orderly(r) /\ req[r].step \in {"replaced", "looking"} /\ Blame(blamed, "unlinked")
      /\ (IF links THEN Step(r, "dropping") ELSE Ends(r, "link", "done"))
      /\ UNCHANGED <<row, target, links, cache, reader, inbox, job, failures, missed, overlap, linkRace>>
  BY DEF CacheInv, FindLinking, boundVars, raceVars
<1>2. req[r].kind = "link" /\ linkRace' \in BOOLEAN /\ req \in [Requests -> ReqStates] /\ req[r] \in ReqStates
  BY <1>1 DEF Orderly, Shape
<1>3. blamed \in SUBSET Instances /\ "unlinked" \in Reasons \ {"none"}
  BY DEF Reasons
<1>4. req[r].step = "replaced" /\ ~links => blamed = Instances
  OBVIOUS
<1> HIDE DEF blamed
<1>5. /\ why' \in [Instances -> Reasons]
      /\ \A j \in Instances : why'[j] = why[j] \/ why'[j] # "none"
      /\ \A j \in blamed : cache[j] \in {NoFile, row.render} \/ why'[j] # "none"
  BY <1>1, <1>3, BlameEffect
<1>6. CASE links
  <2> DEFINE new == [req[r] EXCEPT !.step = "dropping"]
  <2>1. new \in ReqStates /\ new.step = "dropping" /\ new.kind = req[r].kind /\ new.at = req[r].at
    BY <1>2 DEF ReqStates
  <2>2. req' = [req EXCEPT ![r] = new]
    BY <1>1, <1>6 DEF Step
  <2> HIDE DEF new
  <2>3. /\ req' \in [Requests -> ReqStates] /\ req'[r].step = "dropping" /\ req'[r].kind = req[r].kind /\ req'[r].at = req[r].at
        /\ \A s \in Requests \ {r} : req'[s] = req[s]
    BY <1>2, <2>1, <2>2
  <2>4. \A j \in Instances : Told(r, j)'
    BY <2>3 DEF Told
  <2>5. QED
    BY <1>1, <1>2, <1>5, <2>3, <2>4, EndKeeps
<1>7. CASE ~links
  <2>1. Ends(r, "link", "done")
    BY <1>1, <1>7
  <2>2. /\ req' \in [Requests -> ReqStates] /\ req'[r].step = "done" /\ req'[r].kind = "link"
        /\ \A s \in Requests \ {r} : req'[s] = req[s]
    BY <1>1, <2>1, EndsEffect DEF Kinds
  <2>3. ASSUME NEW j \in Instances, Told(r, j)
        PROVE  cache[j] \in {NoFile, row.render} \/ why'[j] # "none" \/ Told(r, j)'
    <3>1. CASE req[r].step = "replaced"
      BY <1>4, <1>5, <1>7, <3>1
    <3>2. CASE req[r].step = "looking"
      BY <1>1, <2>2, <2>3, <3>2 DEF Told, Silent
    <3>3. QED
      BY <1>1, <3>1, <3>2
  <2>4. QED
    BY <1>1, <1>2, <1>5, <2>2, <2>3, EndKeeps
<1>8. QED
  BY <1>6, <1>7

LEMMA RequestThrowsKeeps ==
  ASSUME CacheInv, NEW r \in Requests, RequestThrows(r)
  PROVE  CacheInv'
<1> DEFINE blamed == IF req[r].step \in {"replaced", "dropping"} THEN Instances ELSE {}
<1>1. Shape /\ req[r].step \in {"reconnecting", "replaced", "looking", "dropping"} /\ Blame(blamed, "threw")
      /\ Ends(r, req[r].kind, "threw") /\ linkRace' = (linkRace \/ req[r].step = "reconnecting")
      /\ UNCHANGED <<row, target, links, cache, reader, inbox, job, failures, missed, overlap>>
  BY DEF CacheInv, RequestThrows, boundVars
<1>2. req[r].kind \in Kinds \cup {"none"} /\ linkRace' \in BOOLEAN
  BY <1>1, Types DEF Shape
<1>3. blamed \in SUBSET Instances /\ "threw" \in Reasons \ {"none"}
  BY DEF Reasons
<1>4. req[r].step \in {"replaced", "dropping"} => blamed = Instances
  OBVIOUS
<1> HIDE DEF blamed
<1>5. /\ why' \in [Instances -> Reasons]
      /\ \A j \in Instances : why'[j] = why[j] \/ why'[j] # "none"
      /\ \A j \in blamed : cache[j] \in {NoFile, row.render} \/ why'[j] # "none"
  BY <1>1, <1>3, BlameEffect
<1>6. /\ req' \in [Requests -> ReqStates] /\ req'[r].step = "threw" /\ req'[r].kind = req[r].kind
      /\ \A s \in Requests \ {r} : req'[s] = req[s]
  BY <1>1, <1>2, EndsEffect
<1>7. ASSUME NEW j \in Instances, Told(r, j)
      PROVE  cache[j] \in {NoFile, row.render} \/ why'[j] # "none" \/ Told(r, j)'
  <2>1. CASE req[r].step \in {"replaced", "dropping"}
    BY <1>4, <1>5, <2>1
  <2>2. CASE req[r].step \in {"reconnecting", "looking"}
    BY <1>1, <1>6, <1>7, <2>2 DEF Told, Silent
  <2>3. QED
    BY <1>1, <2>1, <2>2
<1>8. QED
  BY <1>1, <1>2, <1>5, <1>6, <1>7, EndKeeps

LEMMA WriteThrowsKeeps ==
  ASSUME CacheInv, NEW r \in Requests, WriteThrows(r)
  PROVE  CacheInv'
<1> DEFINE kind == IF Exists THEN "save" ELSE "create"
<1>1. Shape /\ Notified /\ Fresh /\ Orderly(r) /\ (InsertRow \/ PatchRow) /\ failures < MaxFailures /\ failures' = failures + 1
      /\ req[r].step = "new" /\ Ends(r, kind, "threw")
      /\ UNCHANGED <<target, links, cache, reader, inbox, job, missed, why, overlap, linkRace>>
  BY DEF CacheInv, WriteThrows, raceVars
<1>2. kind \in {"create", "save"} /\ kind \in Kinds \cup {"none"}
  BY DEF Kinds
<1> HIDE DEF kind
<1>3. /\ req' \in [Requests -> ReqStates] /\ req'[r].step = "threw" /\ req'[r].kind = kind
      /\ \A s \in Requests \ {r} : req'[s] = req[s]
  BY <1>1, <1>2, EndsEffect
<1>4. NextText' = NextText + 1
  BY <1>1, <1>2, <1>3, NumbersGrow
<1>5. NextText \in 2..MaxText /\ NextText \in Nat /\ MaxText \in Nat /\ NextText' \in Nat /\ NextText' >= NextText
  BY <1>1, <1>4, Numbers, Sizes
<1>6. /\ row' \in Rows /\ row'.text \in Texts /\ row'.text.n = NextText /\ row'.render = row.render
      /\ row'.id \in 1..(NextText' - 1) /\ Exists'
      /\ \/ Exists /\ row'.id = row.id
         \/ ~Exists /\ row'.id = NextText
  <2>1. CASE InsertRow
    <3>1. PICK linked \in BOOLEAN : row' = [id |-> NextText, text |-> [n |-> NextText, linked |-> linked], render |-> NoRender]
      BY <2>1 DEF InsertRow
    <3>2. [n |-> NextText, linked |-> linked] \in Texts
      BY <1>5 DEF Texts
    <3>3. row' \in Rows /\ row'.text \in Texts /\ row'.text.n = NextText /\ row'.id = NextText /\ row'.render = NoRender
      BY <1>5, <3>1, <3>2 DEF Rows
    <3>4. row.render = NoRender /\ ~Exists
      BY <2>1, Sizes DEF InsertRow, Exists
    <3>5. Exists' /\ row'.id \in 1..(NextText' - 1)
      BY <1>4, <1>5, <3>3, Sizes DEF Exists
    <3>6. QED
      BY <3>3, <3>4, <3>5
  <2>2. CASE PatchRow
    <3>1. PICK linked \in BOOLEAN : row' = [row EXCEPT !.text = [n |-> NextText, linked |-> linked]]
      BY <2>2 DEF PatchRow
    <3> DEFINE text == [n |-> NextText, linked |-> linked]
    <3>2. text \in Texts /\ text.n = NextText
      BY <1>5 DEF Texts
    <3>3. row' = [row EXCEPT !.text = text] /\ row \in Rows
      BY <1>1, <3>1, RowTypes
    <3> HIDE DEF text
    <3>4. row' \in Rows /\ row'.text = text /\ row'.id = row.id /\ row'.render = row.render
      BY <3>2, <3>3 DEF Rows
    <3>5. Exists /\ row.id \in 1..(NextText - 1)
      BY <1>1, <2>2, ExistsFacts DEF PatchRow
    <3>6. Exists' /\ row'.id \in 1..(NextText' - 1)
      BY <1>4, <1>5, <3>4, <3>5, Sizes DEF Exists
    <3>7. QED
      BY <3>2, <3>4, <3>5, <3>6
  <2>3. QED
    BY <1>1, <2>1, <2>2
<1>7. failures' \in 0..MaxFailures /\ failures' # 0
  BY <1>1, RowTypes, Sizes
<1>8. row'.id # 0
  BY <1>5, <1>6
<1>9. Shape'
  BY <1>1, <1>3, <1>6, <1>7, <1>8 DEF Shape
<1>10. Notified'
  <2>1. inbox' \in [Instances -> Nat] /\ \A j \in Instances : inbox'[j] <= inbox[j]
    BY <1>1 DEF Shape
  <2>2. \A s \in Requests : req[s].step \in {"done", "threw"} => req'[s].step \in {"done", "threw"}
    BY <1>3
  <2>3. QED
    BY <1>1, <2>1, <2>2, NotifiedKept
<1>11. Fresh'
  BY <1>4, <1>5, <1>6 DEF Fresh
<1>12. ASSUME NEW s \in Requests
       PROVE  Orderly(s)'
  <2>1. CASE s # r
    <3>1. Orderly(s) /\ req'[s] = req[s] /\ job'[s] = job[s]
      BY <1>1, <1>3, <2>1 DEF CacheInv
    <3>2. QED
      BY <1>1, <1>5, <3>1, OrderlyKept
  <2>2. CASE s = r
    <3>1. job'[r] = job[r] /\ job[r].stage = "none" /\ job[r].id \in Nat /\ job[r].text.n \in Nat
          /\ {job[r].id, job[r].text.n} \subseteq 0..(NextText - 1)
      BY <1>1, Types DEF Orderly
    <3>2. {job[r].id, job[r].text.n} \subseteq 0..(NextText' - 1)
      BY <1>4, <1>5, <3>1
    <3>3. QED
      BY <1>3, <2>2, <3>1, <3>2 DEF Orderly
  <2>3. QED
    BY <2>1, <2>2
<1>13. OneRendering' /\ Rendering' = Rendering
  BY <1>1, OneKept DEF JobsKept
<1>14. RenderInv' /\ LinkInv'
  BY <1>7 DEF RenderInv, LinkInv
<1>15. ASSUME NEW s \in Requests
       PROVE  Mine(s)' => Mine(s)
  <2>1. job'[s] = job[s] /\ job[s].id \in 0..(NextText - 1)
    BY <1>1 DEF CacheInv, Orderly
  <2>2. job[s].id # NextText
    BY <1>5, <2>1
  <2>3. QED
    BY <1>6, <2>1, <2>2 DEF Mine
<1>16. ASSUME NEW s \in Requests
       PROVE  SaveInv(s)'
  <2>1. SUFFICES ASSUME Waiting(s)'
                 PROVE  SaveInv(s)'
    BY DEF SaveInv
  <2>2. req'[s] = req[s] /\ job'[s] = job[s]
    BY <1>1, <1>3, <2>1 DEF Waiting
  <2>3. SaveInv(s) /\ Waiting(s) /\ req[s].n \in Nat /\ row.text.n \in Nat /\ row.text.n \in 0..(NextText - 1)
    BY <1>1, <1>15, <2>1, <2>2, Types, RowTypes DEF CacheInv, Waiting, Fresh
  <2>4. req[s].n <= row'.text.n
    BY <1>5, <1>6, <2>3 DEF SaveInv
  <2>5. \A q \in Rendering' : q \in Rendering /\ job'[q] = job[q] /\ (Mine(q)' => Mine(q))
    BY <1>1, <1>13, <1>15 DEF Rendering
  <2>6. QED
    BY <1>1, <1>6, <2>2, <2>3, <2>4, <2>5 DEF SaveInv
<1>17. ASSUME NEW j \in Instances
       PROVE  FileInv(j)'
  <2>1. ASSUME NEW s \in Requests, Told(s, j)
        PROVE  Told(s, j)'
    <3>1. CASE s = r
      BY <1>1, <2>1, <3>1 DEF Told, Orderly
    <3>2. CASE s # r
      BY <1>1, <1>3, <2>1, <3>2 DEF Told, Silent
    <3>3. QED
      BY <3>1, <3>2
  <2>2. QED
    BY <1>1, <1>6, <2>1, FileKept
<1>18. QED
  BY <1>9, <1>10, <1>11, <1>12, <1>13, <1>14, <1>16, <1>17 DEF CacheInv

-----------------------------------------------------------------------------
(* The invariant, and the properties that follow from it *)

LEMMA InitCache == Init => CacheInv
<1>1. SUFFICES ASSUME Init
               PROVE  CacheInv
  OBVIOUS
<1>2. PICK linked \in BOOLEAN, exists \in BOOLEAN :
        /\ target \in BOOLEAN
        /\ row = IF exists THEN [id |-> 1, text |-> [n |-> 1, linked |-> linked], render |-> RenderOf([n |-> 1, linked |-> linked], target)] ELSE NoRow
        /\ links = (exists /\ linked)
  BY <1>1 DEF Init
<1>3. /\ cache = [i \in Instances |-> NoFile] /\ reader = [i \in Instances |-> NoRender] /\ inbox = [i \in Instances |-> 0]
      /\ req = [r \in Requests |-> NoRequest] /\ job = [r \in Requests |-> NoJob]
      /\ failures = 0 /\ missed = 0 /\ why = [i \in Instances |-> "none"] /\ overlap = FALSE /\ linkRace = FALSE
  BY <1>1 DEF Init
<1> DEFINE text == [n |-> 1, linked |-> linked]
<1>4. 1 \in 1..MaxText /\ 0 \in 0..MaxText /\ 1 \in 0..MaxText /\ 0 \in 0..MaxFailures /\ 0 \in 0..MaxMissed
  BY Sizes
<1>5. text \in Texts /\ RenderOf(text, target) \in Renders /\ RenderOf(text, target).n = 1
      /\ RenderOf(text, target).linked = linked /\ RenderOf(text, target).valid = (linked /\ target)
  BY <1>2, <1>4 DEF Texts, RenderOf, Renders
<1>6. row \in Rows /\ (Exists <=> row.id # 0) /\ (Exists => row.text \in Texts) /\ {row.id, row.text.n} \subseteq {0, 1}
      /\ row.render.n = row.text.n
      /\ (row.render.linked => links /\ row.render.valid = target)
  <2>1. CASE exists
    <3>1. row = [id |-> 1, text |-> text, render |-> RenderOf(text, target)]
      BY <1>2, <2>1
    <3> HIDE DEF text
    <3>2. row \in Rows /\ row.id = 1 /\ row.text = text /\ row.render = RenderOf(text, target)
      BY <1>4, <1>5, <3>1 DEF Rows
    <3>3. row # NoRow
      BY <3>2, Sizes
    <3>4. row.text.n = 1
      BY <3>2 DEF text
    <3>5. QED
      BY <1>2, <1>5, <2>1, <3>2, <3>3, <3>4 DEF Exists
  <2>2. CASE ~exists
    <3>1. row = NoRow
      BY <1>2, <2>2
    <3>2. QED
      BY <3>1, Sizes DEF Exists
  <2>3. QED
    BY <2>1, <2>2
<1>7. \A r \in Requests : /\ req[r].step = "new" /\ job[r].stage = "none" /\ job[r].id = 0 /\ job[r].text.n = 0
  BY <1>3, Sizes DEF NoRequest, NoJob
<1>8. Shape
  BY <1>2, <1>3, <1>4, <1>6, Sizes DEF Shape, Reasons
<1>9. NextText \in Nat /\ NextText >= 2
  BY <1>8, Numbers
<1>10. Fresh /\ \A r \in Requests : Orderly(r)
  BY <1>6, <1>7, <1>9 DEF Fresh, Orderly
<1>11. Rendering = {}
  BY <1>7 DEF Rendering
<1>12. OneRendering /\ RenderInv /\ LinkInv
  BY <1>6, <1>7, <1>11 DEF OneRendering, RenderInv, Behind, LinkInv
<1>13. \A r \in Requests : SaveInv(r)
  BY <1>7 DEF SaveInv, Waiting
<1>14. \A i \in Instances : FileInv(i)
  BY <1>3 DEF FileInv
<1>15. Notified
  BY <1>3, FS_Subset, FS_CardinalityType, Sizes DEF Notified, Over
<1>16. QED
  BY <1>8, <1>10, <1>12, <1>13, <1>14, <1>15 DEF CacheInv

LEMMA NextCache == CacheInv /\ [Next]_vars => CacheInv'
<1>1. SUFFICES ASSUME CacheInv, [Next]_vars
               PROVE  CacheInv'
  OBVIOUS
<1>2. ASSUME NEW r \in Requests, NEW i \in Instances,
             Create(r, i) \/ Save(r, i) \/ Rerender(r, i) \/ Convert(r, i) \/ Delete(r, i) \/ FlushCache(r, i) \/ ChangeTarget(r, i)
      PROVE  CacheInv'
  BY <1>1, <1>2, CreateKeeps, SaveKeeps, RerenderKeeps, ConvertKeeps, DeleteKeeps, FlushCacheKeeps, ChangeTargetKeeps
<1>3. ASSUME NEW r \in Requests,
             \/ WriteThrows(r) \/ ReplaceLinks(r) \/ FindLinking(r) \/ RequestThrows(r) \/ DropAndNotify(r) \/ CallerResumes(r)
             \/ Fork(r) \/ ReadPage(r) \/ FindLinks(r) \/ UpdateLinks(r) \/ PatchRender(r) \/ WriteCacheFile(r) \/ JobFails(r)
      PROVE  CacheInv'
  BY <1>1, <1>3, WriteThrowsKeeps, ReplaceLinksKeeps, FindLinkingKeeps, RequestThrowsKeeps, DropAndNotifyKeeps, CallerResumesKeeps,
     ForkKeeps, ReadPageKeeps, FindLinksKeeps, UpdateLinksKeeps, PatchRenderKeeps, WriteCacheFileKeeps, JobFailsKeeps
<1>4. ASSUME NEW i \in Instances, EventArrives(i) \/ EventMissed(i) \/ ReadRow(i) \/ FillCache(i)
      PROVE  CacheInv'
  BY <1>1, <1>4, EventArrivesKeeps, EventMissedKeeps, ReadRowKeeps, FillCacheKeeps
<1>5. CASE UNCHANGED vars
  <2>1. UNCHANGED <<row, target, links, cache, reader, inbox, req, job, failures, missed, why, overlap, linkRace>>
    BY <1>5 DEF vars
  <2>2. Shape' /\ Notified' /\ Fresh'
    BY <1>1, <2>1 DEF CacheInv, Shape, Exists, Notified, Over, Fresh, NextText, Started
  <2>3. NextText' = NextText
    BY <2>1 DEF NextText, Started
  <2>4. \A r \in Requests : req'[r] = req[r]
    BY <2>1
  <2>5. OneRendering' /\ RenderInv' /\ LinkInv' /\ \A r \in Requests : Orderly(r)' /\ SaveInv(r)'
    BY <1>1, <2>1, <2>3, <2>4, AsideKeeps
  <2>6. \A i \in Instances : FileInv(i)'
    BY <1>1, <2>1 DEF CacheInv, FileInv, Told, Silent
  <2>7. QED
    BY <2>2, <2>5, <2>6 DEF CacheInv
<1>6. QED
  BY <1>1, <1>2, <1>3, <1>4, <1>5 DEF Next

LEMMA CacheInvHolds == Spec => []CacheInv
BY InitCache, NextCache, PTL DEF Spec

(* Every variable has its type, and no instance waits for more              *)
(* notifications than there are requests (db.js, notifyViaDB).              *)
THEOREM TypeCorrect == Spec => []TypeOK
<1>1. CacheInv => TypeOK
  <2>1. SUFFICES ASSUME CacheInv
                 PROVE  TypeOK
    OBVIOUS
  <2>2. Shape /\ Notified
    BY <2>1 DEF CacheInv
  <2>3. Cardinality(Over) <= Cardinality(Requests) /\ Cardinality(Over) \in Nat /\ Cardinality(Requests) \in Nat
    BY Sizes, FS_Subset, FS_CardinalityType DEF Over
  <2>4. inbox \in [Instances -> 0..Cardinality(Requests)]
    <3>1. inbox \in [Instances -> Nat] /\ \A i \in Instances : inbox[i] <= Cardinality(Over)
      BY <2>2 DEF Shape, Notified
    <3>2. \A i \in Instances : inbox[i] \in 0..Cardinality(Requests)
      BY <2>3, <3>1
    <3>3. QED
      BY <3>1, <3>2
  <2>5. \A r \in Requests :
          /\ req[r].step \in {"new", "rendering", "reconnecting", "replaced", "looking", "dropping", "done", "threw"}
          /\ req[r].kind \in Kinds \cup {"none"} /\ req[r].at \in At
          /\ req[r].n \in 0..MaxText /\ req[r].valid \in BOOLEAN
          /\ job[r].stage \in JobStages /\ job[r].id \in 0..MaxText /\ job[r].at \in At
          /\ job[r].text \in Texts \cup {NoRender} /\ job[r].valid \in BOOLEAN /\ job[r].past \in BOOLEAN
    BY <2>2, Types
  <2>6. QED
    BY <2>2, <2>4, <2>5 DEF TypeOK, Shape, Rows
<1>2. QED
  BY <1>1, CacheInvHolds, PTL

(* Whatever requests, jobs and notifications interleave: at rest each       *)
(* instance has no file of the page or the one of its render, or one of the *)
(* six reasons applies: a file written late, a notification missed or never *)
(* sent, a job killed before its file, links that a job removed between     *)
(* their replacement and the lookup of the files, a request that threw      *)
(* before the files (pages.js:421, 635, 724, 811, 886-896; render-page.js:  *)
(* 72-86; renderer.js:195).                                                 *)
THEOREM FilesAreCurrent == Spec => []CacheCurrent
<1>1. CacheInv => CacheCurrent
  <2>1. SUFFICES ASSUME CacheInv, AtRest, NEW i \in Instances
                 PROVE  cache[i] = NoFile \/ (Exists /\ cache[i] = row.render) \/ why[i] # "none"
    BY DEF CacheCurrent
  <2>2. FileInv(i) /\ inbox[i] = 0 /\ \A r \in Requests : ~Told(r, i)
    BY <2>1 DEF CacheInv, AtRest, Told, Silent
  <2>3. ~Exists => row.render = NoFile
    BY Sizes DEF Exists
  <2>4. QED
    BY <2>2, <2>3 DEF FileInv
<1>2. QED
  BY <1>1, CacheInvHolds, PTL

(* Every save is followed by a job that reads its text or a newer one, so   *)
(* at rest the render is that of the text, unless two jobs overlapped, one  *)
(* failed, or a save threw before its job (pages.js:395-420).               *)
THEOREM RendersAreCurrent == Spec => []RenderCurrent
<1>1. CacheInv => RenderCurrent
  <2>1. AtRest => \A r \in Requests : ~WillRender(r)
    BY DEF AtRest, WillRender
  <2>2. QED
    BY <2>1 DEF CacheInv, RenderInv, Behind, RenderCurrent
<1>2. QED
  BY <1>1, CacheInvHolds, PTL

(* At rest a link is shown valid exactly if its target exists, unless the   *)
(* target changed while a job or another change still knew it otherwise, or *)
(* the request that changed it threw before the links were replaced         *)
(* (pages.js:311-328, 814-825), two jobs overlapped, one failed, or a save  *)
(* threw before its job.                                                    *)
THEOREM LinksAreCurrent == Spec => []LinksCurrent
<1>1. CacheInv => LinksCurrent
  <2>1. AtRest => \A r \in Requests : ~WillRelink(r) /\ ~WillReconnect(r)
    BY DEF AtRest, WillRelink, WillReconnect
  <2>2. row.render.linked => Exists
    BY Sizes DEF Exists
  <2>3. QED
    BY <2>1, <2>2 DEF CacheInv, LinkInv, LinksCurrent
<1>2. QED
  BY <1>1, CacheInvHolds, PTL

(* A save that waited for its job has its text, or a newer one, in the      *)
(* render when it returns, and the file of its own instance is not older,   *)
(* if no job overlapped and nobody wrote that file late (pages.js:420).     *)
THEOREM SavesAreShown == Spec => SavedTextIsShown
<1>1. ASSUME CacheInv, NEW r \in Requests, CallerResumes(r), job[r].stage = "done", req[r].kind = "save", Mine(r), ~overlap
      PROVE  /\ row.render.n >= req[r].n
             /\ why[req[r].at] # "none" \/ cache[req[r].at].n >= req[r].n \/ cache[req[r].at] = NoFile
  <2>1. SaveInv(r) /\ Waiting(r) /\ Shape /\ Orderly(r)
    BY <1>1 DEF CacheInv, Waiting, CallerResumes
  <2>2. req[r].n \in Nat /\ row.render.n \in Nat
    BY <2>1, Types, RowTypes
  <2>3. req[r].n <= row.render.n /\ (why[req[r].at] # "none" \/ cache[req[r].at] = NoFile \/ req[r].n <= cache[req[r].at].n)
    BY <1>1, <2>1 DEF SaveInv
  <2>4. QED
    BY <2>2, <2>3
<1>2. CacheInv /\ [Next]_vars =>
        [\A r \in Requests :
           CallerResumes(r) /\ job[r].stage = "done" /\ req[r].kind = "save" /\ Mine(r) /\ ~overlap =>
             /\ row.render.n >= req[r].n
             /\ why[req[r].at] # "none" \/ cache[req[r].at].n >= req[r].n \/ cache[req[r].at] = NoFile]_vars
  BY <1>1
<1>3. QED
  BY <1>2, CacheInvHolds, PTL DEF Spec, SavedTextIsShown
=============================================================================
