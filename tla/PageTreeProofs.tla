--------------------------- MODULE PageTreeProofs ---------------------------
(***************************************************************************)
(* Theorems about PageTree, for any paths, any number of pages and         *)
(* requests, and chunks of any size.                                       *)
(***************************************************************************)
EXTENDS PageTree, SequenceTheorems, FiniteSetTheorems, WellFoundedInduction, TLAPS

-----------------------------------------------------------------------------
(* Induction and recursion over the natural numbers *)

(* The natural numbers are well-founded, so that a set of them that holds   *)
(* every number whose predecessor it holds is that of all numbers.          *)
LEMMA Induction ==
  ASSUME NEW S, \A n \in Nat : (n = 0 \/ n - 1 \in S) => n \in S
  PROVE  Nat \subseteq S
<1>1. SUFFICES ASSUME Nat \ S # {} PROVE FALSE
  OBVIOUS
<1>2. IsWellFoundedOn(OpToRel(<, Nat), Nat)
  BY NatLessThanWellFounded
<1>3. PICK least \in Nat \ S : \A n \in Nat \ S : ~(<<n, least>> \in OpToRel(<, Nat))
  BY <1>1, <1>2, WFMin
<1>4. \A n \in Nat \ S : ~(n < least)
  BY <1>3 DEF OpToRel
<1>5. least # 0 /\ least - 1 \in Nat /\ least - 1 < least
  <2>1. 0 \in S
    OBVIOUS
  <2>2. least \in Nat /\ least # 0
    BY <2>1
  <2>3. QED
    BY <2>2
<1>6. least - 1 \in S
  BY <1>4, <1>5
<1>7. QED
  BY <1>3, <1>5, <1>6

(* f begins with first and applies apply[m] to the value before m. *)
Recurs(f, n, first, apply) == f = [m \in 0..n |-> IF m = 0 THEN first ELSE apply[m][f[m - 1]]]

LEMMA RecursiveFunction ==
  ASSUME NEW T, NEW first \in T, NEW apply \in [Nat -> [T -> T]], NEW L \in Nat
  PROVE  \E f \in [0..L -> T] : Recurs(f, L, first, apply)
<1> DEFINE Possible == {n \in Nat : \E f \in [0..n -> T] : Recurs(f, n, first, apply)}
<1>1. ASSUME NEW n \in Nat, n = 0 \/ n - 1 \in Possible
      PROVE  n \in Possible
  <2>1. CASE n = 0
    <3> DEFINE f == [m \in 0..0 |-> first]
    <3>1. f \in [0..0 -> T] /\ Recurs(f, 0, first, apply)
      BY DEF Recurs
    <3>2. QED
      BY <2>1, <3>1
  <2>2. CASE n # 0
    <3>1. n - 1 \in Nat /\ n - 1 \in Possible
      BY <1>1, <2>2
    <3>2. PICK g \in [0..(n - 1) -> T] : Recurs(g, n - 1, first, apply)
      BY <3>1
    <3>3. \A m \in 0..(n - 1) : g[m] = IF m = 0 THEN first ELSE apply[m][g[m - 1]]
      BY <3>2 DEF Recurs
    <3> DEFINE next == apply[n][g[n - 1]]
               f == [m \in 0..n |-> IF m = n THEN next ELSE g[m]]
    <3>4. next \in T
      <4>1. g[n - 1] \in T
        BY <3>1, <3>2
      <4>2. QED
        BY <4>1
    <3> HIDE DEF next
    <3>5. f[n - 1] = g[n - 1] /\ f[n] = next /\ f \in [0..n -> T]
      BY <3>1, <3>2, <3>4
    <3>6. \A m \in 0..n : m # n => m \in 0..(n - 1) /\ f[m] = g[m] /\ (m # 0 => f[m - 1] = g[m - 1])
      BY <3>1
    <3> HIDE DEF f
    <3>7. \A m \in 0..n : f[m] = IF m = 0 THEN first ELSE apply[m][f[m - 1]]
      <4> SUFFICES ASSUME NEW m \in 0..n PROVE f[m] = IF m = 0 THEN first ELSE apply[m][f[m - 1]]
        OBVIOUS
      <4>1. CASE m = n
        BY <4>1, <2>2, <3>5 DEF next
      <4>2. CASE m # n
        BY <4>2, <3>3, <3>6
      <4>3. QED
        BY <4>1, <4>2
    <3>8. Recurs(f, n, first, apply)
      BY <3>5, <3>7 DEF Recurs
    <3>9. QED
      BY <3>5, <3>8
  <2>3. QED
    BY <2>1, <2>2
<1>2. Nat \subseteq Possible
  <2> HIDE DEF Possible
  <2>1. QED
    BY <1>1, Induction
<1>3. QED
  BY <1>2

-----------------------------------------------------------------------------
(* What requests know of paths *)

Kinds == {"none", "create", "move", "delete", "save"}
ReqStates ==
  [step : Steps, kind : Kinds, id : 0..MaxId, path : Paths \cup {NoPath}, to : Paths \cup {NoPath}, title : AllTitles \cup {0},
   text : 0..MaxId, template : BOOLEAN]

Types ==
  /\ req \in [Requests -> ReqStates] /\ pages \subseteq Rows /\ excused \subseteq Paths
  /\ search \in [Paths -> 0..MaxId] /\ files \in [Paths -> 0..MaxId]

(* What goes with the stage of a request; the numbers given so far *)
Given == NextNumber - 1
Waits(r) ==
  /\ req[r].kind # "none" /\ req[r].path \in Paths
  /\ req[r].kind # "delete" => req[r].title \in AllTitles
  /\ req[r].kind \in {"create", "save"} => req[r].text # 0
  /\ req[r].to # req[r].path /\ (req[r].to \in Paths <=> req[r].kind = "move")
  /\ req[r].id = 0 <=> (req[r].kind = "create" /\ req[r].step = "checked")
  /\ req[r].kind = "save" => req[r].step \in {"index", "store", "title"}
  /\ req[r].step = "title" => req[r].kind = "save"
Orderly(r) ==
  /\ req[r].step = "new" => req[r] = NoRequest
  /\ req[r].step \in {"done", "threw"} => req[r].id = 0
  /\ {req[r].id, req[r].text} \subseteq 0..Given
  /\ r \in Active => Waits(r)

Creating(r) == req[r].step = "checked" /\ req[r].kind = "create"
NumbersAreNew ==
  /\ \A a \in pages : {a.id, a.text} \subseteq 0..Given
  /\ \A a, b \in pages : a.id = b.id => a = b
  /\ \A r \in Requests : Creating(r) =>
       /\ \A a \in pages : a.id # req[r].text
       /\ \A s \in Requests \ {r} : req[s].id # req[r].text /\ (Creating(s) => req[s].text # req[r].text)

(* Of a request's paths all are excused or none; of two that concern one    *)
(* path or one page all are; and a page that a request has looked at is     *)
(* where the request goes, or its paths are excused.                        *)
Excused(r) == PathsOf(r) \subseteq excused
OverlapsExcused ==
  /\ \A r \in Active : Excused(r) \/ PathsOf(r) \cap excused = {}
  /\ \A r, s \in Active :
       r # s /\ (PathsOf(r) \cap PathsOf(s) # {} \/ (req[r].id = req[s].id /\ req[r].id # 0)) => Excused(r)
PagesFollowed ==
  \A r \in Active, a \in pages : a.id = req[r].id => a.path \in PathsOf(r) \/ (Excused(r) /\ a.path \in excused)

(* At the paths of other requests, page and outlets are as the request has  *)
(* left them so far.                                                        *)
Gone(p) == RowsAt(p) = {}
Sought(a) == IF a.listed THEN a.text ELSE 0
Shown(p) ==
  IF Gone(p) THEN search[p] = 0 /\ files[p] = 0
  ELSE \E a \in pages : RowsAt(p) = {a} /\ search[p] = Sought(a) /\ files[p] = a.text

Written(r) == req[r].step # "checked"
Indexed(r) == req[r].step \in {"store", "title"}
Created(r) == [id |-> req[r].text, path |-> req[r].path, title |-> req[r].title, text |-> req[r].text, listed |-> ~req[r].template]
Undisturbed(r) ==
  LET p == req[r].path
      to == req[r].to
      id == req[r].id
      text == req[r].text
      template == req[r].template
  IN  CASE req[r].kind = "create" ->
             /\ IF Written(r) THEN RowsAt(p) = {Created(r)} ELSE Gone(p)
             /\ search[p] = IF Indexed(r) /\ ~template THEN text ELSE 0
             /\ files[p] = 0
        [] req[r].kind = "move" ->
             \E a \in pages :
               /\ a.id = id
               /\ IF Written(r) THEN Gone(p) /\ RowsAt(to) = {a} ELSE RowsAt(p) = {a} /\ Gone(to)
               /\ IF Indexed(r) THEN search[p] = 0 /\ search[to] = Sought(a) ELSE search[p] = Sought(a) /\ search[to] = 0
               /\ files[p] = a.text /\ files[to] = 0
        [] req[r].kind = "delete" ->
             /\ IF Written(r) THEN Gone(p) ELSE \E a \in pages : RowsAt(p) = {a} /\ a.id = id
             /\ Indexed(r) => search[p] = 0
        [] req[r].kind = "save" ->
             \E a \in pages :
               /\ RowsAt(p) = {a} /\ a.id = id /\ a.text = text
               /\ IF Indexed(r) THEN search[p] = Sought(a) ELSE a.listed <=> (search[p] # 0 /\ ~template)
               /\ req[r].step = "title" => files[p] = text
OutletsFollow ==
  /\ \A r \in Active : Excused(r) \/ Undisturbed(r)
  /\ \A p \in Paths \ excused : (\A r \in Active : p \notin PathsOf(r)) => Shown(p)

RequestsInv ==
  /\ Types /\ \A r \in Requests : Orderly(r)
  /\ NumbersAreNew /\ OverlapsExcused /\ PagesFollowed /\ OutletsFollow /\ PathsAreUnique

-----------------------------------------------------------------------------
(* Numbers *)

Numbered == {r \in Requests : req[r].kind \in {"create", "save"}}

LEMMA Numbers ==
  ASSUME Types
  PROVE  /\ Given \in Nat /\ MaxId \in Nat /\ Given <= MaxId
         /\ NextNumber = Given + 1 /\ Given = InitialPages + Cardinality(Numbered)
         /\ (\E r \in Requests : req[r].kind = "none") => NextNumber <= MaxId
<1>1. IsFiniteSet(Requests) /\ Cardinality(Requests) \in Nat /\ InitialPages \in Nat
  BY TreeAssumption, FS_CardinalityType
<1>2. IsFiniteSet(Numbered) /\ Cardinality(Numbered) <= Cardinality(Requests)
      /\ (Cardinality(Numbered) = Cardinality(Requests) => Numbered = Requests)
  BY <1>1, FS_Subset DEF Numbered
<1>3. Cardinality(Numbered) \in Nat
  BY <1>2, FS_CardinalityType
<1>4. ASSUME NEW r \in Requests, req[r].kind = "none" PROVE Numbered # Requests
  BY <1>4 DEF Numbered
<1>5. NextNumber = InitialPages + Cardinality(Numbered) + 1
  BY DEF NextNumber, Numbered
<1>6. QED
  BY <1>1, <1>2, <1>3, <1>4, <1>5 DEF Given, MaxId

(* A request that creates or saves takes the next number; no other step     *)
(* gives one.                                                               *)
LEMMA NumbersSame ==
  ASSUME \A s \in Requests : req'[s].kind = req[s].kind
  PROVE  Given' = Given
<1>1. Numbered' = Numbered
  BY DEF Numbered
<1>2. QED
  BY <1>1 DEF Given, NextNumber, Numbered

LEMMA NumbersGrow ==
  ASSUME NEW u \in Requests, req[u].kind = "none",
         \A s \in Requests \ {u} : req'[s].kind = req[s].kind
  PROVE  Given <= Given' /\ (req'[u].kind \in {"create", "save"} => Given' = Given + 1)
<1>1. IsFiniteSet(Numbered) /\ Cardinality(Numbered) \in Nat /\ InitialPages \in Nat
  BY TreeAssumption, FS_Subset, FS_CardinalityType DEF Numbered
<1>2. Given = InitialPages + Cardinality(Numbered) /\ Given' = InitialPages + Cardinality(Numbered')
  <2>1. /\ NextNumber = InitialPages + Cardinality(Numbered) + 1
        /\ NextNumber' = InitialPages + Cardinality(Numbered') + 1
    BY DEF NextNumber, Numbered
  <2>2. IsFiniteSet(Numbered') /\ Cardinality(Numbered') \in Nat
    BY TreeAssumption, FS_Subset, FS_CardinalityType DEF Numbered
  <2>3. QED
    BY <1>1, <2>1, <2>2 DEF Given
<1>3. CASE req'[u].kind \in {"create", "save"}
  <2>1. Numbered' = Numbered \cup {u} /\ u \notin Numbered
    BY <1>3 DEF Numbered
  <2>2. Cardinality(Numbered') = Cardinality(Numbered) + 1
    BY <1>1, <2>1, FS_AddElement
  <2>3. QED
    BY <1>1, <1>2, <2>2
<1>4. CASE req'[u].kind \notin {"create", "save"}
  <2>1. Numbered' = Numbered
    BY <1>4 DEF Numbered
  <2>2. Given' = Given /\ Given \in Nat
    BY <1>1, <1>2, <2>1
  <2>3. QED
    BY <1>4, <2>2
<1>5. QED
  BY <1>3, <1>4

-----------------------------------------------------------------------------
(* Starting a request *)

(* What Overlapping adds to the excused paths *)
LEMMA OverlappingMeans ==
  ASSUME NEW ps, Overlapping(ps)
  PROVE  /\ excused \subseteq excused'
         /\ ps \cap excused # {} => ps \subseteq excused'
         /\ \A s \in Active : PathsOf(s) \cap ps # {} => ps \cup PathsOf(s) \subseteq excused'
         /\ \A x \in excused' :
              \/ x \in excused
              \/ x \in ps /\ ps \subseteq excused'
              \/ \E s \in Active : x \in PathsOf(s) /\ PathsOf(s) \cap ps # {}
<1> DEFINE Q == {s \in Active : PathsOf(s) \cap ps # {}}
           U == UNION {ps \cup PathsOf(s) : s \in Q}
<1>1. excused' = excused \cup (IF ps \cap excused # {} THEN ps ELSE {}) \cup U
  BY DEF Overlapping
<1>2. \A s \in Q : ps \cup PathsOf(s) \subseteq U
  OBVIOUS
<1>3. \A x \in U : \E s \in Q : x \in ps \/ x \in PathsOf(s)
  OBVIOUS
<1> HIDE DEF U
<1>4. QED
  BY <1>1, <1>2, <1>3

(* Request u starts as q says. *)
Starts(u, q) ==
  /\ req[u].step = "new" /\ req' = [req EXCEPT ![u] = q]
  /\ q \in ReqStates /\ q.step \notin {"new", "done", "threw"} /\ q.path # NoPath
  /\ Overlapping({q.path, q.to} \ {NoPath})
  /\ q.id = 0 \/ \E a \in pages : a.id = q.id /\ a.path = q.path

LEMMA StartsEffect ==
  ASSUME Types, NEW u \in Requests, NEW q, Starts(u, q)
  PROVE  /\ req' \in [Requests -> ReqStates] /\ req'[u] = q /\ \A s \in Requests \ {u} : req'[s] = req[s]
         /\ u \notin Active /\ Active' = Active \cup {u} /\ Active \subseteq Requests
         /\ PathsOf(u)' = {q.path, q.to} \ {NoPath} /\ \A s \in Active : PathsOf(s)' = PathsOf(s)
         /\ excused' \subseteq Paths
<1>1. /\ req' \in [Requests -> ReqStates] /\ req'[u] = q /\ \A s \in Requests \ {u} : req'[s] = req[s]
  BY DEF Types, Starts
<1>2. u \notin Active /\ Active' = Active \cup {u} /\ Active \subseteq Requests
  BY <1>1 DEF Starts, Active
<1>3. PathsOf(u)' = {q.path, q.to} \ {NoPath} /\ \A s \in Active : PathsOf(s)' = PathsOf(s)
  BY <1>1, <1>2 DEF PathsOf
<1>4. \A s \in Active : PathsOf(s) \subseteq Paths
  BY <1>2 DEF Types, ReqStates, PathsOf
<1>5. {q.path, q.to} \ {NoPath} \subseteq Paths
  BY DEF Starts, ReqStates
<1>6. excused' \subseteq Paths
  <2>1. \A x \in excused' : x \in excused \/ x \in {q.path, q.to} \ {NoPath} \/ \E s \in Active : x \in PathsOf(s)
    BY OverlappingMeans DEF Starts
  <2>2. QED
    BY <1>4, <1>5, <2>1 DEF Types
<1>7. QED
  BY <1>1, <1>2, <1>3, <1>6

LEMMA StartsOverlaps ==
  ASSUME RequestsInv, NEW u \in Requests, NEW q, Starts(u, q)
  PROVE  OverlapsExcused'
<1> DEFINE ps == {q.path, q.to} \ {NoPath}
<1>1. /\ req'[u] = q /\ \A s \in Active : req'[s] = req[s] /\ s # u
      /\ Active' = Active \cup {u}
      /\ PathsOf(u)' = ps /\ \A s \in Active : PathsOf(s)' = PathsOf(s)
  BY StartsEffect DEF RequestsInv
<1>2. /\ excused \subseteq excused'
      /\ ps \cap excused # {} => ps \subseteq excused'
      /\ \A s \in Active : PathsOf(s) \cap ps # {} => ps \cup PathsOf(s) \subseteq excused'
      /\ \A x \in excused' :
           \/ x \in excused
           \/ x \in ps /\ ps \subseteq excused'
           \/ \E s \in Active : x \in PathsOf(s) /\ PathsOf(s) \cap ps # {}
  BY OverlappingMeans DEF Starts
<1>3. ASSUME NEW s \in Active PROVE Excused(s)' \/ PathsOf(s)' \cap excused' = {}
  <2> SUFFICES ASSUME NEW x \in PathsOf(s), x \in excused' PROVE PathsOf(s) \subseteq excused'
    BY <1>1 DEF Excused
  <2>1. CASE x \in excused
    BY <1>2, <2>1 DEF RequestsInv, OverlapsExcused, Excused
  <2>2. CASE x \in ps
    BY <1>2, <2>2
  <2>3. CASE \E t \in Active : x \in PathsOf(t) /\ PathsOf(t) \cap ps # {}
    BY <1>2, <2>3 DEF RequestsInv, OverlapsExcused, Excused
  <2>4. QED
    BY <1>2, <2>1, <2>2, <2>3
<1>4. Excused(u)' \/ PathsOf(u)' \cap excused' = {}
  BY <1>1, <1>2 DEF Excused
<1>5. ASSUME NEW s \in Active, PathsOf(s) \cap ps # {} \/ (req[s].id = q.id /\ q.id # 0)
      PROVE  Excused(s)' /\ Excused(u)'
  <2>1. CASE PathsOf(s) \cap ps # {}
    BY <1>1, <1>2, <2>1 DEF Excused
  <2>2. CASE req[s].id = q.id /\ q.id # 0
    <3>1. PICK a \in pages : a.id = q.id /\ a.path = q.path
      BY <2>2 DEF Starts
    <3>2. a.path \in PathsOf(s) \/ (Excused(s) /\ a.path \in excused)
      BY <2>2, <3>1 DEF RequestsInv, PagesFollowed
    <3>3. a.path \in ps
      BY <3>1 DEF Starts
    <3>4. QED
      BY <1>1, <1>2, <3>2, <3>3 DEF Excused
  <2>3. QED
    BY <1>5, <2>1, <2>2
<1>6. ASSUME NEW s \in Active, NEW t \in Active, s # t,
             PathsOf(s) \cap PathsOf(t) # {} \/ (req[s].id = req[t].id /\ req[s].id # 0)
      PROVE  Excused(s)'
  <2>1. Excused(s)
    BY <1>6 DEF RequestsInv, OverlapsExcused
  <2>2. QED
    BY <1>1, <1>2, <2>1 DEF Excused
<1>7. ASSUME NEW s \in Active', NEW t \in Active', s # t,
             PathsOf(s)' \cap PathsOf(t)' # {} \/ (req'[s].id = req'[t].id /\ req'[s].id # 0)
      PROVE  Excused(s)'
  <2>1. CASE s \in Active /\ t \in Active
    BY <1>1, <1>6, <1>7, <2>1
  <2>2. CASE s = u /\ t \in Active
    BY <1>1, <1>5, <1>7, <2>2
  <2>3. CASE s \in Active /\ t = u
    BY <1>1, <1>5, <1>7, <2>3
  <2>4. QED
    BY <1>1, <1>7, <2>1, <2>2, <2>3
<1>8. QED
  BY <1>1, <1>3, <1>4, <1>7 DEF OverlapsExcused

(* Paths at which nothing changes *)
SameAt(p) == RowsAt(p)' = RowsAt(p) /\ search'[p] = search[p] /\ files'[p] = files[p]

LEMMA UndisturbedKept ==
  ASSUME NEW r, req[r].kind \in Kinds \ {"none"}, Undisturbed(r), req'[r] = req[r], SameAt(req[r].path), req[r].kind = "move" => SameAt(req[r].to)
  PROVE  Undisturbed(r)'
<1>1. /\ \A p : SameAt(p) => RowsAt(p)' = RowsAt(p) /\ (Gone(p)' <=> Gone(p))
      /\ \A p, a : (RowsAt(p) = {a} => a \in pages) /\ (RowsAt(p)' = {a} => a \in pages')
      /\ \A a : Sought(a)' = Sought(a)
  <2>1. \A p : RowsAt(p) \subseteq pages /\ RowsAt(p)' \subseteq pages'
    BY DEF RowsAt
  <2>2. QED
    BY <2>1 DEF SameAt, Gone, Sought
<1>2. (Written(r)' <=> Written(r)) /\ (Indexed(r)' <=> Indexed(r)) /\ Created(r)' = Created(r)
  BY DEF Written, Indexed, Created
<1>3. CASE req[r].kind = "create"
  BY <1>1, <1>2, <1>3 DEF Undisturbed, SameAt
<1>4. CASE req[r].kind = "move"
  BY <1>1, <1>2, <1>4 DEF Undisturbed, SameAt
<1>5. CASE req[r].kind = "delete"
  BY <1>1, <1>2, <1>5 DEF Undisturbed, SameAt
<1>6. CASE req[r].kind = "save"
  BY <1>1, <1>2, <1>6 DEF Undisturbed, SameAt
<1>7. QED
  BY <1>3, <1>4, <1>5, <1>6 DEF Kinds

LEMMA ShownKept ==
  ASSUME NEW p, SameAt(p), Shown(p)
  PROVE  Shown(p)'
<1>1. \A a : a \in RowsAt(p) => a \in pages
  BY DEF RowsAt
<1>2. \A a : a \in RowsAt(p)' => a \in pages'
  BY DEF RowsAt
<1>3. QED
  BY <1>1, <1>2 DEF SameAt, Shown, Gone, Sought

LEMMA StartsShown ==
  ASSUME RequestsInv, NEW u \in Requests, NEW q, Starts(u, q)
  PROVE  Excused(u)' \/ \A p \in {q.path, q.to} \ {NoPath} : p \notin excused /\ Shown(p)
<1> DEFINE ps == {q.path, q.to} \ {NoPath}
<1> SUFFICES ASSUME ~Excused(u)', NEW p \in ps
             PROVE  p \notin excused /\ Shown(p)
  OBVIOUS
<1>1. PathsOf(u)' = ps
  BY StartsEffect DEF RequestsInv
<1>2. ps \cap excused = {} /\ \A s \in Active : PathsOf(s) \cap ps = {}
  BY <1>1, OverlappingMeans DEF Starts, Excused
<1>3. p \in Paths
  BY DEF Starts, ReqStates
<1>4. QED
  BY <1>2, <1>3 DEF RequestsInv, OutletsFollow

LEMMA StartsOutlets ==
  ASSUME RequestsInv, NEW u \in Requests, NEW q, Starts(u, q),
         \A p \in Paths : p \in {q.path, q.to} \/ SameAt(p),
         Excused(u)' \/ Undisturbed(u)'
  PROVE  OutletsFollow'
<1> DEFINE ps == {q.path, q.to} \ {NoPath}
<1>1. /\ req'[u] = q /\ \A s \in Active : req'[s] = req[s] /\ s # u
      /\ Active' = Active \cup {u} /\ Active \subseteq Requests
      /\ PathsOf(u)' = ps /\ \A s \in Active : PathsOf(s)' = PathsOf(s)
  BY StartsEffect DEF RequestsInv
<1>2. /\ excused \subseteq excused'
      /\ \A s \in Active : PathsOf(s) \cap ps # {} => ps \cup PathsOf(s) \subseteq excused'
  BY OverlappingMeans DEF Starts
<1>3. \A p \in Paths \ ps : SameAt(p)
  BY TreeAssumption DEF NoPath
<1>4. ASSUME NEW s \in Active, ~Excused(s)'
      PROVE  Undisturbed(s)'
  <2>1. ~Excused(s) /\ PathsOf(s) \cap ps = {}
    BY <1>1, <1>2, <1>4 DEF Excused
  <2>2. Undisturbed(s)
    BY <2>1 DEF RequestsInv, OutletsFollow
  <2>3. Waits(s) /\ req[s].kind \in Kinds \ {"none"}
    BY <1>1 DEF RequestsInv, Orderly, Waits, Types, ReqStates
  <2>4. req[s].path \in PathsOf(s) \cap Paths
    BY <2>3, TreeAssumption DEF Waits, PathsOf, NoPath
  <2>5. req[s].kind = "move" => req[s].to \in PathsOf(s) \cap Paths
    BY <2>3, TreeAssumption DEF Waits, PathsOf, NoPath
  <2>6. QED
    BY <1>1, <1>3, <2>1, <2>2, <2>3, <2>4, <2>5, UndisturbedKept
<1>5. ASSUME NEW p \in Paths \ excused', \A r \in Active' : p \notin PathsOf(r)'
      PROVE  Shown(p)'
  <2>1. p \notin excused /\ p \notin ps /\ \A r \in Active : p \notin PathsOf(r)
    BY <1>1, <1>2, <1>5
  <2>2. Shown(p)
    BY <2>1 DEF RequestsInv, OutletsFollow
  <2>3. QED
    BY <1>3, <2>1, <2>2, ShownKept
<1>6. QED
  BY <1>1, <1>4, <1>5 DEF OutletsFollow

LEMMA StartsFollowed ==
  ASSUME RequestsInv, NEW u \in Requests, NEW q, Starts(u, q),
         \A b \in pages' : \E a \in pages : a.id = b.id /\ a.path = b.path
  PROVE  PagesFollowed'
<1>1. /\ req'[u] = q /\ \A s \in Active : req'[s] = req[s] /\ s # u
      /\ Active' = Active \cup {u}
      /\ PathsOf(u)' = {q.path, q.to} \ {NoPath} /\ \A s \in Active : PathsOf(s)' = PathsOf(s)
      /\ excused \subseteq excused'
  BY StartsEffect, OverlappingMeans DEF RequestsInv, Starts
<1>2. ASSUME NEW s \in Active, NEW b \in pages', b.id = req'[s].id
      PROVE  b.path \in PathsOf(s)' \/ (Excused(s)' /\ b.path \in excused')
  <2>1. PICK a \in pages : a.id = b.id /\ a.path = b.path
    OBVIOUS
  <2>2. a.path \in PathsOf(s) \/ (Excused(s) /\ a.path \in excused)
    BY <1>1, <1>2, <2>1 DEF RequestsInv, PagesFollowed
  <2>3. QED
    BY <1>1, <2>1, <2>2 DEF Excused
<1>3. ASSUME NEW b \in pages', b.id = q.id
      PROVE  b.path \in PathsOf(u)'
  <2>1. PICK a \in pages : a.id = b.id /\ a.path = b.path
    OBVIOUS
  <2>2. a.id # 0
    BY DEF RequestsInv, Types, Rows
  <2>3. PICK c \in pages : c.id = q.id /\ c.path = q.path
    BY <1>3, <2>1, <2>2 DEF Starts
  <2>4. a = c
    BY <1>3, <2>1, <2>3 DEF RequestsInv, NumbersAreNew
  <2>5. QED
    BY <1>1, <2>1, <2>3, <2>4 DEF Starts
<1>4. QED
  BY <1>1, <1>2, <1>3 DEF PagesFollowed

LEMMA StartsOrderly ==
  ASSUME RequestsInv, NEW u \in Requests, NEW q, Starts(u, q),
         {q.id, q.text} \subseteq 0..Given', Waits(u)'
  PROVE  \A r \in Requests : Orderly(r)'
<1>1. /\ req' \in [Requests -> ReqStates]
      /\ req'[u] = q /\ \A s \in Requests \ {u} : req'[s] = req[s]
      /\ Active' = Active \cup {u} /\ req[u].kind = "none"
  <2>1. req[u] = NoRequest
    BY DEF RequestsInv, Orderly, Starts
  <2>2. QED
    BY <2>1, StartsEffect DEF RequestsInv, NoRequest
<1>2. Given \in Nat /\ Given' \in Nat /\ Given <= Given'
  <2>1. Given \in Nat /\ Given <= Given'
    BY <1>1, Numbers, NumbersGrow DEF RequestsInv
  <2>2. Given' = Given \/ Given' = Given + 1
    <3>1. CASE q.kind \in {"create", "save"}
      BY <1>1, <3>1, NumbersGrow
    <3>2. CASE q.kind \notin {"create", "save"}
      <4>1. {r \in Requests : req'[r].kind \in {"create", "save"}} = {r \in Requests : req[r].kind \in {"create", "save"}}
        BY <1>1, <3>2
      <4>2. QED
        BY <4>1 DEF Given, NextNumber
    <3>3. QED
      BY <3>1, <3>2
  <2>3. QED
    BY <2>1, <2>2
<1>3. ASSUME NEW r \in Requests \ {u} PROVE Orderly(r)'
  <2>1. Orderly(r) /\ req'[r] = req[r] /\ (r \in Active' <=> r \in Active)
    BY <1>1, <1>3 DEF RequestsInv
  <2>2. {req'[r].id, req'[r].text} \subseteq 0..Given'
    BY <1>2, <2>1 DEF Orderly
  <2>3. QED
    BY <2>1, <2>2 DEF Orderly, Waits
<1>4. Orderly(u)'
  BY <1>1 DEF Orderly, Starts
<1>5. QED
  BY <1>3, <1>4

LEMMA FromShown ==
  ASSUME NEW p, Shown(p)
  PROVE  /\ Gone(p) => search[p] = 0 /\ files[p] = 0
         /\ \A a \in pages : a.path = p => RowsAt(p) = {a} /\ search[p] = Sought(a) /\ files[p] = a.text
<1>1. ASSUME NEW a \in pages, a.path = p
      PROVE  RowsAt(p) = {a} /\ search[p] = Sought(a) /\ files[p] = a.text
  <2>1. a \in RowsAt(p)
    BY <1>1 DEF RowsAt
  <2>2. QED
    BY <1>1, <2>1 DEF Shown, Gone
<1>2. QED
  BY <1>1 DEF Shown

LEMMA CheckFreeKeeps ==
  ASSUME RequestsInv, NEW u \in Requests, NEW p \in Paths, CheckFree(u, p)
  PROVE  RequestsInv'
<1>1. PICK title \in Titles, template \in BOOLEAN :
        req' = [req EXCEPT ![u] = [step |-> "checked", kind |-> "create", id |-> 0, path |-> p, to |-> NoPath,
                                   title |-> title, text |-> NextNumber, template |-> template]]
  BY DEF CheckFree
<1> DEFINE q == [step |-> "checked", kind |-> "create", id |-> 0, path |-> p, to |-> NoPath,
                 title |-> title, text |-> NextNumber, template |-> template]
<1>14. /\ req' = [req EXCEPT ![u] = q]
       /\ q.step = "checked" /\ q.kind = "create" /\ q.id = 0 /\ q.path = p /\ q.to = NoPath
       /\ q.title = title /\ title \in AllTitles /\ q.text = NextNumber /\ q.template = template
  BY <1>1 DEF AllTitles
<1>2. req[u] = NoRequest /\ NextNumber \in 1..MaxId /\ NextNumber = Given + 1 /\ Given \in Nat
  <2>1. req[u] = NoRequest
    BY DEF RequestsInv, Orderly, CheckFree
  <2>2. QED
    BY <2>1, Numbers DEF RequestsInv, NoRequest
<1>3. p # NoPath
  BY TreeAssumption DEF NoPath
<1>4. Starts(u, q)
  <2>1. q \in ReqStates
    <3>1. 0 \in 0..MaxId /\ NextNumber \in 0..MaxId
      BY <1>2, Numbers DEF RequestsInv
    <3>2. QED
      BY <3>1, <1>14 DEF ReqStates, Steps, Kinds
  <2>2. {q.path, q.to} \ {NoPath} = {p}
    BY <1>14, <1>3
  <2>3. QED
    BY <1>14, <1>3, <2>1, <2>2 DEF Starts, CheckFree
<1>5. /\ req' \in [Requests -> ReqStates] /\ req'[u] = q /\ \A s \in Requests \ {u} : req'[s] = req[s]
      /\ excused' \subseteq Paths /\ excused \subseteq excused' /\ UNCHANGED <<pages, search, files>>
  BY <1>4, StartsEffect, OverlappingMeans DEF RequestsInv, CheckFree, outlets, Starts
<1> HIDE DEF q
<1>6. Given' = Given + 1
  BY <1>14, <1>2, <1>5, NumbersGrow DEF NoRequest
<1>7. \A r \in Requests : Orderly(r)'
  <2>1. Waits(u)'
    BY <1>14, <1>2, <1>3, <1>5, TreeAssumption DEF Waits, NoPath
  <2>2. QED
    BY <1>14, <1>2, <1>4, <1>6, <2>1, StartsOrderly
<1>8. NumbersAreNew'
  <2>1. \A s \in Requests : {req[s].id, req[s].text} \subseteq 0..Given
    BY DEF RequestsInv, Orderly
  <2>2. \A s \in Requests : Creating(s) => req[s].text # 0
    BY DEF RequestsInv, Orderly, Creating, Active, Waits
  <2>3. /\ \A a \in pages' : {a.id, a.text} \subseteq 0..Given'
        /\ \A a, b \in pages' : a.id = b.id => a = b
    BY <1>2, <1>5, <1>6 DEF RequestsInv, NumbersAreNew
  <2>4. ASSUME NEW r \in Requests, Creating(r)'
        PROVE  /\ \A a \in pages' : a.id # req'[r].text
               /\ \A s \in Requests \ {r} : req'[s].id # req'[r].text /\ (Creating(s)' => req'[s].text # req'[r].text)
    <3>1. CASE r = u
      <4>1. \A a \in pages : a.id # NextNumber
        BY <1>2 DEF RequestsInv, NumbersAreNew
      <4>2. \A s \in Requests : req[s].id # NextNumber /\ req[s].text # NextNumber
        BY <1>2, <2>1
      <4>3. QED
        BY <1>14, <1>5, <3>1, <4>1, <4>2
    <3>2. CASE r # u
      <4>1. Creating(r) /\ req'[r] = req[r] /\ req[r].text # 0 /\ req[r].text # NextNumber
        BY <1>2, <1>5, <2>1, <2>2, <2>4, <3>2 DEF Creating
      <4>2. \A s \in Requests \ {r, u} : req'[s] = req[s] /\ (Creating(s)' => Creating(s))
        BY <1>5 DEF Creating
      <4>3. QED
        BY <1>14, <1>5, <4>1, <4>2 DEF RequestsInv, NumbersAreNew
    <3>3. QED
      BY <3>1, <3>2
  <2>5. QED
    BY <2>3, <2>4 DEF NumbersAreNew
<1>9. OutletsFollow'
  <2>1. \A x \in Paths : SameAt(x)
    BY <1>5 DEF SameAt, RowsAt
  <2>2. Excused(u)' \/ Undisturbed(u)'
    <3>1. SUFFICES ASSUME ~Excused(u)' PROVE Undisturbed(u)'
      OBVIOUS
    <3>2. Shown(p)
      BY <1>14, <1>3, <1>4, <3>1, StartsShown
    <3>3. Gone(p) /\ search[p] = 0 /\ files[p] = 0
      BY <3>2, FromShown DEF CheckFree, Gone
    <3>4. QED
      BY <1>14, <1>5, <3>3 DEF Undisturbed, Written, Indexed, Gone, RowsAt
  <2>3. QED
    BY <1>4, <2>1, <2>2, StartsOutlets
<1>10. PagesFollowed' /\ OverlapsExcused' /\ PathsAreUnique'
  BY <1>4, <1>5, StartsFollowed, StartsOverlaps DEF RequestsInv, PathsAreUnique
<1>11. QED
  BY <1>5, <1>7, <1>8, <1>9, <1>10 DEF RequestsInv, Types

(* Looking at a page to move or delete it gives no number. *)
LEMMA NoNumber ==
  ASSUME NumbersAreNew, Types, NEW u \in Requests, req' \in [Requests -> ReqStates], pages' = pages,
         \A s \in Requests \ {u} : req'[s] = req[s], req[u].kind = "none", req'[u].kind \in {"move", "delete"},
         \E a \in pages : a.id = req'[u].id
  PROVE  NumbersAreNew' /\ Given' = Given
<1>1. {s \in Requests : req'[s].kind \in {"create", "save"}} = {s \in Requests : req[s].kind \in {"create", "save"}}
  OBVIOUS
<1>2. Given' = Given
  BY <1>1 DEF Given, NextNumber
<1>3. \A s \in Requests : Creating(s)' => s # u /\ Creating(s)
  BY DEF Creating
<1>4. QED
  BY <1>2, <1>3 DEF NumbersAreNew

LEMMA LookKeeps ==
  ASSUME RequestsInv, NEW u \in Requests, NEW a \in pages, NEW q, Starts(u, q),
         q.kind \in {"move", "delete"}, q.step = "checked", q.id = a.id, q.path = a.path, q.text = 0,
         q.kind = "move" => q.title \in AllTitles, q.kind = "move" => q.to \in Paths /\ RowsAt(q.to) = {}, q.kind = "delete" => q.to = NoPath,
         UNCHANGED <<pages, search, files>>
  PROVE  RequestsInv'
<1>1. req[u] = NoRequest
  BY DEF RequestsInv, Orderly, Starts
<1>2. /\ req' \in [Requests -> ReqStates] /\ req'[u] = q /\ \A s \in Requests \ {u} : req'[s] = req[s]
      /\ excused' \subseteq Paths /\ excused \subseteq excused'
  BY StartsEffect, OverlappingMeans DEF RequestsInv, Starts
<1>3. a.id \in 1..MaxId /\ a.path \in Paths /\ q.path # q.to
  <2>1. a.id \in 1..MaxId /\ a.path \in Paths
    BY DEF RequestsInv, Types, Rows
  <2>2. a.path # NoPath
    BY <2>1, TreeAssumption DEF NoPath
  <2>3. a \in RowsAt(a.path)
    BY DEF RowsAt
  <2>4. QED
    BY <2>1, <2>2, <2>3
<1>4. NumbersAreNew' /\ Given' = Given
  BY <1>1, <1>2, NoNumber DEF RequestsInv, NoRequest
<1>5. \A r \in Requests : Orderly(r)'
  <2>1. Waits(u)'
    <3>1. q.to \in Paths <=> q.kind = "move"
      BY TreeAssumption DEF NoPath
    <3>2. a.id # 0
      BY <1>3
    <3>3. QED
      BY <1>2, <1>3, <3>1, <3>2 DEF Waits
  <2>2. {q.id, q.text} \subseteq 0..Given'
    <3>1. Given \in Nat /\ a.id \in 0..Given
      BY Numbers DEF RequestsInv, NumbersAreNew
    <3>2. QED
      BY <1>4, <3>1
  <2>3. QED
    BY <2>1, <2>2, StartsOrderly
<1>6. OutletsFollow'
  <2>1. \A x \in Paths : SameAt(x)
    BY DEF SameAt, RowsAt
  <2>2. Excused(u)' \/ Undisturbed(u)'
    <3>1. SUFFICES ASSUME ~Excused(u)' PROVE Undisturbed(u)'
      OBVIOUS
    <3>2. Shown(q.path) /\ (q.kind = "move" => Shown(q.to))
      BY <1>3, <3>1, StartsShown, TreeAssumption DEF NoPath
    <3>3. RowsAt(q.path) = {a} /\ search[q.path] = Sought(a) /\ files[q.path] = a.text
      BY <3>2, FromShown
    <3>4. q.kind = "move" => Gone(q.to) /\ search[q.to] = 0 /\ files[q.to] = 0
      BY <3>2, FromShown DEF Gone
    <3>5. a \in pages' /\ RowsAt(q.path)' = {a} /\ (q.kind = "move" => Gone(q.to)') /\ Sought(a)' = Sought(a)
      BY <3>3, <3>4 DEF Gone, RowsAt, Sought
    <3>6. ~Written(u)' /\ ~Indexed(u)' /\ req'[u].kind = q.kind
      BY <1>2 DEF Written, Indexed
    <3>7. CASE q.kind = "move"
      BY <1>2, <3>3, <3>4, <3>5, <3>6, <3>7 DEF Undisturbed
    <3>8. CASE q.kind = "delete"
      BY <1>2, <3>3, <3>5, <3>6, <3>8 DEF Undisturbed
    <3>9. QED
      BY <3>7, <3>8
  <2>3. QED
    BY <2>1, <2>2, StartsOutlets
<1>7. PagesFollowed' /\ OverlapsExcused' /\ PathsAreUnique'
  BY <1>2, StartsFollowed, StartsOverlaps DEF RequestsInv, PathsAreUnique
<1>8. QED
  BY <1>2, <1>4, <1>5, <1>6, <1>7 DEF RequestsInv, Types

-----------------------------------------------------------------------------
(* Steps of a request under way *)

(* Request u does something to its own paths only, or to excused ones, and  *)
(* excuses at most its own paths.                                           *)
Acts(u) ==
  /\ u \in Active /\ req' \in [Requests -> ReqStates] /\ \A s \in Requests \ {u} : req'[s] = req[s]
  /\ req'[u].kind = req[u].kind
  /\ excused' = excused \/ excused' = excused \cup PathsOf(u)
  /\ \A p \in Paths : p \in PathsOf(u) \/ p \in excused \/ SameAt(p)

LEMMA OthersKept ==
  ASSUME RequestsInv, NEW u \in Requests, Acts(u)
  PROVE  /\ \A s \in Active \ {u} : /\ s \in Active' /\ PathsOf(s)' = PathsOf(s)
                                    /\ Excused(s)' \/ PathsOf(s)' \cap excused' = {}
                                    /\ Excused(s)' \/ Undisturbed(s)'
         /\ Active' \subseteq Active
         /\ \A p \in Paths \ excused' :
              p \notin PathsOf(u) /\ (\A s \in Active \ {u} : p \notin PathsOf(s)) => Shown(p)'
         /\ Given' = Given /\ \A s \in Requests \ {u} : Orderly(s)'
         /\ excused \subseteq excused' /\ excused' \subseteq Paths
<1>1. \A s \in Requests \ {u} : (s \in Active' <=> s \in Active) /\ PathsOf(s)' = PathsOf(s)
  BY DEF Acts, Active, PathsOf
<1>2. excused \subseteq excused' /\ excused' \subseteq Paths
  BY DEF Acts, RequestsInv, Types, PathsOf, ReqStates, Active
<1>3. Given' = Given
  BY NumbersSame DEF Acts
<1>4. ASSUME NEW s \in Active \ {u}
      PROVE  /\ s \in Active' /\ PathsOf(s)' = PathsOf(s)
             /\ Excused(s)' \/ PathsOf(s)' \cap excused' = {}
             /\ Excused(s)' \/ Undisturbed(s)'
  <2>1. s \in Requests \ {u} /\ s \in Active' /\ PathsOf(s)' = PathsOf(s)
    BY <1>1 DEF Active
  <2>2. CASE Excused(s)
    BY <1>2, <2>1, <2>2 DEF Excused
  <2>3. CASE ~Excused(s)
    <3>1. PathsOf(s) \cap excused = {} /\ PathsOf(s) \cap PathsOf(u) = {}
      BY <2>3 DEF RequestsInv, OverlapsExcused, Acts
    <3>2. Undisturbed(s)
      BY <2>3 DEF RequestsInv, OutletsFollow
    <3>3. Waits(s) /\ req[s].kind \in Kinds \ {"none"}
      BY <2>1 DEF RequestsInv, Orderly, Waits, Types, ReqStates
    <3>4. /\ req[s].path \in PathsOf(s) \cap Paths
          /\ req[s].kind = "move" => req[s].to \in PathsOf(s) \cap Paths
      BY <3>3, TreeAssumption DEF Waits, PathsOf, NoPath
    <3>5. SameAt(req[s].path) /\ (req[s].kind = "move" => SameAt(req[s].to))
      BY <3>1, <3>4 DEF Acts
    <3>6. Undisturbed(s)'
      BY <2>1, <3>2, <3>3, <3>5, UndisturbedKept DEF Acts
    <3>7. PathsOf(s)' \cap excused' = {}
      BY <2>1, <3>1 DEF Acts
    <3>8. QED
      BY <2>1, <3>6, <3>7
  <2>4. QED
    BY <2>2, <2>3
<1>5. ASSUME NEW p \in Paths \ excused', p \notin PathsOf(u), \A s \in Active \ {u} : p \notin PathsOf(s)
      PROVE  Shown(p)'
  <2>1. p \in Paths \ excused /\ SameAt(p) /\ \A s \in Active : p \notin PathsOf(s)
    BY <1>2, <1>5 DEF Acts
  <2>2. QED
    BY <2>1, ShownKept DEF RequestsInv, OutletsFollow
<1>6. ASSUME NEW s \in Requests \ {u} PROVE Orderly(s)'
  <2>1. Orderly(s) /\ req'[s] = req[s] /\ (s \in Active' <=> s \in Active)
    BY <1>1 DEF RequestsInv, Acts
  <2>2. QED
    BY <1>3, <2>1 DEF Orderly, Waits
<1>7. Active' \subseteq Active
  BY <1>1 DEF Acts, Active
<1>8. QED
  BY <1>2, <1>3, <1>4, <1>5, <1>6, <1>7

(* It goes on with the same paths ...                                       *)
LEMMA GoesOn ==
  ASSUME RequestsInv, NEW u \in Requests, Acts(u), u \in Active',
         req'[u].path = req[u].path, req'[u].to = req[u].to,
         \/ req'[u].id = req[u].id
         \/ \A s \in Requests \ {u} : req[s].id # req'[u].id,
         {req'[u].id, req'[u].text} \subseteq 0..Given, Waits(u)',
         Excused(u) \/ Undisturbed(u)' \/ excused' = excused \cup PathsOf(u)
  PROVE  OverlapsExcused' /\ OutletsFollow' /\ \A r \in Requests : Orderly(r)'
<1>1. /\ PathsOf(u)' = PathsOf(u) /\ (Excused(u) => Excused(u)')
      /\ excused' = excused \/ Excused(u)'
  BY DEF PathsOf, Excused, Acts
<1>2. /\ \A s \in Active \ {u} : /\ s \in Active' /\ PathsOf(s)' = PathsOf(s)
                                 /\ Excused(s)' \/ PathsOf(s)' \cap excused' = {}
                                 /\ Excused(s)' \/ Undisturbed(s)'
      /\ Active' \subseteq Active
      /\ \A p \in Paths \ excused' :
           p \notin PathsOf(u) /\ (\A s \in Active \ {u} : p \notin PathsOf(s)) => Shown(p)'
      /\ Given' = Given /\ \A s \in Requests \ {u} : Orderly(s)'
      /\ excused \subseteq excused'
  BY OthersKept
<1>3. OutletsFollow'
  <2>1. ASSUME NEW p \in Paths \ excused', \A s \in Active' : p \notin PathsOf(s)'
        PROVE  Shown(p)'
    BY <1>1, <1>2, <2>1
  <2>2. \A s \in Active' : Excused(s)' \/ Undisturbed(s)'
    <3>1. Excused(u)' \/ Undisturbed(u)'
      BY <1>1 DEF Excused
    <3>2. QED
      BY <1>2, <3>1
  <2>3. QED
    BY <2>1, <2>2 DEF OutletsFollow
<1>4. Orderly(u)'
  BY <1>2 DEF Orderly, Active
<1>5. \A s \in Active' : Excused(s)' \/ PathsOf(s)' \cap excused' = {}
  <2>1. Excused(u)' \/ PathsOf(u)' \cap excused' = {}
    BY <1>1 DEF RequestsInv, OverlapsExcused, Acts
  <2>2. QED
    BY <1>2, <2>1
<1>6. ASSUME NEW s \in Active', NEW t \in Active', s # t,
             PathsOf(s)' \cap PathsOf(t)' # {} \/ (req'[s].id = req'[t].id /\ req'[s].id # 0)
      PROVE  Excused(s)'
  <2>1. PathsOf(s)' = PathsOf(s) /\ PathsOf(t)' = PathsOf(t) /\ s \in Active /\ t \in Active
    BY <1>1, <1>2
  <2>2. PathsOf(s) \cap PathsOf(t) # {} \/ (req[s].id = req[t].id /\ req[s].id # 0)
    BY <1>6, <2>1 DEF Acts, Active
  <2>3. Excused(s)
    BY <1>6, <2>1, <2>2 DEF RequestsInv, OverlapsExcused
  <2>4. QED
    BY <1>2, <2>1, <2>3 DEF Excused
<1>7. QED
  BY <1>2, <1>3, <1>4, <1>5, <1>6 DEF OverlapsExcused

(* ... or ends, and what was at its paths is shown or excused.              *)
LEMMA Ends ==
  ASSUME RequestsInv, NEW u \in Requests, Acts(u), req'[u].step \in {"done", "threw"},
         req'[u].id = 0, req'[u].text = 0,
         Excused(u) \/ excused' = excused \cup PathsOf(u) \/ \A p \in PathsOf(u) : Shown(p)'
  PROVE  OverlapsExcused' /\ OutletsFollow' /\ \A r \in Requests : Orderly(r)'
<1>1. u \notin Active'
  BY DEF Active
<1>2. /\ \A s \in Active \ {u} : /\ s \in Active' /\ PathsOf(s)' = PathsOf(s)
                                 /\ Excused(s)' \/ PathsOf(s)' \cap excused' = {}
                                 /\ Excused(s)' \/ Undisturbed(s)'
      /\ Active' \subseteq Active
      /\ \A p \in Paths \ excused' :
           p \notin PathsOf(u) /\ (\A s \in Active \ {u} : p \notin PathsOf(s)) => Shown(p)'
      /\ Given' = Given /\ \A s \in Requests \ {u} : Orderly(s)'
      /\ excused \subseteq excused'
  BY OthersKept
<1>3. OutletsFollow'
  <2>1. ASSUME NEW p \in Paths \ excused', \A s \in Active' : p \notin PathsOf(s)'
        PROVE  Shown(p)'
    <3>1. \A s \in Active \ {u} : p \notin PathsOf(s)
      BY <1>2, <2>1
    <3>2. CASE p \in PathsOf(u)
      BY <1>2, <2>1, <3>2 DEF Excused
    <3>3. CASE p \notin PathsOf(u)
      BY <1>2, <3>1, <3>3
    <3>4. QED
      BY <3>2, <3>3
  <2>2. \A s \in Active' : Excused(s)' \/ Undisturbed(s)'
    BY <1>1, <1>2
  <2>3. QED
    BY <2>1, <2>2 DEF OutletsFollow
<1>4. Orderly(u)'
  <2>1. Given \in Nat
    BY Numbers DEF RequestsInv
  <2>2. QED
    BY <1>1, <1>2, <2>1 DEF Orderly
<1>5. OverlapsExcused'
  <2>1. ASSUME NEW s \in Active', NEW t \in Active', s # t,
               PathsOf(s)' \cap PathsOf(t)' # {} \/ (req'[s].id = req'[t].id /\ req'[s].id # 0)
        PROVE  Excused(s)'
    <3>1. /\ s \in Active \ {u} /\ t \in Active \ {u}
          /\ PathsOf(s)' = PathsOf(s) /\ PathsOf(t)' = PathsOf(t)
      BY <1>1, <1>2
    <3>2. req'[s] = req[s] /\ req'[t] = req[t]
      BY <3>1 DEF Acts, Active
    <3>3. Excused(s)
      BY <2>1, <3>1, <3>2 DEF RequestsInv, OverlapsExcused
    <3>4. QED
      BY <1>2, <3>1, <3>3 DEF Excused
  <2>2. QED
    BY <1>1, <1>2, <2>1 DEF OverlapsExcused
<1>6. QED
  BY <1>2, <1>3, <1>4, <1>5

(* The pages keep their numbers, and no page is added to those at a path.   *)
LEMMA PagesKept ==
  ASSUME RequestsInv, NEW u \in Requests, Acts(u), pages' \subseteq pages,
         ~Creating(u)', req'[u].id \in {req[u].id, 0}, u \in Active' => PathsOf(u)' = PathsOf(u)
  PROVE  NumbersAreNew' /\ PagesFollowed' /\ PathsAreUnique'
<1>1. /\ \A s \in Active \ {u} : PathsOf(s)' = PathsOf(s)
      /\ Active' \subseteq Active /\ Given' = Given /\ excused \subseteq excused'
  BY OthersKept
<1>2. \A s \in Requests : req'[s].id \in {req[s].id, 0}
  BY DEF Acts
<1>3. \A s \in Requests : Creating(s)' => s # u /\ Creating(s) /\ req'[s] = req[s]
  BY DEF Creating, Acts
<1>4. \A s \in Requests : Creating(s) => req[s].text # 0
  BY DEF RequestsInv, Orderly, Creating, Active, Waits
<1>5. NumbersAreNew'
  BY <1>1, <1>2, <1>3, <1>4 DEF RequestsInv, NumbersAreNew
<1>6. PagesFollowed'
  <2>1. \A a \in pages : a.id # 0
    BY DEF RequestsInv, Types, Rows
  <2>2. ASSUME NEW s \in Active', NEW a \in pages', a.id = req'[s].id
        PROVE  a.path \in PathsOf(s)' \/ (Excused(s)' /\ a.path \in excused')
    <3>1. s \in Active /\ a \in pages /\ a.id = req[s].id /\ PathsOf(s)' = PathsOf(s)
      BY <1>1, <1>2, <2>1, <2>2 DEF Active
    <3>2. QED
      BY <1>1, <3>1 DEF RequestsInv, PagesFollowed, Excused
  <2>3. QED
    BY <2>2 DEF PagesFollowed
<1>7. QED
  BY <1>1, <1>5, <1>6 DEF RequestsInv, PathsAreUnique

(* What holds of an active request *)
LEMMA ActiveFacts ==
  ASSUME RequestsInv, NEW u \in Active
  PROVE  /\ u \in Requests /\ req \in [Requests -> ReqStates] /\ req[u] \in ReqStates /\ Waits(u) /\ Orderly(u)
         /\ req[u].path \in PathsOf(u) /\ (req[u].kind = "move" => req[u].to \in PathsOf(u))
         /\ PathsOf(u) \subseteq Paths /\ (req[u].kind # "move" => PathsOf(u) = {req[u].path})
         /\ req[u].kind = "move" => PathsOf(u) = {req[u].path, req[u].to}
         /\ req[u].kind \in {"create", "move", "delete", "save"}
         /\ Excused(u) \/ Undisturbed(u)
<1>1. u \in Requests /\ req[u] \in ReqStates /\ Waits(u) /\ Orderly(u) /\ req \in [Requests -> ReqStates]
  BY DEF RequestsInv, Types, Active, Orderly
<1>2. NoPath \notin Paths
  BY TreeAssumption DEF NoPath
<1>3. req[u].kind \in {"create", "move", "delete", "save"} /\ req[u].path \in Paths /\ req[u].to \in Paths \cup {NoPath}
      /\ (req[u].to \in Paths <=> req[u].kind = "move")
  BY <1>1 DEF Waits, ReqStates, Kinds
<1>4. Excused(u) \/ Undisturbed(u)
  BY DEF RequestsInv, OutletsFollow
<1>5. QED
  BY <1>1, <1>2, <1>3, <1>4 DEF PathsOf

LEMMA SameShown ==
  ASSUME UNCHANGED <<pages, search, files>>
  PROVE  \A p : SameAt(p)
BY DEF SameAt, RowsAt

LEMMA SameRows ==
  ASSUME UNCHANGED pages
  PROVE  \A p : RowsAt(p)' = RowsAt(p) /\ (Gone(p)' <=> Gone(p))
BY DEF RowsAt, Gone

LEMMA SoughtSame == \A a : Sought(a)' = Sought(a)
BY DEF Sought

LEMMA InsertKeeps ==
  ASSUME RequestsInv, NEW u \in Requests, Insert(u)
  PROVE  RequestsInv'
<1> DEFINE p == req[u].path
           n == req[u].text
           row == Created(u)
<1>1. /\ u \in Active /\ Creating(u) /\ Written(u)' /\ u \in Active'
      /\ \A s \in Requests \ {u} : req'[s] = req[s]
      /\ req'[u].step = "written" /\ req'[u].id = n /\ req'[u].kind = "create"
      /\ req'[u].path = p /\ req'[u].to = req[u].to /\ req'[u].text = n
      /\ req'[u].title = req[u].title /\ req'[u].template = req[u].template
      /\ pages' = pages \cup {row} /\ excused' = excused /\ UNCHANGED <<search, files>>
      /\ req' \in [Requests -> ReqStates]
  <2>1. u \in Active /\ Creating(u) /\ req[u] \in ReqStates /\ req \in [Requests -> ReqStates]
    BY DEF RequestsInv, Types, Insert, Active, Creating
  <2>2. req' = [req EXCEPT ![u] = [req[u] EXCEPT !.step = "written", !.id = n]]
    BY <2>1 DEF Insert
  <2>3. /\ req'[u].step = "written" /\ req'[u].id = n /\ req'[u].kind = "create"
        /\ req'[u].path = p /\ req'[u].to = req[u].to /\ req'[u].text = n
        /\ req'[u].title = req[u].title /\ req'[u].template = req[u].template
        /\ \A s \in Requests \ {u} : req'[s] = req[s]
        /\ req' \in [Requests -> ReqStates]
    BY <2>1, <2>2 DEF ReqStates, Steps, Creating
  <2>4. pages' = pages \cup {row} /\ excused' = excused /\ UNCHANGED <<search, files>>
    BY DEF Insert, outlets, Created
  <2>5. u \in Active' /\ Written(u)'
    BY <2>3 DEF Active, Written
  <2>6. QED
    BY <2>1, <2>3, <2>4, <2>5
<1>2. /\ Waits(u) /\ Orderly(u) /\ p \in PathsOf(u) /\ PathsOf(u) \subseteq Paths /\ PathsOf(u) = {p}
      /\ (Excused(u) \/ Undisturbed(u)) /\ req[u] \in ReqStates
  BY <1>1, ActiveFacts DEF Insert
<1>3. /\ n \in 1..MaxId /\ n # 0 /\ n \in 0..Given /\ Given \in Nat /\ p \in Paths /\ row \in Rows
      /\ row.id = n /\ row.text = n /\ row.path = p /\ row.listed = ~req[u].template
  <2>1. n \in 1..MaxId /\ n # 0 /\ n \in 0..Given /\ Given \in Nat /\ p \in Paths /\ req[u].title \in AllTitles
    BY <1>1, <1>2, Numbers DEF Waits, Orderly, ReqStates, RequestsInv, Creating
  <2>2. req[u].template \in BOOLEAN
    BY <1>2 DEF ReqStates
  <2>3. QED
    BY <2>1, <2>2 DEF Rows, Created
<1> HIDE DEF n, p, row
<1>4. Excused(u) \/ (Gone(p) /\ Undisturbed(u)')
  <2>1. SUFFICES ASSUME Undisturbed(u) PROVE Gone(p) /\ Undisturbed(u)'
    BY <1>2
  <2>2. Gone(p) /\ search[p] = 0 /\ files[p] = 0
    BY <1>1, <2>1 DEF Undisturbed, Written, Creating, Indexed, p
  <2>3. RowsAt(p)' = {row}
    BY <1>1, <1>3, <2>2 DEF Gone, RowsAt, p
  <2>4. Created(u)' = row /\ ~Indexed(u)'
    BY <1>1 DEF Created, Indexed, row, p, n
  <2>5. QED
    BY <1>1, <2>2, <2>3, <2>4 DEF Undisturbed, p
<1>5. \A x : x \in {p} \/ SameAt(x)
  BY <1>1, <1>3 DEF SameAt, RowsAt
<1>6. Acts(u)
  BY <1>1, <1>2, <1>5 DEF Acts, Insert
<1>7. \A s \in Requests \ {u} : req[s].id # n /\ (Creating(s) => req[s].text # n)
  BY <1>1 DEF RequestsInv, NumbersAreNew, n
<1>8. \A a \in pages : a.id # n
  BY <1>1 DEF RequestsInv, NumbersAreNew, n
<1>9. OverlapsExcused' /\ OutletsFollow' /\ \A r \in Requests : Orderly(r)'
  <2>1. Waits(u)'
    BY <1>1, <1>2, <1>3 DEF Waits, Creating, p, n
  <2>2. QED
    BY <1>1, <1>2, <1>3, <1>4, <1>6, <1>7, <2>1, GoesOn DEF p
<1>10. /\ \A s \in Active \ {u} : PathsOf(s)' = PathsOf(s)
       /\ Active' \subseteq Active /\ Given' = Given
  BY <1>6, OthersKept
<1>11. NumbersAreNew'
  <2>1. ASSUME NEW r \in Requests, Creating(r)'
        PROVE  /\ \A a \in pages' : a.id # req'[r].text
               /\ \A s \in Requests \ {r} : req'[s].id # req'[r].text /\ (Creating(s)' => req'[s].text # req'[r].text)
    <3>1. r # u /\ Creating(r) /\ req'[r] = req[r] /\ req[r].text # n
      BY <1>1, <1>7, <2>1 DEF Creating
    <3>2. \A s \in Requests \ {r, u} : req'[s] = req[s] /\ (Creating(s)' => Creating(s))
      BY <1>1 DEF Creating
    <3>3. ~Creating(u)'
      BY <1>1 DEF Creating
    <3>4. QED
      BY <1>1, <1>3, <3>1, <3>2, <3>3 DEF RequestsInv, NumbersAreNew
  <2>2. /\ \A a \in pages' : {a.id, a.text} \subseteq 0..Given'
        /\ \A a, b \in pages' : a.id = b.id => a = b
    BY <1>1, <1>3, <1>8, <1>10 DEF RequestsInv, NumbersAreNew
  <2>3. QED
    BY <2>1, <2>2 DEF NumbersAreNew
<1>12. PagesFollowed'
  <2>1. ASSUME NEW s \in Active', NEW a \in pages', a.id = req'[s].id
        PROVE  a.path \in PathsOf(s)' \/ (Excused(s)' /\ a.path \in excused')
    <3>1. CASE s = u
      <4>1. a = row
        BY <1>1, <1>3, <1>8, <2>1, <3>1
      <4>2. PathsOf(u)' = PathsOf(u)
        BY <1>1 DEF PathsOf, p
      <4>3. QED
        BY <1>2, <1>3, <3>1, <4>1, <4>2
    <3>2. CASE s # u
      <4>1. s \in Active /\ req'[s] = req[s] /\ PathsOf(s)' = PathsOf(s) /\ a \in pages
        BY <1>1, <1>3, <1>7, <1>10, <2>1, <3>2 DEF Active
      <4>2. QED
        BY <1>1, <2>1, <4>1 DEF RequestsInv, PagesFollowed, Excused
    <3>3. QED
      BY <3>1, <3>2
  <2>2. QED
    BY <2>1 DEF PagesFollowed
<1>13. PathsAreUnique'
  <2>1. ASSUME NEW b \in pages, b.path = p PROVE p \in excused
    BY <1>2, <1>4, <2>1 DEF Gone, RowsAt, Excused
  <2>2. QED
    BY <1>1, <1>3, <2>1 DEF RequestsInv, PathsAreUnique
<1>14. QED
  BY <1>1, <1>3, <1>9, <1>11, <1>12, <1>13 DEF RequestsInv, Types

LEMMA MoveRowKeeps ==
  ASSUME RequestsInv, NEW u \in Requests, MoveRow(u)
  PROVE  RequestsInv'
<1> DEFINE from == req[u].path
           to == req[u].to
           id == req[u].id
           title == req[u].title
           Moved(a) == IF a.id = id THEN [a EXCEPT !.path = to, !.title = title] ELSE a
<1>1. /\ u \in Active /\ u \in Active' /\ Written(u)'
      /\ \A s \in Requests \ {u} : req'[s] = req[s]
      /\ req'[u] = [req[u] EXCEPT !.step = "written"]
      /\ pages' = {Moved(a) : a \in pages} /\ excused' = excused /\ UNCHANGED <<search, files>>
  <2>1. pages' = {Moved(a) : a \in pages}
    BY DEF MoveRow
  <2>2. /\ req[u].step = "checked" /\ req' = [req EXCEPT ![u].step = "written"]
        /\ excused' = excused /\ UNCHANGED <<search, files>>
    BY DEF MoveRow, outlets
  <2>3. req \in [Requests -> ReqStates]
    BY DEF RequestsInv, Types
  <2>4. req'[u] = [req[u] EXCEPT !.step = "written"] /\ \A s \in Requests \ {u} : req'[s] = req[s]
    BY <2>2, <2>3
  <2>5. req[u].step = "checked" /\ req'[u].step = "written"
    BY <2>2, <2>3, <2>4 DEF ReqStates
  <2> HIDE DEF Moved
  <2>6. u \in Active /\ u \in Active' /\ Written(u)'
    BY <2>5 DEF Active, Written
  <2>7. QED
    BY <2>1, <2>2, <2>4, <2>6
<1>2. /\ req[u] \in ReqStates /\ Waits(u) /\ Orderly(u)
      /\ PathsOf(u) = {from, to} /\ PathsOf(u) \subseteq Paths
      /\ (Excused(u) \/ Undisturbed(u)) /\ req \in [Requests -> ReqStates]
  BY <1>1, ActiveFacts DEF MoveRow
<1>3. /\ req'[u].step = "written" /\ req'[u].kind = "move" /\ req'[u].path = from /\ req'[u].to = to
      /\ req'[u].id = id /\ req'[u].text = req[u].text /\ req'[u].title = title /\ req'[u] \in ReqStates
      /\ req' \in [Requests -> ReqStates] /\ id # 0 /\ from # to
      /\ title \in AllTitles
  BY <1>1, <1>2 DEF MoveRow, ReqStates, Steps, Waits
<1>4. \A a \in pages : /\ a \in Rows /\ Moved(a).id = a.id /\ Moved(a).text = a.text /\ Moved(a).listed = a.listed
                       /\ Moved(a).path = IF a.id = id THEN to ELSE a.path
                       /\ to \in Paths => Moved(a) \in Rows
  BY <1>3 DEF RequestsInv, Types, Rows
<1> HIDE DEF Moved
<1>5. /\ \A b \in pages' : \E a \in pages : /\ b = Moved(a) /\ b.id = a.id /\ b.text = a.text
                                            /\ b.path = IF a.id = id THEN to ELSE a.path
      /\ \A a \in pages : Moved(a) \in pages'
  BY <1>1, <1>4
<1>6. \A a, b \in pages : a.id = b.id => a = b
  BY DEF RequestsInv, NumbersAreNew
<1> HIDE DEF from, to, id, title
<1>7. \A a \in pages : a.id = id => a.path \in {from, to} \/ (Excused(u) /\ a.path \in excused)
  BY <1>1, <1>2 DEF RequestsInv, PagesFollowed, id
<1>8. ASSUME ~Excused(u)
      PROVE  Gone(to) /\ Undisturbed(u)'
  <2>1. PICK c \in pages : /\ c.id = id /\ RowsAt(from) = {c} /\ Gone(to)
                           /\ search[from] = Sought(c) /\ search[to] = 0 /\ files[from] = c.text /\ files[to] = 0
    <3>1. Undisturbed(u) /\ ~Written(u) /\ ~Indexed(u) /\ req[u].kind = "move"
      BY <1>2, <1>8 DEF MoveRow, Written, Indexed
    <3>2. QED
      BY <3>1 DEF Undisturbed, from, to, id
  <2>2. c.path = from
    BY <2>1 DEF RowsAt
  <2>4. Moved(c).id = id /\ Moved(c).path = to /\ Moved(c).text = c.text /\ Sought(Moved(c)) = Sought(c) /\ Moved(c) \in pages'
    BY <1>4, <1>5, <2>1 DEF Sought
  <2>5. Gone(from)'
    <3>1. ASSUME NEW b \in pages', b.path = from PROVE FALSE
      <4>1. PICK a \in pages : b.id = a.id /\ b.path = IF a.id = id THEN to ELSE a.path
        BY <1>5
      <4>2. a.id # id /\ a.path = from
        BY <1>3, <3>1, <4>1 DEF from, to
      <4>3. a = c
        BY <2>1, <4>2 DEF RowsAt
      <4>4. QED
        BY <2>1, <4>2, <4>3
    <3>2. QED
      BY <1>3, <3>1 DEF Gone, RowsAt, from
  <2>6. RowsAt(to)' = {Moved(c)}
    <3>1. ASSUME NEW b \in pages', b.path = to PROVE b = Moved(c)
      <4>1. PICK a \in pages : b = Moved(a) /\ b.path = IF a.id = id THEN to ELSE a.path
        BY <1>5
      <4>2. a.id = id
        BY <2>1, <3>1, <4>1 DEF Gone, RowsAt
      <4>3. QED
        BY <1>6, <2>1, <4>1, <4>2
    <3>2. QED
      BY <1>3, <2>4, <3>1 DEF RowsAt, to
  <2>7. Undisturbed(u)'
    <3>1. ~Indexed(u)' /\ Written(u)'
      BY <1>1, <1>3 DEF Indexed
    <3>2. PICK m \in pages' : m = Moved(c)
      BY <2>4
    <3>3. /\ RowsAt(to)' = {m} /\ m.id = id /\ Sought(m) = Sought(c) /\ m.text = c.text
      BY <2>4, <2>6, <3>2
    <3>4. Sought(m)' = Sought(m)
      BY SoughtSame
    <3>5. /\ search'[from] = Sought(m)' /\ search'[to] = 0 /\ files'[from] = m.text /\ files'[to] = 0
      BY <1>1, <2>1, <3>3, <3>4
    <3>6. QED
      BY <1>3, <2>5, <3>1, <3>2, <3>3, <3>5 DEF Undisturbed, from, to, id
  <2>8. QED
    BY <2>1, <2>7
<1>9. Acts(u)
  <2>1. ASSUME NEW p \in Paths, p \notin {from, to}, p \notin excused PROVE RowsAt(p)' = RowsAt(p)
    <3>1. \A a \in pages : a.path = p => a.id # id
      BY <1>7, <2>1
    <3>2. \A a \in pages : a.path = p => Moved(a) = a
      BY <3>1 DEF Moved
    <3>3. \A b \in pages' : b.path = p => \E a \in pages : a.path = p /\ b = Moved(a)
      BY <1>5, <2>1
    <3>4. QED
      BY <1>5, <3>2, <3>3 DEF RowsAt
  <2>2. QED
    BY <1>1, <1>2, <1>3, <2>1 DEF Acts, SameAt, MoveRow
<1>10. OverlapsExcused' /\ OutletsFollow' /\ \A r \in Requests : Orderly(r)'
  <2>1. Waits(u)'
    BY <1>2, <1>3 DEF Waits, from, to, id, title
  <2>2. QED
    BY <1>1, <1>2, <1>3, <1>8, <1>9, <2>1, GoesOn DEF from, to, id, Orderly
<1>11. /\ \A s \in Active \ {u} : PathsOf(s)' = PathsOf(s)
       /\ Active' \subseteq Active /\ Given' = Given
       /\ PathsOf(u)' = PathsOf(u)
  <2>1. PathsOf(u)' = PathsOf(u)
    BY <1>3 DEF PathsOf, from, to
  <2>2. QED
    BY <1>9, <2>1, OthersKept
<1>12. NumbersAreNew'
  <2>1. \A s \in Requests : req'[s].id = req[s].id /\ (Creating(s)' => Creating(s) /\ req'[s] = req[s])
    BY <1>1, <1>3 DEF Creating, id
  <2>2. \A a, b \in pages' : a.id = b.id => a = b
    BY <1>5, <1>6
  <2>3. \A a \in pages' : {a.id, a.text} \subseteq 0..Given'
    BY <1>5, <1>11 DEF RequestsInv, NumbersAreNew
  <2>4. ASSUME NEW r \in Requests, Creating(r)'
        PROVE  /\ \A a \in pages' : a.id # req'[r].text
               /\ \A s \in Requests \ {r} : req'[s].id # req'[r].text /\ (Creating(s)' => req'[s].text # req'[r].text)
    BY <1>5, <2>1, <2>4 DEF RequestsInv, NumbersAreNew
  <2>5. QED
    BY <2>2, <2>3, <2>4 DEF NumbersAreNew
<1>13. PagesFollowed'
  <2>1. ASSUME NEW s \in Active', NEW b \in pages', b.id = req'[s].id
        PROVE  b.path \in PathsOf(s)' \/ (Excused(s)' /\ b.path \in excused')
    <3>1. PICK a \in pages : b.id = a.id /\ b.path = IF a.id = id THEN to ELSE a.path
      BY <1>5
    <3>2. s \in Active /\ PathsOf(s)' = PathsOf(s) /\ req'[s].id = req[s].id /\ (Excused(s)' <=> Excused(s))
      BY <1>1, <1>3, <1>11 DEF Active, Excused, id
    <3>3. CASE a.id # id
      BY <1>1, <2>1, <3>1, <3>2, <3>3 DEF RequestsInv, PagesFollowed
    <3>4. CASE a.id = id
      <4>1. CASE s = u
        BY <1>2, <3>1, <3>2, <3>4, <4>1
      <4>2. CASE s # u
        <5>1. req[s].id = req[u].id /\ req[u].id # 0
          BY <1>3, <2>1, <3>1, <3>2, <3>4 DEF id
        <5>2. \A r, q \in Active : r # q /\ req[r].id = req[q].id /\ req[r].id # 0 => Excused(r)
          BY DEF RequestsInv, OverlapsExcused
        <5>3. Excused(s) /\ Excused(u)
          BY <1>1, <3>2, <4>2, <5>1, <5>2
        <5>4. QED
          BY <1>1, <1>2, <3>1, <3>2, <3>4, <5>3 DEF Excused
      <4>3. QED
        BY <4>1, <4>2
    <3>5. QED
      BY <3>3, <3>4
  <2>2. QED
    BY <2>1 DEF PagesFollowed
<1>14. PathsAreUnique'
  <2>1. ASSUME NEW b \in pages, b.path = to PROVE to \in excused
    BY <1>2, <1>8, <2>1 DEF Gone, RowsAt, Excused
  <2>2. ASSUME NEW a \in pages', NEW b \in pages', a # b, a.path = b.path PROVE a.path \in excused'
    <3>1. PICK c \in pages : a = Moved(c) /\ a.path = IF c.id = id THEN to ELSE c.path
      BY <1>5
    <3>2. PICK d \in pages : b = Moved(d) /\ b.path = IF d.id = id THEN to ELSE d.path
      BY <1>5
    <3>3. c # d
      BY <2>2, <3>1, <3>2
    <3>4. CASE c.id # id /\ d.id # id
      BY <1>1, <2>2, <3>1, <3>2, <3>3, <3>4 DEF RequestsInv, PathsAreUnique
    <3>5. CASE c.id = id
      <4>1. d.id # id
        BY <1>6, <3>3, <3>5
      <4>2. QED
        BY <1>1, <2>1, <2>2, <3>1, <3>2, <3>5, <4>1
    <3>6. CASE d.id = id
      <4>1. c.id # id
        BY <1>6, <3>3, <3>6
      <4>2. QED
        BY <1>1, <2>1, <2>2, <3>1, <3>2, <3>6, <4>1
    <3>7. QED
      BY <3>4, <3>5, <3>6
  <2>3. QED
    BY <2>2 DEF PathsAreUnique
<1>15. pages' \subseteq Rows
  <2>1. \A a \in pages : Moved(a) \in Rows
    BY <1>2, <1>4 DEF Rows
  <2>2. QED
    BY <1>5, <2>1
<1>16. QED
  BY <1>1, <1>3, <1>10, <1>12, <1>13, <1>14, <1>15 DEF RequestsInv, Types

LEMMA DeleteRowKeeps ==
  ASSUME RequestsInv, NEW u \in Requests, DeleteRow(u)
  PROVE  RequestsInv'
<1>1. /\ u \in Active /\ u \in Active' /\ ~Written(u)
      /\ \A s \in Requests \ {u} : req'[s] = req[s]
      /\ req'[u] = [req[u] EXCEPT !.step = "written"]
      /\ pages' = pages \ Row(req[u].id) /\ excused' = excused /\ UNCHANGED <<search, files>>
  BY DEF RequestsInv, Types, DeleteRow, Active, Written, outlets
<1>2. /\ req[u] \in ReqStates /\ Waits(u) /\ Orderly(u) /\ req[u].kind = "delete" /\ req[u].step = "checked"
      /\ PathsOf(u) = {req[u].path} /\ PathsOf(u) \subseteq Paths
      /\ (Excused(u) \/ Undisturbed(u)) /\ req \in [Requests -> ReqStates]
  BY <1>1, ActiveFacts DEF DeleteRow
<1>3. /\ req'[u].step = "written" /\ req'[u].kind = "delete" /\ req'[u].path = req[u].path /\ req'[u].to = req[u].to
      /\ req'[u].id = req[u].id /\ req'[u].text = req[u].text /\ req'[u].title = req[u].title
      /\ req' \in [Requests -> ReqStates]
  BY <1>1, <1>2 DEF ReqStates, Steps, DeleteRow
<1>4. ~Excused(u) => Undisturbed(u)'
  <2>1. SUFFICES ASSUME ~Excused(u) PROVE Gone(req[u].path)'
    BY <1>3 DEF Undisturbed, Written, Indexed
  <2>2. PICK b \in pages : RowsAt(req[u].path) = {b} /\ b.id = req[u].id
    BY <1>1, <1>2, <2>1 DEF Undisturbed
  <2>3. \A a \in pages : a.path = req[u].path => a.id = req[u].id
    BY <2>2 DEF RowsAt
  <2>4. QED
    BY <1>1, <1>3, <2>3 DEF Gone, RowsAt, Row
<1>5. Acts(u)
  <2>1. \A a \in pages : a.id = req[u].id => a.path \in PathsOf(u) \/ a.path \in excused
    BY <1>1 DEF RequestsInv, PagesFollowed
  <2>2. \A p \in Paths : p \notin PathsOf(u) /\ p \notin excused => RowsAt(p)' = RowsAt(p)
    BY <1>1, <2>1 DEF RowsAt, Row
  <2>3. QED
    BY <1>1, <1>2, <1>3, <2>2 DEF Acts, SameAt
<1>6. OverlapsExcused' /\ OutletsFollow' /\ \A r \in Requests : Orderly(r)'
  <2>1. Waits(u)'
    BY <1>2, <1>3 DEF Waits
  <2>2. QED
    BY <1>1, <1>2, <1>3, <1>4, <1>5, <2>1, GoesOn DEF Orderly
<1>7. NumbersAreNew' /\ PagesFollowed' /\ PathsAreUnique'
  <2>1. PathsOf(u)' = PathsOf(u) /\ ~Creating(u)'
    BY <1>3 DEF PathsOf, Creating
  <2>2. QED
    BY <1>1, <1>3, <1>5, <2>1, PagesKept
<1>8. QED
  BY <1>1, <1>3, <1>6, <1>7 DEF RequestsInv, Types

(* A step that only moves the request on *)
LEMMA NextStageKeeps ==
  ASSUME RequestsInv, NEW u \in Active, NEW step \in {"rebuilding", "index"},
         req[u].step \in {"written", "rebuilding"}, req' = [req EXCEPT ![u] = [req[u] EXCEPT !.step = step]],
         UNCHANGED <<pages, search, files, excused>>
  PROVE  RequestsInv'
<1>1. /\ u \in Requests /\ req[u] \in ReqStates /\ Waits(u) /\ Orderly(u)
      /\ PathsOf(u) \subseteq Paths /\ req \in [Requests -> ReqStates]
      /\ Excused(u) \/ Undisturbed(u)
  BY ActiveFacts
<1>2. /\ req'[u].step = step /\ req'[u].kind = req[u].kind /\ req'[u].path = req[u].path /\ req'[u].to = req[u].to
      /\ req'[u].id = req[u].id /\ req'[u].text = req[u].text
      /\ req'[u].title = req[u].title /\ req'[u].template = req[u].template
      /\ \A s \in Requests \ {u} : req'[s] = req[s]
      /\ req' \in [Requests -> ReqStates] /\ u \in Active'
  BY <1>1 DEF ReqStates, Steps, Active
<1>3. \A p : SameAt(p)
  BY SameShown
<1>4. Acts(u)
  BY <1>2, <1>3 DEF Acts
<1>5. Undisturbed(u) => Undisturbed(u)'
  <2>1. Written(u) /\ Written(u)' /\ ~Indexed(u) /\ ~Indexed(u)'
    BY <1>2 DEF Written, Indexed
  <2>2. \A p : RowsAt(p)' = RowsAt(p) /\ (Gone(p)' <=> Gone(p))
    BY SameRows
  <2>3. req[u].kind # "save" /\ req[u].kind \in {"create", "move", "delete"} /\ Created(u)' = Created(u)
    BY <1>1, <1>2, ActiveFacts DEF Waits, Created
  <2>4. CASE req[u].kind = "create"
    BY <1>2, <2>1, <2>2, <2>3, <2>4 DEF Undisturbed
  <2>5. CASE req[u].kind = "move"
    <3>1. SUFFICES ASSUME Undisturbed(u) PROVE Undisturbed(u)'
      OBVIOUS
    <3>2. PICK a \in pages : /\ a.id = req[u].id /\ Gone(req[u].path) /\ RowsAt(req[u].to) = {a}
                             /\ search[req[u].path] = Sought(a) /\ search[req[u].to] = 0
                             /\ files[req[u].path] = a.text /\ files[req[u].to] = 0
      BY <2>1, <2>5, <3>1 DEF Undisturbed
    <3>3. Sought(a)' = Sought(a)
      BY SoughtSame
    <3>4. /\ a \in pages' /\ a.id = req'[u].id
          /\ search'[req'[u].path] = Sought(a)' /\ search'[req'[u].to] = 0
          /\ files'[req'[u].path] = a.text /\ files'[req'[u].to] = 0
      BY <1>2, <3>2, <3>3
    <3>5. Gone(req[u].path)' /\ RowsAt(req[u].to)' = {a}
      BY <1>2, <3>2 DEF Gone, RowsAt
    <3>6. req'[u].kind = "move"
      BY <1>2, <2>5
    <3>7. QED
      BY <2>1, <3>4, <3>5, <3>6 DEF Undisturbed
  <2>6. CASE req[u].kind = "delete"
    BY <1>2, <2>1, <2>2, <2>6 DEF Undisturbed
  <2>7. QED
    BY <2>3, <2>4, <2>5, <2>6
<1>6. OverlapsExcused' /\ OutletsFollow' /\ \A r \in Requests : Orderly(r)'
  <2>1. Waits(u)'
    BY <1>1, <1>2 DEF Waits
  <2>2. QED
    BY <1>1, <1>2, <1>4, <1>5, <2>1, GoesOn DEF Orderly
<1>7. NumbersAreNew' /\ PagesFollowed' /\ PathsAreUnique'
  <2>1. PathsOf(u)' = PathsOf(u) /\ ~Creating(u)'
    BY <1>2 DEF PathsOf, Creating
  <2>2. QED
    BY <1>1, <1>2, <1>4, <2>1, PagesKept
<1>8. QED
  BY <1>2, <1>6, <1>7 DEF RequestsInv, Types

(* A request that throws excuses its paths. *)
LEMMA ThrowsKeeps ==
  ASSUME RequestsInv, NEW u \in Active, Throws(u), UNCHANGED <<pages, search, files>>
  PROVE  RequestsInv'
<1>1. /\ u \in Requests /\ req[u] \in ReqStates /\ PathsOf(u) \subseteq Paths /\ req \in [Requests -> ReqStates]
  BY ActiveFacts
<1>2. /\ req'[u].step = "threw" /\ req'[u].kind = req[u].kind /\ req'[u].id = 0 /\ req'[u].text = 0
      /\ \A s \in Requests \ {u} : req'[s] = req[s]
      /\ req' \in [Requests -> ReqStates] /\ u \notin Active'
      /\ excused' = excused \cup PathsOf(u)
  <2>1. 0 \in 0..MaxId
    BY Numbers DEF RequestsInv
  <2>2. req'[u] = [step |-> "threw", kind |-> req[u].kind, id |-> 0, path |-> NoPath, to |-> NoPath, title |-> 0,
                  text |-> 0, template |-> FALSE]
    BY <1>1 DEF Throws, NoRequest
  <2>3. req'[u] \in ReqStates
    BY <1>1, <2>1, <2>2 DEF ReqStates, Steps
  <2>4. QED
    BY <1>1, <2>2, <2>3 DEF Throws, Active
<1>3. \A p : SameAt(p)
  BY SameShown
<1>4. Acts(u)
  BY <1>2, <1>3 DEF Acts
<1>5. OverlapsExcused' /\ OutletsFollow' /\ \A r \in Requests : Orderly(r)'
  BY <1>1, <1>2, <1>4, Ends
<1>6. NumbersAreNew' /\ PagesFollowed' /\ PathsAreUnique'
  <2>1. ~Creating(u)'
    BY <1>2 DEF Creating
  <2>2. QED
    BY <1>1, <1>2, <1>4, <2>1, PagesKept
<1>7. QED
  BY <1>1, <1>2, <1>5, <1>6 DEF RequestsInv, Types

-----------------------------------------------------------------------------
(* The search index and the storage *)

(* What a request does to a store reaches its own paths only.               *)
LEMMA RenamedMeans ==
  ASSUME NEW store \in [Paths -> 0..MaxId], NEW from \in Paths, NEW to \in Paths, from # to, MaxId \in Nat
  PROVE  /\ Renamed(store, from, to) \in [Paths -> 0..MaxId]
         /\ \A p \in Paths \ {from, to} : Renamed(store, from, to)[p] = store[p]
         /\ store[from] # 0 \/ store[to] = 0 => Renamed(store, from, to)[from] = 0 /\ Renamed(store, from, to)[to] = store[from]
<1>1. CASE store[from] = 0
  BY <1>1 DEF Renamed
<1>2. CASE store[from] # 0
  <2>1. Renamed(store, from, to) = [[store EXCEPT ![to] = store[from]] EXCEPT ![from] = 0]
    BY <1>2 DEF Renamed
  <2>2. QED
    BY <1>2, <2>1
<1>3. QED
  BY <1>1, <1>2

LEMMA IndexMeans ==
  ASSUME RequestsInv, NEW u \in Requests, Index(u)
  PROVE  /\ u \in Active /\ search' \in [Paths -> 0..MaxId] /\ UNCHANGED <<pages, files, excused>>
         /\ \A p \in Paths \ PathsOf(u) : search'[p] = search[p]
         /\ req[u].kind = "create" => search'[req[u].path] = IF req[u].template THEN search[req[u].path] ELSE req[u].text
         /\ req[u].kind = "save" => search'[req[u].path] = IF search[req[u].path] = 0 \/ req[u].template THEN 0 ELSE req[u].text
         /\ req[u].kind = "delete" => search'[req[u].path] = 0
         /\ req[u].kind = "move" /\ (search[req[u].path] # 0 \/ search[req[u].to] = 0) =>
              search'[req[u].path] = 0 /\ search'[req[u].to] = search[req[u].path]
<1> DEFINE p == req[u].path
           to == req[u].to
<1>1. u \in Active
  BY DEF Index, Active
<1>2. /\ p \in Paths /\ p \in PathsOf(u) /\ (req[u].kind = "move" => to \in PathsOf(u) /\ to \in Paths /\ p # to)
      /\ req[u].kind \in {"create", "move", "delete", "save"}
      /\ req[u].text \in 0..MaxId /\ MaxId \in Nat /\ 0 \in 0..MaxId /\ search \in [Paths -> 0..MaxId]
      /\ req[u].kind = "move" => PathsOf(u) = {p, to}
  BY <1>1, ActiveFacts, Numbers DEF Waits, ReqStates, RequestsInv, Types
<1>3. UNCHANGED <<pages, files, excused>>
  BY DEF Index
<1>4. CASE req[u].kind = "create"
  <2>1. search' = IF req[u].template THEN search ELSE [search EXCEPT ![p] = req[u].text]
    BY <1>4 DEF Index
  <2>2. QED
    BY <1>1, <1>2, <1>3, <1>4, <2>1
<1>5. CASE req[u].kind = "save"
  <2>1. search' = [search EXCEPT ![p] = IF search[p] = 0 \/ req[u].template THEN 0 ELSE req[u].text]
    BY <1>5 DEF Index
  <2>2. QED
    BY <1>1, <1>2, <1>3, <1>5, <2>1
<1>6. CASE req[u].kind = "delete"
  <2>1. search' = [search EXCEPT ![p] = 0]
    BY <1>6 DEF Index
  <2>2. QED
    BY <1>1, <1>2, <1>3, <1>6, <2>1
<1>7. CASE req[u].kind = "move"
  <2>1. search' = Renamed(search, p, to)
    BY <1>7 DEF Index
  <2>2. /\ search' \in [Paths -> 0..MaxId]
        /\ \A x \in Paths \ {p, to} : search'[x] = search[x]
        /\ search[p] # 0 \/ search[to] = 0 => search'[p] = 0 /\ search'[to] = search[p]
    BY <1>2, <1>7, <2>1, RenamedMeans
  <2>3. QED
    BY <1>1, <1>2, <1>3, <1>7, <2>2
<1>8. QED
  BY <1>2, <1>4, <1>5, <1>6, <1>7

LEMMA StoreMeans ==
  ASSUME RequestsInv, NEW u \in Requests, Store(u)
  PROVE  /\ u \in Active /\ files' \in [Paths -> 0..MaxId] /\ UNCHANGED <<pages, search, excused>>
         /\ \A p \in Paths \ PathsOf(u) : files'[p] = files[p]
         /\ req[u].kind \in {"create", "save"} => files'[req[u].path] = req[u].text
         /\ req[u].kind = "delete" => files'[req[u].path] = 0
         /\ req[u].kind = "move" /\ (files[req[u].path] # 0 \/ files[req[u].to] = 0) =>
              files'[req[u].path] = 0 /\ files'[req[u].to] = files[req[u].path]
<1> DEFINE p == req[u].path
           to == req[u].to
<1>1. u \in Active
  BY DEF Store, Active
<1>2. /\ p \in Paths /\ p \in PathsOf(u) /\ (req[u].kind = "move" => to \in PathsOf(u) /\ to \in Paths /\ p # to)
      /\ req[u].kind \in {"create", "move", "delete", "save"}
      /\ req[u].text \in 0..MaxId /\ MaxId \in Nat /\ 0 \in 0..MaxId /\ files \in [Paths -> 0..MaxId]
      /\ req[u].kind = "move" => PathsOf(u) = {p, to}
  BY <1>1, ActiveFacts, Numbers DEF Waits, ReqStates, RequestsInv, Types
<1>3. UNCHANGED <<pages, search, excused>>
  BY DEF Store
<1>4. CASE req[u].kind \in {"create", "save"}
  <2>1. files' = [files EXCEPT ![p] = req[u].text]
    BY <1>4 DEF Store
  <2>2. QED
    BY <1>1, <1>2, <1>3, <1>4, <2>1
<1>6. CASE req[u].kind = "delete"
  <2>1. files' = [files EXCEPT ![p] = 0]
    BY <1>6 DEF Store
  <2>2. QED
    BY <1>1, <1>2, <1>3, <1>6, <2>1
<1>7. CASE req[u].kind = "move"
  <2>1. files' = Renamed(files, p, to)
    BY <1>7 DEF Store
  <2>2. /\ files' \in [Paths -> 0..MaxId]
        /\ \A x \in Paths \ {p, to} : files'[x] = files[x]
        /\ files[p] # 0 \/ files[to] = 0 => files'[p] = 0 /\ files'[to] = files[p]
    BY <1>2, <1>7, <2>1, RenamedMeans
  <2>3. QED
    BY <1>1, <1>2, <1>3, <1>7, <2>2
<1>8. QED
  BY <1>2, <1>4, <1>6, <1>7

(* What the request's state becomes where it Goes *)
LEMMA GoesMeans ==
  ASSUME RequestsInv, NEW u \in Active, NEW step \in Steps, Goes(u, step)
  PROVE  /\ req' \in [Requests -> ReqStates] /\ \A s \in Requests \ {u} : req'[s] = req[s]
         /\ req'[u].kind = req[u].kind /\ req'[u].step = step
         /\ step = "done" => req'[u].id = 0 /\ req'[u].text = 0 /\ u \notin Active'
         /\ step # "done" => /\ req'[u].id = req[u].id /\ req'[u].text = req[u].text
                             /\ req'[u].title = req[u].title /\ req'[u].template = req[u].template
                             /\ req'[u].path = req[u].path /\ req'[u].to = req[u].to
                             /\ PathsOf(u)' = PathsOf(u)
<1>1. /\ u \in Requests /\ req[u] \in ReqStates /\ req \in [Requests -> ReqStates]
  BY ActiveFacts
<1>2. 0 \in 0..MaxId
  BY Numbers DEF RequestsInv
<1>3. CASE step = "done"
  <2>1. req' = [req EXCEPT ![u] = [NoRequest EXCEPT !.step = "done", !.kind = req[u].kind]]
    BY <1>3 DEF Goes
  <2>2. req'[u] = [step |-> "done", kind |-> req[u].kind, id |-> 0, path |-> NoPath, to |-> NoPath, title |-> 0,
                  text |-> 0, template |-> FALSE]
    BY <1>1, <2>1 DEF NoRequest
  <2>3. req'[u] \in ReqStates
    BY <1>1, <1>2, <2>2 DEF ReqStates, Steps
  <2>4. QED
    BY <1>1, <1>3, <2>1, <2>2, <2>3 DEF Active
<1>4. CASE step # "done"
  <2>1. req' = [req EXCEPT ![u] = [req[u] EXCEPT !.step = step]]
    BY <1>4 DEF Goes
  <2>2. QED
    BY <1>1, <1>4, <2>1 DEF ReqStates, PathsOf
<1>5. QED
  BY <1>3, <1>4

LEMMA IndexKeeps ==
  ASSUME RequestsInv, NEW u \in Requests, Index(u)
  PROVE  RequestsInv'
<1> DEFINE p == req[u].path
           to == req[u].to
<1>1. /\ u \in Active /\ search' \in [Paths -> 0..MaxId] /\ UNCHANGED <<pages, files, excused>>
      /\ \A x \in Paths \ PathsOf(u) : search'[x] = search[x]
      /\ req[u].kind = "create" => search'[p] = IF req[u].template THEN search[p] ELSE req[u].text
      /\ req[u].kind = "save" => search'[p] = IF search[p] = 0 \/ req[u].template THEN 0 ELSE req[u].text
      /\ req[u].kind = "delete" => search'[p] = 0
      /\ req[u].kind = "move" /\ (search[p] # 0 \/ search[to] = 0) => search'[p] = 0 /\ search'[to] = search[p]
  BY IndexMeans
<1>2. /\ req' \in [Requests -> ReqStates] /\ \A s \in Requests \ {u} : req'[s] = req[s]
      /\ req'[u].kind = req[u].kind /\ req'[u].step = "store"
      /\ req'[u].id = req[u].id /\ req'[u].text = req[u].text
      /\ req'[u].title = req[u].title /\ req'[u].template = req[u].template
      /\ req'[u].path = p /\ req'[u].to = to /\ PathsOf(u)' = PathsOf(u) /\ u \in Active'
  <2>1. Goes(u, "store") /\ "store" \in Steps
    BY DEF Index, Steps
  <2>2. QED
    BY <1>1, <2>1, GoesMeans DEF Active
<1>3. /\ Waits(u) /\ Orderly(u) /\ req[u].step = "index"
      /\ req[u].kind \in {"create", "move", "delete", "save"}
      /\ Excused(u) \/ Undisturbed(u)
  BY <1>1, ActiveFacts DEF Waits, Index
<1>4. Acts(u)
  BY <1>1, <1>2 DEF Acts, SameAt, RowsAt
<1>5. Undisturbed(u) => Undisturbed(u)'
  <2>1. Written(u) /\ Written(u)' /\ ~Indexed(u) /\ Indexed(u)'
    BY <1>2, <1>3 DEF Written, Indexed
  <2>2. /\ \A x : RowsAt(x)' = RowsAt(x) /\ (Gone(x)' <=> Gone(x))
        /\ Created(u)' = Created(u)
    BY <1>1, <1>2, SameRows DEF Created
  <2>3. req'[u].step # "title"
    BY <1>2
  <2>4. CASE req[u].kind = "create"
    BY <1>1, <1>2, <2>1, <2>2, <2>4 DEF Undisturbed
  <2>5. CASE req[u].kind = "move"
    BY <1>1, <1>2, <2>1, <2>2, <2>5, SoughtSame DEF Undisturbed
  <2>6. CASE req[u].kind = "delete"
    BY <1>1, <1>2, <2>1, <2>2, <2>6 DEF Undisturbed
  <2>7. CASE req[u].kind = "save"
    <3>1. ASSUME Undisturbed(u) PROVE Undisturbed(u)'
      <4>1. PICK a \in pages : /\ RowsAt(p) = {a} /\ a.id = req[u].id /\ a.text = req[u].text
                               /\ a.listed <=> (search[p] # 0 /\ ~req[u].template)
        BY <2>1, <2>7, <3>1 DEF Undisturbed
      <4>2. search'[p] = Sought(a)
        BY <1>1, <2>7, <4>1 DEF Sought
      <4>3. QED
        BY <1>1, <1>2, <2>1, <2>2, <2>3, <2>7, <4>1, <4>2, SoughtSame DEF Undisturbed
    <3>2. QED
      BY <3>1
  <2>8. QED
    BY <1>3, <2>4, <2>5, <2>6, <2>7
<1>6. OverlapsExcused' /\ OutletsFollow' /\ \A r \in Requests : Orderly(r)'
  <2>1. Waits(u)'
    BY <1>2, <1>3 DEF Waits
  <2>2. QED
    BY <1>1, <1>2, <1>3, <1>4, <1>5, <2>1, GoesOn DEF Orderly
<1>7. NumbersAreNew' /\ PagesFollowed' /\ PathsAreUnique'
  <2>1. ~Creating(u)'
    BY <1>2 DEF Creating
  <2>2. QED
    BY <1>1, <1>2, <1>4, <2>1, PagesKept
<1>8. QED
  BY <1>1, <1>2, <1>6, <1>7 DEF RequestsInv, Types

(* The storage was told, or failed. *)
LEMMA ToldMeans ==
  ASSUME RequestsInv, NEW u \in Active, req[u].step = "store", Goes(u, IF req[u].kind = "save" THEN "title" ELSE "done")
  PROVE  /\ req' \in [Requests -> ReqStates] /\ \A s \in Requests \ {u} : req'[s] = req[s]
         /\ req'[u].kind = req[u].kind /\ req'[u].step = IF req[u].kind = "save" THEN "title" ELSE "done"
         /\ req[u].kind # "save" => req'[u].id = 0 /\ req'[u].text = 0 /\ u \notin Active'
         /\ req[u].kind = "save" =>
              /\ req'[u].id = req[u].id /\ req'[u].text = req[u].text /\ req'[u].template = req[u].template
              /\ req'[u].path = req[u].path /\ req'[u].to = req[u].to
              /\ PathsOf(u)' = PathsOf(u) /\ u \in Active' /\ Waits(u)'
<1>1. Waits(u) /\ u \in Requests
  BY ActiveFacts
<1>2. "title" \in Steps /\ "done" \in Steps
  BY DEF Steps
<1>3. CASE req[u].kind = "save"
  <2>1. Goes(u, "title")
    BY <1>3
  <2>2. /\ req' \in [Requests -> ReqStates] /\ \A s \in Requests \ {u} : req'[s] = req[s]
        /\ req'[u].kind = req[u].kind /\ req'[u].step = "title"
        /\ req'[u].id = req[u].id /\ req'[u].text = req[u].text
        /\ req'[u].title = req[u].title /\ req'[u].template = req[u].template
        /\ req'[u].path = req[u].path /\ req'[u].to = req[u].to /\ PathsOf(u)' = PathsOf(u)
    BY <1>2, <2>1, GoesMeans
  <2>3. u \in Active' /\ Waits(u)'
    BY <1>1, <1>3, <2>2 DEF Active, Waits
  <2>4. QED
    BY <1>3, <2>2, <2>3
<1>4. CASE req[u].kind # "save"
  <2>1. Goes(u, "done")
    BY <1>4
  <2>2. QED
    BY <1>2, <1>4, <2>1, GoesMeans
<1>5. QED
  BY <1>3, <1>4

LEMMA StoreKeeps ==
  ASSUME RequestsInv, NEW u \in Requests, Store(u)
  PROVE  RequestsInv'
<1> DEFINE p == req[u].path
           to == req[u].to
<1>1. /\ u \in Active /\ files' \in [Paths -> 0..MaxId] /\ UNCHANGED <<pages, search, excused>>
      /\ \A x \in Paths \ PathsOf(u) : files'[x] = files[x]
      /\ req[u].kind \in {"create", "save"} => files'[p] = req[u].text
      /\ req[u].kind = "delete" => files'[p] = 0
      /\ req[u].kind = "move" /\ (files[p] # 0 \/ files[to] = 0) => files'[p] = 0 /\ files'[to] = files[p]
  BY StoreMeans
<1>2. /\ Waits(u) /\ Orderly(u) /\ req[u].step = "store"
      /\ req[u].kind \in {"create", "move", "delete", "save"}
      /\ Excused(u) \/ Undisturbed(u)
      /\ PathsOf(u) = IF req[u].kind = "move" THEN {p, to} ELSE {p}
  BY <1>1, ActiveFacts DEF Store
<1>3. /\ req' \in [Requests -> ReqStates] /\ \A s \in Requests \ {u} : req'[s] = req[s]
      /\ req'[u].kind = req[u].kind /\ req'[u].step = IF req[u].kind = "save" THEN "title" ELSE "done"
      /\ req[u].kind # "save" => req'[u].id = 0 /\ req'[u].text = 0 /\ u \notin Active'
      /\ req[u].kind = "save" => /\ req'[u].id = req[u].id /\ req'[u].text = req[u].text
                                 /\ req'[u].template = req[u].template
                                 /\ req'[u].path = p /\ req'[u].to = to
                                 /\ PathsOf(u)' = PathsOf(u) /\ u \in Active' /\ Waits(u)'
  BY <1>1, <1>2, ToldMeans DEF Store
<1>4. Acts(u)
  BY <1>1, <1>3 DEF Acts, SameAt, RowsAt
<1>5. \A x : RowsAt(x)' = RowsAt(x) /\ (Gone(x)' <=> Gone(x))
  BY <1>1, SameRows
<1>6. Written(u) /\ Indexed(u)
  BY <1>2 DEF Written, Indexed
<1>7. OverlapsExcused' /\ OutletsFollow' /\ \A r \in Requests : Orderly(r)'
  <2>1. CASE req[u].kind = "save"
    <3>1. Undisturbed(u) => Undisturbed(u)'
      <4>1. Indexed(u)'
        BY <1>3, <2>1 DEF Indexed
      <4>2. QED
        BY <1>1, <1>3, <1>5, <1>6, <2>1, <4>1, SoughtSame DEF Undisturbed
    <3>2. QED
      BY <1>1, <1>2, <1>3, <1>4, <2>1, <3>1, GoesOn DEF Orderly
  <2>2. CASE req[u].kind # "save"
    <3>1. ASSUME Undisturbed(u) PROVE \A x \in PathsOf(u) : Shown(x)'
      <4>1. ASSUME NEW x, NEW a \in pages, RowsAt(x) = {a}, search'[x] = Sought(a), files'[x] = a.text PROVE Shown(x)'
        <5>1. RowsAt(x)' = {a} /\ a \in pages' /\ ~Gone(x)' /\ Sought(a)' = Sought(a)
          BY <1>1, <1>5, <4>1, SoughtSame DEF Gone
        <5>2. QED
          BY <4>1, <5>1 DEF Shown
      <4>2. \A x : Gone(x) /\ search'[x] = 0 /\ files'[x] = 0 => Shown(x)'
        BY <1>5 DEF Shown
      <4>3. CASE req[u].kind = "create"
        <5>1. RowsAt(p) = {Created(u)} /\ search[p] = IF req[u].template THEN 0 ELSE req[u].text
          BY <1>6, <3>1, <4>3 DEF Undisturbed
        <5>2. Created(u) \in pages /\ Sought(Created(u)) = search[p] /\ Created(u).text = req[u].text
          BY <5>1 DEF RowsAt, Sought, Created
        <5>3. QED
          BY <1>1, <1>2, <4>1, <4>3, <5>1, <5>2
      <4>4. CASE req[u].kind = "move"
        <5>1. PICK a \in pages : Gone(p) /\ RowsAt(to) = {a} /\ search[p] = 0 /\ search[to] = Sought(a)
                                 /\ files[p] = a.text /\ files[to] = 0
          BY <1>6, <3>1, <4>4 DEF Undisturbed
        <5>2. files'[p] = 0 /\ files'[to] = a.text
          BY <1>1, <4>4, <5>1
        <5>3. ASSUME NEW x \in PathsOf(u) PROVE Shown(x)'
          <6>1. CASE x = p
            BY <1>1, <4>2, <5>1, <5>2, <6>1
          <6>2. CASE x = to
            BY <1>1, <4>1, <5>1, <5>2, <6>2
          <6>3. QED
            BY <1>2, <4>4, <5>3, <6>1, <6>2
        <5>4. QED
          BY <5>3
      <4>5. CASE req[u].kind = "delete"
        <5>1. Gone(p) /\ search[p] = 0
          BY <1>6, <3>1, <4>5 DEF Undisturbed
        <5>2. QED
          BY <1>1, <1>2, <4>2, <4>5, <5>1
      <4>6. QED
        BY <1>2, <2>2, <4>3, <4>4, <4>5
    <3>2. QED
      BY <1>1, <1>2, <1>3, <1>4, <2>2, <3>1, Ends
  <2>3. QED
    BY <2>1, <2>2
<1>8. NumbersAreNew' /\ PagesFollowed' /\ PathsAreUnique'
  <2>1. ~Creating(u)'
    BY <1>3 DEF Creating
  <2>2. QED
    BY <1>1, <1>3, <1>4, <2>1, PagesKept
<1>9. QED
  BY <1>1, <1>3, <1>7, <1>8 DEF RequestsInv, Types

LEMMA TargetFailsKeeps ==
  ASSUME RequestsInv, NEW u \in Requests, TargetFails(u)
  PROVE  RequestsInv'
<1>1. u \in Active /\ UNCHANGED <<pages, search, files>> /\ req[u].step = "store" /\ excused' = excused \cup PathsOf(u)
  BY DEF TargetFails, Active, outlets
<1>2. Orderly(u) /\ PathsOf(u) \subseteq Paths
  BY <1>1, ActiveFacts
<1>3. /\ req' \in [Requests -> ReqStates] /\ \A s \in Requests \ {u} : req'[s] = req[s]
      /\ req'[u].kind = req[u].kind /\ req'[u].step = IF req[u].kind = "save" THEN "title" ELSE "done"
      /\ req[u].kind # "save" => req'[u].id = 0 /\ req'[u].text = 0 /\ u \notin Active'
      /\ req[u].kind = "save" => /\ req'[u].id = req[u].id /\ req'[u].text = req[u].text
                                 /\ req'[u].path = req[u].path /\ req'[u].to = req[u].to
                                 /\ PathsOf(u)' = PathsOf(u) /\ u \in Active' /\ Waits(u)'
  BY <1>1, ToldMeans DEF TargetFails
<1>4. Acts(u)
  BY <1>1, <1>3, SameShown DEF Acts
<1>5. OverlapsExcused' /\ OutletsFollow' /\ \A r \in Requests : Orderly(r)'
  <2>1. CASE req[u].kind = "save"
    BY <1>1, <1>2, <1>3, <1>4, <2>1, GoesOn DEF Orderly
  <2>2. CASE req[u].kind # "save"
    BY <1>1, <1>3, <1>4, <2>2, Ends
  <2>3. QED
    BY <2>1, <2>2
<1>6. NumbersAreNew' /\ PagesFollowed' /\ PathsAreUnique'
  <2>1. ~Creating(u)'
    BY <1>3 DEF Creating
  <2>2. QED
    BY <1>1, <1>3, <1>4, <2>1, PagesKept
<1>7. QED
  BY <1>1, <1>2, <1>3, <1>5, <1>6 DEF RequestsInv, Types

LEMMA UpdateTitleKeeps ==
  ASSUME RequestsInv, NEW u \in Requests, UpdateTitle(u)
  PROVE  RequestsInv'
<1> DEFINE p == req[u].path
<1>1. u \in Active /\ UNCHANGED <<pages, search, files, excused>> /\ req[u].step = "title"
  BY DEF UpdateTitle, Active, outlets
<1>2. /\ req[u].kind = "save" /\ PathsOf(u) = {p}
      /\ Excused(u) \/ Undisturbed(u)
  BY <1>1, ActiveFacts DEF Waits
<1>3. /\ req' \in [Requests -> ReqStates] /\ \A s \in Requests \ {u} : req'[s] = req[s]
      /\ req'[u].kind = req[u].kind /\ req'[u].step = "done" /\ req'[u].id = 0 /\ req'[u].text = 0 /\ u \notin Active'
  <2>1. Goes(u, "done") /\ "done" \in Steps
    BY DEF UpdateTitle, Steps
  <2>2. QED
    BY <1>1, <2>1, GoesMeans
<1>4. Acts(u)
  BY <1>1, <1>3 DEF Acts, SameAt, RowsAt
<1>5. ASSUME Undisturbed(u), NEW x \in PathsOf(u) PROVE Shown(x)'
  <2>1. x = p
    BY <1>2
  <2>2. PICK a \in pages : RowsAt(p) = {a} /\ search[p] = Sought(a) /\ files[p] = a.text
    BY <1>1, <1>2, <1>5 DEF Undisturbed, Indexed
  <2>3. Shown(x)
    BY <2>1, <2>2 DEF Shown, Gone
  <2>4. SameAt(x)
    BY <1>1, SameShown
  <2>5. QED
    BY <2>3, <2>4, ShownKept
<1>6. OverlapsExcused' /\ OutletsFollow' /\ \A r \in Requests : Orderly(r)'
  BY <1>1, <1>2, <1>3, <1>4, <1>5, Ends
<1>7. NumbersAreNew' /\ PagesFollowed' /\ PathsAreUnique'
  <2>1. ~Creating(u)'
    BY <1>3 DEF Creating
  <2>2. QED
    BY <1>1, <1>3, <1>4, <2>1, PagesKept
<1>8. QED
  BY <1>1, <1>3, <1>6, <1>7 DEF RequestsInv, Types

-----------------------------------------------------------------------------
(* Every step *)

LEMMA CheckDestinationKeeps ==
  ASSUME RequestsInv, NEW u \in Requests, NEW a \in pages, NEW to \in Paths, CheckDestination(u, a, to)
  PROVE  RequestsInv'
<1> DEFINE title == MovedTitle(a, to)
           q == [step |-> "checked", kind |-> "move", id |-> a.id, path |-> a.path, to |-> to, title |-> title,
                 text |-> 0, template |-> FALSE]
<1>1. /\ a.id \in 0..MaxId /\ 0 \in 0..MaxId /\ a.path \in Paths /\ a.path # NoPath /\ to # NoPath
      /\ title \in AllTitles
  <2>1. a \in Rows /\ MaxId \in Nat
    BY Numbers DEF RequestsInv, Types
  <2>2. a.title \in AllTitles /\ Last(to) \in AllTitles
    BY <2>1 DEF Rows, AllTitles
  <2>3. title \in AllTitles
    BY <2>2 DEF MovedTitle
  <2> HIDE DEF title
  <2>4. QED
    BY <2>1, <2>3, TreeAssumption DEF Rows, NoPath
<1>7. req' = [req EXCEPT ![u] = q]
  BY DEF CheckDestination
<1> HIDE DEF title
<1>2. q \in ReqStates
  BY <1>1 DEF ReqStates, Steps, Kinds
<1>3. {q.path, q.to} \ {NoPath} = {a.path, to}
  BY <1>1
<1>4. Starts(u, q)
  BY <1>1, <1>2, <1>3, <1>7 DEF Starts, CheckDestination
<1>5. RowsAt(to) = {} /\ UNCHANGED <<pages, search, files>>
  BY DEF CheckDestination, outlets
<1>6. QED
  BY <1>1, <1>4, <1>5, LookKeeps

LEMMA FetchToDeleteKeeps ==
  ASSUME RequestsInv, NEW u \in Requests, NEW a \in pages, FetchToDelete(u, a)
  PROVE  RequestsInv'
<1> DEFINE q == [step |-> "checked", kind |-> "delete", id |-> a.id, path |-> a.path, to |-> NoPath, title |-> 0,
                 text |-> 0, template |-> FALSE]
<1>1. a.id \in 0..MaxId /\ 0 \in 0..MaxId /\ a.path \in Paths /\ a.path # NoPath
  BY TreeAssumption, Numbers DEF RequestsInv, Types, Rows, NoPath
<1>7. req' = [req EXCEPT ![u] = q]
  BY DEF FetchToDelete
<1>2. q \in ReqStates
  BY <1>1 DEF ReqStates, Steps, Kinds
<1>3. {q.path, q.to} \ {NoPath} = {a.path}
  BY <1>1
<1>4. Starts(u, q)
  BY <1>1, <1>2, <1>3, <1>7 DEF Starts, FetchToDelete
<1>5. UNCHANGED <<pages, search, files>>
  BY DEF FetchToDelete, outlets
<1>6. QED
  BY <1>1, <1>4, <1>5, LookKeeps

LEMMA SaveKeeps ==
  ASSUME RequestsInv, NEW u \in Requests, NEW a \in pages, Save(u, a)
  PROVE  RequestsInv'
<1>15. PICK title \in Titles, template \in BOOLEAN :
         /\ pages' = (pages \ {a}) \cup {[id |-> a.id, path |-> a.path, title |-> title, text |-> NextNumber,
                                         listed |-> a.listed /\ ~template]}
         /\ req' = [req EXCEPT ![u] = [step |-> "index", kind |-> "save", id |-> a.id, path |-> a.path, to |-> NoPath,
                                       title |-> title, text |-> NextNumber, template |-> template]]
  BY DEF Save
<1> DEFINE n == NextNumber
           q == [step |-> "index", kind |-> "save", id |-> a.id, path |-> a.path, to |-> NoPath,
                 title |-> title, text |-> n, template |-> template]
           row == [id |-> a.id, path |-> a.path, title |-> title, text |-> n, listed |-> a.listed /\ ~template]
<1>16. /\ req' = [req EXCEPT ![u] = q]
       /\ q.step = "index" /\ q.kind = "save" /\ q.id = a.id /\ q.path = a.path /\ q.to = NoPath
       /\ q.title = title /\ title \in AllTitles /\ q.text = n /\ q.template = template
       /\ row.id = a.id /\ row.path = a.path /\ row.text = n /\ row.listed = (a.listed /\ ~template)
  BY <1>15 DEF AllTitles
<1>1. req[u] = NoRequest /\ n \in 1..MaxId /\ n = Given + 1 /\ Given \in Nat /\ MaxId \in Nat
  <2>1. req[u] = NoRequest
    BY DEF RequestsInv, Orderly, Save
  <2>2. QED
    BY <2>1, Numbers DEF RequestsInv, NoRequest
<1>2. /\ a.id \in 1..MaxId /\ a.text \in 1..MaxId /\ a.path \in Paths /\ a.path # NoPath /\ a.listed \in BOOLEAN
      /\ a = [id |-> a.id, path |-> a.path, title |-> a.title, text |-> a.text, listed |-> a.listed]
  BY TreeAssumption DEF RequestsInv, Types, Rows, NoPath
<1>3. row \in Rows
  <2>1. (a.listed /\ ~template) \in BOOLEAN
    OBVIOUS
  <2>2. QED
    BY <1>1, <1>2, <1>16, <2>1 DEF Rows
<1>4. Starts(u, q)
  <2>1. q \in ReqStates
    BY <1>1, <1>2, <1>16 DEF ReqStates, Steps, Kinds
  <2>2. {q.path, q.to} \ {NoPath} = {a.path}
    BY <1>2
  <2>3. QED
    BY <1>2, <1>16, <2>1, <2>2 DEF Starts, Save
<1>5. /\ req' \in [Requests -> ReqStates] /\ req'[u] = q /\ \A s \in Requests \ {u} : req'[s] = req[s]
      /\ excused' \subseteq Paths /\ excused \subseteq excused' /\ UNCHANGED <<search, files>>
      /\ pages' = (pages \ {a}) \cup {row}
  <2>1. UNCHANGED <<search, files>>
    BY DEF Save, outlets
  <2>2. pages' = (pages \ {a}) \cup {row}
    BY <1>15
  <2> HIDE DEF q, row
  <2>3. /\ req' \in [Requests -> ReqStates] /\ req'[u] = q /\ \A s \in Requests \ {u} : req'[s] = req[s]
        /\ excused' \subseteq Paths
    BY <1>4, StartsEffect DEF RequestsInv
  <2>4. excused \subseteq excused'
    BY <1>4, OverlappingMeans DEF Starts
  <2>5. QED
    BY <2>1, <2>2, <2>3, <2>4
<1>6. \A b, c \in pages : b.id = c.id => b = c
  BY DEF RequestsInv, NumbersAreNew
<1>7. \A b \in pages' : \E c \in pages : c.id = b.id /\ c.path = b.path /\ (b = c \/ (b = row /\ c = a))
  BY <1>5
<1> HIDE DEF n, q, row
<1>8. Given' = Given + 1
  BY <1>1, <1>5, <1>16, NumbersGrow DEF NoRequest
<1>9. \A r \in Requests : Orderly(r)'
  <2>1. Waits(u)'
    BY <1>1, <1>2, <1>5, <1>16, TreeAssumption DEF Waits, NoPath
  <2>2. a.id \in 0..Given
    BY <1>2 DEF RequestsInv, NumbersAreNew
  <2>3. {q.id, q.text} \subseteq 0..Given'
    BY <1>1, <1>8, <1>16, <2>2
  <2>4. QED
    BY <1>4, <2>1, <2>3, StartsOrderly
<1>10. NumbersAreNew'
  <2>1. \A s \in Requests : {req[s].id, req[s].text} \subseteq 0..Given
    BY DEF RequestsInv, Orderly
  <2>2. \A b \in pages : {b.id, b.text} \subseteq 0..Given
    BY DEF RequestsInv, NumbersAreNew
  <2>3. \A b \in pages' : {b.id, b.text} \subseteq 0..Given'
    BY <1>1, <1>5, <1>8, <1>16, <2>2
  <2>4. \A b, c \in pages' : b.id = c.id => b = c
    <3>1. row.id = a.id
      BY <1>16
    <3>2. QED
      BY <1>5, <1>6, <3>1
  <2>5. ASSUME NEW r \in Requests, Creating(r)'
        PROVE  /\ \A b \in pages' : b.id # req'[r].text
               /\ \A s \in Requests \ {r} : req'[s].id # req'[r].text /\ (Creating(s)' => req'[s].text # req'[r].text)
    <3>1. r # u /\ Creating(r) /\ req'[r] = req[r]
      BY <1>5, <1>16, <2>5 DEF Creating
    <3>2. \A b \in pages : b.id # req[r].text
      BY <3>1 DEF RequestsInv, NumbersAreNew
    <3>3. \A s \in Requests \ {r} : req[s].id # req[r].text /\ (Creating(s) => req[s].text # req[r].text)
      BY <3>1 DEF RequestsInv, NumbersAreNew
    <3>4. ~Creating(u)' /\ \A s \in Requests \ {u} : Creating(s)' => Creating(s)
      BY <1>5, <1>16 DEF Creating
    <3>5. \A b \in pages' : b.id # req'[r].text
      BY <1>7, <3>1, <3>2
    <3>6. req'[u].id # req'[r].text
      BY <1>5, <1>16, <3>1, <3>2
    <3>7. \A s \in Requests \ {r, u} : req'[s].id # req'[r].text /\ (Creating(s)' => req'[s].text # req'[r].text)
      BY <1>5, <3>1, <3>3, <3>4
    <3>8. QED
      BY <3>4, <3>5, <3>6, <3>7
  <2>6. QED
    BY <2>3, <2>4, <2>5 DEF NumbersAreNew
<1>11. OutletsFollow'
  <2>1. \A x \in Paths : x \in {q.path, q.to} \/ SameAt(x)
    BY <1>5, <1>16 DEF SameAt, RowsAt
  <2>2. Excused(u)' \/ Undisturbed(u)'
    <3>1. SUFFICES ASSUME ~Excused(u)' PROVE Undisturbed(u)'
      OBVIOUS
    <3>2. Shown(a.path)
      BY <1>2, <1>4, <1>16, <3>1, StartsShown
    <3>3. RowsAt(a.path) = {a} /\ search[a.path] = Sought(a) /\ (a.listed <=> search[a.path] # 0)
      <4>1. RowsAt(a.path) = {a} /\ search[a.path] = Sought(a)
        BY <3>2, FromShown
      <4>2. QED
        BY <1>2, <4>1 DEF Sought
    <3>4. RowsAt(a.path)' = {row} /\ row \in pages'
      BY <1>5, <1>16, <3>3 DEF RowsAt
    <3>5. ~Indexed(u)' /\ req'[u].step # "title"
      BY <1>5, <1>16 DEF Indexed
    <3>6. QED
      BY <1>5, <1>16, <3>3, <3>4, <3>5 DEF Undisturbed
  <2>3. QED
    BY <1>4, <2>1, <2>2, StartsOutlets
<1>12. PagesFollowed' /\ OverlapsExcused'
  BY <1>4, <1>7, StartsFollowed, StartsOverlaps
<1>13. PathsAreUnique'
  BY <1>5, <1>6, <1>7, <1>16 DEF RequestsInv, PathsAreUnique
<1>14. QED
  BY <1>3, <1>5, <1>9, <1>10, <1>11, <1>12, <1>13 DEF RequestsInv, Types

LEMMA RequestsStep ==
  ASSUME RequestsInv, NEW u \in Requests, RequestStep(u)
  PROVE  RequestsInv'
<1>1. ASSUME NEW p \in Paths, CheckFree(u, p) PROVE RequestsInv'
  BY <1>1, CheckFreeKeeps
<1>2. ASSUME NEW a \in pages, NEW to \in Paths, CheckDestination(u, a, to) PROVE RequestsInv'
  BY <1>2, CheckDestinationKeeps
<1>3. ASSUME NEW a \in pages, FetchToDelete(u, a) PROVE RequestsInv'
  BY <1>3, FetchToDeleteKeeps
<1>4. ASSUME NEW a \in pages, Save(u, a) PROVE RequestsInv'
  BY <1>4, SaveKeeps
<1>5. CASE Insert(u)
  BY <1>5, InsertKeeps
<1>6. CASE MoveRow(u)
  BY <1>6, MoveRowKeeps
<1>7. CASE DeleteRow(u)
  BY <1>7, DeleteRowKeeps
<1>8. CASE RebuildTree(u)
  <2>1. PICK step \in {"rebuilding", "index"} : req' = [req EXCEPT ![u].step = step]
    BY <1>8 DEF RebuildTree
  <2>2. req' = [req EXCEPT ![u] = [req[u] EXCEPT !.step = step]]
    BY <2>1
  <2>3. u \in Active /\ req[u].step = "written" /\ UNCHANGED <<pages, search, files, excused>>
    BY <1>8 DEF RebuildTree, Active, outlets
  <2>4. QED
    BY <2>2, <2>3, NextStageKeeps
<1>9. CASE Rebuilt(u)
  <2>1. u \in Active /\ req[u].step = "rebuilding" /\ UNCHANGED <<pages, search, files>>
    BY <1>9 DEF Rebuilt, Active, outlets
  <2>2. CASE Goes(u, "index") /\ UNCHANGED excused
    <3>1. req' = [req EXCEPT ![u] = [req[u] EXCEPT !.step = "index"]]
      BY <2>2 DEF Goes
    <3>2. QED
      BY <2>1, <2>2, <3>1, NextStageKeeps
  <2>3. CASE Throws(u)
    BY <2>1, <2>3, ThrowsKeeps
  <2>4. QED
    BY <1>9, <2>2, <2>3 DEF Rebuilt
<1>10. CASE PageGone(u)
  BY <1>10, ThrowsKeeps DEF PageGone, Active, outlets
<1>11. CASE Index(u)
  BY <1>11, IndexKeeps
<1>12. CASE Store(u)
  BY <1>12, StoreKeeps
<1>16. CASE TargetFails(u)
  BY <1>16, TargetFailsKeeps
<1>13. CASE UpdateTitle(u)
  BY <1>13, UpdateTitleKeeps
<1>14. CASE RequestFails(u)
  BY <1>14, ThrowsKeeps DEF RequestFails, Active, outlets
<1>15. QED
  BY <1>1, <1>2, <1>3, <1>4, <1>5, <1>6, <1>7, <1>8, <1>9, <1>10, <1>11, <1>12, <1>13, <1>14, <1>16 DEF RequestStep

LEMMA RequestsUnchanged ==
  ASSUME RequestsInv, UNCHANGED <<pages, search, files, req, excused>>
  PROVE  RequestsInv'
<1>1. Given' = Given /\ Active' = Active
  BY DEF Given, NextNumber, Active
<1>2. \A r : PathsOf(r)' = PathsOf(r) /\ (Creating(r)' <=> Creating(r)) /\ (Excused(r)' <=> Excused(r))
  BY DEF PathsOf, Creating, Excused
<1>3. Types' /\ PathsAreUnique'
  BY DEF RequestsInv, Types, PathsAreUnique
<1>4. \A r \in Requests : Orderly(r)'
  BY <1>1 DEF RequestsInv, Orderly, Waits
<1>5. NumbersAreNew'
  BY <1>1, <1>2 DEF RequestsInv, NumbersAreNew
<1>6. OverlapsExcused' /\ PagesFollowed'
  BY <1>1, <1>2 DEF RequestsInv, OverlapsExcused, PagesFollowed
<1>7. OutletsFollow'
  <2>1. \A r \in Active : Undisturbed(r) => Undisturbed(r)'
    <3> SUFFICES ASSUME NEW r \in Active, Undisturbed(r) PROVE Undisturbed(r)'
      OBVIOUS
    <3>1. req[r].kind \in Kinds \ {"none"}
      BY ActiveFacts DEF Kinds
    <3>2. QED
      BY <3>1, SameShown, UndisturbedKept
  <2>2. \A p : Shown(p) => Shown(p)'
    BY SameShown, ShownKept
  <2>3. QED
    BY <1>1, <1>2, <2>1, <2>2 DEF RequestsInv, OutletsFollow
<1>8. QED
  BY <1>3, <1>4, <1>5, <1>6, <1>7 DEF RequestsInv

LEMMA BeforeDiffers ==
  ASSUME NEW p \in Seq(Nat), NEW q \in Seq(Nat), Before(p, q)
  PROVE  p # q
<1>1. CASE IsStrictPrefix(p, q)
  BY <1>1 DEF IsStrictPrefix
<1>2. CASE \E i \in 1..Len(p) : i <= Len(q) /\ p[i] < q[i]
  <2>1. PICK i \in 1..Len(p) : i <= Len(q) /\ p[i] < q[i]
    BY <1>2
  <2>2. p[i] \in Nat
    BY <2>1
  <2>3. QED
    BY <2>1, <2>2
<1>3. QED
  BY <1>1, <1>2 DEF Before

LEMMA RequestsInit ==
  ASSUME Init
  PROVE  RequestsInv
<1>1. PICK at \in [1..InitialPages -> Paths], titles \in [1..InitialPages -> InitialTitles] :
        /\ \A i, j \in 1..InitialPages : i < j => Before(at[i], at[j])
        /\ pages = {[id |-> i, path |-> at[i], title |-> titles[i], text |-> i, listed |-> TRUE] : i \in 1..InitialPages}
  BY DEF Init
<1>2. \A i, j \in 1..InitialPages : i # j => at[i] # at[j]
  <2>1. \A i \in 1..InitialPages : at[i] \in Seq(Nat)
    BY TreeAssumption
  <2>2. ASSUME NEW i \in 1..InitialPages, NEW j \in 1..InitialPages, i < j PROVE at[i] # at[j]
    BY <1>1, <2>1, <2>2, BeforeDiffers
  <2>3. QED
    BY <2>2, TreeAssumption
<1>3. \A r \in Requests : req[r] = NoRequest
  BY DEF Init
<1>4. Active = {}
  BY <1>3 DEF Active, NoRequest
<1>5. Cardinality(Requests) \in Nat /\ InitialPages \in Nat
  BY TreeAssumption, FS_CardinalityType
<1>6. Given = InitialPages /\ MaxId \in Nat /\ InitialPages <= MaxId
  <2>1. Numbered = {}
    BY <1>3 DEF Numbered, NoRequest
  <2>2. Cardinality(Numbered) = 0
    BY <2>1, FS_EmptySet
  <2>3. NextNumber = InitialPages + Cardinality(Numbered) + 1
    BY DEF NextNumber, Numbered
  <2>4. QED
    BY <1>5, <2>2, <2>3 DEF Given, MaxId
<1>7. \A a \in pages : /\ a.id \in 1..InitialPages /\ a.path = at[a.id] /\ a.text = a.id
                       /\ a = [id |-> a.id, path |-> at[a.id], title |-> titles[a.id], text |-> a.id, listed |-> TRUE]
                       /\ a.listed = TRUE /\ titles[a.id] \in AllTitles
  BY <1>1, TreeAssumption DEF AllTitles
<1>8. \A a, b \in pages : a.id = b.id \/ a.path = b.path => a = b
  <2> SUFFICES ASSUME NEW a \in pages, NEW b \in pages, a.id = b.id \/ a.path = b.path PROVE a = b
    OBVIOUS
  <2>1. a.id \in 1..InitialPages /\ b.id \in 1..InitialPages /\ a.path = at[a.id] /\ b.path = at[b.id]
    BY <1>7
  <2>2. a.id = b.id
    BY <1>2, <2>1
  <2>3. QED
    BY <1>7, <2>2
<1>9. Listed(pages) = pages /\ \A p \in Paths : search[p] = Follows(pages)[p] /\ files[p] = Follows(pages)[p]
  <2>1. Listed(pages) = pages
    BY <1>7 DEF Listed
  <2>2. QED
    BY <2>1 DEF Init
<1>10. \A p \in Paths : Shown(p) /\ search[p] \in 0..MaxId
  <2> SUFFICES ASSUME NEW p \in Paths PROVE Shown(p) /\ search[p] \in 0..MaxId
    OBVIOUS
  <2>1. CASE \E a \in pages : a.path = p
    <3> DEFINE c == CHOOSE a \in pages : a.path = p
    <3>1. c \in pages /\ c.path = p
      BY <2>1
    <3>2. search[p] = c.text /\ files[p] = c.text
      BY <1>9, <2>1 DEF Follows
    <3> HIDE DEF c
    <3>3. RowsAt(p) = {c}
      BY <1>8, <3>1 DEF RowsAt
    <3>4. QED
      BY <1>5, <1>6, <1>7, <3>1, <3>2, <3>3 DEF Shown, Gone, Sought
  <2>2. CASE ~\E a \in pages : a.path = p
    <3>1. search[p] = 0 /\ files[p] = 0
      BY <1>9, <2>2 DEF Follows
    <3>2. QED
      BY <1>6, <2>2, <3>1 DEF Shown, Gone, RowsAt
  <2>3. QED
    BY <2>1, <2>2
<1>11. Types
  <2>1. search = [p \in Paths |-> search[p]] /\ files = search /\ req = [r \in Requests |-> NoRequest] /\ excused = {}
    BY <1>9 DEF Init, Follows
  <2>2. NoRequest \in ReqStates
    BY <1>6 DEF NoRequest, ReqStates, Steps, Kinds
  <2>3. pages \subseteq Rows
    <3> SUFFICES ASSUME NEW a \in pages PROVE a \in Rows
      OBVIOUS
    <3>1. a.id \in 1..MaxId /\ at[a.id] \in Paths /\ titles[a.id] \in AllTitles
      BY <1>5, <1>6, <1>7
    <3>2. \A i \in 1..MaxId, p \in Paths, t \in AllTitles :
            [id |-> i, path |-> p, title |-> t, text |-> i, listed |-> TRUE] \in Rows
      BY DEF Rows
    <3>3. QED
      BY <1>7, <3>1, <3>2
  <2>4. search \in [Paths -> 0..MaxId]
    BY <1>10, <2>1
  <2>5. req \in [Requests -> ReqStates] /\ files \in [Paths -> 0..MaxId] /\ excused \subseteq Paths
    BY <2>1, <2>2, <2>4
  <2>6. QED
    BY <2>3, <2>4, <2>5 DEF Types
<1>12. \A r \in Requests : Orderly(r) /\ ~Creating(r)
  <2> SUFFICES ASSUME NEW r \in Requests PROVE Orderly(r) /\ ~Creating(r)
    OBVIOUS
  <2>1. req[r].step = "new" /\ req[r].id = 0 /\ req[r].text = 0
    BY <1>3 DEF NoRequest
  <2>2. 0 \in 0..Given
    BY <1>5, <1>6
  <2>3. QED
    BY <1>3, <1>4, <2>1, <2>2 DEF Orderly, Creating
<1>13. NumbersAreNew
  BY <1>6, <1>7, <1>8, <1>12 DEF NumbersAreNew
<1>14. QED
  BY <1>4, <1>8, <1>10, <1>11, <1>12, <1>13 DEF RequestsInv, OverlapsExcused, PagesFollowed, OutletsFollow, PathsAreUnique

(* The invariant: rows, index and files are, at the paths of each request,  *)
(* as it has left them so far, wherever nothing is excused (pages.js        *)
(* 250-330, 690-760, 800-830).                                              *)
THEOREM RequestsInvariant == Spec => []RequestsInv
<1>1. Init => RequestsInv
  BY RequestsInit
<1>2. RequestsInv /\ [Next]_vars => RequestsInv'
  <2>1. ASSUME RequestsInv, NEW u \in Requests, RequestStep(u) PROVE RequestsInv'
    BY <2>1, RequestsStep
  <2>2. ASSUME RequestsInv, NEW u \in Requests, JobStep(u) PROVE RequestsInv'
    BY <2>2, RequestsUnchanged DEF JobStep, Fork, ReadPages, Truncate, InsertChunk, InsertFails, JobFails, outlets
  <2>3. ASSUME RequestsInv, UNCHANGED vars PROVE RequestsInv'
    BY <2>3, RequestsUnchanged DEF vars
  <2>4. QED
    BY <2>1, <2>2, <2>3 DEF Next
<1>3. QED
  BY <1>1, <1>2, PTL DEF Spec

(* Two pages share a path only if requests for that path overlapped between *)
(* check and write (pages.js:260-264, 697-704).                             *)
THEOREM PathsUnique == Spec => []PathsAreUnique
<1>1. RequestsInv => PathsAreUnique
  BY DEF RequestsInv
<1>2. QED
  BY <1>1, RequestsInvariant, PTL

(* While no request concerns a path, the storage and the search index hold  *)
(* there the text that a create or a save gave the page, whatever requests  *)
(* about other paths do; a page that is or was a template is not in the     *)
(* index.  Excepted are paths of requests that overlapped, threw or met a   *)
(* storage target that failed (pages.js:310-328, 423-437, 729-753, 816-825; *)
(* engine.js:111-156).                                                      *)
THEOREM OutletsFollowThePages == Spec => []OutletsFollowPages
<1>1. RequestsInv => OutletsFollowPages
  <2> SUFFICES ASSUME RequestsInv, NEW p \in Paths \ excused, \A r \in Active : p \notin PathsOf(r)
               PROVE  search[p] = Follows(Listed(pages))[p] /\ files[p] = Follows(pages)[p]
    BY DEF OutletsFollowPages
  <2>1. Shown(p)
    BY DEF RequestsInv, OutletsFollow
  <2>2. CASE Gone(p)
    <3>1. Follows(Listed(pages))[p] = 0 /\ Follows(pages)[p] = 0
      BY <2>2 DEF Follows, Gone, RowsAt, Listed
    <3>2. QED
      BY <2>1, <2>2, <3>1 DEF Shown
  <2>3. CASE ~Gone(p)
    <3>1. PICK a \in pages : RowsAt(p) = {a} /\ search[p] = Sought(a) /\ files[p] = a.text
      BY <2>1, <2>3 DEF Shown
    <3>2. a.path = p /\ \A c \in pages : c.path = p => c = a
      BY <3>1 DEF RowsAt
    <3>3. Follows(pages)[p] = a.text
      <4>1. (CHOOSE c \in pages : c.path = p) = a
        BY <3>2
      <4>2. QED
        BY <3>2, <4>1 DEF Follows
    <3>4. Follows(Listed(pages))[p] = Sought(a)
      <4>1. Listed(pages) \subseteq pages /\ (a \in Listed(pages) <=> a.listed)
        BY DEF Listed
      <4> DEFINE there == Listed(pages)
      <4> HIDE DEF there
      <4>2. CASE a.listed
        <5>1. a \in there /\ \A c \in there : c.path = p => c = a
          BY <3>2, <4>1, <4>2 DEF there
        <5>2. (CHOOSE c \in there : c.path = p) = a
          BY <3>2, <5>1
        <5>3. QED
          BY <3>2, <4>2, <5>1, <5>2 DEF Follows, Sought, there
      <4>3. CASE ~a.listed
        <5>1. ~\E c \in there : c.path = p
          BY <3>2, <4>1, <4>3 DEF there
        <5>2. QED
          BY <4>3, <5>1 DEF Follows, Sought, there
      <4>4. QED
        BY <4>2, <4>3
    <3>5. QED
      BY <3>1, <3>3, <3>4
  <2>4. QED
    BY <2>2, <2>3
<1>2. QED
  BY <1>1, RequestsInvariant, PTL

-----------------------------------------------------------------------------
(* The order of the paths *)

LEMMA PrefixFacts ==
  ASSUME NEW p \in Seq(Nat), NEW d \in 0..Len(p)
  PROVE  /\ SubSeq(p, 1, d) \in Seq(Nat) /\ Len(SubSeq(p, 1, d)) = d
         /\ \A k \in 1..d : SubSeq(p, 1, d)[k] = p[k]
         /\ d = Len(p) => SubSeq(p, 1, d) = p
         /\ d = 0 <=> SubSeq(p, 1, d) = <<>>
         /\ d # 0 => Front(SubSeq(p, 1, d)) = SubSeq(p, 1, d - 1)
<1> DEFINE q == SubSeq(p, 1, d)
<1>1. Len(p) \in Nat /\ \A i \in 1..d : p[i] \in Nat
  OBVIOUS
<1>2. q \in Seq(Nat) /\ Len(q) = d /\ \A k \in 1..d : q[k] = p[k]
  BY <1>1, SubSeqProperties
<1>3. d = Len(p) => q = p
  BY SubSeqFull
<1>4. d = 0 <=> q = <<>>
  BY <1>2, EmptySeq
<1>5. ASSUME d # 0 PROVE SubSeq(q, 1, d - 1) = SubSeq(p, 1, d - 1)
  <2>1. /\ SubSeq(p, 1, d - 1) \in Seq(Nat) /\ Len(SubSeq(p, 1, d - 1)) = d - 1
        /\ \A k \in 1..(d - 1) : SubSeq(p, 1, d - 1)[k] = p[k]
    BY <1>1, <1>5, SubSeqProperties
  <2>2. /\ SubSeq(q, 1, d - 1) \in Seq(Nat) /\ Len(SubSeq(q, 1, d - 1)) = d - 1
        /\ \A k \in 1..(d - 1) : SubSeq(q, 1, d - 1)[k] = q[k]
    BY <1>2, <1>5, SubSeqProperties
  <2>3. QED
    BY <1>2, <2>1, <2>2, SeqEqual
<1>6. QED
  BY <1>2, <1>3, <1>4, <1>5 DEF Front

(* The first n names of p and q are the same. *)
Agree(p, q, n) == n <= Len(p) /\ n <= Len(q) /\ \A k \in 1..n : p[k] = q[k]
Parts(p, q, n) ==
  \/ n = Len(p) /\ Len(p) < Len(q)
  \/ n < Len(p) /\ n < Len(q) /\ p[n + 1] < q[n + 1]

LEMMA AgreeMeans ==
  ASSUME NEW p \in Seq(Nat), NEW q \in Seq(Nat), NEW n \in Nat, n <= Len(p), n <= Len(q)
  PROVE  SubSeq(p, 1, n) = SubSeq(q, 1, n) <=> Agree(p, q, n)
<1>1. /\ SubSeq(p, 1, n) \in Seq(Nat) /\ Len(SubSeq(p, 1, n)) = n /\ \A k \in 1..n : SubSeq(p, 1, n)[k] = p[k]
      /\ SubSeq(q, 1, n) \in Seq(Nat) /\ Len(SubSeq(q, 1, n)) = n /\ \A k \in 1..n : SubSeq(q, 1, n)[k] = q[k]
  <2>1. n \in 0..Len(p) /\ n \in 0..Len(q)
    OBVIOUS
  <2>2. QED
    BY <2>1, PrefixFacts
<1>2. Agree(p, q, n) => SubSeq(p, 1, n) = SubSeq(q, 1, n)
  BY <1>1, SeqEqual DEF Agree
<1>3. SubSeq(p, 1, n) = SubSeq(q, 1, n) => Agree(p, q, n)
  BY <1>1 DEF Agree
<1>4. QED
  BY <1>2, <1>3

LEMMA StrictPrefixMeans ==
  ASSUME NEW p \in Seq(Nat), NEW q \in Seq(Nat)
  PROVE  IsStrictPrefix(p, q) <=> Agree(p, q, Len(p)) /\ Len(p) < Len(q)
<1>1. Len(p) <= Len(q) => (SubSeq(p, 1, Len(p)) = SubSeq(q, 1, Len(p)) <=> Agree(p, q, Len(p)))
  BY AgreeMeans
<1>2. Len(p) = Len(q) /\ Agree(p, q, Len(p)) => p = q
  BY SeqEqual DEF Agree
<1>3. QED
  BY <1>1, <1>2 DEF IsStrictPrefix, IsPrefix, Agree

LEMMA BeforeMeans ==
  ASSUME NEW p \in Seq(Nat), NEW q \in Seq(Nat)
  PROVE  Before(p, q) <=> \E n \in Nat : Agree(p, q, n) /\ Parts(p, q, n)
<1>1. ASSUME NEW i \in 1..Len(p), i <= Len(q)
      PROVE  SubSeq(p, 1, i - 1) = SubSeq(q, 1, i - 1) <=> Agree(p, q, i - 1)
  <2>1. i - 1 \in Nat /\ i - 1 <= Len(p) /\ i - 1 <= Len(q)
    BY <1>1
  <2>2. QED
    BY <2>1, AgreeMeans
<1>2. ASSUME Before(p, q) PROVE \E n \in Nat : Agree(p, q, n) /\ Parts(p, q, n)
  <2>1. CASE IsStrictPrefix(p, q)
    BY <2>1, StrictPrefixMeans DEF Parts
  <2>2. CASE \E i \in 1..Len(p) : i <= Len(q) /\ p[i] < q[i] /\ SubSeq(p, 1, i - 1) = SubSeq(q, 1, i - 1)
    <3>1. PICK i \in 1..Len(p) : i <= Len(q) /\ p[i] < q[i] /\ SubSeq(p, 1, i - 1) = SubSeq(q, 1, i - 1)
      BY <2>2
    <3>2. Agree(p, q, i - 1) /\ i - 1 \in Nat /\ (i - 1) + 1 = i
      BY <1>1, <3>1
    <3>3. Parts(p, q, i - 1)
      BY <3>1, <3>2 DEF Parts
    <3>4. QED
      BY <3>2, <3>3
  <2>3. QED
    BY <1>2, <2>1, <2>2 DEF Before
<1>3. ASSUME NEW n \in Nat, Agree(p, q, n), Parts(p, q, n) PROVE Before(p, q)
  <2>1. CASE n = Len(p) /\ Len(p) < Len(q)
    BY <1>3, <2>1, StrictPrefixMeans DEF Before
  <2>2. CASE n < Len(p) /\ n < Len(q) /\ p[n + 1] < q[n + 1]
    <3>1. n + 1 \in 1..Len(p) /\ n + 1 <= Len(q) /\ (n + 1) - 1 = n
      BY <2>2
    <3>2. SubSeq(p, 1, n) = SubSeq(q, 1, n)
      BY <1>1, <1>3, <3>1
    <3>3. QED
      BY <2>2, <3>1, <3>2 DEF Before
  <2>3. QED
    BY <1>3, <2>1, <2>2 DEF Parts
<1>4. QED
  BY <1>2, <1>3

LEMMA BeforeTransitive ==
  ASSUME NEW p \in Seq(Nat), NEW q \in Seq(Nat), NEW r \in Seq(Nat), Before(p, q), Before(q, r)
  PROVE  Before(p, r)
<1>1. PICK m \in Nat : Agree(p, q, m) /\ Parts(p, q, m)
  BY BeforeMeans
<1>2. PICK n \in Nat : Agree(q, r, n) /\ Parts(q, r, n)
  BY BeforeMeans
<1>3. /\ \A i \in 1..Len(p) : p[i] \in Nat
      /\ \A i \in 1..Len(q) : q[i] \in Nat
      /\ \A i \in 1..Len(r) : r[i] \in Nat
      /\ Len(p) \in Nat /\ Len(q) \in Nat /\ Len(r) \in Nat
  OBVIOUS
<1>4. CASE m <= n
  <2>1. Agree(p, r, m)
    BY <1>1, <1>2, <1>3, <1>4 DEF Agree
  <2>2. Parts(p, r, m)
    <3>1. m < n => m + 1 \in 1..n /\ q[m + 1] = r[m + 1]
      BY <1>2, <1>4 DEF Agree
    <3>2. CASE m < n
      BY <1>1, <1>2, <1>3, <3>1, <3>2 DEF Agree, Parts
    <3>3. CASE m = n
      BY <1>1, <1>2, <1>3, <3>3 DEF Agree, Parts
    <3>4. QED
      BY <1>4, <3>2, <3>3
  <2>3. QED
    BY <2>1, <2>2, BeforeMeans
<1>5. CASE n < m
  <2>1. Agree(p, r, n)
    BY <1>1, <1>2, <1>3, <1>5 DEF Agree
  <2>2. Parts(p, r, n)
    <3>1. n + 1 \in 1..m /\ p[n + 1] = q[n + 1]
      BY <1>1, <1>5 DEF Agree
    <3>2. QED
      BY <1>1, <1>2, <1>3, <1>5, <3>1 DEF Agree, Parts
  <2>3. QED
    BY <2>1, <2>2, BeforeMeans
<1>6. QED
  BY <1>4, <1>5

LEMMA BeforeTotal ==
  ASSUME NEW p \in Seq(Nat), NEW q \in Seq(Nat), p # q
  PROVE  Before(p, q) \/ Before(q, p)
<1> DEFINE Apart == {k \in Nat : k + 1 <= Len(p) /\ k + 1 <= Len(q) /\ p[k + 1] # q[k + 1]}
<1>1. /\ \A i \in 1..Len(p) : p[i] \in Nat
      /\ \A i \in 1..Len(q) : q[i] \in Nat
      /\ Len(p) \in Nat /\ Len(q) \in Nat
  OBVIOUS
<1>2. CASE Apart = {}
  <2>1. \A k \in Nat : k + 1 <= Len(p) /\ k + 1 <= Len(q) => p[k + 1] = q[k + 1]
    BY <1>2
  <2>2. \A i \in Nat \ {0} : i <= Len(p) /\ i <= Len(q) => p[i] = q[i]
    <3> SUFFICES ASSUME NEW i \in Nat \ {0}, i <= Len(p), i <= Len(q) PROVE p[i] = q[i]
      OBVIOUS
    <3>1. i - 1 \in Nat /\ (i - 1) + 1 = i
      OBVIOUS
    <3>2. QED
      BY <2>1, <3>1
  <2>3. Len(p) # Len(q)
    BY <1>1, <2>2, SeqEqual
  <2>4. CASE Len(p) < Len(q)
    <3>1. Agree(p, q, Len(p)) /\ Parts(p, q, Len(p))
      BY <1>1, <2>2, <2>4 DEF Agree, Parts
    <3>2. QED
      BY <1>1, <3>1, BeforeMeans
  <2>5. CASE Len(q) < Len(p)
    <3>1. Agree(q, p, Len(q)) /\ Parts(q, p, Len(q))
      BY <1>1, <2>2, <2>5 DEF Agree, Parts
    <3>2. QED
      BY <1>1, <3>1, BeforeMeans
  <2>6. QED
    BY <1>1, <2>3, <2>4, <2>5
<1>3. CASE Apart # {}
  <2>1. PICK n \in Apart : \A k \in Apart : ~(<<k, n>> \in OpToRel(<, Nat))
    <3>1. Apart \subseteq Nat
      OBVIOUS
    <3> HIDE DEF Apart
    <3>2. QED
      BY <1>3, <3>1, WFMin, NatLessThanWellFounded
  <2>2. \A k \in Nat : k < n => k \notin Apart
    BY <2>1 DEF OpToRel
  <2>3. n \in Nat /\ n + 1 <= Len(p) /\ n + 1 <= Len(q) /\ p[n + 1] # q[n + 1]
    OBVIOUS
  <2>4. \A i \in 1..n : p[i] = q[i]
    <3> SUFFICES ASSUME NEW i \in 1..n PROVE p[i] = q[i]
      OBVIOUS
    <3>1. i - 1 \in Nat /\ i - 1 < n /\ (i - 1) + 1 = i
      BY <2>3
    <3>2. i - 1 \notin Apart
      BY <2>2, <3>1
    <3>3. i <= Len(p) /\ i <= Len(q) /\ i \in 1..Len(p)
      BY <1>1, <2>3
    <3>4. QED
      BY <3>1, <3>2, <3>3
  <2>5. Agree(p, q, n) /\ Agree(q, p, n)
    BY <1>1, <2>3, <2>4 DEF Agree
  <2>6. p[n + 1] \in Nat /\ q[n + 1] \in Nat
    BY <1>1, <2>3
  <2>7. Parts(p, q, n) \/ Parts(q, p, n)
    BY <1>1, <2>3, <2>6 DEF Parts
  <2>8. QED
    BY <2>3, <2>5, <2>7, BeforeMeans
<1>4. QED
  BY <1>2, <1>3

-----------------------------------------------------------------------------
(* The rows in the order of their paths *)

AnyRows == [id : Nat, path : Seq(Nat) \ {<<>>}, title : Nat, text : Nat, listed : BOOLEAN]
Table(rows) == IsFiniteSet(rows) /\ rows \subseteq AnyRows /\ \A a, b \in rows : a.id = b.id => a = b

LEMMA RowOrder ==
  ASSUME NEW rows, Table(rows)
  PROVE  /\ \A a \in rows : ~RowBefore(a, a)
         /\ \A a, b, c \in rows : RowBefore(a, b) /\ RowBefore(b, c) => RowBefore(a, c)
         /\ \A a, b \in rows : a # b => RowBefore(a, b) \/ RowBefore(b, a)
<1>1. \A a \in rows : a.path \in Seq(Nat) /\ a.id \in Nat
  BY DEF Table, AnyRows
<1>2. \A a \in rows : ~RowBefore(a, a)
  BY <1>1, BeforeDiffers DEF RowBefore
<1>3. \A a, b, c \in rows : RowBefore(a, b) /\ RowBefore(b, c) => RowBefore(a, c)
  <2> SUFFICES ASSUME NEW a \in rows, NEW b \in rows, NEW c \in rows, RowBefore(a, b), RowBefore(b, c)
               PROVE  RowBefore(a, c)
    OBVIOUS
  <2>1. Before(a.path, b.path) /\ Before(b.path, c.path) => Before(a.path, c.path)
    BY <1>1, BeforeTransitive
  <2>2. QED
    BY <1>1, <2>1 DEF RowBefore
<1>4. \A a, b \in rows : a # b => RowBefore(a, b) \/ RowBefore(b, a)
  <2> SUFFICES ASSUME NEW a \in rows, NEW b \in rows, a # b PROVE RowBefore(a, b) \/ RowBefore(b, a)
    OBVIOUS
  <2>1. a.id # b.id
    BY DEF Table
  <2>2. a.path # b.path => Before(a.path, b.path) \/ Before(b.path, a.path)
    BY <1>1, BeforeTotal
  <2>3. QED
    BY <1>1, <2>1, <2>2 DEF RowBefore
<1>5. QED
  BY <1>2, <1>3, <1>4

(* Each row has as many rows before it as its number in the order says.     *)
LEMMA OrderByPathMeans ==
  ASSUME NEW rows, Table(rows)
  PROVE  LET o == OrderByPath(rows)
             N == Cardinality(rows)
         IN  /\ N \in Nat /\ o \in Seq(rows) /\ Len(o) = N
             /\ {o[i] : i \in 1..N} = rows
             /\ \A i, j \in 1..N : i < j => ~IsStrictPrefix(o[j].path, o[i].path)
<1> DEFINE N == Cardinality(rows)
           Earlier(a) == {b \in rows : RowBefore(b, a)}
           rank == [a \in rows |-> Cardinality(Earlier(a)) + 1]
           o == OrderByPath(rows)
<1>1. IsFiniteSet(rows) /\ N \in Nat
  BY FS_CardinalityType DEF Table
<1>2. /\ \A a \in rows : ~RowBefore(a, a)
      /\ \A a, b, c \in rows : RowBefore(a, b) /\ RowBefore(b, c) => RowBefore(a, c)
      /\ \A a, b \in rows : a # b => RowBefore(a, b) \/ RowBefore(b, a)
  BY RowOrder
<1>3. \A a \in rows : Earlier(a) \in SUBSET rows /\ a \notin Earlier(a)
  BY <1>2
<1>4. \A a, b \in rows : RowBefore(a, b) => Earlier(a) \in SUBSET Earlier(b) /\ a \in Earlier(b)
  BY <1>2
<1> HIDE DEF Earlier
<1>5. \A a \in rows : /\ IsFiniteSet(Earlier(a)) /\ Cardinality(Earlier(a)) \in Nat
                      /\ Cardinality(Earlier(a)) < N
  <2> SUFFICES ASSUME NEW a \in rows
               PROVE  IsFiniteSet(Earlier(a)) /\ Cardinality(Earlier(a)) \in Nat /\ Cardinality(Earlier(a)) < N
    OBVIOUS
  <2>1. IsFiniteSet(Earlier(a)) /\ Cardinality(Earlier(a)) <= N /\ (N = Cardinality(Earlier(a)) => rows = Earlier(a))
    BY <1>1, <1>3, FS_Subset
  <2>2. Cardinality(Earlier(a)) \in Nat
    BY <2>1, FS_CardinalityType
  <2>3. QED
    BY <1>1, <1>3, <2>1, <2>2
<1>6. \A a, b \in rows : RowBefore(a, b) => rank[a] < rank[b]
  <2> SUFFICES ASSUME NEW a \in rows, NEW b \in rows, RowBefore(a, b)
               PROVE  Cardinality(Earlier(a)) < Cardinality(Earlier(b))
    BY <1>5
  <2>1. /\ Cardinality(Earlier(a)) <= Cardinality(Earlier(b))
        /\ (Cardinality(Earlier(b)) = Cardinality(Earlier(a)) => Earlier(b) = Earlier(a))
    BY <1>4, <1>5, FS_Subset
  <2>2. QED
    BY <1>3, <1>4, <1>5, <2>1
<1>7. rank \in [rows -> 1..N]
  BY <1>1, <1>5
<1> HIDE DEF rank
<1>8. \A a, b \in rows : rank[a] = rank[b] => a = b
  BY <1>2, <1>6, <1>7
<1>9. \A i \in 1..N : \E a \in rows : rank[a] = i
  <2>1. rank \in Injection(rows, 1..N)
    BY <1>7, <1>8 DEF Injection, IsInjective
  <2>2. IsFiniteSet(1..N) /\ Cardinality(1..N) = N
    BY <1>1, FS_Interval
  <2>3. rank \in Surjection(rows, 1..N)
    BY <2>1, <2>2, FS_Injection
  <2>4. QED
    BY <2>3 DEF Surjection
<1>10. \A i \in 1..N : o[i] \in rows /\ rank[o[i]] = i
  <2> SUFFICES ASSUME NEW i \in 1..N PROVE o[i] \in rows /\ rank[o[i]] = i
    OBVIOUS
  <2>1. o[i] = CHOOSE a \in rows : Cardinality(Earlier(a)) = i - 1
    BY DEF OrderByPath, Earlier
  <2>2. \E a \in rows : Cardinality(Earlier(a)) = i - 1
    BY <1>5, <1>9 DEF rank
  <2>3. o[i] \in rows /\ Cardinality(Earlier(o[i])) = i - 1
    BY <2>1, <2>2
  <2>4. QED
    BY <2>3 DEF rank
<1>11. o \in [1..N -> rows]
  <2>1. DOMAIN o = 1..N /\ o = [i \in 1..N |-> o[i]]
    BY DEF OrderByPath
  <2>2. QED
    BY <1>10, <2>1
<1>12. o \in Seq(rows) /\ Len(o) = N
  BY <1>1, <1>11
<1>13. \A a \in rows : o[rank[a]] = a
  BY <1>7, <1>8, <1>10
<1>14. {o[i] : i \in 1..N} = rows
  BY <1>7, <1>10, <1>13
<1>15. ASSUME NEW i \in 1..N, NEW j \in 1..N, i < j, IsStrictPrefix(o[j].path, o[i].path)
       PROVE  FALSE
  <2>1. o[i] \in rows /\ o[j] \in rows /\ rank[o[i]] = i /\ rank[o[j]] = j
    BY <1>10
  <2>2. RowBefore(o[j], o[i])
    BY <1>15 DEF RowBefore, Before
  <2>3. rank[o[j]] < rank[o[i]]
    BY <1>6, <2>1, <2>2
  <2>4. QED
    BY <1>15, <2>1, <2>3
<1>16. QED
  BY <1>1, <1>12, <1>14, <1>15

-----------------------------------------------------------------------------
(* Adding a part of a path *)

Entries ==
  [id : Nat, path : Seq(Nat), isFolder : BOOLEAN, title : Nat, pageId : Nat, parent : Nat, ancestors : Seq(Nat)]
PartStates == [tree : Seq(Entries), parent : Nat, ancestors : Seq(Nat)]

(* The parent and the ancestors of an entry in the folder at q              *)
AtPart(t, parent, ancestors, q) ==
  IF q = <<>> THEN parent = 0 /\ ancestors = <<>>
  ELSE \E j \in 1..Len(t) : t[j].path = q /\ parent = j /\ ancestors = Append(t[j].ancestors, j)

Names(e, R) ==
  IF \E a \in R : a.path = e.path
  THEN \E a \in R : a.path = e.path /\ e.pageId = a.id /\ e.title = a.title
  ELSE e.pageId = 0 /\ e.title = 0

(* The entries t are those of the paths P, of which F are folders and R are *)
(* the pages.                                                               *)
Holds(t, P, F, R) ==
  /\ t \in Seq(Entries)
  /\ \A i \in 1..Len(t) : t[i].path \in P
  /\ \A q \in P : \E i \in 1..Len(t) : t[i].path = q
  /\ \A i, j \in 1..Len(t) : t[i].path = t[j].path => i = j
  /\ \A i \in 1..Len(t) :
       /\ t[i].id = i /\ t[i].parent < i
       /\ t[i].isFolder <=> t[i].path \in F
       /\ Names(t[i], R)
       /\ AtPart(t, t[i].parent, t[i].ancestors, Front(t[i].path))
  /\ F \subseteq P /\ \A a \in R : a.path \in P

LEMMA AddPartTypes ==
  ASSUME NEW s \in PartStates, NEW page \in AnyRows, NEW depth \in 1..Len(page.path)
  PROVE  AddPart(s, page, depth) \in PartStates
<1> DEFINE t == s.tree
           path == SubSeq(page.path, 1, depth)
           folder == depth < Len(page.path)
           found == {i \in DOMAIN t : t[i].path = path}
           id == IF found = {} THEN Len(t) + 1 ELSE CHOOSE i \in found : TRUE
           entry == [id |-> id, path |-> path, isFolder |-> folder, title |-> IF folder THEN 0 ELSE page.title,
                     pageId |-> IF folder THEN 0 ELSE page.id, parent |-> s.parent, ancestors |-> s.ancestors]
           new == IF found = {} THEN Append(t, entry) ELSE [t EXCEPT ![id].isFolder = @ \/ folder]
<1>1. t \in Seq(Entries) /\ s.parent \in Nat /\ s.ancestors \in Seq(Nat) /\ Len(t) \in Nat /\ DOMAIN t = 1..Len(t)
  BY DEF PartStates
<1>2. page.path \in Seq(Nat) /\ page.id \in Nat /\ page.title \in Nat /\ path \in Seq(Nat)
  <2>1. page.path \in Seq(Nat) /\ page.id \in Nat /\ page.title \in Nat
    BY DEF AnyRows
  <2>2. depth \in 0..Len(page.path)
    OBVIOUS
  <2>3. QED
    BY <2>1, <2>2, PrefixFacts
<1>3. AddPart(s, page, depth) = [tree |-> new, parent |-> id, ancestors |-> Append(s.ancestors, id)]
  BY DEF AddPart
<1>4. id \in Nat /\ (found # {} => id \in 1..Len(t) /\ id \in found)
  <2>1. found \subseteq 1..Len(t)
    BY <1>1
  <2>2. (found # {} => id \in found) /\ (found = {} => id = Len(t) + 1)
    OBVIOUS
  <2>3. Len(t) \in Nat
    BY <1>1
  <2> HIDE DEF t, path, found, id, entry, new
  <2>4. CASE found = {}
    BY <2>2, <2>3, <2>4
  <2>5. CASE found # {}
    <3>1. id \in found
      BY <2>2, <2>5
    <3>2. id \in 1..Len(t)
      BY <2>1, <3>1
    <3>3. id \in Nat
      BY <2>3, <3>2
    <3>4. QED
      BY <3>1, <3>2, <3>3
  <2>6. QED
    BY <2>4, <2>5
<1> HIDE DEF found, id, path
<1>5. new \in Seq(Entries)
  <2>1. CASE found = {}
    <3>1. entry \in Entries
      BY <1>1, <1>2, <1>4 DEF Entries
    <3> HIDE DEF entry
    <3>2. QED
      BY <1>1, <2>1, <3>1, AppendProperties
  <2>2. CASE found # {}
    <3> DEFINE v == t[id].isFolder \/ folder
    <3>1. new = [t EXCEPT ![id] = [t[id] EXCEPT !.isFolder = v]] /\ v \in BOOLEAN
      BY <2>2
    <3> HIDE DEF v, new
    <3>2. t[id] \in Entries
      BY <1>1, <1>4, <2>2
    <3>3. [t[id] EXCEPT !.isFolder = v] \in Entries
      BY <3>1, <3>2 DEF Entries
    <3>4. QED
      BY <1>1, <1>4, <2>2, <3>1, <3>3, ExceptSeq
  <2>3. QED
    BY <2>1, <2>2
<1> HIDE DEF new
<1>6. Append(s.ancestors, id) \in Seq(Nat)
  BY <1>1, <1>4
<1>7. QED
  BY <1>3, <1>4, <1>5, <1>6 DEF PartStates

(* Entries that only become folders stay where they are.                    *)
LEMMA AtPartKept ==
  ASSUME NEW t, NEW u, NEW parent, NEW ancestors, NEW q,
         Len(t) \in Nat, Len(u) \in Nat, Len(t) <= Len(u),
         \A i \in 1..Len(t) : u[i].path = t[i].path /\ u[i].ancestors = t[i].ancestors,
         AtPart(t, parent, ancestors, q)
  PROVE  AtPart(u, parent, ancestors, q)
BY DEF AtPart

LEMMA AddPartHolds ==
  ASSUME NEW s \in PartStates, NEW page \in AnyRows, NEW depth \in 1..Len(page.path),
         NEW P, NEW F, NEW R, Holds(s.tree, P, F, R),
         AtPart(s.tree, s.parent, s.ancestors, SubSeq(page.path, 1, depth - 1)),
         depth = Len(page.path) /\ page.path \in P => \E a \in R : a.path = page.path
  PROVE  LET n == AddPart(s, page, depth)
             q == SubSeq(page.path, 1, depth)
             folder == depth < Len(page.path)
         IN  /\ Holds(n.tree, P \cup {q}, IF folder THEN F \cup {q} ELSE F, IF folder THEN R ELSE R \cup {page})
             /\ AtPart(n.tree, n.parent, n.ancestors, q)
<1> DEFINE t == s.tree
           n == AddPart(s, page, depth)
           path == SubSeq(page.path, 1, depth)
           folder == depth < Len(page.path)
           found == {i \in DOMAIN t : t[i].path = path}
           id == IF found = {} THEN Len(t) + 1 ELSE CHOOSE i \in found : TRUE
           entry == [id |-> id, path |-> path, isFolder |-> folder, title |-> IF folder THEN 0 ELSE page.title,
                     pageId |-> IF folder THEN 0 ELSE page.id, parent |-> s.parent, ancestors |-> s.ancestors]
           P1 == P \cup {path}
           F1 == IF folder THEN F \cup {path} ELSE F
           R1 == IF folder THEN R ELSE R \cup {page}
<1>1. t \in Seq(Entries) /\ s.parent \in Nat /\ s.ancestors \in Seq(Nat) /\ Len(t) \in Nat /\ DOMAIN t = 1..Len(t)
  BY DEF PartStates
<1>2. /\ page.path \in Seq(Nat) /\ Len(page.path) \in Nat /\ path \in Seq(Nat) /\ path # <<>>
      /\ Front(path) = SubSeq(page.path, 1, depth - 1)
      /\ ~folder => path = page.path
      /\ folder => path # page.path
  <2>1. page.path \in Seq(Nat) /\ depth \in 0..Len(page.path) /\ depth # 0
    BY DEF AnyRows
  <2>2. /\ Len(path) = depth /\ path \in Seq(Nat) /\ path # <<>>
        /\ Front(path) = SubSeq(page.path, 1, depth - 1)
        /\ depth = Len(page.path) => path = page.path
    BY <2>1, PrefixFacts
  <2> HIDE DEF path
  <2>3. QED
    BY <2>1, <2>2
<1>3. /\ n.tree = IF found = {} THEN Append(t, entry) ELSE [t EXCEPT ![id].isFolder = @ \/ folder]
      /\ n.parent = id /\ n.ancestors = Append(s.ancestors, id)
  BY DEF AddPart
<1>4. n.tree \in Seq(Entries)
  BY AddPartTypes DEF PartStates
<1>5. found \subseteq 1..Len(t) /\ (\A i \in found : t[i].path = path) /\ (\A i \in 1..Len(t) : t[i].path = path => i \in found)
  BY <1>1
<1>6. found # {} => id \in found
  OBVIOUS
<1>7. found = {} => id = Len(t) + 1
  OBVIOUS
<1>8. /\ \A i \in 1..Len(t) : /\ t[i].path \in P /\ t[i].id = i /\ t[i].parent < i /\ (t[i].isFolder <=> t[i].path \in F)
                              /\ Names(t[i], R) /\ AtPart(t, t[i].parent, t[i].ancestors, Front(t[i].path))
                              /\ t[i].parent \in Nat /\ t[i] \in Entries /\ t[i].isFolder \in BOOLEAN
      /\ \A x \in P : \E i \in 1..Len(t) : t[i].path = x
      /\ \A i, j \in 1..Len(t) : t[i].path = t[j].path => i = j
      /\ F \subseteq P /\ \A a \in R : a.path \in P
  <2>1. Holds(t, P, F, R)
    OBVIOUS
  <2>2. \A i \in 1..Len(t) : t[i] \in Entries
    BY <1>1
  <2>3. \A i \in 1..Len(t) : t[i].parent \in Nat /\ t[i].isFolder \in BOOLEAN
    BY <2>2 DEF Entries
  <2> HIDE DEF t
  <2>4. QED
    BY <2>1, <2>2, <2>3 DEF Holds
<1>9. (path \in P <=> found # {}) /\ AtPart(t, s.parent, s.ancestors, Front(path))
  <2>1. AtPart(t, s.parent, s.ancestors, SubSeq(page.path, 1, depth - 1))
    OBVIOUS
  <2>2. path \in P => \E i \in 1..Len(t) : t[i].path = path
    BY <1>8
  <2>3. \A i \in 1..Len(t) : t[i].path \in P
    BY <1>8
  <2> HIDE DEF n, path, found, id, t, entry, P1, F1, R1
  <2>4. path \in P <=> found # {}
    BY <1>5, <2>2, <2>3
  <2>5. QED
    BY <1>2, <2>1, <2>4
<1> HIDE DEF n, path, found, id
<1>10. CASE found = {}
  <2>1. /\ Len(n.tree) = Len(t) + 1 /\ n.tree[Len(t) + 1] = entry /\ id = Len(t) + 1
        /\ \A i \in 1..Len(t) : n.tree[i] = t[i]
    <3>1. n.tree = Append(t, entry)
      BY <1>3, <1>10
    <3> HIDE DEF entry
    <3>2. QED
      BY <1>1, <1>7, <1>10, <3>1
  <2>2. s.parent < id /\ path \notin P
    <3>1. path \notin P /\ id = Len(t) + 1 /\ AtPart(t, s.parent, s.ancestors, Front(path))
      BY <1>9, <1>10, <2>1
    <3>2. Front(path) = <<>> => s.parent = 0
      BY <3>1 DEF AtPart
    <3>3. Front(path) # <<>> => s.parent \in 1..Len(t)
      BY <3>1 DEF AtPart
    <3> HIDE DEF t, entry
    <3>4. s.parent < id
      BY <1>1, <3>1, <3>2, <3>3
    <3>5. QED
      BY <3>1, <3>4
  <2>3. \A i \in 1..Len(t) : Names(n.tree[i], R1)
    <3> SUFFICES ASSUME NEW i \in 1..Len(t) PROVE Names(t[i], R1)
      BY <2>1
    <3>1. Names(t[i], R) /\ t[i].path # path
      BY <1>8, <2>2
    <3>2. CASE folder
      BY <3>1, <3>2
    <3>3. CASE ~folder
      <4>1. page.path # t[i].path
        BY <1>2, <3>1, <3>3
      <4>2. QED
        BY <3>1, <3>3, <4>1 DEF Names
    <3>4. QED
      BY <3>2, <3>3
  <2>4. Names(entry, R1)
    <3>1. entry.path = path /\ \A a \in R : a.path # path
      BY <1>8, <2>2
    <3>2. CASE folder
      BY <3>1, <3>2 DEF Names
    <3>3. CASE ~folder
      BY <1>2, <3>1, <3>3 DEF Names
    <3>4. QED
      BY <3>2, <3>3
  <2>5. \A x, y, z : AtPart(t, x, y, z) => AtPart(n.tree, x, y, z)
    <3> SUFFICES ASSUME NEW x, NEW y, NEW z, AtPart(t, x, y, z) PROVE AtPart(n.tree, x, y, z)
      OBVIOUS
    <3>1. Len(n.tree) \in Nat /\ Len(t) <= Len(n.tree)
      BY <1>1, <2>1
    <3>2. \A i \in 1..Len(t) : n.tree[i].path = t[i].path /\ n.tree[i].ancestors = t[i].ancestors
      BY <2>1
    <3>3. QED
      BY <1>1, <3>1, <3>2, AtPartKept
  <2>6. /\ entry.path = path /\ entry.id = Len(t) + 1 /\ entry.parent < Len(t) + 1
        /\ (entry.isFolder <=> path \in F1) /\ AtPart(n.tree, entry.parent, entry.ancestors, Front(entry.path))
        /\ entry.parent = s.parent /\ entry.ancestors = s.ancestors
    <3>1. /\ entry.path = path /\ entry.id = id /\ entry.parent = s.parent /\ entry.ancestors = s.ancestors
          /\ entry.isFolder = folder
      OBVIOUS
    <3>2. folder <=> path \in F1
      BY <1>8, <2>2
    <3>3. AtPart(n.tree, s.parent, s.ancestors, Front(path))
      BY <1>2, <2>5
    <3> HIDE DEF entry, F1, folder
    <3>4. QED
      BY <2>1, <2>2, <3>1, <3>2, <3>3
  <2> HIDE DEF entry
  <2>7. \A i \in 1..Len(n.tree) : i \in 1..Len(t) \/ i = Len(t) + 1
    BY <1>1, <2>1
  <2>8. Holds(n.tree, P1, F1, R1)
    <3>1. \A i \in 1..Len(n.tree) : n.tree[i].path \in P1
      BY <1>8, <2>1, <2>6, <2>7
    <3>2. \A x \in P1 : \E i \in 1..Len(n.tree) : n.tree[i].path = x
      <4>1. Len(t) + 1 \in 1..Len(n.tree) /\ \A i \in 1..Len(t) : i \in 1..Len(n.tree)
        BY <1>1, <2>1
      <4>2. QED
        BY <1>8, <2>1, <2>6, <4>1
    <3>3. \A i, j \in 1..Len(n.tree) : n.tree[i].path = n.tree[j].path => i = j
      <4> SUFFICES ASSUME NEW i \in 1..Len(n.tree), NEW j \in 1..Len(n.tree), n.tree[i].path = n.tree[j].path
                   PROVE  i = j
        OBVIOUS
      <4>1. \A k \in 1..Len(t) : n.tree[k].path = t[k].path /\ t[k].path \in P
        BY <1>8, <2>1
      <4>2. n.tree[Len(t) + 1].path = path
        BY <2>1, <2>6
      <4>3. CASE i \in 1..Len(t) /\ j \in 1..Len(t)
        BY <1>8, <4>1, <4>3
      <4>4. CASE i = Len(t) + 1 \/ j = Len(t) + 1
        BY <2>2, <2>7, <4>1, <4>2, <4>4
      <4>5. QED
        BY <2>7, <4>3, <4>4
    <3>4. ASSUME NEW i \in 1..Len(n.tree)
          PROVE  /\ n.tree[i].id = i /\ n.tree[i].parent < i
                 /\ n.tree[i].isFolder <=> n.tree[i].path \in F1
                 /\ Names(n.tree[i], R1)
                 /\ AtPart(n.tree, n.tree[i].parent, n.tree[i].ancestors, Front(n.tree[i].path))
      <4>1. CASE i \in 1..Len(t)
        <5>1. t[i].path # path
          BY <1>8, <2>2, <4>1
        <5>2. QED
          BY <1>8, <2>1, <2>3, <2>5, <4>1, <5>1
      <4>2. CASE i = Len(t) + 1
        BY <2>1, <2>4, <2>6, <4>2
      <4>3. QED
        BY <2>7, <4>1, <4>2
    <3>5. F1 \subseteq P1 /\ \A a \in R1 : a.path \in P1
      BY <1>2, <1>8
    <3> HIDE DEF P1, F1, R1
    <3>6. QED
      BY <1>4, <3>1, <3>2, <3>3, <3>4, <3>5 DEF Holds
  <2>9. AtPart(n.tree, n.parent, n.ancestors, path)
    <3>1. Len(t) + 1 \in 1..Len(n.tree)
      BY <1>1, <2>1
    <3>2. QED
      BY <1>2, <1>3, <2>1, <2>6, <3>1 DEF AtPart
  <2>10. QED
    BY <2>8, <2>9 DEF n, path
<1>11. CASE found # {}
  <2>1. id \in 1..Len(t) /\ t[id].path = path /\ path \in P
    BY <1>5, <1>6, <1>9, <1>11
  <2> DEFINE v == t[id].isFolder \/ folder
  <2> HIDE DEF v
  <2>2. /\ Len(n.tree) = Len(t)
        /\ \A i \in 1..Len(t) : i # id => n.tree[i] = t[i]
        /\ n.tree[id] = [t[id] EXCEPT !.isFolder = v] /\ v \in BOOLEAN
    <3>1. n.tree = [t EXCEPT ![id] = [t[id] EXCEPT !.isFolder = v]] /\ v \in BOOLEAN
      BY <1>3, <1>11 DEF v
    <3> DEFINE e == [t[id] EXCEPT !.isFolder = v]
    <3>2. e \in Entries
      <4>1. t[id] \in Entries
        BY <1>8, <2>1
      <4> HIDE DEF t
      <4>2. QED
        BY <3>1, <4>1 DEF Entries
    <3> HIDE DEF e
    <3>3. n.tree = [t EXCEPT ![id] = e]
      BY <3>1 DEF e
    <3>4. QED
      BY <1>1, <2>1, <3>1, <3>2, <3>3, ExceptSeq DEF e
  <2>3. \A i \in 1..Len(t) : /\ n.tree[i].path = t[i].path /\ n.tree[i].id = t[i].id /\ n.tree[i].parent = t[i].parent
                             /\ n.tree[i].ancestors = t[i].ancestors /\ n.tree[i].pageId = t[i].pageId
                             /\ n.tree[i].title = t[i].title
                             /\ (n.tree[i].isFolder <=> t[i].isFolder \/ (i = id /\ folder))
    <3> SUFFICES ASSUME NEW i \in 1..Len(t)
                 PROVE  /\ n.tree[i].path = t[i].path /\ n.tree[i].id = t[i].id /\ n.tree[i].parent = t[i].parent
                        /\ n.tree[i].ancestors = t[i].ancestors /\ n.tree[i].pageId = t[i].pageId
                        /\ n.tree[i].title = t[i].title
                        /\ (n.tree[i].isFolder <=> t[i].isFolder \/ (i = id /\ folder))
      OBVIOUS
    <3>1. CASE i # id
      BY <2>2, <3>1
    <3>2. CASE i = id
      <4>1. t[id] \in Entries
        BY <1>8, <2>1
      <4>2. /\ n.tree[id].path = t[id].path /\ n.tree[id].id = t[id].id /\ n.tree[id].parent = t[id].parent
            /\ n.tree[id].ancestors = t[id].ancestors /\ n.tree[id].pageId = t[id].pageId
            /\ n.tree[id].title = t[id].title /\ n.tree[id].isFolder = v
        BY <2>2, <4>1 DEF Entries
      <4>3. QED
        BY <3>2, <4>2 DEF v
    <3>3. QED
      BY <3>1, <3>2
  <2>4. \A i \in 1..Len(t) : i = id <=> t[i].path = path
    BY <1>8, <2>1
  <2>5. \A i \in 1..Len(t) : Names(n.tree[i], R1)
    <3> SUFFICES ASSUME NEW i \in 1..Len(t) PROVE Names(n.tree[i], R1)
      OBVIOUS
    <3>1. Names(t[i], R)
      BY <1>8
    <3>2. Names(t[i], R1)
      <4>1. CASE folder
        BY <3>1, <4>1
      <4>2. CASE ~folder
        <5>1. \E a \in R : a.path = page.path
          BY <1>2, <2>1, <4>2
        <5>2. CASE t[i].path = page.path
          BY <3>1, <4>2, <5>1, <5>2 DEF Names
        <5>3. CASE t[i].path # page.path
          BY <3>1, <4>2, <5>3 DEF Names
        <5>4. QED
          BY <5>2, <5>3
      <4>3. QED
        BY <4>1, <4>2
    <3> HIDE DEF R1
    <3>3. QED
      BY <2>3, <3>2 DEF Names
  <2>6. \A x, y, z : AtPart(t, x, y, z) => AtPart(n.tree, x, y, z)
    <3> SUFFICES ASSUME NEW x, NEW y, NEW z, AtPart(t, x, y, z) PROVE AtPart(n.tree, x, y, z)
      OBVIOUS
    <3>1. QED
      BY <1>1, <2>2, <2>3, AtPartKept
  <2>7. Holds(n.tree, P1, F1, R1)
    <3>1. \A i \in 1..Len(t) : n.tree[i].path \in P1
      BY <1>8, <2>3
    <3>2. \A x \in P1 : \E i \in 1..Len(t) : n.tree[i].path = x
      BY <1>8, <2>1, <2>3
    <3>3. \A i, j \in 1..Len(t) : n.tree[i].path = n.tree[j].path => i = j
      BY <1>8, <2>3
    <3>4. ASSUME NEW i \in 1..Len(t)
          PROVE  /\ n.tree[i].id = i /\ n.tree[i].parent < i
                 /\ n.tree[i].isFolder <=> n.tree[i].path \in F1
                 /\ Names(n.tree[i], R1)
                 /\ AtPart(n.tree, n.tree[i].parent, n.tree[i].ancestors, Front(n.tree[i].path))
      <4>1. n.tree[i].isFolder <=> n.tree[i].path \in F1
        BY <1>8, <2>3, <2>4
      <4>2. AtPart(n.tree, n.tree[i].parent, n.tree[i].ancestors, Front(n.tree[i].path))
        BY <1>8, <2>3, <2>6
      <4>3. QED
        BY <1>8, <2>3, <2>5, <4>1, <4>2
    <3>5. F1 \subseteq P1 /\ \A a \in R1 : a.path \in P1
      BY <1>2, <1>8
    <3> HIDE DEF P1, F1, R1
    <3>6. QED
      BY <1>4, <2>2, <3>1, <3>2, <3>3, <3>4, <3>5 DEF Holds
  <2>8. AtPart(n.tree, n.parent, n.ancestors, path)
    <3>1. AtPart(t, s.parent, s.ancestors, Front(path)) /\ AtPart(t, t[id].parent, t[id].ancestors, Front(path))
      BY <1>8, <1>9, <2>1
    <3>2. s.ancestors = t[id].ancestors
      <4>1. CASE Front(path) = <<>>
        BY <3>1, <4>1 DEF AtPart
      <4>2. CASE Front(path) # <<>>
        <5>1. PICK j \in 1..Len(t) : t[j].path = Front(path) /\ s.ancestors = Append(t[j].ancestors, j)
          BY <3>1, <4>2 DEF AtPart
        <5>2. PICK k \in 1..Len(t) : t[k].path = Front(path) /\ t[id].ancestors = Append(t[k].ancestors, k)
          BY <3>1, <4>2 DEF AtPart
        <5>3. j = k
          BY <1>8, <5>1, <5>2
        <5>4. QED
          BY <5>1, <5>2, <5>3
      <4>3. QED
        BY <4>1, <4>2
    <3>3. /\ id \in 1..Len(n.tree) /\ n.tree[id].path = path /\ n.parent = id
          /\ n.ancestors = Append(n.tree[id].ancestors, id)
      BY <1>3, <2>1, <2>2, <2>3, <3>2
    <3>4. QED
      BY <1>2, <3>3 DEF AtPart
  <2>9. QED
    BY <2>7, <2>8 DEF n, path
<1>12. QED
  BY <1>10, <1>11

-----------------------------------------------------------------------------
(* Adding a path, part by part *)

LEMMA PartsAddedMeans ==
  ASSUME NEW entries \in Seq(Entries), NEW page \in AnyRows
  PROVE  LET f == PartsAdded(entries, page)
         IN  /\ f \in [0..Len(page.path) -> PartStates]
             /\ f[0] = [tree |-> entries, parent |-> 0, ancestors |-> <<>>]
             /\ \A d \in 1..Len(page.path) : f[d] = AddPart(f[d - 1], page, d)
<1> DEFINE L == Len(page.path)
           first == [tree |-> entries, parent |-> 0, ancestors |-> <<>>]
           adds == [m \in Nat |-> [s \in PartStates |-> IF m \in 1..L THEN AddPart(s, page, m) ELSE s]]
           f == PartsAdded(entries, page)
<1>1. L \in Nat
  BY DEF AnyRows
<1>2. first \in PartStates
  BY DEF PartStates
<1>3. adds \in [Nat -> [PartStates -> PartStates]]
  BY <1>1, AddPartTypes
<1> HIDE DEF first, L
<1>4. PICK g \in [0..L -> PartStates] : Recurs(g, L, first, adds)
  <2> HIDE DEF adds
  <2>1. QED
    BY <1>1, <1>2, <1>3, RecursiveFunction
<1>5. \A n \in 0..L : g[n] = IF n = 0 THEN first ELSE AddPart(g[n - 1], page, n)
  <2> SUFFICES ASSUME NEW n \in 0..L PROVE g[n] = IF n = 0 THEN first ELSE AddPart(g[n - 1], page, n)
    OBVIOUS
  <2>1. g[n] = IF n = 0 THEN first ELSE adds[n][g[n - 1]]
    <3> HIDE DEF adds
    <3>1. QED
      BY <1>4 DEF Recurs
  <2>2. n # 0 => n \in 1..L /\ n - 1 \in 0..L /\ g[n - 1] \in PartStates
    BY <1>1
  <2>3. n # 0 => adds[n][g[n - 1]] = AddPart(g[n - 1], page, n)
    BY <1>1, <2>2
  <2>4. QED
    BY <2>1, <2>3
<1>6. g = [n \in 0..L |-> IF n = 0 THEN first ELSE AddPart(g[n - 1], page, n)]
  BY <1>4, <1>5
<1>7. f = [n \in 0..L |-> IF n = 0 THEN first ELSE AddPart(f[n - 1], page, n)]
  BY <1>6 DEF PartsAdded, first, L
<1> HIDE DEF f, adds
<1>8. f \in [0..L -> PartStates]
  <2> DEFINE T == {n \in Nat : n <= L => f[n] \in PartStates}
  <2>1. ASSUME NEW n \in Nat, n = 0 \/ n - 1 \in T PROVE n \in T
    <3> SUFFICES ASSUME n <= L PROVE f[n] \in PartStates
      OBVIOUS
    <3>1. f[n] = IF n = 0 THEN first ELSE AddPart(f[n - 1], page, n)
      BY <1>1, <1>7
    <3>2. n # 0 => n \in 1..L /\ f[n - 1] \in PartStates
      BY <1>1, <2>1
    <3>3. QED
      BY <1>2, <3>1, <3>2, AddPartTypes DEF L
  <2>2. Nat \subseteq T
    <3> HIDE DEF T
    <3>1. QED
      BY <2>1, Induction
  <2>3. \A n \in 0..L : f[n] \in PartStates
    BY <1>1, <2>2
  <2>4. QED
    BY <1>7, <2>3
<1>9. QED
  <2>1. f[0] = first /\ \A d \in 1..L : f[d] = AddPart(f[d - 1], page, d)
    BY <1>1, <1>7
  <2>2. QED
    BY <1>8, <2>1 DEF first, f, L

(* The first n parts of the path of a page                                  *)
Upto(page, n) == {SubSeq(page.path, 1, d) : d \in 1..n}

LEMMA UptoGrows ==
  ASSUME NEW page, NEW n \in Nat \ {0}
  PROVE  Upto(page, n) = Upto(page, n - 1) \cup {SubSeq(page.path, 1, n)} /\ Upto(page, 0) = {}
<1>1. \A d : d \in 1..n <=> d \in 1..(n - 1) \/ d = n
  OBVIOUS
<1>2. QED
  BY <1>1 DEF Upto

(* A page added to the tree of others is in it, and so are the folders      *)
(* above it, if the page is not one of the folders already.                 *)
LEMMA AddPageHolds ==
  ASSUME NEW entries \in Seq(Entries), NEW page \in AnyRows, NEW P, NEW F, NEW R, Holds(entries, P, F, R),
         page.path \in P => \E a \in R : a.path = page.path
  PROVE  LET L == Len(page.path)
         IN  Holds(AddPage(entries, page), P \cup Upto(page, L), F \cup Upto(page, L - 1), R \cup {page})
<1> DEFINE L == Len(page.path)
           f == PartsAdded(entries, page)
           FoldersAt(n) == F \cup Upto(page, IF n = L THEN n - 1 ELSE n)
           PagesAt(n) == IF n = L THEN R \cup {page} ELSE R
           Good(n) == /\ Holds(f[n].tree, P \cup Upto(page, n), FoldersAt(n), PagesAt(n))
                      /\ AtPart(f[n].tree, f[n].parent, f[n].ancestors, SubSeq(page.path, 1, n))
           S == {n \in Nat : n <= L => Good(n)}
<1>1. L \in Nat \ {0} /\ page.path \in Seq(Nat)
  BY EmptySeq DEF AnyRows
<1>2. /\ f \in [0..L -> PartStates]
      /\ f[0] = [tree |-> entries, parent |-> 0, ancestors |-> <<>>]
      /\ \A d \in 1..L : f[d] = AddPart(f[d - 1], page, d)
  BY PartsAddedMeans
<1> HIDE DEF f
<1>3. Good(0)
  <2>1. SubSeq(page.path, 1, 0) = <<>>
    BY SubSeqEmpty
  <2>2. Upto(page, 0) = {} /\ FoldersAt(0) = F /\ PagesAt(0) = R /\ P \cup Upto(page, 0) = P
    BY <1>1 DEF Upto
  <2>3. f[0].tree = entries /\ f[0].parent = 0 /\ f[0].ancestors = <<>>
    BY <1>2
  <2> HIDE DEF FoldersAt, PagesAt
  <2>4. Holds(f[0].tree, P \cup Upto(page, 0), FoldersAt(0), PagesAt(0))
    BY <2>2, <2>3
  <2>5. AtPart(f[0].tree, f[0].parent, f[0].ancestors, SubSeq(page.path, 1, 0))
    BY <2>1, <2>3 DEF AtPart
  <2>6. QED
    BY <2>4, <2>5
<1>4. ASSUME NEW n \in 1..L, Good(n - 1)
      PROVE  Good(n)
  <2> DEFINE q == SubSeq(page.path, 1, n)
             P1 == P \cup Upto(page, n - 1)
             F1 == FoldersAt(n - 1)
             R1 == PagesAt(n - 1)
  <2>1. R1 = R /\ F1 = F \cup Upto(page, n - 1)
    BY <1>1
  <2>2. P \cup Upto(page, n) = P1 \cup {q}
    BY UptoGrows
  <2>3. FoldersAt(n) = (IF n < L THEN F1 \cup {q} ELSE F1) /\ PagesAt(n) = IF n < L THEN R1 ELSE R1 \cup {page}
    <3>1. CASE n = L
      BY <2>1, <3>1
    <3>2. CASE n # L
      <4>1. n < L /\ Upto(page, n) = Upto(page, n - 1) \cup {q}
        BY <1>1, <3>2, UptoGrows
      <4>2. FoldersAt(n) = F \cup Upto(page, n) /\ PagesAt(n) = R
        BY <3>2
      <4> HIDE DEF FoldersAt, PagesAt, q, F1, R1
      <4>3. QED
        BY <2>1, <4>1, <4>2
    <3>3. QED
      BY <3>1, <3>2
  <2>4. n = L /\ page.path \in P1 => \E a \in R1 : a.path = page.path
    <3> SUFFICES ASSUME n = L, page.path \in P1, page.path \notin P PROVE FALSE
      BY <2>1
    <3>1. PICK d \in 1..(n - 1) : page.path = SubSeq(page.path, 1, d)
      BY DEF Upto
    <3>2. d \in 0..L /\ d < L
      BY <1>1
    <3>3. Len(SubSeq(page.path, 1, d)) = d
      BY <1>1, <3>2, PrefixFacts
    <3>4. QED
      BY <3>1, <3>2, <3>3
  <2>5. f[n - 1] \in PartStates
    <3>1. n - 1 \in 0..L
      BY <1>1
    <3> HIDE DEF L
    <3>2. QED
      BY <1>2, <3>1
  <2>6. f[n] = AddPart(f[n - 1], page, n)
    BY <1>2
  <2>7. /\ Holds(f[n - 1].tree, P1, F1, R1)
        /\ AtPart(f[n - 1].tree, f[n - 1].parent, f[n - 1].ancestors, SubSeq(page.path, 1, n - 1))
    BY <1>4
  <2> HIDE DEF P1, F1, R1, FoldersAt, PagesAt
  <2>8. /\ Holds(f[n].tree, P1 \cup {q}, IF n < L THEN F1 \cup {q} ELSE F1, IF n < L THEN R1 ELSE R1 \cup {page})
        /\ AtPart(f[n].tree, f[n].parent, f[n].ancestors, q)
    BY <2>4, <2>5, <2>6, <2>7, AddPartHolds
  <2>9. QED
    BY <2>2, <2>3, <2>8
<1>5. ASSUME NEW n \in Nat, n = 0 \/ n - 1 \in S PROVE n \in S
  <2> HIDE DEF Good
  <2>1. CASE n = 0
    BY <1>3, <2>1
  <2>2. CASE n # 0
    BY <1>1, <1>4, <1>5, <2>2
  <2>3. QED
    BY <2>1, <2>2
<1>6. Nat \subseteq S
  <2> HIDE DEF S
  <2>1. QED
    BY <1>5, Induction
<1>7. Good(L)
  <2> HIDE DEF Good
  <2>1. QED
    BY <1>1, <1>6
<1>8. AddPage(entries, page) = f[L].tree
  BY DEF AddPage, f
<1>9. QED
  BY <1>7, <1>8

LEMMA AddPageType ==
  ASSUME NEW entries \in Seq(Entries), NEW page \in AnyRows
  PROVE  AddPage(entries, page) \in Seq(Entries)
<1> DEFINE f == PartsAdded(entries, page)
<1>1. f \in [0..Len(page.path) -> PartStates]
  BY PartsAddedMeans
<1>2. Len(page.path) \in 0..Len(page.path)
  BY DEF AnyRows
<1> HIDE DEF f
<1>3. f[Len(page.path)] \in PartStates
  BY <1>1, <1>2
<1>4. QED
  BY <1>3 DEF AddPage, f, PartStates

-----------------------------------------------------------------------------
(* Adding page after page *)

LEMMA PagesAddedMeans ==
  ASSUME NEW ordered \in Seq(AnyRows)
  PROVE  LET g == PagesAdded(ordered)
         IN  /\ g \in [0..Len(ordered) -> Seq(Entries)] /\ g[0] = <<>>
             /\ \A n \in 1..Len(ordered) : g[n] = AddPage(g[n - 1], ordered[n])
<1> DEFINE N == Len(ordered)
           Trees == Seq(Entries)
           adds == [m \in Nat |-> [t \in Trees |-> IF m \in 1..N THEN AddPage(t, ordered[m]) ELSE t]]
           g == PagesAdded(ordered)
<1>1. N \in Nat /\ \A m \in 1..N : ordered[m] \in AnyRows
  OBVIOUS
<1>2. <<>> \in Trees
  OBVIOUS
<1>3. \A m \in 1..N : \A t \in Trees : AddPage(t, ordered[m]) \in Trees
  BY <1>1, AddPageType
<1> HIDE DEF N, Trees
<1>4. adds \in [Nat -> [Trees -> Trees]]
  BY <1>3
<1>5. PICK h \in [0..N -> Trees] : Recurs(h, N, <<>>, adds)
  <2> HIDE DEF adds
  <2>1. QED
    BY <1>1, <1>2, <1>4, RecursiveFunction
<1>6. \A n \in 0..N : h[n] = IF n = 0 THEN <<>> ELSE AddPage(h[n - 1], ordered[n])
  <2> SUFFICES ASSUME NEW n \in 0..N PROVE h[n] = IF n = 0 THEN <<>> ELSE AddPage(h[n - 1], ordered[n])
    OBVIOUS
  <2>1. h[n] = IF n = 0 THEN <<>> ELSE adds[n][h[n - 1]]
    <3> HIDE DEF adds
    <3>1. QED
      BY <1>5 DEF Recurs
  <2>2. n # 0 => n \in 1..N /\ n - 1 \in 0..N /\ h[n - 1] \in Trees
    BY <1>1
  <2>3. n # 0 => adds[n][h[n - 1]] = AddPage(h[n - 1], ordered[n])
    BY <1>1, <2>2
  <2>4. QED
    BY <2>1, <2>3
<1>7. h = [n \in 0..N |-> IF n = 0 THEN <<>> ELSE AddPage(h[n - 1], ordered[n])]
  BY <1>5, <1>6
<1>8. g = [n \in 0..N |-> IF n = 0 THEN <<>> ELSE AddPage(g[n - 1], ordered[n])]
  BY <1>7 DEF PagesAdded, N
<1> HIDE DEF g, adds
<1>9. g \in [0..N -> Trees]
  <2> DEFINE S == {n \in Nat : n <= N => g[n] \in Trees}
  <2>1. ASSUME NEW n \in Nat, n = 0 \/ n - 1 \in S PROVE n \in S
    <3> SUFFICES ASSUME n <= N PROVE g[n] \in Trees
      OBVIOUS
    <3>1. g[n] = IF n = 0 THEN <<>> ELSE AddPage(g[n - 1], ordered[n])
      BY <1>1, <1>8
    <3>2. n # 0 => n \in 1..N /\ g[n - 1] \in Trees
      BY <1>1, <2>1
    <3>3. QED
      BY <1>2, <1>3, <3>1, <3>2
  <2>2. Nat \subseteq S
    <3> HIDE DEF S
    <3>1. QED
      BY <2>1, Induction
  <2>3. \A n \in 0..N : g[n] \in Trees
    BY <1>1, <2>2
  <2>4. QED
    BY <1>8, <2>3
<1>10. g[0] = <<>> /\ \A n \in 1..N : g[n] = AddPage(g[n - 1], ordered[n])
  BY <1>1, <1>8
<1>11. QED
  BY <1>9, <1>10 DEF g, N, Trees

(* The folders of pages                                                     *)
Folders(rows) == UNION {Upto(a, Len(a.path) - 1) : a \in rows}

LEMMA FoldersMeans ==
  ASSUME NEW rows \in SUBSET AnyRows, NEW q \in AllPrefixes(rows)
  PROVE  q \in Folders(rows) <=> \E a \in rows : IsStrictPrefix(q, a.path)
<1>1. \A a \in rows : a.path \in Seq(Nat) /\ Len(a.path) \in Nat
  BY DEF AnyRows
<1>2. q \in Seq(Nat) /\ Len(q) \in Nat \ {0}
  <2>1. PICK a \in rows : q \in {SubSeq(a.path, 1, d) : d \in 1..Len(a.path)}
    BY DEF AllPrefixes
  <2>2. PICK d \in 1..Len(a.path) : q = SubSeq(a.path, 1, d)
    BY <2>1
  <2>3. d \in 0..Len(a.path)
    BY <1>1
  <2>4. q \in Seq(Nat) /\ Len(q) = d
    BY <1>1, <2>2, <2>3, PrefixFacts
  <2>5. QED
    BY <2>4
<1>3. ASSUME NEW a \in rows
      PROVE  q \in Upto(a, Len(a.path) - 1) <=> IsStrictPrefix(q, a.path)
  <2>1. ASSUME NEW d \in 1..(Len(a.path) - 1), q = SubSeq(a.path, 1, d)
        PROVE  IsStrictPrefix(q, a.path)
    <3>1. d \in 0..Len(a.path)
      BY <1>1
    <3>2. Len(q) = d /\ \A k \in 1..d : q[k] = a.path[k]
      BY <1>1, <2>1, <3>1, PrefixFacts
    <3>3. Agree(q, a.path, Len(q)) /\ Len(q) < Len(a.path)
      BY <1>1, <3>2 DEF Agree
    <3>4. QED
      BY <1>1, <1>2, <3>3, StrictPrefixMeans
  <2>2. ASSUME IsStrictPrefix(q, a.path)
        PROVE  Len(q) \in 1..(Len(a.path) - 1) /\ q = SubSeq(a.path, 1, Len(q))
    <3>1. Agree(q, a.path, Len(q)) /\ Len(q) < Len(a.path)
      BY <1>1, <1>2, <2>2, StrictPrefixMeans
    <3>2. SubSeq(q, 1, Len(q)) = SubSeq(a.path, 1, Len(q))
      <4>1. Len(q) \in Nat /\ Len(q) <= Len(q) /\ Len(q) <= Len(a.path)
        BY <1>1, <1>2, <3>1
      <4>2. a.path \in Seq(Nat) /\ q \in Seq(Nat)
        BY <1>1, <1>2
      <4>3. SubSeq(q, 1, Len(q)) = SubSeq(a.path, 1, Len(q)) <=> Agree(q, a.path, Len(q))
        BY <4>1, <4>2, AgreeMeans
      <4>4. QED
        BY <3>1, <4>3
    <3>3. SubSeq(q, 1, Len(q)) = q
      BY <1>2, SubSeqFull
    <3>4. QED
      BY <1>1, <1>2, <3>1, <3>2, <3>3
  <2>3. QED
    BY <2>1, <2>2 DEF Upto
<1>4. QED
  BY <1>3 DEF Folders

LEMMA PathsOfRows ==
  ASSUME NEW rows, NEW a
  PROVE  /\ AllPrefixes({}) = {} /\ Folders({}) = {}
         /\ AllPrefixes(rows \cup {a}) = AllPrefixes(rows) \cup Upto(a, Len(a.path))
         /\ Folders(rows \cup {a}) = Folders(rows) \cup Upto(a, Len(a.path) - 1)
BY DEF AllPrefixes, Folders, Upto

LEMMA PagesHold ==
  ASSUME NEW ordered \in Seq(AnyRows),
         \A i, j \in 1..Len(ordered) : i < j => ~IsStrictPrefix(ordered[j].path, ordered[i].path)
  PROVE  LET rows == {ordered[i] : i \in 1..Len(ordered)}
             t == PagesAdded(ordered)[Len(ordered)]
         IN  Holds(t, AllPrefixes(rows), Folders(rows), rows)
<1> DEFINE N == Len(ordered)
           g == PagesAdded(ordered)
           First(n) == {ordered[i] : i \in 1..n}
           Good(n) == Holds(g[n], AllPrefixes(First(n)), Folders(First(n)), First(n))
           S == {n \in Nat : n <= N => Good(n)}
<1>1. N \in Nat /\ \A n \in 1..N : ordered[n] \in AnyRows
  OBVIOUS
<1>2. /\ g \in [0..N -> Seq(Entries)] /\ g[0] = <<>>
      /\ \A n \in 1..N : g[n] = AddPage(g[n - 1], ordered[n])
  BY PagesAddedMeans
<1> HIDE DEF g, N
<1>3. Good(0)
  <2>1. First(0) = {}
    OBVIOUS
  <2> HIDE DEF First
  <2>2. AllPrefixes(First(0)) = {} /\ Folders(First(0)) = {} /\ First(0) = {}
    BY <2>1, PathsOfRows
  <2>3. Holds(<<>>, {}, {}, {})
    BY EmptySeq DEF Holds
  <2>4. QED
    BY <1>2, <2>2, <2>3
<1>4. ASSUME NEW n \in 1..N, Good(n - 1)
      PROVE  Good(n)
  <2> DEFINE page == ordered[n]
             R == First(n - 1)
  <2>1. First(n) = R \cup {page}
    <3>1. \A i : i \in 1..n <=> i \in 1..(n - 1) \/ i = n
      BY <1>1
    <3>2. QED
      BY <3>1
  <2>2. R \subseteq AnyRows /\ page \in AnyRows
    BY <1>1
  <2>3. ASSUME page.path \in AllPrefixes(R)
        PROVE  \E a \in R : a.path = page.path
    <3>1. PICK i \in 1..(n - 1) : page.path \in {SubSeq(ordered[i].path, 1, d) : d \in 1..Len(ordered[i].path)}
      BY <2>3 DEF AllPrefixes
    <3>2. PICK d \in 1..Len(ordered[i].path) : page.path = SubSeq(ordered[i].path, 1, d)
      BY <3>1
    <3>3. i \in 1..N /\ i < n /\ ordered[i] \in R
      BY <1>1
    <3>4. ordered[i].path \in Seq(Nat) /\ Len(ordered[i].path) \in Nat
      BY <1>1, <3>3 DEF AnyRows
    <3>5. d \in 0..Len(ordered[i].path)
      BY <3>4
    <3>6. Len(page.path) = d /\ page.path \in Seq(Nat) /\ \A k \in 1..d : page.path[k] = ordered[i].path[k]
      BY <3>2, <3>4, <3>5, PrefixFacts
    <3>7. d = Len(ordered[i].path) => page.path = ordered[i].path
      BY <3>2, <3>4, <3>5, PrefixFacts
    <3>8. ~IsStrictPrefix(page.path, ordered[i].path)
      BY <3>3 DEF N
    <3>9. ~(Agree(page.path, ordered[i].path, Len(page.path)) /\ Len(page.path) < Len(ordered[i].path))
      BY <3>4, <3>6, <3>8, StrictPrefixMeans
    <3>10. Agree(page.path, ordered[i].path, Len(page.path))
      BY <3>4, <3>5, <3>6 DEF Agree
    <3>11. QED
      BY <3>3, <3>4, <3>5, <3>6, <3>7, <3>9, <3>10
  <2>4. g[n - 1] \in Seq(Entries) /\ g[n] = AddPage(g[n - 1], page)
    <3>1. n - 1 \in 0..N
      BY <1>1
    <3>2. QED
      BY <1>2, <3>1
  <2>5. Holds(g[n - 1], AllPrefixes(R), Folders(R), R)
    BY <1>4
  <2> HIDE DEF R, page, First
  <2>6. Holds(AddPage(g[n - 1], page), AllPrefixes(R) \cup Upto(page, Len(page.path)),
              Folders(R) \cup Upto(page, Len(page.path) - 1), R \cup {page})
    BY <2>2, <2>3, <2>4, <2>5, AddPageHolds
  <2>7. QED
    BY <2>1, <2>4, <2>6, PathsOfRows
<1>5. ASSUME NEW n \in Nat, n = 0 \/ n - 1 \in S PROVE n \in S
  <2> HIDE DEF Good
  <2>1. CASE n = 0
    BY <1>3, <2>1
  <2>2. CASE n # 0
    BY <1>1, <1>4, <1>5, <2>2
  <2>3. QED
    BY <2>1, <2>2
<1>6. Nat \subseteq S
  <2> HIDE DEF S
  <2>1. QED
    BY <1>5, Induction
<1>7. Good(N)
  <2> HIDE DEF Good
  <2>1. QED
    BY <1>1, <1>6
<1>8. QED
  BY <1>7 DEF g, N

LEMMA Numbering ==
  ASSUME NEW f, NEW n \in Nat, \A i, j \in 1..n : f[i] = f[j] => i = j
  PROVE  Cardinality({f[i] : i \in 1..n}) = n
<1> DEFINE T == {f[i] : i \in 1..n}
           g == [i \in 1..n |-> f[i]]
<1>1. g \in Bijection(1..n, T)
  BY DEF Bijection, Injection, IsInjective, Surjection
<1>2. IsFiniteSet(1..n) /\ Cardinality(1..n) = n
  <2>1. 1 \in Int /\ n \in Int
    OBVIOUS
  <2>2. Cardinality(1..n) = IF 1 > n THEN 0 ELSE n - 1 + 1
    BY <2>1, FS_Interval
  <2>3. QED
    BY <2>1, <2>2, FS_Interval
<1> HIDE DEF T, g
<1>3. Cardinality(T) = n
  BY <1>1, <1>2, FS_Bijection DEF ExistsBijection
<1>4. QED
  BY <1>3 DEF T

LEMMA BuildTreeHolds ==
  ASSUME NEW rows, Table(rows)
  PROVE  Holds(BuildTree(rows), AllPrefixes(rows), Folders(rows), rows)
<1> DEFINE o == OrderByPath(rows)
<1>1. o \in Seq(rows) /\ {o[i] : i \in 1..Len(o)} = rows /\ rows \subseteq AnyRows
      /\ \A i, j \in 1..Len(o) : i < j => ~IsStrictPrefix(o[j].path, o[i].path)
  BY OrderByPathMeans DEF Table
<1>2. BuildTree(rows) = PagesAdded(o)[Len(o)]
  BY DEF BuildTree
<1> HIDE DEF o
<1>3. o \in Seq(AnyRows)
  BY <1>1
<1>4. QED
  BY <1>1, <1>2, <1>3, PagesHold

(* The tree that the job computes of any table of pages is that of the pages *)
LEMMA BuildTreeIsTree ==
  ASSUME NEW rows, Table(rows)
  PROVE  IsTreeOf(ToSet(BuildTree(rows)), rows)
<1> DEFINE t == BuildTree(rows)
           E == ToSet(t)
<1>1. rows \subseteq AnyRows
  BY DEF Table
<1>3. Holds(t, AllPrefixes(rows), Folders(rows), rows)
  BY BuildTreeHolds
<1> HIDE DEF t
<1>4. /\ t \in Seq(Entries) /\ Len(t) \in Nat
      /\ \A i \in 1..Len(t) : t[i].path \in AllPrefixes(rows)
      /\ \A q \in AllPrefixes(rows) : \E i \in 1..Len(t) : t[i].path = q
      /\ \A i, j \in 1..Len(t) : t[i].path = t[j].path => i = j
      /\ \A i \in 1..Len(t) :
           /\ t[i].id = i /\ t[i].parent < i
           /\ t[i].isFolder <=> t[i].path \in Folders(rows)
           /\ Names(t[i], rows)
           /\ AtPart(t, t[i].parent, t[i].ancestors, Front(t[i].path))
  BY <1>3 DEF Holds
<1>5. E = {t[i] : i \in 1..Len(t)}
  BY <1>4 DEF ToSet
<1>6. {e.path : e \in E} = AllPrefixes(rows)
  BY <1>4, <1>5
<1>7. Cardinality(E) = Len(t)
  BY <1>4, <1>5, Numbering
<1>8. Cardinality(AllPrefixes(rows)) = Len(t)
  <2> DEFINE f == [i \in 1..Len(t) |-> t[i].path]
  <2>1. {f[i] : i \in 1..Len(t)} = AllPrefixes(rows)
    BY <1>4
  <2>2. \A i, j \in 1..Len(t) : f[i] = f[j] => i = j
    BY <1>4
  <2> HIDE DEF f
  <2>3. Len(t) \in Nat
    BY <1>4
  <2>4. Cardinality({f[i] : i \in 1..Len(t)}) = Len(t)
    BY <2>2, <2>3, Numbering
  <2>5. QED
    BY <2>1, <2>4
<1>9. {e.id : e \in E} = 1..Len(t)
  BY <1>4, <1>5
<1>10. ASSUME NEW i \in 1..Len(t)
       PROVE  /\ t[i].isFolder <=> \E a \in rows : IsStrictPrefix(t[i].path, a.path)
              /\ IF Len(t[i].path) = 1
                 THEN t[i].parent = 0 /\ t[i].ancestors = <<>>
                 ELSE \E f \in E : /\ f.path = Front(t[i].path) /\ t[i].parent = f.id
                                   /\ t[i].ancestors = Append(f.ancestors, f.id)
  <2>1. t[i].isFolder <=> \E a \in rows : IsStrictPrefix(t[i].path, a.path)
    BY <1>1, <1>4, FoldersMeans
  <2>2. Len(t[i].path) = 1 <=> Front(t[i].path) = <<>>
    <3>1. PICK a \in rows : t[i].path \in {SubSeq(a.path, 1, d) : d \in 1..Len(a.path)}
      BY <1>4 DEF AllPrefixes
    <3>2. PICK d \in 1..Len(a.path) : t[i].path = SubSeq(a.path, 1, d)
      BY <3>1
    <3>3. a.path \in Seq(Nat) /\ Len(a.path) \in Nat
      BY <1>1 DEF AnyRows
    <3>4. d \in 0..Len(a.path) /\ d # 0 /\ d - 1 \in 0..Len(a.path)
      BY <3>3
    <3>5. Len(t[i].path) = d /\ Front(t[i].path) = SubSeq(a.path, 1, d - 1)
      BY <3>2, <3>3, <3>4, PrefixFacts
    <3>6. d - 1 = 0 <=> SubSeq(a.path, 1, d - 1) = <<>>
      BY <3>3, <3>4, PrefixFacts
    <3>7. QED
      BY <3>4, <3>5, <3>6
  <2>3. CASE Front(t[i].path) = <<>>
    BY <1>4, <2>1, <2>2, <2>3 DEF AtPart
  <2>4. CASE Front(t[i].path) # <<>>
    <3>1. PICK j \in 1..Len(t) : t[j].path = Front(t[i].path) /\ t[i].parent = j /\ t[i].ancestors = Append(t[j].ancestors, j)
      BY <1>4, <2>4 DEF AtPart
    <3>2. t[j] \in E /\ t[j].id = j
      BY <1>4, <1>5
    <3>3. QED
      BY <2>1, <2>2, <2>4, <3>1, <3>2
  <2>5. QED
    BY <2>3, <2>4
<1>11. \A i \in 1..Len(t) : Names(t[i], rows)
  BY <1>4
<1> HIDE DEF E
<1>12. \A e \in E : \E i \in 1..Len(t) : e = t[i]
  BY <1>5
<1>13. ASSUME NEW e \in E
       PROVE  /\ e.isFolder <=> \E a \in rows : IsStrictPrefix(e.path, a.path)
              /\ IF \E a \in rows : a.path = e.path
                 THEN \E a \in rows : a.path = e.path /\ e.pageId = a.id /\ e.title = a.title
                 ELSE e.pageId = 0 /\ e.title = 0
              /\ IF Len(e.path) = 1
                 THEN e.parent = 0 /\ e.ancestors = <<>>
                 ELSE \E f \in E : f.path = Front(e.path) /\ e.parent = f.id /\ e.ancestors = Append(f.ancestors, f.id)
  <2>1. PICK i \in 1..Len(t) : e = t[i]
    BY <1>12
  <2>2. Names(e, rows)
    BY <1>11, <2>1
  <2>3. QED
    BY <1>10, <2>1, <2>2 DEF Names
<1>14. IsTreeOf(E, rows)
  BY <1>6, <1>7, <1>8, <1>9, <1>13 DEF IsTreeOf
<1>15. QED
  BY <1>14 DEF E, t

LEMMA TitlesAreNumbers == AllTitles \subseteq Nat
<1>1. \A p \in Paths : Last(p) \in Nat
  <2> SUFFICES ASSUME NEW p \in Paths PROVE Last(p) \in Nat
    OBVIOUS
  <2>1. p \in Seq(Nat) /\ p # <<>>
    BY TreeAssumption
  <2>2. Len(p) \in 1..Len(p)
    BY <2>1, EmptySeq
  <2>3. p[Len(p)] \in Nat
    BY <2>1, <2>2
  <2>4. QED
    BY <2>3 DEF Last
<1>2. QED
  BY <1>1, TreeAssumption DEF AllTitles

LEMMA PagesAreTable ==
  ASSUME RequestsInv
  PROVE  Table(pages)
<1>1. pages \subseteq Rows /\ \A a, b \in pages : a.id = b.id => a = b
  BY DEF RequestsInv, Types, NumbersAreNew
<1>2. MaxId \in Nat
  BY Numbers DEF RequestsInv
<1>3. pages \subseteq AnyRows
  <2> SUFFICES ASSUME NEW a \in pages PROVE a \in AnyRows
    OBVIOUS
  <2>1. a \in Rows
    BY <1>1
  <2>2. a = [id |-> a.id, path |-> a.path, title |-> a.title, text |-> a.text, listed |-> a.listed]
    BY <2>1 DEF Rows
  <2>3. a.id \in Nat /\ a.text \in Nat /\ a.listed \in BOOLEAN
    BY <1>2, <2>1 DEF Rows
  <2>4. a.path \in Seq(Nat) \ {<<>>} /\ a.title \in Nat
    BY <2>1, TreeAssumption, TitlesAreNumbers DEF Rows
  <2>5. \A i, x \in Nat, p \in Seq(Nat) \ {<<>>}, t \in Nat, l \in BOOLEAN :
          [id |-> i, path |-> p, title |-> t, text |-> x, listed |-> l] \in AnyRows
    BY DEF AnyRows
  <2>6. QED
    BY <2>2, <2>3, <2>4, <2>5
<1>4. IsFiniteSet(pages)
  <2> DEFINE f == [a \in pages |-> a.id]
  <2>1. f \in Injection(pages, 1..MaxId)
    BY <1>1 DEF Injection, IsInjective, Rows
  <2>2. IsFiniteSet(1..MaxId)
    BY <1>2, FS_Interval
  <2> HIDE DEF f
  <2>3. QED
    BY <2>1, <2>2, FS_Injection
<1>5. QED
  BY <1>1, <1>3, <1>4 DEF Table

(* Whatever requests and rebuilds have done, and however many pages there    *)
(* are at whatever paths, the job computes the tree of the pages: one entry  *)
(* for each page and each folder above it, each below the entry of its       *)
(* folder, with all of its ancestors (rebuild-tree.js:13-55).                *)
THEOREM RebuildComputesTheTree == Spec => []RebuildIsCorrect
<1>1. RequestsInv => RebuildIsCorrect
  BY PagesAreTable, BuildTreeIsTree DEF RebuildIsCorrect
<1>2. QED
  BY <1>1, RequestsInvariant, PTL

-----------------------------------------------------------------------------
(* The tree follows the pages *)

Stages == {"none", "queued", "forked", "read", "filling", "done", "failed"}
JobStates == [stage : Stages, plan : Seq(Entries), inserted : Nat]

(* What IsTreeOf says, but for titles: those of ids are about to be set.    *)
Placed(e, entries, rows) ==
  /\ e.isFolder <=> \E a \in rows : IsStrictPrefix(e.path, a.path)
  /\ IF \E a \in rows : a.path = e.path
     THEN \E a \in rows : a.path = e.path /\ e.pageId = a.id
     ELSE e.pageId = 0 /\ e.title = 0
  /\ IF Len(e.path) = 1
     THEN e.parent = 0 /\ e.ancestors = <<>>
     ELSE \E f \in entries : f.path = Front(e.path) /\ e.parent = f.id /\ e.ancestors = Append(f.ancestors, f.id)
PlacesOf(entries, rows) ==
  /\ {e.path : e \in entries} = AllPrefixes(rows)
  /\ \A e, f \in entries : e.id = f.id \/ e.path = f.path => e = f
  /\ \E n \in Nat : {e.id : e \in entries} = 1..n
  /\ \A e \in entries : Placed(e, entries, rows)
TitlesOf(entries, rows, ids) == \A e \in entries, a \in rows : e.pageId = a.id => e.title = a.title \/ a.id \in ids
Describes(entries, rows, ids) == PlacesOf(entries, rows) /\ TitlesOf(entries, rows, ids)

(* The pages whose title a save will set in the tree                        *)
Retitled == {req[r].id : r \in {s \in Active : req[s].kind = "save"}}

(* Somebody will rebuild the tree, of pages that nobody has read yet.       *)
Pending ==
  \/ \E r \in Requests : req[r].step = "written"
  \/ \E r \in Requests : job[r].stage \in {"queued", "forked"}

JobOK(r) ==
  /\ \A i \in 1..Len(job[r].plan) : job[r].plan[i].id = i
  /\ job[r].stage \notin {"read", "filling"} => job[r].plan = <<>>
  /\ job[r].stage = "read" => job[r].inserted = 0
  /\ job[r].inserted <= Len(job[r].plan)
  /\ req[r].step \in {"new", "checked", "written"} => job[r] = NoJob
Keys ==
  /\ tree \subseteq Entries
  /\ \A e \in tree : e.pageId \in {a.id : a \in pages} \cup {0} /\ e.parent \in {f.id : f \in tree} \cup {0}
  /\ \A e, f \in tree : e.id = f.id => e = f

(* Unless somebody will rebuild it, or a rebuild was disturbed, the tree    *)
(* describes the pages, or the plan of the one job that fills it does.      *)
InsertedOf(r) == {job[r].plan[i] : i \in 1..job[r].inserted}
TreeDescribes ==
  ~treeRace =>
    /\ \A r, s \in InWindow : r = s
    /\ ~Pending /\ InWindow = {} => Describes(tree, pages, Retitled)
    /\ ~Pending => \A r \in InWindow :
         /\ Describes(ToSet(job[r].plan), pages, Retitled)
         /\ job[r].stage = "filling" => tree = InsertedOf(r)
JobTypes == job \in [Requests -> JobStates] /\ failures \in 0..MaxFailures /\ treeRace \in BOOLEAN
TreeInv == JobTypes /\ (\A r \in Requests : JobOK(r)) /\ Keys /\ TreeDescribes

LEMMA BuildTreeDescribes ==
  ASSUME NEW rows, Table(rows), \A a \in rows : a.id # 0, NEW ids
  PROVE  LET t == BuildTree(rows)
         IN  /\ t \in Seq(Entries) /\ \A i \in 1..Len(t) : t[i].id = i
             /\ Describes(ToSet(t), rows, ids)
             /\ \A e \in ToSet(t) : e.pageId \in {a.id : a \in rows} \cup {0}
<1> DEFINE t == BuildTree(rows)
           E == ToSet(t)
<1>1. Holds(t, AllPrefixes(rows), Folders(rows), rows)
  BY BuildTreeHolds
<1>2. IsTreeOf(E, rows)
  BY BuildTreeIsTree
<1> HIDE DEF t
<1>3. /\ t \in Seq(Entries) /\ Len(t) \in Nat /\ \A i \in 1..Len(t) : t[i].id = i
      /\ \A i, j \in 1..Len(t) : t[i].path = t[j].path => i = j
  BY <1>1 DEF Holds
<1>4. E = {t[i] : i \in 1..Len(t)}
  BY <1>3 DEF ToSet
<1> HIDE DEF E
<1>5. \A e, f \in E : e.id = f.id \/ e.path = f.path => e = f
  BY <1>3, <1>4
<1>6. {e.id : e \in E} = 1..Len(t)
  BY <1>3, <1>4
<1>7. ASSUME NEW e \in E
      PROVE  Placed(e, E, rows) /\ e.pageId \in {a.id : a \in rows} \cup {0}
  BY <1>2 DEF IsTreeOf, Placed
<1>8. PlacesOf(E, rows)
  BY <1>2, <1>3, <1>5, <1>6, <1>7 DEF IsTreeOf, PlacesOf
<1>9. TitlesOf(E, rows, ids)
  BY <1>2 DEF IsTreeOf, TitlesOf, Table
<1>10. QED
  BY <1>3, <1>7, <1>8, <1>9 DEF E, t, Describes

LEMMA DescribedIsTree ==
  ASSUME NEW E, NEW rows, Describes(E, rows, {})
  PROVE  IsTreeOf(E, rows)
<1>1. PICK n \in Nat : {e.id : e \in E} = 1..n
  BY DEF Describes, PlacesOf
<1>2. /\ {e.path : e \in E} = AllPrefixes(rows)
      /\ \A e, f \in E : e.id = f.id \/ e.path = f.path => e = f
      /\ \A e \in E : Placed(e, E, rows)
  BY DEF Describes, PlacesOf
<1> DEFINE f == [i \in 1..n |-> CHOOSE e \in E : e.id = i]
           g == [i \in 1..n |-> f[i].path]
<1>3. \A i \in 1..n : f[i] \in E /\ f[i].id = i
  BY <1>1
<1>4. \A i, j \in 1..n : (f[i] = f[j] => i = j) /\ (g[i] = g[j] => i = j)
  BY <1>2, <1>3
<1>5. {f[i] : i \in 1..n} = E
  <2>1. \A e \in E : e.id \in 1..n /\ f[e.id] = e
    BY <1>1, <1>2, <1>3
  <2> HIDE DEF f
  <2>2. QED
    BY <1>3, <2>1
<1>6. {g[i] : i \in 1..n} = AllPrefixes(rows)
  <2>1. \A i \in 1..n : g[i] = f[i].path
    OBVIOUS
  <2> HIDE DEF f, g
  <2>2. {g[i] : i \in 1..n} = {e.path : e \in E}
    BY <1>3, <1>5, <2>1
  <2>3. QED
    BY <1>2, <2>2
<1> HIDE DEF f, g
<1>7. Cardinality(E) = n
  <2>1. Cardinality({f[i] : i \in 1..n}) = n
    BY <1>4, Numbering
  <2>2. QED
    BY <1>5, <2>1
<1>8. Cardinality(AllPrefixes(rows)) = n
  <2>1. Cardinality({g[i] : i \in 1..n}) = n
    BY <1>4, Numbering
  <2>2. QED
    BY <1>6, <2>1
<1>9. \A e \in E, a \in rows : e.pageId = a.id => e.title = a.title
  BY DEF Describes, TitlesOf
<1>10. ASSUME NEW e \in E
       PROVE  /\ e.isFolder <=> \E a \in rows : IsStrictPrefix(e.path, a.path)
              /\ IF \E a \in rows : a.path = e.path
                 THEN \E a \in rows : a.path = e.path /\ e.pageId = a.id /\ e.title = a.title
                 ELSE e.pageId = 0 /\ e.title = 0
              /\ IF Len(e.path) = 1
                 THEN e.parent = 0 /\ e.ancestors = <<>>
                 ELSE \E h \in E : h.path = Front(e.path) /\ e.parent = h.id /\ e.ancestors = Append(h.ancestors, h.id)
  BY <1>2, <1>9 DEF Placed
<1>11. QED
  BY <1>1, <1>2, <1>7, <1>8, <1>10 DEF IsTreeOf

(* Only the paths and the ids of the pages matter to the places.            *)
LEMMA PlacesFollowPaths ==
  ASSUME NEW E, NEW rows, NEW new,
         \A a \in rows : \E b \in new : b.id = a.id /\ b.path = a.path,
         \A b \in new : \E a \in rows : b.id = a.id /\ b.path = a.path,
         PlacesOf(E, rows)
  PROVE  PlacesOf(E, new)
<1>1. AllPrefixes(new) = AllPrefixes(rows)
  <2>1. \A x : x \in AllPrefixes(new) => x \in AllPrefixes(rows)
    BY DEF AllPrefixes
  <2>2. \A x : x \in AllPrefixes(rows) => x \in AllPrefixes(new)
    BY DEF AllPrefixes
  <2>3. QED
    BY <2>1, <2>2
<1>2. ASSUME NEW e \in E, Placed(e, E, rows)
      PROVE  Placed(e, E, new)
  <2>1. (\E a \in rows : IsStrictPrefix(e.path, a.path)) <=> (\E a \in new : IsStrictPrefix(e.path, a.path))
    OBVIOUS
  <2>2. (\E a \in rows : a.path = e.path) <=> (\E a \in new : a.path = e.path)
    OBVIOUS
  <2>3. (\E a \in rows : a.path = e.path /\ e.pageId = a.id) <=> (\E a \in new : a.path = e.path /\ e.pageId = a.id)
    OBVIOUS
  <2>4. QED
    BY <1>2, <2>1, <2>2, <2>3 DEF Placed
<1>3. QED
  BY <1>1, <1>2 DEF PlacesOf

(* Titles of entries set, of pages                                          *)
SetTitle(E, id, title) == {IF e.pageId = id THEN [e EXCEPT !.title = title] ELSE e : e \in E}

LEMMA SetTitleKeepsPlaces ==
  ASSUME NEW E \in SUBSET Entries, NEW rows, NEW id, id # 0, NEW title \in Nat, PlacesOf(E, rows)
  PROVE  PlacesOf(SetTitle(E, id, title), rows)
<1> DEFINE set(e) == IF e.pageId = id THEN [e EXCEPT !.title = title] ELSE e
           S == SetTitle(E, id, title)
<1>1. \A e \in E : /\ set(e).id = e.id /\ set(e).path = e.path /\ set(e).isFolder = e.isFolder /\ set(e).pageId = e.pageId
                   /\ set(e).parent = e.parent /\ set(e).ancestors = e.ancestors
                   /\ (e.pageId # id => set(e).title = e.title)
  BY DEF Entries
<1>2. S = {set(e) : e \in E}
  BY DEF SetTitle
<1>3. (\A e \in E : set(e) \in S) /\ \A s \in S : \E e \in E : s = set(e)
  BY <1>2
<1> HIDE DEF set, S
<1>4. {s.path : s \in S} = {e.path : e \in E} /\ {s.id : s \in S} = {e.id : e \in E}
  BY <1>1, <1>3
<1>5. \A s, u \in S : s.id = u.id \/ s.path = u.path => s = u
  <2> SUFFICES ASSUME NEW s \in S, NEW u \in S, s.id = u.id \/ s.path = u.path PROVE s = u
    OBVIOUS
  <2>1. PICK e \in E, f \in E : s = set(e) /\ u = set(f)
    BY <1>3
  <2>2. e = f
    BY <1>1, <2>1 DEF PlacesOf
  <2>3. QED
    BY <2>1, <2>2
<1>6. ASSUME NEW s \in S
      PROVE  Placed(s, S, rows)
  <2>1. PICK e \in E : s = set(e)
    BY <1>3
  <2>2. Placed(e, E, rows)
    BY DEF PlacesOf
  <2>3. s.path = e.path /\ s.isFolder = e.isFolder /\ s.pageId = e.pageId /\ s.parent = e.parent
        /\ s.ancestors = e.ancestors /\ (e.pageId = 0 => s.title = e.title)
    BY <1>1, <2>1
  <2>4. ASSUME NEW f \in E, f.path = Front(e.path), e.parent = f.id, e.ancestors = Append(f.ancestors, f.id)
        PROVE  \E h \in S : h.path = Front(s.path) /\ s.parent = h.id /\ s.ancestors = Append(h.ancestors, h.id)
    <3>1. set(f) \in S /\ set(f).path = f.path /\ set(f).id = f.id /\ set(f).ancestors = f.ancestors
      BY <1>1, <1>3
    <3>2. QED
      BY <2>3, <2>4, <3>1
  <2>5. QED
    BY <2>2, <2>3, <2>4 DEF Placed
<1>7. PlacesOf(S, rows)
  BY <1>4, <1>5, <1>6 DEF PlacesOf
<1>8. QED
  BY <1>7 DEF S

(* A step of request u that leaves pages, tree and jobs alone, takes no     *)
(* rebuild back, and ends no save whose title the tree waits for, unless    *)
(* the page is gone.                                                        *)
LEMMA LeavesTree ==
  ASSUME RequestsInv, TreeInv, NEW u \in Requests, UNCHANGED <<pages, tree, job>>,
         \A s \in Requests \ {u} : req'[s] = req[s],
         failures' \in 0..MaxFailures, treeRace' \in BOOLEAN,
         req'[u].step \in {"new", "checked", "written"} => req[u].step \in {"new", "checked", "written"},
         ~treeRace' =>
           /\ ~treeRace
           /\ req[u].step = "written" => req'[u].step = "written"
           /\ u \in Active /\ req[u].kind = "save" =>
                (u \in Active' /\ req'[u].kind = "save" /\ req'[u].id = req[u].id) \/ Row(req[u].id) = {}
  PROVE  TreeInv'
<1>1. JobTypes' /\ InWindow' = InWindow
  BY DEF TreeInv, JobTypes, InWindow
<1>2. \A r \in Requests : JobOK(r)'
  BY DEF TreeInv, JobOK
<1>3. Keys'
  BY DEF TreeInv, Keys
<1>4. TreeDescribes'
  <2> SUFFICES ASSUME ~treeRace' PROVE TreeDescribes'
    BY DEF TreeDescribes
  <2>1. Pending => Pending'
    BY DEF Pending
  <2>2. \A a \in pages : a.id \in Retitled => a.id \in Retitled'
    BY DEF Retitled, Active, Row
  <2>3. \A E : Describes(E, pages, Retitled) => Describes(E, pages', Retitled')
    BY <2>2 DEF Describes, TitlesOf
  <2>4. /\ \A r, s \in InWindow : r = s
        /\ ~Pending /\ InWindow = {} => Describes(tree, pages, Retitled)
        /\ ~Pending => \A r \in InWindow :
             /\ Describes(ToSet(job[r].plan), pages, Retitled)
             /\ job[r].stage = "filling" => tree = InsertedOf(r)
    BY DEF TreeInv, TreeDescribes
  <2>5. \A r : InsertedOf(r)' = InsertedOf(r)
    BY DEF InsertedOf
  <2>6. QED
    BY <1>1, <2>1, <2>3, <2>4, <2>5 DEF TreeDescribes
<1>5. QED
  BY <1>1, <1>2, <1>3, <1>4 DEF TreeInv

LEMMA LookLeavesTree ==
  ASSUME RequestsInv, TreeInv, NEW u \in Requests,
         \/ \E p \in Paths : CheckFree(u, p)
         \/ \E a \in pages, to \in Paths : CheckDestination(u, a, to)
         \/ \E a \in pages : FetchToDelete(u, a)
  PROVE  TreeInv'
<1>1. /\ req[u].step = "new" /\ UNCHANGED <<pages, tree, job, failures, treeRace>>
      /\ \E q : req' = [req EXCEPT ![u] = q] /\ q.step = "checked"
  <2>1. CASE \E p \in Paths : CheckFree(u, p)
    <3>1. PICK p \in Paths : CheckFree(u, p)
      BY <2>1
    <3>4. PICK title \in Titles, template \in BOOLEAN :
            req' = [req EXCEPT ![u] = [step |-> "checked", kind |-> "create", id |-> 0, path |-> p, to |-> NoPath,
                                       title |-> title, text |-> NextNumber, template |-> template]]
      BY <3>1 DEF CheckFree
    <3> DEFINE q == [step |-> "checked", kind |-> "create", id |-> 0, path |-> p, to |-> NoPath,
                     title |-> title, text |-> NextNumber, template |-> template]
    <3>2. req' = [req EXCEPT ![u] = q] /\ q.step = "checked"
      BY <3>4
    <3> HIDE DEF q
    <3>3. QED
      BY <3>1, <3>2 DEF CheckFree
  <2>2. CASE \E a \in pages, to \in Paths : CheckDestination(u, a, to)
    <3>1. PICK a \in pages, to \in Paths : CheckDestination(u, a, to)
      BY <2>2
    <3> DEFINE q == [step |-> "checked", kind |-> "move", id |-> a.id, path |-> a.path, to |-> to,
                     title |-> MovedTitle(a, to), text |-> 0, template |-> FALSE]
    <3>2. req' = [req EXCEPT ![u] = q] /\ q.step = "checked"
      BY <3>1 DEF CheckDestination
    <3> HIDE DEF q
    <3>3. QED
      BY <3>1, <3>2 DEF CheckDestination
  <2>3. CASE \E a \in pages : FetchToDelete(u, a)
    <3>1. PICK a \in pages : FetchToDelete(u, a)
      BY <2>3
    <3> DEFINE q == [step |-> "checked", kind |-> "delete", id |-> a.id, path |-> a.path, to |-> NoPath,
                     title |-> 0, text |-> 0, template |-> FALSE]
    <3>2. req' = [req EXCEPT ![u] = q] /\ q.step = "checked"
      BY <3>1 DEF FetchToDelete
    <3> HIDE DEF q
    <3>3. QED
      BY <3>1, <3>2 DEF FetchToDelete
  <2>4. QED
    BY <2>1, <2>2, <2>3
<1>2. req \in [Requests -> ReqStates]
  BY DEF RequestsInv, Types
<1>3. req'[u].step = "checked" /\ \A s \in Requests \ {u} : req'[s] = req[s]
  BY <1>1, <1>2
<1>4. u \notin Active
  BY <1>1 DEF Active
<1>5. failures' \in 0..MaxFailures /\ treeRace' \in BOOLEAN /\ treeRace' = treeRace
  BY <1>1 DEF TreeInv, JobTypes
<1>6. QED
  BY <1>1, <1>3, <1>4, <1>5, LeavesTree

LEMMA ThrowsMeans ==
  ASSUME RequestsInv, NEW u \in Active, Throws(u)
  PROVE  u \in Requests /\ req'[u].step = "threw" /\ \A s \in Requests \ {u} : req'[s] = req[s]
<1>1. u \in Requests /\ req \in [Requests -> ReqStates]
  BY ActiveFacts
<1>2. req' = [req EXCEPT ![u] = [NoRequest EXCEPT !.step = "threw", !.kind = req[u].kind]]
  BY DEF Throws
<1>3. QED
  BY <1>1, <1>2 DEF NoRequest

LEMMA ThrowLeavesTree ==
  ASSUME RequestsInv, TreeInv, NEW u \in Requests, PageGone(u) \/ RequestFails(u)
  PROVE  TreeInv'
<1>1. /\ u \in Active /\ Throws(u) /\ UNCHANGED <<pages, tree, job>>
      /\ \/ treeRace' = (treeRace \/ req[u].step = "written" \/ req[u].kind = "save")
         \/ req[u].step = "index" /\ treeRace' = treeRace /\ Row(req[u].id) = {}
      /\ failures' = failures \/ (failures < MaxFailures /\ failures' = failures + 1)
  BY DEF PageGone, RequestFails, Active
<1>2. req'[u].step = "threw" /\ \A s \in Requests \ {u} : req'[s] = req[s]
  BY <1>1, ThrowsMeans
<1>3. failures' \in 0..MaxFailures
  BY <1>1, TreeAssumption DEF TreeInv, JobTypes
<1>4. treeRace' \in BOOLEAN
  BY <1>1 DEF TreeInv, JobTypes
<1>5. ~treeRace' => ~treeRace /\ req[u].step # "written" /\ (req[u].kind # "save" \/ Row(req[u].id) = {})
  BY <1>1
<1>6. QED
  BY <1>1, <1>2, <1>3, <1>4, <1>5, LeavesTree

LEMMA GoesOnLeavesTree ==
  ASSUME RequestsInv, TreeInv, NEW u \in Requests, Rebuilt(u) \/ Index(u) \/ Store(u) \/ TargetFails(u)
  PROVE  TreeInv'
<1>1. /\ u \in Active /\ req[u].step \in {"rebuilding", "index", "store"}
      /\ UNCHANGED <<pages, tree, job, treeRace>>
      /\ failures' = failures \/ (failures < MaxFailures /\ failures' = failures + 1)
      /\ req[u].step = "rebuilding" => req[u].kind # "save"
      /\ \/ Throws(u) /\ req[u].step = "rebuilding"
         \/ \E step \in {"index", "store", "title", "done"} : Goes(u, step) /\ (req[u].kind = "save" => step # "done")
  BY DEF Rebuilt, Index, Store, TargetFails, Active, RequestsInv, Orderly, Waits
<1>2. failures' \in 0..MaxFailures /\ treeRace' \in BOOLEAN /\ treeRace' = treeRace
  BY <1>1, TreeAssumption DEF TreeInv, JobTypes
<1>3. CASE Throws(u) /\ req[u].step = "rebuilding"
  <2>1. req'[u].step = "threw" /\ \A s \in Requests \ {u} : req'[s] = req[s]
    BY <1>1, <1>3, ThrowsMeans
  <2>2. QED
    BY <1>1, <1>2, <1>3, <2>1, LeavesTree
<1>4. CASE \E step \in {"index", "store", "title", "done"} : Goes(u, step) /\ (req[u].kind = "save" => step # "done")
  <2>1. PICK step \in {"index", "store", "title", "done"} : Goes(u, step) /\ (req[u].kind = "save" => step # "done")
    BY <1>4
  <2>2. step \in Steps
    BY DEF Steps
  <2>3. /\ req'[u].kind = req[u].kind /\ req'[u].step = step /\ \A s \in Requests \ {u} : req'[s] = req[s]
        /\ step # "done" => req'[u].id = req[u].id
    BY <1>1, <2>1, <2>2, GoesMeans
  <2>4. req[u].kind = "save" => u \in Active' /\ req'[u].id = req[u].id
    BY <2>1, <2>3 DEF Active
  <2>5. QED
    BY <1>1, <1>2, <2>3, <2>4, LeavesTree
<1>5. QED
  BY <1>1, <1>3, <1>4

(* The row is written, so that a rebuild will follow; the tree's keys hold. *)
LEMMA WriteKeepsTree ==
  ASSUME RequestsInv, TreeInv, NEW u \in Requests, UNCHANGED <<job, failures, treeRace>>,
         req[u].step = "checked", req'[u].step = "written", \A s \in Requests \ {u} : req'[s] = req[s], Keys'
  PROVE  TreeInv'
<1>1. JobTypes' /\ InWindow' = InWindow
  BY DEF TreeInv, JobTypes, InWindow
<1>2. \A r \in Requests : JobOK(r)'
  BY DEF TreeInv, JobOK
<1>3. Pending'
  BY DEF Pending
<1>4. TreeDescribes'
  BY <1>1, <1>3 DEF TreeDescribes, TreeInv
<1>5. QED
  BY <1>1, <1>2, <1>4 DEF TreeInv

LEMMA WithParentsKeeps ==
  ASSUME NEW E
  PROVE  LET T == WithParents(E)
         IN  T \subseteq E /\ \A e \in T : e.parent \in {f.id : f \in T} \cup {0}
<1> DEFINE T == WithParents(E)
<1>1. \A e \in T : \E kept \in SUBSET E : e \in kept /\ kept \subseteq T /\ \A f \in kept : f.parent \in {0} \cup {g.id : g \in kept}
  BY DEF WithParents
<1> HIDE DEF T
<1>2. ASSUME NEW e \in T
      PROVE  e \in E /\ e.parent \in {f.id : f \in T} \cup {0}
  <2>1. PICK kept \in SUBSET E : e \in kept /\ kept \subseteq T /\ \A f \in kept : f.parent \in {0} \cup {g.id : g \in kept}
    BY <1>1
  <2>2. QED
    BY <2>1
<1>3. QED
  BY <1>2 DEF T

LEMMA WritesKeepTree ==
  ASSUME RequestsInv, TreeInv, NEW u \in Requests, Insert(u) \/ MoveRow(u) \/ DeleteRow(u)
  PROVE  TreeInv'
<1>1. req \in [Requests -> ReqStates]
  BY DEF RequestsInv, Types
<1>2. /\ req[u].step = "checked" /\ UNCHANGED <<job, failures, treeRace>>
      /\ req'[u].step = "written" /\ \A s \in Requests \ {u} : req'[s] = req[s]
  <2>1. CASE Insert(u)
    <3> DEFINE q == [req[u] EXCEPT !.step = "written", !.id = req[u].text]
    <3>1. req' = [req EXCEPT ![u] = q] /\ q.step = "written"
      BY <1>1, <2>1 DEF Insert, ReqStates
    <3> HIDE DEF q
    <3>2. QED
      BY <1>1, <2>1, <3>1 DEF Insert
  <2>2. CASE MoveRow(u) \/ DeleteRow(u)
    <3> DEFINE q == [req[u] EXCEPT !.step = "written"]
    <3>1. req' = [req EXCEPT ![u] = q] /\ q.step = "written"
      BY <1>1, <2>2 DEF MoveRow, DeleteRow, ReqStates
    <3> HIDE DEF q
    <3>2. QED
      BY <1>1, <2>2, <3>1 DEF MoveRow, DeleteRow
  <2>3. QED
    BY <2>1, <2>2
<1>3. Keys
  BY DEF TreeInv
<1>4. Keys'
  <2>1. CASE Insert(u)
    <3>1. \A a \in pages : a \in pages'
      BY <2>1 DEF Insert
    <3>2. tree' = tree
      BY <2>1 DEF Insert
    <3>3. QED
      BY <1>3, <3>1, <3>2 DEF Keys
  <2>2. CASE MoveRow(u)
    <3> DEFINE moved(a) == IF a.id = req[u].id THEN [a EXCEPT !.path = req[u].to, !.title = req[u].title] ELSE a
    <3>1. pages' = {moved(a) : a \in pages} /\ tree' = tree
      BY <2>2 DEF MoveRow
    <3>2. \A a \in pages : moved(a).id = a.id
      BY DEF RequestsInv, Types, Rows
    <3> HIDE DEF moved
    <3>3. \A a \in pages : \E b \in pages' : b.id = a.id
      BY <3>1, <3>2
    <3>4. QED
      BY <1>3, <3>1, <3>3 DEF Keys
  <2>3. CASE DeleteRow(u)
    <3> DEFINE E == {e \in tree : e.pageId # req[u].id}
    <3>1. pages' = pages \ Row(req[u].id) /\ tree' = WithParents(E)
      BY <2>3 DEF DeleteRow
    <3>2. E \subseteq tree /\ \A e \in E : e.pageId \in {a.id : a \in pages'} \cup {0}
      BY <1>3, <3>1 DEF Keys, Row
    <3>3. tree' \subseteq E /\ \A e \in tree' : e.parent \in {f.id : f \in tree'} \cup {0}
      BY <3>1, WithParentsKeeps
    <3> HIDE DEF E
    <3>4. QED
      BY <1>3, <3>2, <3>3 DEF Keys
  <2>4. QED
    BY <2>1, <2>2, <2>3
<1>5. QED
  BY <1>2, <1>4, WriteKeepsTree

(* A save leaves paths and ids alone, and the title to be set later.        *)
LEMMA SaveKeepsTree ==
  ASSUME RequestsInv, TreeInv, NEW u \in Requests, NEW a \in pages, Save(u, a)
  PROVE  TreeInv'
<1>12. PICK title \in Titles, template \in BOOLEAN :
         /\ pages' = (pages \ {a}) \cup {[id |-> a.id, path |-> a.path, title |-> title, text |-> NextNumber,
                                         listed |-> a.listed /\ ~template]}
         /\ req' = [req EXCEPT ![u] = [step |-> "index", kind |-> "save", id |-> a.id, path |-> a.path, to |-> NoPath,
                                       title |-> title, text |-> NextNumber, template |-> template]]
  BY DEF Save
<1> DEFINE new == [id |-> a.id, path |-> a.path, title |-> title, text |-> NextNumber, listed |-> a.listed /\ ~template]
           q == [step |-> "index", kind |-> "save", id |-> a.id, path |-> a.path, to |-> NoPath,
                 title |-> title, text |-> NextNumber, template |-> template]
<1>1. /\ req[u].step = "new" /\ pages' = (pages \ {a}) \cup {new} /\ req' = [req EXCEPT ![u] = q]
      /\ UNCHANGED <<tree, job, failures, treeRace>>
  BY <1>12 DEF Save
<1>2. new.id = a.id /\ new.path = a.path /\ q.step = "index" /\ q.kind = "save" /\ q.id = a.id
  BY DEF RequestsInv, Types, Rows
<1>3. req'[u] = q /\ \A s \in Requests \ {u} : req'[s] = req[s]
  BY <1>1 DEF RequestsInv, Types
<1> HIDE DEF new, q
<1>4. JobTypes' /\ InWindow' = InWindow /\ (Pending => Pending')
  BY <1>1, <1>3 DEF TreeInv, JobTypes, InWindow, Pending
<1>5. \A r \in Requests : JobOK(r)'
  BY <1>1, <1>2, <1>3 DEF TreeInv, JobOK
<1>6. /\ \A b \in pages : \E c \in pages' : c.id = b.id /\ c.path = b.path
      /\ \A c \in pages' : \E b \in pages : c.id = b.id /\ c.path = b.path
  BY <1>1, <1>2
<1>7. Keys'
  <2>1. {b.id : b \in pages'} = {b.id : b \in pages}
    BY <1>6
  <2>2. QED
    BY <1>1, <2>1 DEF TreeInv, Keys
<1>8. Retitled \subseteq Retitled' /\ a.id \in Retitled'
  BY <1>1, <1>2, <1>3 DEF Retitled, Active
<1>9. \A E : Describes(E, pages, Retitled) => Describes(E, pages', Retitled')
  <2> SUFFICES ASSUME NEW E, Describes(E, pages, Retitled) PROVE Describes(E, pages', Retitled')
    OBVIOUS
  <2>1. PlacesOf(E, pages')
    BY <1>6, PlacesFollowPaths DEF Describes
  <2>2. \A c \in pages' : c \in pages \/ c.id = a.id
    BY <1>1, <1>2
  <2>3. TitlesOf(E, pages', Retitled')
    BY <1>8, <2>2 DEF Describes, TitlesOf
  <2>4. QED
    BY <2>1, <2>3 DEF Describes
<1>10. TreeDescribes'
  <2>1. \A r : InsertedOf(r)' = InsertedOf(r)
    BY <1>1 DEF InsertedOf
  <2>2. QED
    BY <1>1, <1>4, <1>9, <2>1 DEF TreeInv, TreeDescribes
<1>11. QED
  BY <1>4, <1>5, <1>7, <1>10 DEF TreeInv

(* A job is registered or leaves the queue: somebody will rebuild.          *)
LEMMA QueueKeepsTree ==
  ASSUME RequestsInv, TreeInv, NEW u \in Requests, RebuildTree(u) \/ Fork(u)
  PROVE  TreeInv'
<1>1. job \in [Requests -> JobStates] /\ JobOK(u) /\ req \in [Requests -> ReqStates]
  BY DEF TreeInv, JobTypes, RequestsInv, Types
<1>2. PICK stage \in {"queued", "forked"} : job' = [job EXCEPT ![u].stage = stage]
  BY DEF RebuildTree, Fork
<1>3. job[u].stage \in {"none", "queued"} /\ UNCHANGED <<pages, tree, failures, treeRace>>
  BY <1>1 DEF RebuildTree, Fork, JobOK, NoJob
<1>4. /\ \A s \in Requests \ {u} : job'[s] = job[s]
      /\ job'[u].stage = stage /\ job'[u].plan = job[u].plan /\ job'[u].inserted = job[u].inserted
      /\ job' \in [Requests -> JobStates]
  <2>1. job[u] \in JobStates
    BY <1>1
  <2> DEFINE j == [job[u] EXCEPT !.stage = stage]
  <2>2. j \in JobStates /\ j.stage = stage /\ j.plan = job[u].plan /\ j.inserted = job[u].inserted
    BY <2>1 DEF JobStates, Stages
  <2>3. job' = [job EXCEPT ![u] = j]
    BY <1>2
  <2> HIDE DEF j
  <2>4. QED
    BY <1>1, <2>2, <2>3
<1>5. /\ req'[u].step \notin {"new", "checked", "written"} \/ (req' = req /\ job[u].stage = "queued")
      /\ \A s \in Requests \ {u} : req'[s] = req[s]
  <2>1. CASE RebuildTree(u)
    <3>1. PICK step \in {"rebuilding", "index"} : req' = [req EXCEPT ![u].step = step]
      BY <2>1 DEF RebuildTree
    <3> DEFINE q == [req[u] EXCEPT !.step = step]
    <3>2. req' = [req EXCEPT ![u] = q] /\ q.step = step
      BY <1>1, <3>1 DEF ReqStates
    <3> HIDE DEF q
    <3>3. QED
      BY <1>1, <3>2
  <2>2. CASE Fork(u)
    BY <2>2 DEF Fork
  <2>3. QED
    BY <2>1, <2>2
<1>6. InWindow' = InWindow
  BY <1>1, <1>3, <1>4 DEF InWindow
<1>7. JobTypes'
  BY <1>3, <1>4 DEF TreeInv, JobTypes
<1>8. JobOK(u)'
  <2>1. req'[u].step \notin {"new", "checked", "written"}
    BY <1>1, <1>5 DEF JobOK, NoJob
  <2>2. job[u].plan = <<>> /\ job[u].inserted <= Len(job[u].plan)
    BY <1>1, <1>3 DEF JobOK
  <2>3. QED
    BY <1>1, <1>4, <2>1, <2>2 DEF JobOK
<1>9. \A r \in Requests : JobOK(r)'
  <2>1. \A r \in Requests \ {u} : JobOK(r)'
    BY <1>4, <1>5 DEF TreeInv, JobOK
  <2>2. QED
    BY <1>8, <2>1
<1>10. Pending'
  BY <1>4 DEF Pending
<1>11. Keys'
  BY <1>3 DEF TreeInv, Keys
<1>12. TreeDescribes'
  BY <1>3, <1>6, <1>10 DEF TreeInv, TreeDescribes
<1>13. QED
  BY <1>7, <1>9, <1>11, <1>12 DEF TreeInv

(* The job of u becomes j.                                                  *)
JobGood(j) ==
  /\ j \in JobStates /\ \A i \in 1..Len(j.plan) : j.plan[i].id = i
  /\ j.stage \notin {"read", "filling"} => j.plan = <<>>
  /\ j.stage = "read" => j.inserted = 0
  /\ j.inserted <= Len(j.plan)

LEMMA JobBecomes ==
  ASSUME TreeInv, NEW u \in Requests, NEW j, JobGood(j), job' = [job EXCEPT ![u] = j], job[u].stage # "none",
         UNCHANGED req, failures' \in 0..MaxFailures, treeRace' \in BOOLEAN
  PROVE  /\ JobTypes' /\ \A r \in Requests : JobOK(r)'
         /\ job'[u] = j /\ \A s \in Requests \ {u} : job'[s] = job[s]
         /\ Retitled' = Retitled
<1>1. job \in [Requests -> JobStates] /\ JobOK(u)
  BY DEF TreeInv, JobTypes
<1>2. job' \in [Requests -> JobStates] /\ job'[u] = j /\ \A s \in Requests \ {u} : job'[s] = job[s]
  BY <1>1 DEF JobGood
<1>3. req[u].step \notin {"new", "checked", "written"}
  BY <1>1 DEF JobOK, NoJob
<1>4. JobOK(u)'
  BY <1>2, <1>3 DEF JobGood, JobOK
<1>5. \A r \in Requests \ {u} : JobOK(r)'
  BY <1>2 DEF TreeInv, JobOK
<1>6. QED
  BY <1>2, <1>4, <1>5 DEF JobTypes, Retitled, Active

(* The job ends, and no other is at work.                                   *)
LEMMA EndedJob ==
  ASSUME NEW stage \in {"done", "failed"}
  PROVE  JobGood([NoJob EXCEPT !.stage = stage]) /\ [NoJob EXCEPT !.stage = stage].stage = stage
<1> DEFINE j == [NoJob EXCEPT !.stage = stage]
<1>1. j.stage = stage /\ j.plan = <<>> /\ j.inserted = 0
      /\ j = [stage |-> stage, plan |-> <<>>, inserted |-> 0]
  BY DEF NoJob
<1>2. <<>> \in Seq(Entries) /\ Len(<<>>) = 0 /\ 1..0 = {}
  OBVIOUS
<1>3. j \in JobStates
  <2>1. \A p \in Seq(Entries) : [stage |-> stage, plan |-> p, inserted |-> 0] \in JobStates
    BY DEF JobStates, Stages
  <2> HIDE DEF j
  <2>2. QED
    BY <1>1, <1>2, <2>1
<1> HIDE DEF j
<1>4. JobGood(j)
  BY <1>1, <1>2, <1>3 DEF JobGood
<1>5. QED
  BY <1>1, <1>4 DEF j

LEMMA ReadPagesKeepsTree ==
  ASSUME RequestsInv, TreeInv, NEW u \in Requests, ReadPages(u)
  PROVE  TreeInv'
<1> DEFINE t == BuildTree(pages)
           j == [stage |-> "read", plan |-> t, inserted |-> 0]
<1>1. job[u].stage = "forked" /\ job' = [job EXCEPT ![u] = j] /\ treeRace' = (InWindow # {})
      /\ UNCHANGED <<pages, tree, req, failures>>
  BY DEF ReadPages
<1>2. \A a \in pages : a.id # 0
  <2>1. MaxId \in Nat
    BY Numbers DEF RequestsInv
  <2>2. QED
    BY <2>1 DEF RequestsInv, Types, Rows
<1>3. /\ t \in Seq(Entries) /\ \A i \in 1..Len(t) : t[i].id = i
      /\ Describes(ToSet(t), pages, Retitled)
  BY <1>2, PagesAreTable, BuildTreeDescribes
<1> HIDE DEF t
<1>4. JobGood(j) /\ j.stage = "read" /\ j.plan = t
  BY <1>3 DEF JobGood, JobStates, Stages
<1> HIDE DEF j
<1>5. failures' \in 0..MaxFailures /\ treeRace' \in BOOLEAN
  BY <1>1 DEF TreeInv, JobTypes
<1>6. /\ JobTypes' /\ \A r \in Requests : JobOK(r)'
      /\ job'[u] = j /\ (\A s \in Requests \ {u} : job'[s] = job[s]) /\ Retitled' = Retitled
  BY <1>1, <1>4, <1>5, JobBecomes
<1>7. Keys'
  BY <1>1 DEF TreeInv, Keys
<1>8. TreeDescribes'
  <2> SUFFICES ASSUME ~treeRace' PROVE TreeDescribes'
    BY DEF TreeDescribes
  <2>1. InWindow' = {u}
    BY <1>1, <1>4, <1>6 DEF InWindow
  <2>2. Describes(ToSet(job[u].plan), pages, Retitled)' /\ job'[u].stage = "read"
    BY <1>1, <1>3, <1>4, <1>6
  <2>3. QED
    BY <2>1, <2>2 DEF TreeDescribes
<1>9. QED
  BY <1>6, <1>7, <1>8 DEF TreeInv

LEMMA TruncateKeepsTree ==
  ASSUME RequestsInv, TreeInv, NEW u \in Requests, Truncate(u)
  PROVE  TreeInv'
<1> DEFINE j == IF job[u].plan = <<>> THEN [NoJob EXCEPT !.stage = "done"] ELSE [job[u] EXCEPT !.stage = "filling"]
<1>1. job[u].stage = "read" /\ tree' = {} /\ job' = [job EXCEPT ![u] = j]
      /\ UNCHANGED <<pages, req, failures, treeRace>>
  BY DEF Truncate, EndsJob
<1>2. job[u] \in JobStates /\ JobOK(u)
  BY DEF TreeInv, JobTypes
<1>3. /\ JobGood(j)
      /\ j.stage = (IF job[u].plan = <<>> THEN "done" ELSE "filling")
      /\ job[u].plan # <<>> => j.plan = job[u].plan /\ j.inserted = 0
  <2>1. CASE job[u].plan = <<>>
    BY <2>1, EndedJob
  <2>2. CASE job[u].plan # <<>>
    <3>1. j = [job[u] EXCEPT !.stage = "filling"]
      BY <2>2
    <3>2. j \in JobStates /\ j.stage = "filling" /\ j.plan = job[u].plan /\ j.inserted = job[u].inserted
      BY <1>2, <3>1 DEF JobStates, Stages
    <3> HIDE DEF j
    <3>3. QED
      BY <1>1, <1>2, <2>2, <3>2 DEF JobGood, JobOK
  <2>3. QED
    BY <2>1, <2>2
<1> HIDE DEF j
<1>4. failures' \in 0..MaxFailures /\ treeRace' \in BOOLEAN /\ treeRace' = treeRace
  BY <1>1 DEF TreeInv, JobTypes
<1>5. /\ JobTypes' /\ \A r \in Requests : JobOK(r)'
      /\ job'[u] = j /\ (\A s \in Requests \ {u} : job'[s] = job[s]) /\ Retitled' = Retitled
  BY <1>1, <1>3, <1>4, JobBecomes
<1>6. Keys'
  BY <1>1 DEF Keys
<1>7. TreeDescribes'
  <2> SUFFICES ASSUME ~treeRace' PROVE TreeDescribes'
    BY DEF TreeDescribes
  <2>1. u \in InWindow /\ \A r, s \in InWindow : r = s
    BY <1>1, <1>4 DEF InWindow, TreeInv, TreeDescribes
  <2>2. InWindow = {u}
    BY <2>1
  <2>3. InWindow' = IF job[u].plan = <<>> THEN {} ELSE {u}
    BY <1>3, <1>5, <2>2 DEF InWindow
  <2>4. Pending => Pending'
    BY <1>1, <1>5 DEF Pending
  <2>5. ~Pending' => Describes(ToSet(job[u].plan), pages, Retitled)
    BY <1>4, <2>1, <2>4 DEF TreeInv, TreeDescribes
  <2>6. CASE job[u].plan = <<>>
    <3>1. ToSet(job[u].plan) = {}
      BY <2>6 DEF ToSet
    <3>2. ~Pending' => Describes(tree, pages, Retitled)'
      BY <1>1, <1>5, <2>5, <3>1
    <3>3. QED
      BY <2>3, <2>6, <3>2 DEF TreeDescribes
  <2>7. CASE job[u].plan # <<>>
    <3>1. job'[u].plan = job[u].plan /\ job'[u].inserted = 0
      BY <1>3, <1>5, <2>7
    <3>2. InsertedOf(u)' = {}
      BY <3>1 DEF InsertedOf
    <3>3. QED
      BY <1>1, <1>5, <2>3, <2>5, <2>7, <3>1, <3>2 DEF TreeDescribes
  <2>8. QED
    BY <2>6, <2>7
<1>8. QED
  BY <1>5, <1>6, <1>7 DEF TreeInv

(* A chunk is what comes next of the plan, up to its end.                   *)
LEMMA ChunkMeans ==
  ASSUME NEW r, job[r] \in JobStates, JobOK(r)
  PROVE  LET before == job[r].inserted
             after == before + Cardinality(Chunk(r))
         IN  /\ before \in Nat /\ after \in before..Len(job[r].plan)
             /\ Chunk(r) = {job[r].plan[i] : i \in (before + 1)..after}
<1> DEFINE plan == job[r].plan
           n == job[r].inserted
           L == Len(plan)
           m == IF n + ChunkSize <= L THEN n + ChunkSize ELSE L
           f == [i \in 1..(m - n) |-> plan[n + i]]
<1>1. plan \in Seq(Entries) /\ L \in Nat /\ n \in Nat /\ n <= L /\ \A i \in 1..L : plan[i].id = i
  BY DEF JobStates, JobOK
<1>2. ChunkSize \in Nat /\ DOMAIN plan = 1..L
  BY <1>1, TreeAssumption
<1> HIDE DEF plan, n, L
<1>3. m \in n..L /\ m - n \in Nat
  BY <1>1, <1>2
<1>4. {k \in DOMAIN plan : n < k /\ k <= n + ChunkSize} = (n + 1)..m
  BY <1>1, <1>2
<1>5. Chunk(r) = {plan[i] : i \in (n + 1)..m}
  BY <1>4 DEF Chunk, plan, n
<1> HIDE DEF m
<1>6. \A i \in 1..(m - n) : n + i \in (n + 1)..m /\ n + i \in 1..L
  BY <1>1, <1>3
<1>7. \A k \in (n + 1)..m : k - n \in 1..(m - n) /\ n + (k - n) = k
  BY <1>1, <1>3
<1>8. {f[i] : i \in 1..(m - n)} = {plan[i] : i \in (n + 1)..m}
  BY <1>6, <1>7
<1>9. \A i, j \in 1..(m - n) : f[i] = f[j] => i = j
  <2> SUFFICES ASSUME NEW i \in 1..(m - n), NEW j \in 1..(m - n), plan[n + i] = plan[n + j] PROVE i = j
    OBVIOUS
  <2>1. n + i = n + j
    BY <1>1, <1>6
  <2>2. QED
    BY <1>1, <1>3, <2>1
<1> HIDE DEF f
<1>10. Cardinality(Chunk(r)) = m - n
  <2>1. Cardinality({f[i] : i \in 1..(m - n)}) = m - n
    BY <1>3, <1>9, Numbering
  <2>2. QED
    BY <1>5, <1>8, <2>1
<1>11. n + Cardinality(Chunk(r)) = m
  BY <1>1, <1>3, <1>10
<1>12. QED
  BY <1>1, <1>3, <1>5, <1>11 DEF n, plan, L

LEMMA InsertChunkKeepsTree ==
  ASSUME RequestsInv, TreeInv, NEW u \in Requests, InsertChunk(u)
  PROVE  TreeInv'
<1> DEFINE plan == job[u].plan
           before == job[u].inserted
           after == before + Cardinality(Chunk(u))
           j == IF after = Len(plan) THEN [NoJob EXCEPT !.stage = "done"] ELSE [job[u] EXCEPT !.inserted = after]
<1>1. job[u].stage = "filling" /\ KeysHold(Chunk(u)) /\ tree' = tree \cup Chunk(u) /\ job' = [job EXCEPT ![u] = j]
      /\ UNCHANGED <<pages, req, failures, treeRace>>
  BY DEF InsertChunk, EndsJob
<1>2. job[u] \in JobStates /\ JobOK(u)
  BY DEF TreeInv, JobTypes
<1>3. before \in Nat /\ after \in before..Len(plan) /\ Chunk(u) = {plan[i] : i \in (before + 1)..after}
  BY <1>2, ChunkMeans
<1> HIDE DEF after
<1>4. /\ plan \in Seq(Entries) /\ Len(plan) \in Nat /\ \A i \in 1..Len(plan) : plan[i].id = i
      /\ before \in Nat /\ before <= Len(plan)
  BY <1>2 DEF JobStates, JobOK
<1>5. JobGood(j) /\ j.stage = (IF after = Len(plan) THEN "done" ELSE "filling")
      /\ (after # Len(plan) => j.plan = plan /\ j.inserted = after)
  <2>1. CASE after = Len(plan)
    BY <2>1, EndedJob
  <2>2. CASE after # Len(plan)
    <3>1. j = [job[u] EXCEPT !.inserted = after]
      BY <2>2
    <3>2. j \in JobStates /\ j.stage = "filling" /\ j.plan = plan /\ j.inserted = after
      BY <1>1, <1>2, <1>3, <1>4, <3>1 DEF JobStates, Stages
    <3> HIDE DEF j, plan
    <3>3. QED
      BY <1>3, <1>4, <2>2, <3>2 DEF JobGood
  <2>3. QED
    BY <2>1, <2>2
<1> HIDE DEF j, plan, before
<1>6. failures' \in 0..MaxFailures /\ treeRace' \in BOOLEAN /\ treeRace' = treeRace
  BY <1>1 DEF TreeInv, JobTypes
<1>7. /\ JobTypes' /\ \A r \in Requests : JobOK(r)'
      /\ job'[u] = j /\ (\A s \in Requests \ {u} : job'[s] = job[s]) /\ Retitled' = Retitled
  BY <1>1, <1>5, <1>6, JobBecomes
<1>8. Keys'
  <2>1. Keys
    BY DEF TreeInv
  <2>2. \A e, f \in Chunk(u) : e.id = f.id => e = f
    BY <1>3, <1>4
  <2>3. Chunk(u) \subseteq Entries
    BY <1>3, <1>4
  <2>4. /\ \A e \in Chunk(u), f \in tree : e.id # f.id
        /\ \A e \in Chunk(u) : e.pageId \in {a.id : a \in pages} \cup {0} /\ e.parent \in {f.id : f \in tree \cup Chunk(u)} \cup {0}
    BY <1>1 DEF KeysHold
  <2>5. QED
    BY <1>1, <2>1, <2>2, <2>3, <2>4 DEF Keys
<1>9. TreeDescribes'
  <2> SUFFICES ASSUME ~treeRace' PROVE TreeDescribes'
    BY DEF TreeDescribes
  <2>1. u \in InWindow /\ \A r, s \in InWindow : r = s
    BY <1>1, <1>6 DEF InWindow, TreeInv, TreeDescribes
  <2>2. InWindow = {u}
    BY <2>1
  <2>3. InWindow' = IF after = Len(plan) THEN {} ELSE {u}
    BY <1>5, <1>7, <2>2 DEF InWindow
  <2>4. Pending => Pending'
    BY <1>1, <1>7 DEF Pending
  <2>5. ~Pending' => Describes(ToSet(plan), pages, Retitled) /\ tree = {plan[i] : i \in 1..before}
    BY <1>1, <1>6, <2>1, <2>4 DEF TreeInv, TreeDescribes, InsertedOf, plan, before
  <2>6. ~Pending' => tree' = {plan[i] : i \in 1..after}
    <3>1. \A i : i \in 1..after <=> i \in 1..before \/ i \in (before + 1)..after
      BY <1>3, <1>4
    <3>2. QED
      BY <1>1, <1>3, <2>5, <3>1
  <2>7. CASE after = Len(plan)
    <3>1. ToSet(plan) = {plan[i] : i \in 1..after}
      BY <1>4, <2>7 DEF ToSet
    <3>2. ~Pending' => Describes(tree, pages, Retitled)'
      BY <1>1, <1>7, <2>5, <2>6, <3>1
    <3>3. QED
      BY <2>3, <2>7, <3>2 DEF TreeDescribes
  <2>8. CASE after # Len(plan)
    <3>1. job'[u].plan = plan /\ job'[u].inserted = after
      BY <1>5, <1>7, <2>8
    <3>2. InsertedOf(u)' = {plan[i] : i \in 1..after}
      BY <3>1 DEF InsertedOf
    <3>3. QED
      BY <1>1, <1>7, <2>3, <2>5, <2>6, <2>8, <3>1, <3>2 DEF TreeDescribes
  <2>9. QED
    BY <2>7, <2>8
<1>10. QED
  BY <1>7, <1>8, <1>9 DEF TreeInv

LEMMA FailsKeepsTree ==
  ASSUME RequestsInv, TreeInv, NEW u \in Requests, InsertFails(u) \/ JobFails(u)
  PROVE  TreeInv'
<1> DEFINE j == [NoJob EXCEPT !.stage = "failed"]
<1>1. job[u].stage # "none" /\ job' = [job EXCEPT ![u] = j] /\ UNCHANGED <<pages, tree, req>> /\ treeRace' = TRUE
      /\ (failures' = failures \/ (failures < MaxFailures /\ failures' = failures + 1))
  BY DEF InsertFails, JobFails, EndsJob
<1>2. failures' \in 0..MaxFailures /\ treeRace' \in BOOLEAN
  BY <1>1, TreeAssumption DEF TreeInv, JobTypes
<1>3. JobGood(j)
  BY EndedJob
<1> HIDE DEF j
<1>4. JobTypes' /\ \A r \in Requests : JobOK(r)'
  BY <1>1, <1>2, <1>3, JobBecomes
<1>5. Keys'
  BY <1>1 DEF TreeInv, Keys
<1>6. QED
  BY <1>1, <1>4, <1>5 DEF TreeInv, TreeDescribes

(* A title set: an undisturbed plan knows it already.                       *)
LEMMA UpdateTitleKeepsTree ==
  ASSUME RequestsInv, TreeInv, NEW u \in Requests, UpdateTitle(u)
  PROVE  TreeInv'
<1> DEFINE id == req[u].id
           title == req[u].title
<1>1. /\ u \in Active /\ req[u].step = "title" /\ Goes(u, "done") /\ UNCHANGED <<pages, job, failures>>
      /\ tree' = SetTitle(tree, id, title)
  BY DEF UpdateTitle, Active, SetTitle
<1>2. treeRace' = (\/ treeRace
                   \/ \E s \in InWindow : \E i \in DOMAIN job[s].plan :
                        job[s].plan[i].pageId = id /\ job[s].plan[i].title # title
                   \/ \E a \in Row(id) : a.title # title)
  BY DEF UpdateTitle
<1>3. id # 0 /\ title \in Nat
  <2>1. req[u] \in ReqStates /\ Waits(u) /\ MaxId \in Nat
    BY <1>1, ActiveFacts, Numbers DEF RequestsInv
  <2>2. QED
    BY <1>1, <2>1, TitlesAreNumbers DEF ReqStates, Waits
<1>4. req'[u].step = "done" /\ \A s \in Requests \ {u} : req'[s] = req[s]
  BY <1>1, GoesMeans DEF Steps
<1> HIDE DEF id, title
<1>5. treeRace \in BOOLEAN
  BY DEF TreeInv, JobTypes
<1>6. treeRace' \in BOOLEAN
  BY <1>2, <1>5
<1>7. ~treeRace' => /\ ~treeRace
                    /\ \A s \in InWindow : \A i \in DOMAIN job[s].plan : job[s].plan[i].pageId = id => job[s].plan[i].title = title
                    /\ \A a \in pages : a.id = id => a.title = title
  BY <1>2 DEF Row
<1>8. JobTypes' /\ InWindow' = InWindow
  BY <1>1, <1>6 DEF TreeInv, JobTypes, InWindow
<1>9. \A r \in Requests : JobOK(r)'
  BY <1>1, <1>4 DEF TreeInv, JobOK
<1> DEFINE set(e) == IF e.pageId = id THEN [e EXCEPT !.title = title] ELSE e
<1>10. tree' = {set(e) : e \in tree} /\ tree \subseteq Entries
  BY <1>1 DEF SetTitle, TreeInv, Keys
<1>11. \A e \in Entries : /\ set(e) \in Entries /\ set(e).id = e.id /\ set(e).pageId = e.pageId /\ set(e).parent = e.parent
                          /\ (e.pageId = id => set(e).title = title) /\ (e.pageId # id \/ e.title = title => set(e) = e)
  BY <1>3 DEF Entries
<1> HIDE DEF set
<1>12. Keys'
  <2>1. Keys
    BY DEF TreeInv
  <2>2. \A s \in tree' : \E e \in tree : s = set(e)
    BY <1>10
  <2>3. \A e \in tree : set(e) \in tree' /\ set(e).id = e.id
    BY <1>10, <1>11
  <2>4. \A s \in tree' : s.pageId \in {a.id : a \in pages'} \cup {0} /\ s.parent \in {f.id : f \in tree'} \cup {0}
    <3> SUFFICES ASSUME NEW s \in tree'
                 PROVE  s.pageId \in {a.id : a \in pages'} \cup {0} /\ s.parent \in {f.id : f \in tree'} \cup {0}
      OBVIOUS
    <3>1. PICK e \in tree : s = set(e)
      BY <2>2
    <3>2. s.pageId = e.pageId /\ s.parent = e.parent
      BY <1>10, <1>11, <3>1
    <3>3. e.pageId \in {a.id : a \in pages} \cup {0} /\ e.parent \in {f.id : f \in tree} \cup {0}
      BY <2>1 DEF Keys
    <3>4. pages' = pages
      BY <1>1
    <3>5. e.parent = 0 \/ \E f \in tree : e.parent = f.id
      BY <3>3
    <3>6. s.parent = 0 \/ \E f \in tree' : s.parent = f.id
      BY <2>3, <3>2, <3>5
    <3>7. QED
      BY <3>2, <3>3, <3>4, <3>6
  <2>5. \A s, v \in tree' : s.id = v.id => s = v
    <3> SUFFICES ASSUME NEW s \in tree', NEW v \in tree', s.id = v.id PROVE s = v
      OBVIOUS
    <3>1. PICK e \in tree, f \in tree : s = set(e) /\ v = set(f)
      BY <2>2
    <3>2. e = f
      BY <1>10, <1>11, <2>1, <3>1 DEF Keys
    <3>3. QED
      BY <3>1, <3>2
  <2>6. tree' \subseteq Entries
    BY <1>10, <1>11
  <2>7. QED
    BY <2>4, <2>5, <2>6 DEF Keys
<1>13. TreeDescribes'
  <2> SUFFICES ASSUME ~treeRace' PROVE TreeDescribes'
    BY DEF TreeDescribes
  <2>1. Pending => Pending'
    BY <1>1, <1>4 DEF Pending
  <2>2. \A x \in Retitled : x \in Retitled' \/ x = id
    BY <1>4 DEF Retitled, Active, id
  <2>3. \A a \in pages : a.id = id => a.title = title
    BY <1>7
  <2>4. ASSUME NEW E, Describes(E, pages, Retitled), \A e \in E : e.pageId = id => e.title = title
        PROVE  Describes(E, pages, Retitled)'
    <3>1. TitlesOf(E, pages, Retitled')
      BY <2>2, <2>3, <2>4 DEF Describes, TitlesOf
    <3>2. QED
      BY <1>1, <2>4, <3>1 DEF Describes
  <2>5. ASSUME ~Pending', InWindow = {}
        PROVE  Describes(tree, pages, Retitled)'
    <3>1. Describes(tree, pages, Retitled)
      BY <1>7, <2>1, <2>5 DEF TreeInv, TreeDescribes
    <3>2. PlacesOf(tree', pages)
      BY <1>1, <1>3, <1>10, <3>1, SetTitleKeepsPlaces DEF Describes
    <3>3. TitlesOf(tree', pages, Retitled')
      <4> SUFFICES ASSUME NEW s \in tree', NEW a \in pages, s.pageId = a.id PROVE s.title = a.title \/ a.id \in Retitled'
        BY DEF TitlesOf
      <4>1. PICK e \in tree : s = set(e)
        BY <1>10
      <4>2. e \in Entries /\ e.pageId = a.id
        BY <1>10, <1>11, <4>1
      <4>3. CASE a.id = id
        BY <1>11, <2>3, <4>1, <4>2, <4>3
      <4>4. CASE a.id # id
        <5>1. s = e
          BY <1>11, <4>1, <4>2, <4>4
        <5>2. e.title = a.title \/ a.id \in Retitled
          BY <3>1, <4>2 DEF Describes, TitlesOf
        <5>3. QED
          BY <2>2, <4>4, <5>1, <5>2
      <4>5. QED
        BY <4>3, <4>4
    <3>4. QED
      BY <1>1, <3>2, <3>3 DEF Describes
  <2>6. ASSUME ~Pending', NEW r \in InWindow
        PROVE  /\ Describes(ToSet(job[r].plan), pages, Retitled)'
               /\ job[r].stage = "filling" => tree' = InsertedOf(r)
    <3>1. /\ Describes(ToSet(job[r].plan), pages, Retitled)
          /\ job[r].stage = "filling" => tree = InsertedOf(r)
      BY <1>7, <2>1, <2>6 DEF TreeInv, TreeDescribes
    <3>2. \A i \in DOMAIN job[r].plan : job[r].plan[i].pageId = id => job[r].plan[i].title = title
      BY <1>7
    <3>3. \A e \in ToSet(job[r].plan) : e.pageId = id => e.title = title
      BY <3>2 DEF ToSet
    <3>4. Describes(ToSet(job[r].plan), pages, Retitled)'
      <4> DEFINE E == ToSet(job[r].plan)
      <4>1. E' = E
        BY <1>1
      <4> HIDE DEF E
      <4>2. Describes(E, pages, Retitled) /\ \A e \in E : e.pageId = id => e.title = title
        BY <3>1, <3>3 DEF E
      <4>3. TitlesOf(E, pages, Retitled')
        BY <2>2, <2>3, <4>2 DEF Describes, TitlesOf
      <4>4. Describes(E, pages', Retitled')
        BY <1>1, <4>2, <4>3 DEF Describes
      <4>5. QED
        BY <1>1, <4>4 DEF E
    <3>5. ASSUME job[r].stage = "filling"
          PROVE  tree' = InsertedOf(r)
      <4>1. r \in Requests /\ job[r] \in JobStates /\ JobOK(r)
        BY DEF InWindow, TreeInv, JobTypes
      <4>2. \A i \in 1..job[r].inserted : i \in DOMAIN job[r].plan
        BY <4>1 DEF JobStates, JobOK
      <4>3. \A e \in tree : e.pageId = id => e.title = title
        BY <3>1, <3>2, <3>5, <4>2 DEF InsertedOf
      <4>4. \A e \in tree : set(e) = e
        BY <1>10, <1>11, <4>3
      <4>5. tree' = tree
        BY <1>10, <4>4
      <4>6. QED
        BY <3>1, <3>5, <4>5
    <3>6. QED
      BY <3>4, <3>5
  <2>7. \A r : InsertedOf(r)' = InsertedOf(r)
    BY <1>1 DEF InsertedOf
  <2>8. \A r, s \in InWindow : r = s
    BY <1>7 DEF TreeInv, TreeDescribes
  <2>9. QED
    BY <1>1, <1>8, <2>5, <2>6, <2>7, <2>8 DEF TreeDescribes
<1>14. QED
  BY <1>8, <1>9, <1>12, <1>13 DEF TreeInv

LEMMA NoJobFacts == NoJob \in JobStates /\ NoJob.stage = "none" /\ NoJob.plan = <<>> /\ NoJob.inserted = 0
<1>1. <<>> \in Seq(Entries)
  OBVIOUS
<1>2. \A p \in Seq(Entries) : [stage |-> "none", plan |-> p, inserted |-> 0] \in JobStates
  BY DEF JobStates, Stages
<1>3. QED
  BY <1>1, <1>2 DEF NoJob

LEMMA TreeInit ==
  ASSUME Init
  PROVE  TreeInv
<1> DEFINE t == BuildTree(pages)
<1>1. RequestsInv
  BY RequestsInit
<1>2. \A a \in pages : a.id # 0
  <2>1. MaxId \in Nat
    BY <1>1, Numbers DEF RequestsInv
  <2>2. QED
    BY <1>1, <2>1 DEF RequestsInv, Types, Rows
<1>3. /\ t \in Seq(Entries) /\ \A i \in 1..Len(t) : t[i].id = i
      /\ Describes(ToSet(t), pages, Retitled)
      /\ \A e \in ToSet(t) : e.pageId \in {a.id : a \in pages} \cup {0}
  BY <1>1, <1>2, PagesAreTable, BuildTreeDescribes
<1>4. tree = ToSet(t) /\ job = [r \in Requests |-> NoJob] /\ req = [r \in Requests |-> NoRequest]
      /\ failures = 0 /\ treeRace = FALSE
  BY DEF Init
<1> HIDE DEF t
<1>5. ToSet(t) \subseteq Entries
  BY <1>3 DEF ToSet
<1>6. JobTypes
  <2>1. job \in [Requests -> JobStates]
    BY <1>4, NoJobFacts
  <2>2. failures \in 0..MaxFailures
    BY <1>4, TreeAssumption
  <2>3. QED
    BY <1>4, <2>1, <2>2 DEF JobTypes
<1>7. \A r \in Requests : job[r] = NoJob /\ req[r].step = "new"
  BY <1>4 DEF NoRequest
<1>8. \A r \in Requests : JobOK(r)
  <2>1. Len(<<>>) = 0 /\ 1..0 = {}
    OBVIOUS
  <2>2. QED
    BY <1>7, <2>1, NoJobFacts DEF JobOK
<1>9. Keys
  <2>1. PlacesOf(tree, pages)
    BY <1>3, <1>4 DEF Describes
  <2>2. \A e \in tree : e.parent \in {f.id : f \in tree} \cup {0}
    <3>1. \A e \in tree : Placed(e, tree, pages)
      BY <2>1 DEF PlacesOf
    <3>2. QED
      BY <3>1 DEF Placed
  <2>3. \A e, f \in tree : e.id = f.id => e = f
    BY <2>1 DEF PlacesOf
  <2>4. QED
    BY <1>3, <1>4, <1>5, <2>2, <2>3 DEF Keys
<1>10. TreeDescribes
  <2>1. InWindow = {}
    BY <1>7, NoJobFacts DEF InWindow
  <2>2. QED
    BY <1>3, <1>4, <2>1 DEF TreeDescribes
<1>11. QED
  BY <1>6, <1>8, <1>9, <1>10 DEF TreeInv

LEMMA TreeStep ==
  ASSUME RequestsInv, TreeInv, [Next]_vars
  PROVE  TreeInv'
<1>1. ASSUME NEW u \in Requests, RequestStep(u) PROVE TreeInv'
  <2>1. CASE \/ \E p \in Paths : CheckFree(u, p)
             \/ \E a \in pages, to \in Paths : CheckDestination(u, a, to)
             \/ \E a \in pages : FetchToDelete(u, a)
    BY <2>1, LookLeavesTree
  <2>2. CASE \E a \in pages : Save(u, a)
    BY <2>2, SaveKeepsTree
  <2>3. CASE Insert(u) \/ MoveRow(u) \/ DeleteRow(u)
    BY <2>3, WritesKeepTree
  <2>4. CASE RebuildTree(u)
    BY <2>4, QueueKeepsTree
  <2>5. CASE Rebuilt(u) \/ Index(u) \/ Store(u) \/ TargetFails(u)
    BY <2>5, GoesOnLeavesTree
  <2>6. CASE PageGone(u) \/ RequestFails(u)
    BY <2>6, ThrowLeavesTree
  <2>7. CASE UpdateTitle(u)
    BY <2>7, UpdateTitleKeepsTree
  <2>8. QED
    BY <1>1, <2>1, <2>2, <2>3, <2>4, <2>5, <2>6, <2>7 DEF RequestStep
<1>2. ASSUME NEW u \in Requests, JobStep(u) PROVE TreeInv'
  BY <1>2, QueueKeepsTree, ReadPagesKeepsTree, TruncateKeepsTree, InsertChunkKeepsTree, FailsKeepsTree DEF JobStep
<1>3. CASE UNCHANGED vars
  <2>1. JobTypes' /\ Keys'
    BY <1>3 DEF vars, TreeInv, JobTypes, Keys
  <2>2. \A r \in Requests : JobOK(r)'
    BY <1>3 DEF vars, TreeInv, JobOK
  <2>3. TreeDescribes'
    <3>1. InWindow' = InWindow /\ (Pending' <=> Pending) /\ Retitled' = Retitled /\ \A r : InsertedOf(r)' = InsertedOf(r)
      BY <1>3 DEF vars, InWindow, Pending, Retitled, Active, InsertedOf
    <3>2. QED
      BY <1>3, <3>1 DEF vars, TreeInv, TreeDescribes
  <2>4. QED
    BY <2>1, <2>2, <2>3 DEF TreeInv
<1>4. QED
  BY <1>1, <1>2, <1>3 DEF Next

(* The invariant: unless a rebuild is still to read the pages, or one was   *)
(* disturbed, the tree describes the pages, or what the one job at work     *)
(* has read does and the tree is what it has inserted; titles excepted that *)
(* a save is about to set (rebuild-tree.js:57-70, pages.js:464-468).        *)
THEOREM TreeInvariant == Spec => [](RequestsInv /\ TreeInv)
<1>1. Init => TreeInv
  BY TreeInit
<1>2. RequestsInv /\ TreeInv /\ [Next]_vars => TreeInv'
  BY TreeStep
<1>3. QED
  BY <1>1, <1>2, RequestsInvariant, PTL DEF Spec

(* At every state the variables have their types, the ids of pages and of   *)
(* tree entries are unique, and every entry's page and parent exist, as     *)
(* their foreign keys demand (rebuild-tree.js:57-70,                        *)
(* migrations/2.0.0.js:304-311).                                            *)
THEOREM TypeCorrect == Spec => []TypeOK
<1>1. ASSUME RequestsInv, TreeInv PROVE TypeOK
  <2>1. ASSUME NEW r \in Requests
        PROVE  /\ req[r].step \in Steps /\ req[r].kind \in {"none", "create", "move", "delete", "save"}
               /\ req[r].id \in 0..MaxId /\ req[r].path \in Paths \cup {NoPath} /\ req[r].to \in Paths \cup {NoPath}
               /\ req[r].title \in AllTitles \cup {0} /\ req[r].text \in 0..MaxId /\ req[r].template \in BOOLEAN
    BY <1>1 DEF RequestsInv, Types, ReqStates, Kinds
  <2>2. ASSUME NEW r \in Requests
        PROVE  /\ job[r].stage \in {"none", "queued", "forked", "read", "filling", "done", "failed"}
               /\ job[r].inserted \in 0..Len(job[r].plan)
    <3>1. job[r] \in JobStates /\ JobOK(r)
      BY <1>1 DEF TreeInv, JobTypes
    <3>2. job[r].stage \in Stages /\ job[r].inserted \in Nat /\ Len(job[r].plan) \in Nat
      BY <3>1 DEF JobStates
    <3>3. job[r].inserted <= Len(job[r].plan)
      BY <3>1 DEF JobOK
    <3>4. QED
      BY <3>2, <3>3 DEF Stages
  <2>3. pages \subseteq Rows /\ \A a, b \in pages : a.id = b.id => a = b
    BY <1>1 DEF RequestsInv, Types, NumbersAreNew
  <2>4. /\ \A e \in tree : e.pageId \in {a.id : a \in pages} \cup {0} /\ e.parent \in {f.id : f \in tree} \cup {0}
        /\ \A e, f \in tree : e.id = f.id => e = f
    BY <1>1 DEF TreeInv, Keys
  <2>5. search \in [Paths -> 0..MaxId] /\ files \in [Paths -> 0..MaxId] /\ excused \subseteq Paths
    BY <1>1 DEF RequestsInv, Types
  <2>6. failures \in 0..MaxFailures /\ treeRace \in BOOLEAN
    BY <1>1 DEF TreeInv, JobTypes
  <2>7. QED
    BY <2>1, <2>2, <2>3, <2>4, <2>5, <2>6 DEF TypeOK
<1>2. QED
  BY <1>1, TreeInvariant, PTL

(* Once all requests and jobs have ended, the table is the tree of the      *)
(* pages, with their titles, however requests and rebuilds were             *)
(* interleaved, unless since the last undisturbed rebuild one overlapped    *)
(* another or failed, a request threw between its write and its rebuild or  *)
(* title, or a save set its title while a rebuild had read another one or   *)
(* after somebody else had changed the row's (rebuild-tree.js:57-70,        *)
(* pages.js:314, 464-468, 716-726).                                         *)
THEOREM TreeFollowsPages == Spec => []TreeMatchesPages
<1>1. ASSUME RequestsInv, TreeInv, AtRest, ~treeRace PROVE IsTreeOf(tree, pages)
  <2>1. ~Pending /\ InWindow = {} /\ Retitled = {}
    BY <1>1 DEF AtRest, Pending, InWindow, Retitled, Active
  <2>2. Describes(tree, pages, {})
    BY <1>1, <2>1 DEF TreeInv, TreeDescribes
  <2>3. QED
    BY <2>2, DescribedIsTree
<1>2. RequestsInv /\ TreeInv => TreeMatchesPages
  BY <1>1 DEF TreeMatchesPages
<1>3. QED
  BY <1>2, TreeInvariant, PTL

=============================================================================
