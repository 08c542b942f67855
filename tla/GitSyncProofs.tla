---------------------------- MODULE GitSyncProofs ----------------------------
(***************************************************************************)
(* Theorems about GitSync, for any pages, edits, failures and restarts, in *)
(* every mode: what git makes of commits, that the working copy is what    *)
(* its commits say while a sync is under way, and that no change of the    *)
(* remote is passed over or taken back.                                    *)
(***************************************************************************)
EXTENDS GitSync, SequenceTheorems, FiniteSetTheorems, WellFoundedInduction, TLAPS

-----------------------------------------------------------------------------
(* Induction and recursion over the natural numbers *)

(* The natural numbers are well-founded, so that a set of them that holds   *)
(* every number whose predecessor it holds is that of all numbers.          *)
LEMMA Induction ==
  ASSUME NEW S, \A n \in Nat : (n = 0 \/ n - 1 \in S) => n \in S
  PROVE  Nat \subseteq S
<1>1. SUFFICES ASSUME Nat \ S # {} PROVE FALSE
  OBVIOUS
<1>2. IsWellFoundedOn(OpToRel(<, Nat), Nat)
  BY NatLessThanWellFounded
<1>3. PICK least \in Nat \ S : \A n \in Nat \ S : ~(<<n, least>> \in OpToRel(<, Nat))
  BY <1>1, <1>2, WFMin
<1>4. \A n \in Nat \ S : ~(n < least)
  BY <1>3 DEF OpToRel
<1>5. least # 0 /\ least - 1 \in Nat /\ least - 1 < least
  <2>1. 0 \in S
    OBVIOUS
  <2>2. least \in Nat /\ least # 0
    BY <2>1
  <2>3. QED
    BY <2>2
<1>6. least - 1 \in S
  BY <1>4, <1>5
<1>7. QED
  BY <1>3, <1>5, <1>6

(* f begins with first and applies apply[m] to the value before m. *)
Recurs(f, n, first, apply) == f = [m \in 0..n |-> IF m = 0 THEN first ELSE apply[m][f[m - 1]]]

LEMMA RecursiveFunction ==
  ASSUME NEW T, NEW first \in T, NEW apply \in [Nat -> [T -> T]], NEW L \in Nat
  PROVE  \E f \in [0..L -> T] : Recurs(f, L, first, apply)
<1> DEFINE Possible == {n \in Nat : \E f \in [0..n -> T] : Recurs(f, n, first, apply)}
<1>1. ASSUME NEW n \in Nat, n = 0 \/ n - 1 \in Possible
      PROVE  n \in Possible
  <2>1. CASE n = 0
    <3> DEFINE f == [m \in 0..0 |-> first]
    <3>1. f \in [0..0 -> T] /\ Recurs(f, 0, first, apply)
      BY DEF Recurs
    <3>2. QED
      BY <2>1, <3>1
  <2>2. CASE n # 0
    <3>1. n - 1 \in Nat /\ n - 1 \in Possible
      BY <1>1, <2>2
    <3>2. PICK g \in [0..(n - 1) -> T] : Recurs(g, n - 1, first, apply)
      BY <3>1
    <3>3. \A m \in 0..(n - 1) : g[m] = IF m = 0 THEN first ELSE apply[m][g[m - 1]]
      BY <3>2 DEF Recurs
    <3> DEFINE next == apply[n][g[n - 1]]
               f == [m \in 0..n |-> IF m = n THEN next ELSE g[m]]
    <3>4. next \in T
      <4>1. g[n - 1] \in T
        BY <3>1, <3>2
      <4>2. QED
        BY <4>1
    <3> HIDE DEF next
    <3>5. f[n - 1] = g[n - 1] /\ f[n] = next /\ f \in [0..n -> T]
      BY <3>1, <3>2, <3>4
    <3>6. \A m \in 0..n : m # n => m \in 0..(n - 1) /\ f[m] = g[m] /\ (m # 0 => f[m - 1] = g[m - 1])
      BY <3>1
    <3> HIDE DEF f
    <3>7. \A m \in 0..n : f[m] = IF m = 0 THEN first ELSE apply[m][f[m - 1]]
      <4> SUFFICES ASSUME NEW m \in 0..n PROVE f[m] = IF m = 0 THEN first ELSE apply[m][f[m - 1]]
        OBVIOUS
      <4>1. CASE m = n
        BY <4>1, <2>2, <3>5 DEF next
      <4>2. CASE m # n
        BY <4>2, <3>3, <3>6
      <4>3. QED
        BY <4>1, <4>2
    <3>8. Recurs(f, n, first, apply)
      BY <3>5, <3>7 DEF Recurs
    <3>9. QED
      BY <3>5, <3>8
  <2>3. QED
    BY <2>1, <2>2
<1>2. Nat \subseteq Possible
  <2> HIDE DEF Possible
  <2>1. QED
    BY <1>1, Induction
<1>3. QED
  BY <1>2

(* A set of indices has a last one. *)
LEMMA LastIndex ==
  ASSUME NEW n \in Nat, NEW S \in SUBSET (1..n), S # {}
  PROVE  \E i \in S : \A j \in S : j <= i
<1> DEFINE T == {m \in Nat : \E i \in S : m = n - i}
<1>1. \A i \in S : n - i \in T
  OBVIOUS
<1>2. T \in SUBSET Nat /\ T # {}
  BY <1>1
<1> HIDE DEF T
<1>3. IsWellFoundedOn(OpToRel(<, Nat), Nat)
  BY NatLessThanWellFounded
<1>4. PICK least \in T : \A m \in T : ~(<<m, least>> \in OpToRel(<, Nat))
  BY <1>2, <1>3, WFMin
<1>5. \A m \in T : ~(m < least)
  BY <1>2, <1>4 DEF OpToRel
<1>6. PICK i \in S : least = n - i
  BY <1>4 DEF T
<1>7. \A j \in S : j <= i
  BY <1>1, <1>5, <1>6
<1>8. QED
  BY <1>7

-----------------------------------------------------------------------------
(* Commits *)

LEMMA ApplyLast ==
  ASSUME NEW t, NEW cs \in Seq(Commits), NEW p \in Pages
  PROVE  \/ Of(p, cs) = {} /\ Apply(t, cs)[p] = t[p]
         \/ \E i \in Of(p, cs) : (\A j \in Of(p, cs) : j <= i) /\ Apply(t, cs)[p] = cs[i].text
<1>1. Len(cs) \in Nat /\ DOMAIN cs = 1..Len(cs) /\ Of(p, cs) \subseteq 1..Len(cs)
  BY DEF Of
<1>2. CASE Of(p, cs) = {}
  BY <1>2 DEF Apply
<1>3. CASE Of(p, cs) # {}
  <2>1. \E i \in Of(p, cs) : \A j \in Of(p, cs) : j <= i
    BY <1>1, <1>3, LastIndex
  <2> DEFINE i == CHOOSE k \in Of(p, cs) : \A j \in Of(p, cs) : j <= k
  <2>2. i \in Of(p, cs) /\ \A j \in Of(p, cs) : j <= i
    BY <2>1
  <2>3. Apply(t, cs)[p] = cs[i].text
    BY <1>3 DEF Apply
  <2>4. QED
    BY <2>2, <2>3
<1>4. QED
  BY <1>2, <1>3

LEMMA ApplyIsTree ==
  ASSUME NEW t \in Trees, NEW cs \in Seq(Commits)
  PROVE  Apply(t, cs) \in Trees
<1>1. Apply(t, cs) = [p \in Pages |-> Apply(t, cs)[p]]
  BY DEF Apply
<1>2. ASSUME NEW p \in Pages
      PROVE  Apply(t, cs)[p] \in Texts
  <2>1. CASE Apply(t, cs)[p] = t[p]
    BY <2>1 DEF Trees
  <2>2. CASE \E i \in Of(p, cs) : Apply(t, cs)[p] = cs[i].text
    <3>1. PICK i \in Of(p, cs) : Apply(t, cs)[p] = cs[i].text
      BY <2>2
    <3>2. i \in 1..Len(cs)
      BY DEF Of
    <3>3. cs[i] \in Commits
      BY <3>2
    <3>4. QED
      BY <3>1, <3>3 DEF Commits
  <2>3. QED
    BY <2>1, <2>2, ApplyLast
<1>3. QED
  BY <1>1, <1>2 DEF Trees

LEMMA ApplyNothing ==
  ASSUME NEW t \in Trees
  PROVE  Apply(t, <<>>) = t
<1>1. \A p \in Pages : Of(p, <<>>) = {}
  BY DEF Of
<1>2. QED
  BY <1>1 DEF Apply, Trees

(* Where two trees differ in a page that a commit touches, they do not any  *)
(* more. *)
LEMMA ApplySame ==
  ASSUME NEW t, NEW u, NEW cs \in Seq(Commits), NEW p \in Pages, Of(p, cs) # {}
  PROVE  Apply(t, cs)[p] = Apply(u, cs)[p]
  BY DEF Apply

LEMMA ApplyConcat ==
  ASSUME NEW t, NEW cs \in Seq(Commits), NEW rest \in Seq(Commits), NEW p \in Pages
  PROVE  Apply(t, cs \o rest)[p] = Apply(Apply(t, cs), rest)[p]
<1> DEFINE all == cs \o rest
<1>1. /\ Len(cs) \in Nat /\ Len(rest) \in Nat /\ DOMAIN cs = 1..Len(cs) /\ DOMAIN rest = 1..Len(rest)
      /\ all \in Seq(Commits) /\ DOMAIN all = 1..(Len(cs) + Len(rest))
  BY ConcatProperties
<1>2. \A i \in 1..(Len(cs) + Len(rest)) : all[i] = IF i <= Len(cs) THEN cs[i] ELSE rest[i - Len(cs)]
  BY ConcatProperties
<1> HIDE DEF all
<1>3. \A i \in DOMAIN cs : i \in DOMAIN all /\ all[i] = cs[i]
  BY <1>1, <1>2
<1>4. \A i \in DOMAIN rest : i + Len(cs) \in DOMAIN all /\ all[i + Len(cs)] = rest[i] /\ i + Len(cs) > Len(cs)
  BY <1>1, <1>2
<1>5. \A i \in DOMAIN all : i \in DOMAIN cs \/ (i - Len(cs) \in DOMAIN rest /\ i > Len(cs) /\ all[i] = rest[i - Len(cs)])
  BY <1>1, <1>2
<1>6. CASE Of(p, rest) = {}
  <2>1. Of(p, all) = Of(p, cs)
    BY <1>3, <1>5, <1>6 DEF Of
  <2>2. \A i \in Of(p, cs) : all[i] = cs[i]
    BY <1>3 DEF Of
  <2>3. Apply(t, all)[p] = Apply(t, cs)[p]
    <3>1. CASE Of(p, cs) = {}
      BY <2>1, <3>1, ApplyLast, <1>1
    <3>2. CASE Of(p, cs) # {}
      <4>1. PICK i \in Of(p, cs) : (\A j \in Of(p, cs) : j <= i) /\ Apply(t, cs)[p] = cs[i].text
        BY <3>2, ApplyLast
      <4>2. PICK k \in Of(p, all) : (\A j \in Of(p, all) : j <= k) /\ Apply(t, all)[p] = all[k].text
        BY <1>1, <2>1, <3>2, ApplyLast
      <4>3. i \in Nat /\ k \in Nat /\ i <= k /\ k <= i
        BY <1>1, <2>1, <4>1, <4>2 DEF Of
      <4>4. QED
        BY <2>2, <4>1, <4>2, <4>3
    <3>3. QED
      BY <3>1, <3>2
  <2>4. QED
    BY <1>6, <2>3, ApplyLast DEF all
<1>7. CASE Of(p, rest) # {}
  <2>1. PICK i \in Of(p, rest) : (\A j \in Of(p, rest) : j <= i) /\ Apply(Apply(t, cs), rest)[p] = rest[i].text
    BY <1>7, ApplyLast
  <2>2. i + Len(cs) \in Of(p, all)
    BY <1>4 DEF Of
  <2>3. PICK k \in Of(p, all) : (\A j \in Of(p, all) : j <= k) /\ Apply(t, all)[p] = all[k].text
    BY <1>1, <2>2, ApplyLast
  <2>4. i + Len(cs) <= k /\ i \in Nat /\ k \in Nat /\ i > 0
    BY <1>1, <2>2, <2>3 DEF Of
  <2>5. k \notin DOMAIN cs
    BY <1>1, <2>4
  <2>6. k - Len(cs) \in Of(p, rest) /\ all[k] = rest[k - Len(cs)]
    BY <1>5, <2>5 DEF Of
  <2>7. k - Len(cs) <= i
    BY <2>1, <2>6
  <2>8. k - Len(cs) = i
    BY <1>1, <2>4, <2>7
  <2>9. QED
    BY <2>1, <2>3, <2>6, <2>8 DEF all
<1>8. QED
  BY <1>6, <1>7

LEMMA ApplyOne ==
  ASSUME NEW t \in Trees, NEW cs \in Seq(Commits), NEW c \in Commits
  PROVE  Apply(t, Append(cs, c)) = [Apply(t, cs) EXCEPT ![c.page] = c.text]
<1> DEFINE one == <<c>>
<1>1. Append(cs, c) = cs \o one /\ one \in Seq(Commits) /\ DOMAIN one = {1} /\ one[1] = c
  BY AppendIsConcat
<1>2. \A p \in Pages : Of(p, one) = IF p = c.page THEN {1} ELSE {}
  BY <1>1 DEF Of
<1>3. Apply(t, cs) \in Trees
  BY ApplyIsTree
<1> HIDE DEF one
<1>4. ASSUME NEW p \in Pages
      PROVE  Apply(t, Append(cs, c))[p] = [Apply(t, cs) EXCEPT ![c.page] = c.text][p]
  <2>1. Apply(t, Append(cs, c))[p] = Apply(Apply(t, cs), one)[p]
    BY <1>1, ApplyConcat
  <2>2. CASE p = c.page
    <3>1. Apply(Apply(t, cs), one)[p] = one[1].text
      <4>1. Of(p, one) = {1}
        BY <1>2, <2>2
      <4>2. \E i \in Of(p, one) : Apply(Apply(t, cs), one)[p] = one[i].text
        <5> DEFINE u == Apply(t, cs)
        <5> HIDE DEF u
        <5>1. one \in Seq(Commits) /\ Of(p, one) # {}
          BY <1>1, <4>1
        <5>2. \E i \in Of(p, one) : Apply(u, one)[p] = one[i].text
          BY <5>1, ApplyLast
        <5>3. QED
          BY <5>2 DEF u
      <4>3. QED
        BY <4>1, <4>2
    <3>2. QED
      BY <1>1, <1>3, <2>1, <2>2, <3>1 DEF Trees
  <2>3. CASE p # c.page
    <3>1. Apply(Apply(t, cs), one)[p] = Apply(t, cs)[p]
      BY <1>1, <1>2, <2>3, ApplyLast
    <3>2. QED
      BY <1>3, <2>1, <2>3, <3>1 DEF Trees
  <2>4. QED
    BY <2>2, <2>3
<1>5. Append(cs, c) \in Seq(Commits)
  OBVIOUS
<1>6. Apply(t, Append(cs, c)) \in Trees
  BY <1>5, ApplyIsTree
<1>7. QED
  BY <1>3, <1>4, <1>6 DEF Trees

(* A finite set of commits in any order has all of them. *)
LEMMA AnyOrder ==
  ASSUME NEW S, IsFiniteSet(S)
  PROVE  /\ SetToSeq(S) \in Seq(S)
         /\ \A s \in S : \E i \in DOMAIN SetToSeq(S) : SetToSeq(S)[i] = s
<1> DEFINE D == 1..Cardinality(S)
           order == SetToSeq(S)
<1>1. Cardinality(S) \in Nat /\ ExistsBijection(D, S)
  BY FS_CardinalityType
<1>2. \E f \in [D -> S] : IsInjective(f)
  BY <1>1 DEF ExistsBijection, Bijection, Injection
<1>3. order \in [D -> S] /\ IsInjective(order)
  BY <1>2 DEF SetToSeq
<1>4. order \in Injection(D, S) /\ Cardinality(D) = Cardinality(S)
  <2>1. Cardinality(D) = Cardinality(S)
    BY <1>1, FS_Interval
  <2> HIDE DEF order
  <2>2. QED
    BY <1>3, <2>1 DEF Injection
<1>5. order \in Surjection(D, S)
  <2> HIDE DEF order, D
  <2>1. QED
    BY <1>4, FS_Injection
<1> HIDE DEF order
<1>6. order \in Seq(S) /\ \A s \in S : \E i \in DOMAIN order : order[i] = s
  BY <1>1, <1>3, <1>5 DEF Surjection
<1>7. QED
  BY <1>6 DEF order

LEMMA FiniteCommits ==
  ASSUME NEW u
  PROVE  IsFiniteSet(CommitsOf(u))
<1> DEFINE f == [p \in Pages |-> [page |-> p, text |-> u[p]]]
<1>1. f \in Surjection(Pages, CommitsOf(u))
  BY DEF Surjection, CommitsOf
<1> HIDE DEF f
<1>2. QED
  BY <1>1, GitAssumption, FS_Surjection

(* What is committed of the pages that were changed, in any order, gives    *)
(* the tree they were changed to. *)
LEMMA ApplyChanges ==
  ASSUME NEW t \in Trees, NEW u \in Trees, NEW cs \in Seq(Commits),
         cs = SetToSeq({c \in CommitsOf(u) : c.page \in {p \in Pages : u[p] # t[p]}})
  PROVE  Apply(t, cs) = u
<1> DEFINE S == {c \in CommitsOf(u) : c.page \in {p \in Pages : u[p] # t[p]}}
<1>1. IsFiniteSet(S)
  BY FiniteCommits, FS_Subset
<1>2. cs \in Seq(S) /\ \A c \in S : \E i \in DOMAIN cs : cs[i] = c
  <2> HIDE DEF S
  <2>1. SetToSeq(S) \in Seq(S) /\ \A s \in S : \E i \in DOMAIN SetToSeq(S) : SetToSeq(S)[i] = s
    BY <1>1, AnyOrder
  <2>2. QED
    BY <2>1 DEF S
<1>3. ASSUME NEW p \in Pages
      PROVE  Apply(t, cs)[p] = u[p]
  <2>1. \A i \in Of(p, cs) : cs[i].text = u[p]
    <3>1. \A i \in DOMAIN cs : cs[i] \in S
      <4> HIDE DEF S
      <4>1. QED
        BY <1>2
    <3>2. \A c \in S : c.text = u[c.page]
      BY DEF CommitsOf
    <3>3. QED
      BY <3>1, <3>2 DEF Of
  <2>2. CASE u[p] # t[p]
    <3>1. [page |-> p, text |-> u[p]] \in S
      BY <2>2 DEF CommitsOf
    <3>2. \E i \in DOMAIN cs : cs[i] = [page |-> p, text |-> u[p]]
      <4> HIDE DEF S
      <4>1. QED
        BY <1>2, <3>1
    <3>3. Of(p, cs) # {}
      BY <3>2 DEF Of
    <3>4. QED
      BY <2>1, <3>3, ApplyLast
  <2>3. CASE u[p] = t[p]
    BY <2>1, <2>3, ApplyLast
  <2>4. QED
    BY <2>2, <2>3
<1>4. Apply(t, cs) \in Trees
  BY ApplyIsTree
<1>5. QED
  BY <1>3, <1>4 DEF Trees

-----------------------------------------------------------------------------
(* Rebase *)

Replays == [conflict : BOOLEAN, parent : Trees, ours : Trees, commits : Seq(Commits)]

LEMMA ReplayIsReplay ==
  ASSUME NEW r \in Replays, NEW c \in Commits
  PROVE  /\ Replay(r, c) \in Replays
         /\ Replay(r, c).ours = [r.ours EXCEPT ![c.page] = c.text]
         /\ Replay(r, c).commits = IF r.ours[c.page] = c.text THEN r.commits ELSE Append(r.commits, c)
<1>1. /\ r.conflict \in BOOLEAN /\ r.parent \in Trees /\ r.ours \in Trees /\ r.commits \in Seq(Commits)
      /\ c.page \in Pages /\ c.text \in Texts
  BY DEF Replays, Commits
<1>2. [r.parent EXCEPT ![c.page] = c.text] \in Trees /\ [r.ours EXCEPT ![c.page] = c.text] \in Trees
  BY <1>1 DEF Trees
<1>3. (IF r.ours[c.page] = c.text THEN r.commits ELSE Append(r.commits, c)) \in Seq(Commits)
  BY <1>1
<1>4. (r.conflict \/ ModifyDelete(c, r.parent, r.ours)) \in BOOLEAN
  BY <1>1
<1>5. QED
  BY <1>2, <1>3, <1>4 DEF Replay, Replays

(* Commit after commit: the tree is what those so far make of the one they  *)
(* are replayed onto, and so are the commits that are kept. *)
LEMMA ReplayedSoFar ==
  ASSUME local \in Seq(Commits), remote[base] \in Trees, NEW onto \in Trees
  PROVE  \A n \in 0..Len(local) :
           /\ Replayed(onto)[n] \in Replays
           /\ Replayed(onto)[n].ours = Apply(onto, SubSeq(local, 1, n))
           /\ Apply(onto, Replayed(onto)[n].commits) = Replayed(onto)[n].ours
<1> DEFINE L == Len(local)
           first == [conflict |-> FALSE, parent |-> remote[base], ours |-> onto, commits |-> <<>>]
           replays == [m \in Nat |-> [r \in Replays |-> IF m \in 1..L THEN Replay(r, local[m]) ELSE r]]
           f == Replayed(onto)
<1>1. L \in Nat /\ \A m \in 1..L : local[m] \in Commits
  OBVIOUS
<1>2. first \in Replays
  BY DEF Replays
<1> HIDE DEF first
<1>3. f = [n \in 0..L |-> IF n = 0 THEN first ELSE Replay(f[n - 1], local[n])]
  <2>1. replays \in [Nat -> [Replays -> Replays]]
    BY <1>1, ReplayIsReplay
  <2>2. PICK g \in [0..L -> Replays] : Recurs(g, L, first, replays)
    <3> HIDE DEF replays
    <3>1. QED
      BY <1>1, <1>2, <2>1, RecursiveFunction
  <2>3. \A n \in 0..L : g[n] = IF n = 0 THEN first ELSE Replay(g[n - 1], local[n])
    <3> SUFFICES ASSUME NEW n \in 0..L PROVE g[n] = IF n = 0 THEN first ELSE Replay(g[n - 1], local[n])
      OBVIOUS
    <3>1. g[n] = IF n = 0 THEN first ELSE replays[n][g[n - 1]]
      <4> HIDE DEF replays
      <4>1. QED
        BY <2>2 DEF Recurs
    <3>2. n # 0 => n \in 1..L /\ n - 1 \in 0..L /\ g[n - 1] \in Replays
      BY <1>1, <2>2
    <3>3. n # 0 => replays[n][g[n - 1]] = Replay(g[n - 1], local[n])
      BY <1>1, <3>2
    <3>4. QED
      BY <3>1, <3>3
  <2>4. g = [n \in 0..L |-> IF n = 0 THEN first ELSE Replay(g[n - 1], local[n])]
    BY <2>2, <2>3
  <2>5. QED
    BY <2>4 DEF Replayed, first
<1> HIDE DEF f
<1> DEFINE Good(n) == /\ f[n] \in Replays
                      /\ f[n].ours = Apply(onto, SubSeq(local, 1, n))
                      /\ Apply(onto, f[n].commits) = f[n].ours
           S == {n \in Nat : n <= L => Good(n)}
<1>4. ASSUME NEW n \in Nat, n = 0 \/ n - 1 \in S
      PROVE  n \in S
  <2> SUFFICES ASSUME n <= L PROVE Good(n)
    OBVIOUS
  <2>1. CASE n = 0
    <3>1. f[0] = first /\ first.ours = onto /\ first.commits = <<>>
      BY <1>1, <1>3 DEF first
    <3>2. SubSeq(local, 1, 0) = <<>>
      BY SubSeqEmpty
    <3>3. QED
      BY <1>2, <2>1, <3>1, <3>2, ApplyNothing
  <2>2. CASE n # 0
    <3> DEFINE r == f[n - 1]
               c == local[n]
               before == SubSeq(local, 1, n - 1)
    <3>1. r \in Replays /\ r.ours = Apply(onto, before) /\ Apply(onto, r.commits) = r.ours
      BY <1>1, <1>4, <2>2
    <3>2. f[n] = Replay(r, c) /\ c \in Commits
      BY <1>1, <1>3, <2>2
    <3>3. SubSeq(local, 1, n) = Append(before, c) /\ before \in Seq(Commits)
      <4>1. 1 \in 1..Len(local) /\ n \in 1..Len(local)
        BY <1>1, <2>2
      <4>2. SubSeq(local, 1, n) = before \o <<c>>
        BY <4>1, SubSeqRecursiveSecond
      <4>3. before \in Seq(Commits)
        BY <1>1, <4>1, SubSeqProperties
      <4>4. QED
        BY <3>2, <4>2, <4>3, AppendIsConcat
    <3>4. r.ours \in Trees /\ r.commits \in Seq(Commits)
      BY <3>1 DEF Replays
    <3> HIDE DEF r, c, before
    <3>5. f[n] \in Replays /\ f[n].ours = [r.ours EXCEPT ![c.page] = c.text]
          /\ f[n].commits = IF r.ours[c.page] = c.text THEN r.commits ELSE Append(r.commits, c)
      BY <3>1, <3>2, ReplayIsReplay
    <3>6. f[n].ours = Apply(onto, SubSeq(local, 1, n))
      <4>1. Apply(onto, Append(before, c)) = [Apply(onto, before) EXCEPT ![c.page] = c.text]
        BY <3>2, <3>3, ApplyOne
      <4>2. QED
        BY <3>1, <3>3, <3>5, <4>1
    <3>7. Apply(onto, f[n].commits) = f[n].ours
      <4>1. CASE r.ours[c.page] = c.text
        BY <3>1, <3>4, <3>5, <4>1 DEF Trees
      <4>2. CASE r.ours[c.page] # c.text
        <5>1. Apply(onto, Append(r.commits, c)) = [Apply(onto, r.commits) EXCEPT ![c.page] = c.text]
          BY <3>2, <3>4, ApplyOne
        <5>2. QED
          BY <3>1, <3>5, <4>2, <5>1
      <4>3. QED
        BY <4>1, <4>2
    <3>8. QED
      BY <3>5, <3>6, <3>7
  <2>3. QED
    BY <2>1, <2>2
<1>5. Nat \subseteq S
  <2> HIDE DEF S
  <2>1. QED
    BY <1>4, Induction
<1>6. \A n \in 0..L : Good(n)
  BY <1>1, <1>5
<1>7. QED
  BY <1>6 DEF f

(* A rebase drops commits that change nothing, and no text with them. *)
LEMMA RebaseReplays ==
  ASSUME local \in Seq(Commits), remote[base] \in Trees, NEW onto \in Trees
  PROVE  /\ Rebase(onto) \in Replays
         /\ Rebase(onto).ours = Apply(onto, local)
         /\ Apply(onto, Rebase(onto).commits) = Rebase(onto).ours
<1>1. Len(local) \in 0..Len(local) /\ SubSeq(local, 1, Len(local)) = local
  BY SubSeqFull
<1>2. QED
  BY <1>1, ReplayedSoFar DEF Rebase

-----------------------------------------------------------------------------
(* What holds between any two steps *)

(* Where the holder of the mutex can be *)
HolderOK ==
  /\ queue = <<>> => step = "start"
  /\ Holder("write") => step \in {"start", "written"}
  /\ Holder("sync") => step # "written"
  /\ Holder("sync") /\ Mode = "push" => step \in {"start", "repaired", "processed"}
  /\ Holder("sync") /\ Mode # "push" /\ step \notin {"start", "repaired"} => marker # 0

Absorbed == Holder("sync") /\ step \notin {"start", "repaired"}
Clean == Absorbed => tree = HeadTree

(* Only a pull leaves a rebase half done, and it had something to rebase:   *)
(* the branch stays behind the remote until the rebase is aborted. *)
Behind == Rebasing => Mode # "push" /\ base < Len(remote)
Swallowed == Holder("sync") /\ step # "start" /\ Rebasing => "abort failed" \in mishaps

(* processFiles has dealt with the whole tree up to the marker, but for     *)
(* what the first sync took for known, and while a diff is processed, with  *)
(* what is not left to do. *)
MarkedDealt == marker # 0 => CommitsOf(remote[marker]) \subseteq imported \cup baseline
RestOf == {[page |-> p, text |-> remote[tracking][p]] : p \in todo}
ProcessingDealt == Processing => CommitsOf(remote[tracking]) \subseteq imported \cup baseline \cup RestOf

GitInv == TypeOK /\ HolderOK /\ Clean /\ Behind /\ Swallowed /\ MarkedDealt /\ ProcessingDealt

Halves(n) == {NoRebase} \cup [base : 1..n, commits : Seq(Commits), conflict : BOOLEAN]

LEMMA GitTypes ==
  ASSUME TypeOK
  PROVE  /\ Len(remote) \in Nat \ {0} /\ remote \in Seq(Trees) /\ Tip = remote[Len(remote)] /\ Tip \in Trees
         /\ remote[base] \in Trees /\ remote[tracking] \in Trees /\ local \in Seq(Commits)
         /\ BranchTree \in Trees /\ HeadTree \in Trees
         /\ (Dirty = {} <=> tree = HeadTree)
<1>0. /\ remote \in Seq(Trees) /\ base \in 1..Len(remote) /\ tracking \in 1..Len(remote) /\ local \in Seq(Commits) /\ tree \in Trees
      /\ halfDone \in {NoRebase} \cup [base : 1..Len(remote), commits : Seq(Commits), conflict : BOOLEAN]
  BY DEF TypeOK
<1>1. Len(remote) \in Nat \ {0}
  BY <1>0
<1>2. remote[base] \in Trees /\ remote[tracking] \in Trees /\ remote[Len(remote)] \in Trees
  BY <1>0, <1>1
<1>3. BranchTree \in Trees
  BY <1>0, <1>2, ApplyIsTree DEF BranchTree
<1>4. HeadTree \in Trees
  <2>1. CASE Rebasing
    <3>1. halfDone.base \in 1..Len(remote) /\ halfDone.commits \in Seq(Commits)
      BY <1>0, <2>1 DEF Rebasing
    <3>2. remote[halfDone.base] \in Trees
      BY <1>0, <3>1
    <3>3. QED
      BY <2>1, <3>1, <3>2, ApplyIsTree DEF HeadTree
  <2>2. CASE ~Rebasing
    BY <1>3, <2>2 DEF HeadTree
  <2>3. QED
    BY <2>1, <2>2
<1>5. Dirty = {} <=> tree = HeadTree
  BY <1>0, <1>4 DEF Trees, Dirty
<1>6. QED
  BY <1>0, <1>1, <1>2, <1>3, <1>4, <1>5 DEF Tip, Last

LEMMA BoundTypes ==
  ASSUME TypeOK
  PROVE  /\ faults \in 0..MaxFaults /\ MaxFaults \in Nat
         /\ db \in Trees /\ tree \in Trees /\ saved \subseteq Commits
         /\ byOthers \subseteq Commits /\ imported \subseteq Commits /\ baseline \subseteq Commits
         /\ base \in 1..Len(remote) /\ tracking \in 1..Len(remote) /\ marker \in 0..tracking
         /\ halfDone \in Halves(Len(remote))
  BY GitAssumption DEF TypeOK, Halves

(* A fault more, while there is one to spare. *)
LEMMA FaultTypes ==
  ASSUME TypeOK, faults' = faults \/ (faults < MaxFaults /\ faults' = faults + 1)
  PROVE  faults' \in 0..MaxFaults
<1>1. faults \in 0..MaxFaults /\ MaxFaults \in Nat
  BY BoundTypes
<1>2. QED
  BY <1>1

LEMMA InitGit == Init => GitInv
<1> SUFFICES ASSUME Init PROVE GitInv
  OBVIOUS
<1>1. PICK t : t \in Trees /\ db = t /\ tree = t /\ remote = <<t>>
  <2>1. 0 \in Texts /\ 1 \in Texts
    BY GitAssumption DEF Texts
  <2>2. [p \in Pages |-> IF p = FirstPage THEN 1 ELSE 0] \in Trees
    BY <2>1 DEF Trees
  <2>3. QED
    BY <2>2 DEF Init
<1>2. SyncTask \in Writes \cup {SyncTask} /\ SyncTask.op = "sync" /\ queue = <<SyncTask>> /\ queue \in Seq(Writes \cup {SyncTask}) /\ Len(queue) = 1
  BY DEF Init, SyncTask
<1>3. TypeOK
  <2>1. remote \in Seq(Trees) /\ Len(remote) = 1
    BY <1>1
  <2>2. MaxQueue \in Nat /\ MaxQueue > 0 /\ edits \in Texts /\ faults \in 0..MaxFaults
    BY GitAssumption DEF Init, Texts
  <2>3. 1 \in 1..1 /\ 0 \in 0..1
    OBVIOUS
  <2>4. base \in 1..Len(remote) /\ tracking \in 1..Len(remote) /\ marker \in 0..tracking /\ local \in Seq(Commits)
    BY <2>1, <2>3 DEF Init
  <2>5. /\ saved \subseteq Commits /\ target \in {"starting", "operational", "failed"} /\ step \in Steps
        /\ halfDone = NoRebase /\ todo \subseteq Pages /\ byOthers \subseteq Commits /\ imported \subseteq Commits
        /\ baseline \subseteq Commits /\ mishaps \subseteq Mishaps
    BY DEF Init, Steps
  <2>6. Len(queue) <= MaxQueue
    BY <1>2, <2>2
  <2>7. QED
    BY <1>1, <1>2, <2>1, <2>2, <2>4, <2>5, <2>6 DEF TypeOK
<1>4. QED
  BY <1>2, <1>3 DEF Init, GitInv, HolderOK, Clean, Absorbed, Behind, Swallowed, Rebasing, MarkedDealt, ProcessingDealt, Processing, Holder

(* The commits HEAD is built on do not change when the remote grows. *)
LEMMA SameHead ==
  ASSUME TypeOK, UNCHANGED <<local, base, halfDone>>, \A n \in 1..Len(remote) : remote'[n] = remote[n]
  PROVE  HeadTree' = HeadTree /\ BranchTree' = BranchTree
<1>1. base \in 1..Len(remote) /\ halfDone \in Halves(Len(remote))
  BY BoundTypes
<1>2. remote'[base] = remote[base] /\ (Rebasing => remote'[halfDone.base] = remote[halfDone.base])
  BY <1>1 DEF Halves, Rebasing
<1>3. QED
  BY <1>2 DEF HeadTree, BranchTree, Rebasing

(* The holder stays, and its task where it is. *)
LEMMA SameHolder ==
  ASSUME GitInv, TypeOK', step' = step,
         queue' = queue \/ queue = <<>> \/ (queue' # <<>> /\ queue'[1] = queue[1]),
         UNCHANGED <<tree, local, base, halfDone, tracking, marker, baseline>>,
         mishaps \subseteq mishaps', Len(remote) <= Len(remote'),
         \A n \in 1..Len(remote) : remote'[n] = remote[n],
         imported \subseteq imported',
         Processing => \A p \in todo \ todo' : [page |-> p, text |-> remote[tracking][p]] \in imported'
  PROVE  GitInv'
<1>0. base \in 1..Len(remote) /\ tracking \in 1..Len(remote) /\ marker \in 0..tracking /\ remote \in Seq(Trees)
      /\ Len(remote) \in Nat /\ Len(remote') \in Nat
  BY DEF GitInv, TypeOK
<1>1. remote'[tracking] = remote[tracking] /\ (marker # 0 => remote'[marker] = remote[marker])
  BY <1>0
<1>2. HeadTree' = HeadTree /\ CommitsOf(remote'[tracking']) = CommitsOf(remote[tracking])
  BY <1>1, SameHead DEF GitInv
<1>3. HolderOK' /\ Clean' /\ Swallowed'
  BY <1>2 DEF GitInv, HolderOK, Clean, Absorbed, Swallowed, Rebasing, Holder
<1>4. Behind'
  BY <1>0 DEF GitInv, Behind, Rebasing
<1>5. MarkedDealt'
  BY <1>1 DEF GitInv, MarkedDealt
<1>6. ProcessingDealt'
  <2> SUFFICES ASSUME Processing' PROVE CommitsOf(remote'[tracking']) \subseteq imported' \cup baseline' \cup RestOf'
    BY DEF ProcessingDealt
  <2>1. Processing
    BY DEF GitInv, HolderOK, Processing, Holder
  <2>2. CommitsOf(remote[tracking]) \subseteq imported \cup baseline \cup RestOf
    BY <2>1 DEF GitInv, ProcessingDealt
  <2>3. RestOf \subseteq imported' \cup RestOf'
    BY <1>1, <2>1 DEF RestOf
  <2>4. QED
    BY <1>2, <2>2, <2>3
<1>7. QED
  BY <1>3, <1>4, <1>5, <1>6 DEF GitInv

(* A task has ended. *)
LEMMA AtStart ==
  ASSUME TypeOK', step' = "start", MarkedDealt', Behind'
  PROVE  GitInv'
  BY DEF GitInv, HolderOK, Clean, Absorbed, Swallowed, ProcessingDealt, Processing

(* What was dealt with up to the marker stays so when the remote grows. *)
LEMMA StillDealt ==
  ASSUME GitInv, marker' = marker, imported' = imported, baseline' = baseline, \A n \in 1..Len(remote) : remote'[n] = remote[n]
  PROVE  MarkedDealt'
<1>0. tracking \in 1..Len(remote) /\ marker \in 0..tracking /\ remote \in Seq(Trees)
  BY DEF GitInv, TypeOK
<1>1. marker # 0 => remote'[marker] = remote[marker]
  BY <1>0
<1>2. QED
  BY <1>1 DEF GitInv, MarkedDealt

(* The branch stays where it is while a rebase lies half done. *)
LEMMA StillBehind ==
  ASSUME GitInv, base' = base, halfDone' = halfDone \/ halfDone' = NoRebase \/ Rebasing,
         Len(remote') \in Nat, Len(remote) <= Len(remote')
  PROVE  Behind'
<1>0. base \in 1..Len(remote) /\ Len(remote) \in Nat
  BY BoundTypes, GitTypes DEF GitInv
<1>1. QED
  BY <1>0 DEF GitInv, Behind, Rebasing

LEMMA ReleaseTypes ==
  ASSUME TypeOK, queue # <<>>, queue' = Tail(queue)
  PROVE  queue' \in Seq(Writes \cup {SyncTask}) /\ Len(queue') <= MaxQueue
<1>1. queue \in Seq(Writes \cup {SyncTask}) /\ Len(queue) <= MaxQueue /\ MaxQueue \in Nat
  BY GitAssumption DEF TypeOK
<1>2. QED
  BY <1>1, HeadTailProperties

LEMMA EndsTypes ==
  ASSUME TypeOK, Holder("sync"), SyncEnds \/ SyncThrows
  PROVE  /\ queue' \in Seq(Writes \cup {SyncTask}) /\ Len(queue') <= MaxQueue
         /\ step' = "start" /\ target' \in {"starting", "operational", "failed"}
  BY ReleaseTypes DEF SyncEnds, SyncThrows, SyncSettles, Release, Holder, TypeOK

-----------------------------------------------------------------------------
(* The wiki and the others *)

LEMMA EditTypes ==
  ASSUME TypeOK, edits < MaxEdits, edits' = edits + 1
  PROVE  edits' \in Texts /\ 0 \in Texts /\ edits' > 0
<1>1. edits \in 0..MaxEdits /\ MaxEdits \in Nat
  BY GitAssumption DEF TypeOK, Texts
<1>2. QED
  BY <1>1 DEF Texts

LEMMA WikiStep ==
  ASSUME GitInv, NEW p \in Pages, WikiSaves(p) \/ WikiDeletes(p)
  PROVE  GitInv'
<1>1. /\ UNCHANGED <<queue, step, target, tree, local, base, halfDone, remote, tracking, marker, todo, byOthers, imported, baseline, faults>>
      /\ edits < MaxEdits /\ edits' = edits + 1
      /\ \E text \in {0, edits'} : db' = [db EXCEPT ![p] = text] /\ saved' = saved \cup {[page |-> p, text |-> text]}
      /\ mishaps \subseteq mishaps' /\ mishaps' \subseteq mishaps \cup {"deletion"}
  BY DEF WikiSaves, WikiDeletes, lockVars, repoVars, originVars, syncVars, ghostVars
<1>2. edits' \in Texts /\ 0 \in Texts
  BY <1>1, EditTypes DEF GitInv
<1>3. db' \in Trees /\ saved' \subseteq Commits
  <2>1. db \in Trees /\ saved \subseteq Commits
    BY BoundTypes DEF GitInv
  <2>2. QED
    BY <1>1, <1>2, <2>1 DEF Trees, Commits
<1>4. TypeOK'
  BY <1>1, <1>2, <1>3 DEF GitInv, TypeOK, Mishaps
<1>5. Len(remote) <= Len(remote')
  BY <1>1, GitTypes DEF GitInv
<1>6. QED
  BY <1>1, <1>4, <1>5, SameHolder

LEMMA DispatchStep ==
  ASSUME GitInv, NEW e \in saved, EventDispatched(e)
  PROVE  GitInv'
<1>1. /\ UNCHANGED <<db, step, target, tree, local, base, halfDone, remote, tracking, marker, todo, byOthers, imported, baseline,
                    mishaps, edits, faults>>
      /\ saved' \subseteq saved
      /\ queue' = queue \/ (Len(queue) < MaxQueue /\ queue' = Append(queue, [op |-> "write", page |-> e.page, text |-> e.text]))
  BY DEF EventDispatched, repoVars, originVars, syncVars, ghostVars, boundVars
<1>2. queue \in Seq(Writes \cup {SyncTask}) /\ Len(queue) <= MaxQueue /\ MaxQueue \in Nat
  BY GitAssumption DEF GitInv, TypeOK
<1>3. [op |-> "write", page |-> e.page, text |-> e.text] \in Writes
  BY DEF GitInv, TypeOK, Commits, Writes
<1>4. queue' \in Seq(Writes \cup {SyncTask}) /\ Len(queue') <= MaxQueue
  BY <1>1, <1>2, <1>3, AppendProperties
<1>5. TypeOK'
  BY <1>1, <1>4 DEF GitInv, TypeOK
<1>6. queue' = queue \/ queue = <<>> \/ (queue' # <<>> /\ queue'[1] = queue[1])
  BY <1>1, <1>2, <1>3, AppendProperties
<1>7. QED
  BY <1>1, <1>5, <1>6, SameHolder, GitTypes DEF GitInv

LEMMA DueStep ==
  ASSUME GitInv, SyncDue
  PROVE  GitInv'
<1>1. /\ UNCHANGED <<db, saved, step, target, tree, local, base, halfDone, remote, tracking, marker, todo, byOthers, imported, baseline,
                    mishaps, edits, faults>>
      /\ Len(queue) < MaxQueue /\ queue' = Append(queue, SyncTask)
  BY DEF SyncDue, wikiVars, repoVars, originVars, syncVars, ghostVars, boundVars
<1>2. queue \in Seq(Writes \cup {SyncTask}) /\ Len(queue) <= MaxQueue /\ MaxQueue \in Nat
  BY GitAssumption DEF GitInv, TypeOK
<1>3. queue' \in Seq(Writes \cup {SyncTask}) /\ Len(queue') <= MaxQueue
  BY <1>1, <1>2, AppendProperties
<1>4. TypeOK'
  BY <1>1, <1>3 DEF GitInv, TypeOK
<1>5. queue = <<>> \/ (queue' # <<>> /\ queue'[1] = queue[1])
  BY <1>1, <1>2, AppendProperties
<1>6. QED
  BY <1>1, <1>4, <1>5, SameHolder, GitTypes DEF GitInv

LEMMA RemoteStep ==
  ASSUME GitInv, NEW p \in Pages, RemoteEdit(p)
  PROVE  GitInv'
<1>1. /\ UNCHANGED <<db, saved, queue, step, target, tree, local, base, halfDone, tracking, marker, todo, imported, baseline, faults>>
      /\ edits < MaxEdits /\ edits' = edits + 1
  BY DEF RemoteEdit, wikiVars, lockVars, repoVars, syncVars
<1>2. PICK text \in {0, edits'} : remote' = Append(remote, [Tip EXCEPT ![p] = text]) /\ byOthers' = byOthers \cup {[page |-> p, text |-> text]}
  BY <1>1 DEF RemoteEdit
<1>3. text \in Texts /\ edits' \in Texts
  BY <1>1, EditTypes DEF GitInv
<1>4. byOthers' \subseteq Commits
  <2>1. byOthers \subseteq Commits
    BY BoundTypes DEF GitInv
  <2>2. QED
    BY <1>2, <1>3, <2>1 DEF Commits
<1>5. remote \in Seq(Trees) /\ Tip \in Trees
  BY GitTypes DEF GitInv
<1>6. [Tip EXCEPT ![p] = text] \in Trees
  BY <1>3, <1>5 DEF Trees
<1>7. remote' \in Seq(Trees) /\ Len(remote') = Len(remote) + 1 /\ Len(remote) <= Len(remote') /\ \A n \in 1..Len(remote) : remote'[n] = remote[n]
  BY <1>2, <1>5, <1>6, AppendProperties
<1>8. base' \in 1..Len(remote') /\ tracking' \in 1..Len(remote') /\ marker' \in 0..tracking' /\ halfDone' \in Halves(Len(remote'))
  <2>1. halfDone \in Halves(Len(remote)) /\ base \in 1..Len(remote) /\ tracking \in 1..Len(remote) /\ marker \in 0..tracking /\ Len(remote) \in Nat
    BY <1>5, BoundTypes DEF GitInv
  <2>2. QED
    BY <1>1, <1>7, <2>1 DEF Halves
<1>9. mishaps' \subseteq Mishaps /\ mishaps \subseteq mishaps'
  BY DEF RemoteEdit, GitInv, TypeOK, Mishaps
<1>10. TypeOK'
  BY <1>1, <1>3, <1>4, <1>7, <1>8, <1>9 DEF GitInv, TypeOK, Halves
<1>11. QED
  BY <1>1, <1>7, <1>9, <1>10, SameHolder

-----------------------------------------------------------------------------
(* Page events *)

LEMMA EventStep ==
  ASSUME GitInv, EventWrites \/ EventCommits \/ EventFails
  PROVE  GitInv'
<1>1. /\ UNCHANGED <<db, saved, target, base, remote, tracking, marker, todo, byOthers, imported, baseline, mishaps, edits>>
      /\ Holder("write")
  BY DEF EventWrites, EventCommits, EventFails, wikiVars, repoVars, originVars, syncVars, ghostVars, boundVars
<1>2. queue # <<>> /\ queue[1] \in Writes
  <2>1. queue \in Seq(Writes \cup {SyncTask}) /\ queue # <<>> /\ queue[1].op = "write"
    BY <1>1 DEF GitInv, TypeOK, Holder
  <2>2. queue[1] \in Writes \cup {SyncTask} /\ SyncTask.op = "sync"
    BY <2>1 DEF SyncTask
  <2>3. QED
    BY <2>1, <2>2
<1>3. queue[1].page \in Pages /\ queue[1].text \in Texts
  BY <1>2 DEF Writes
<1>4. CASE EventWrites
  <2>1. UNCHANGED <<queue, local, halfDone, faults>> /\ tree' = [tree EXCEPT ![queue[1].page] = queue[1].text] /\ step' = "written"
    BY <1>4 DEF EventWrites, ghostVars, boundVars
  <2>2. tree' \in Trees /\ step' \in Steps
    BY <1>3, <2>1 DEF GitInv, TypeOK, Trees, Steps
  <2>3. TypeOK'
    BY <1>1, <2>1, <2>2 DEF GitInv, TypeOK
  <2>4. ~Holder("sync")
    BY <1>1 DEF Holder
  <2>5. HolderOK' /\ Clean' /\ Behind' /\ Swallowed' /\ ProcessingDealt' /\ MarkedDealt'
    BY <1>1, <1>2, <2>1, <2>4
       DEF GitInv, HolderOK, Clean, Absorbed, Behind, Swallowed, Rebasing, ProcessingDealt, MarkedDealt, CommitsOf, Processing, Holder
  <2>6. QED
    BY <2>3, <2>5 DEF GitInv
<1>5. CASE EventCommits \/ EventFails
  <2> DEFINE c == [page |-> queue[1].page, text |-> tree[queue[1].page]]
  <2>1. /\ tree' = tree /\ step' = "start" /\ queue' = Tail(queue)
        /\ faults' = faults \/ (faults < MaxFaults /\ faults' = faults + 1)
        /\ local' = local \/ local' = Append(local, c)
        /\ halfDone' = halfDone \/ (Rebasing /\ halfDone' = [halfDone EXCEPT !.commits = Append(@, c)])
    BY <1>5 DEF EventCommits, EventFails, Release, repoVars, boundVars
  <2>2. c \in Commits
    BY <1>3 DEF GitInv, TypeOK, Trees, Commits
  <2> HIDE DEF c
  <2>3. local' \in Seq(Commits)
    <3>1. local \in Seq(Commits)
      BY DEF GitInv, TypeOK
    <3>2. QED
      BY <2>1, <2>2, <3>1
  <2>4. halfDone' \in Halves(Len(remote))
    <3>1. halfDone \in Halves(Len(remote))
      BY BoundTypes DEF GitInv
    <3>2. Rebasing => halfDone \in [base : 1..Len(remote), commits : Seq(Commits), conflict : BOOLEAN]
      BY <3>1 DEF Halves, Rebasing
    <3>3. Rebasing => [halfDone EXCEPT !.commits = Append(@, c)] \in [base : 1..Len(remote), commits : Seq(Commits), conflict : BOOLEAN]
      BY <2>2, <3>2
    <3>4. QED
      BY <2>1, <3>1, <3>3 DEF Halves
  <2>5. faults' \in 0..MaxFaults
    BY <2>1, FaultTypes DEF GitInv
  <2>6. queue' \in Seq(Writes \cup {SyncTask}) /\ Len(queue') <= MaxQueue /\ step' \in Steps
    BY <1>2, <2>1, ReleaseTypes DEF GitInv, Steps
  <2>7. TypeOK'
    BY <1>1, <2>1, <2>3, <2>4, <2>5, <2>6 DEF GitInv, TypeOK, Halves
  <2>8. MarkedDealt' /\ Behind'
    BY <1>1, <2>1, StillDealt, StillBehind, GitTypes DEF GitInv
  <2>9. QED
    BY <2>1, <2>7, <2>8, AtStart
<1>6. QED
  BY <1>4, <1>5

-----------------------------------------------------------------------------
(* The sync *)

(* The tree an abort goes back to, with the files git never tracked. *)
LEMMA AbortTypes ==
  ASSUME TypeOK, Aborted
  PROVE  tree' \in Trees /\ halfDone' = NoRebase /\ ~Rebasing' /\ UNCHANGED <<local, base>>
<1>1. tree \in Trees /\ BranchTree \in Trees
  BY BoundTypes, GitTypes
<1>2. PICK untracked \in SUBSET Pages : tree' = [p \in Pages |-> IF p \in untracked THEN tree[p] ELSE BranchTree[p]]
  BY DEF Aborted
<1>3. tree' \in Trees
  BY <1>1, <1>2 DEF Trees
<1>4. QED
  BY <1>3 DEF Aborted, Rebasing

LEMMA AbortFaults ==
  ASSUME TypeOK, AbortFails \/ AbortSucceeds
  PROVE  /\ faults' \in 0..MaxFaults /\ mishaps' \subseteq Mishaps /\ mishaps \subseteq mishaps'
         /\ AbortFails => "abort failed" \in mishaps'
<1>1. faults' = faults \/ (faults < MaxFaults /\ faults' = faults + 1)
  BY DEF AbortFails, AbortSucceeds
<1>2. mishaps \subseteq Mishaps
  BY DEF TypeOK
<1>3. QED
  BY <1>1, <1>2, FaultTypes DEF AbortFails, AbortSucceeds, Mishaps

LEMMA RepairStep ==
  ASSUME GitInv, Repair
  PROVE  GitInv'
<1>1. /\ UNCHANGED <<db, saved, queue, target, remote, tracking, marker, todo, byOthers, imported, baseline, edits>>
      /\ Holder("sync") /\ step' = "repaired"
      /\ AbortFails \/ AbortSucceeds
      /\ \/ Aborted
         \/ UNCHANGED <<tree, local, base, halfDone>> /\ (~Rebasing \/ AbortFails)
  BY DEF Repair, wikiVars, originVars, syncVars, repoVars
<1>2. tree' \in Trees /\ UNCHANGED <<local, base>> /\ (halfDone' = NoRebase \/ (halfDone' = halfDone /\ (~Rebasing \/ AbortFails)))
  BY <1>1, AbortTypes, BoundTypes DEF GitInv
<1>3. faults' \in 0..MaxFaults /\ mishaps' \subseteq Mishaps /\ mishaps \subseteq mishaps' /\ (AbortFails => "abort failed" \in mishaps')
  BY <1>1, AbortFaults DEF GitInv
<1>4. TypeOK'
  BY <1>1, <1>2, <1>3 DEF GitInv, TypeOK, Steps
<1>5. HolderOK' /\ Clean' /\ Behind' /\ Swallowed' /\ ProcessingDealt'
  BY <1>1, <1>2, <1>3 DEF GitInv, HolderOK, Clean, Absorbed, Behind, Swallowed, Rebasing, ProcessingDealt, Processing, Holder
<1>6. MarkedDealt'
  BY <1>1, StillDealt
<1>7. QED
  BY <1>4, <1>5, <1>6 DEF GitInv

(* Whatever was left in the working copy is committed, to the branch or to  *)
(* where HEAD is. *)
LEMMA AbsorbsAll ==
  ASSUME TypeOK, NEW onto \in Trees, NEW commits \in Seq(Commits), HeadTree = Apply(onto, commits)
  PROVE  commits \o Leftovers \in Seq(Commits) /\ Apply(onto, commits \o Leftovers) = tree
<1> DEFINE S == {c \in CommitsOf(tree) : c.page \in Dirty}
           rest == Leftovers
<1>1. tree \in Trees /\ HeadTree \in Trees
  BY GitTypes, BoundTypes
<1>2. S \subseteq Commits /\ S \subseteq CommitsOf(tree)
  BY <1>1 DEF CommitsOf, Commits, Trees
<1>3. IsFiniteSet(S)
  <2> HIDE DEF S
  <2>1. QED
    BY <1>2, FiniteCommits, FS_Subset
<1>4. rest \in Seq(Commits)
  <2>1. rest = SetToSeq(S)
    BY DEF Leftovers
  <2> HIDE DEF S, rest
  <2>2. rest \in Seq(S)
    BY <1>3, <2>1, AnyOrder
  <2>3. QED
    BY <1>2, <2>2, SeqMonotonic
<1>5. Apply(HeadTree, rest) = tree
  BY <1>1, <1>4, ApplyChanges DEF Dirty, Leftovers
<1> HIDE DEF rest
<1>6. \A p \in Pages : Apply(onto, commits \o rest)[p] = tree[p]
  BY <1>1, <1>4, <1>5, ApplyConcat
<1>7. commits \o rest \in Seq(Commits)
  BY <1>1, <1>4, ConcatProperties
<1>8. Apply(onto, commits \o rest) \in Trees
  BY <1>7, ApplyIsTree
<1>9. Apply(onto, commits \o rest) = tree
  BY <1>1, <1>6, <1>8 DEF Trees
<1>10. QED
  BY <1>7, <1>9 DEF rest

LEMMA AbsorbStep ==
  ASSUME GitInv, Absorb
  PROVE  GitInv'
<1>1. /\ UNCHANGED <<db, saved, queue, target, tree, base, remote, tracking, todo, byOthers, imported, mishaps, edits, faults>>
      /\ Holder("sync") /\ step = "repaired"
  BY DEF Absorb, wikiVars, originVars, boundVars
<1>2. /\ local' \in Seq(Commits) /\ halfDone' \in Halves(Len(remote)) /\ HeadTree' = tree
      /\ (Rebasing' <=> Rebasing)
  <2>1. CASE Rebasing
    <3>1. halfDone \in [base : 1..Len(remote), commits : Seq(Commits), conflict : BOOLEAN] /\ remote \in Seq(Trees) /\ local \in Seq(Commits)
      BY <2>1, BoundTypes, GitTypes DEF GitInv, Halves, Rebasing
    <3>2. halfDone.base \in 1..Len(remote) /\ remote[halfDone.base] \in Trees /\ halfDone.commits \in Seq(Commits) /\ halfDone.conflict \in BOOLEAN
      BY <3>1
    <3>3. HeadTree = Apply(remote[halfDone.base], halfDone.commits)
      BY <2>1 DEF HeadTree
    <3> DEFINE commits == halfDone.commits \o Leftovers
    <3>4. commits \in Seq(Commits) /\ Apply(remote[halfDone.base], commits) = tree
      BY <3>2, <3>3, AbsorbsAll DEF GitInv
    <3>5. local' = local /\ halfDone' = [halfDone EXCEPT !.commits = commits, !.conflict = @ /\ Dirty = {}]
      BY <2>1 DEF Absorb
    <3> HIDE DEF commits
    <3>6. /\ halfDone' \in [base : 1..Len(remote), commits : Seq(Commits), conflict : BOOLEAN]
          /\ halfDone'.base = halfDone.base /\ halfDone'.commits = commits
      BY <3>1, <3>2, <3>4, <3>5
    <3>7. Rebasing'
      <4>1. NoRebase.base = 0 /\ halfDone'.base # 0
        BY <3>2, <3>6 DEF NoRebase
      <4>2. QED
        BY <4>1 DEF Rebasing
    <3>8. HeadTree' = tree
      BY <1>1, <3>4, <3>6, <3>7 DEF HeadTree
    <3>9. QED
      BY <2>1, <3>1, <3>5, <3>6, <3>7, <3>8 DEF Halves
  <2>2. CASE ~Rebasing
    <3>1. halfDone' = halfDone /\ local' = local \o Leftovers /\ halfDone \in Halves(Len(remote))
      BY <2>2, BoundTypes DEF Absorb, GitInv
    <3>2. remote[base] \in Trees /\ local \in Seq(Commits) /\ HeadTree = Apply(remote[base], local)
      BY <2>2, GitTypes DEF GitInv, HeadTree, BranchTree
    <3>3. local' \in Seq(Commits) /\ Apply(remote[base], local') = tree
      BY <3>1, <3>2, AbsorbsAll DEF GitInv
    <3>4. ~Rebasing'
      BY <2>2, <3>1 DEF Rebasing
    <3>5. QED
      BY <1>1, <2>2, <3>1, <3>3, <3>4 DEF HeadTree, BranchTree
  <2>3. QED
    BY <2>1, <2>2
<1>3. /\ step' \in {"processed", "absorbed"} /\ (Mode = "push" => step' = "processed")
      /\ (Mode # "push" => marker' # 0)
      /\ \/ marker' = marker /\ baseline' = baseline
         \/ marker' = tracking /\ baseline' = CommitsOf(remote[tracking])
  <2>1. tracking # 0
    BY BoundTypes DEF GitInv
  <2>2. QED
    BY <2>1 DEF Absorb
<1>4. baseline' \subseteq Commits /\ marker' \in 0..tracking
  <2>1. baseline \subseteq Commits /\ marker \in 0..tracking /\ tracking \in Nat /\ remote[tracking] \in Trees
    BY BoundTypes, GitTypes DEF GitInv
  <2>2. CommitsOf(remote[tracking]) \subseteq Commits
    BY <2>1 DEF CommitsOf, Commits, Trees
  <2>3. QED
    BY <1>3, <2>1, <2>2
<1>5. TypeOK'
  BY <1>1, <1>2, <1>3, <1>4 DEF GitInv, TypeOK, Steps, Halves
<1>6. HolderOK' /\ Clean' /\ Behind' /\ Swallowed' /\ ProcessingDealt'
  BY <1>1, <1>2, <1>3 DEF GitInv, HolderOK, Clean, Absorbed, Behind, Swallowed, ProcessingDealt, Processing, Holder
<1>7. MarkedDealt'
  BY <1>1, <1>3 DEF GitInv, MarkedDealt, CommitsOf
<1>8. QED
  BY <1>5, <1>6, <1>7 DEF GitInv

(* What git leaves of a rebase it got nowhere with. *)
LEMMA InterruptedTypes ==
  ASSUME TypeOK, NEW n \in Reached(Tip)
  PROVE  /\ Interrupted(Tip, n).commits \in Seq(Commits) /\ Interrupted(Tip, n).conflict \in BOOLEAN
         /\ Interrupted(Tip, n).tree \in Trees
<1>1. remote[base] \in Trees /\ local \in Seq(Commits) /\ Tip \in Trees /\ Len(local) \in Nat /\ n \in 0..Len(local)
  BY GitTypes DEF Reached
<1> DEFINE r == Replayed(Tip)[n]
           stopped == n < Len(local) /\ Replayed(Tip)[n + 1].conflict
<1>2. \A m \in 0..Len(local) : Replayed(Tip)[m] \in Replays
  BY <1>1, ReplayedSoFar
<1>3. r \in Replays
  BY <1>1, <1>2
<1>4. r.commits \in Seq(Commits) /\ r.ours \in Trees
  BY <1>3 DEF Replays
<1>5. n < Len(local) => n + 1 \in 0..Len(local) /\ n + 1 \in 1..Len(local)
  BY <1>1
<1>6. stopped \in BOOLEAN
  BY <1>2, <1>5 DEF Replays
<1> HIDE DEF r, stopped
<1>7. stopped => [r.ours EXCEPT ![local[n + 1].page] = local[n + 1].text] \in Trees
  <2>1. stopped => local[n + 1] \in Commits
    BY <1>1, <1>5 DEF stopped
  <2>2. QED
    BY <1>4, <2>1 DEF Commits, Trees
<1>8. Interrupted(Tip, n) = [commits |-> r.commits, conflict |-> stopped,
         tree |-> IF stopped /\ local[n + 1].text # 0 THEN [r.ours EXCEPT ![local[n + 1].page] = local[n + 1].text] ELSE r.ours]
  BY DEF Interrupted, r, stopped
<1>9. QED
  BY <1>4, <1>6, <1>7, <1>8

LEMMA LeftTypes ==
  ASSUME TypeOK, NEW n \in Reached(Tip), LeftHalfDone(Interrupted(Tip, n))
  PROVE  /\ halfDone' \in Halves(Len(remote)) /\ tree' \in Trees /\ UNCHANGED <<local, base>>
<1>1. Len(remote) \in 1..Len(remote)
  BY GitTypes
<1>2. QED
  BY <1>1, InterruptedTypes DEF LeftHalfDone, Halves

(* A pull that stops leaves the branch; otherwise the working copy is what  *)
(* the remaining commits make of the remote's tree, or that tree itself. *)
LEMMA PullStep ==
  ASSUME GitInv, Pull
  PROVE  GitInv'
<1> DEFINE r == Rebase(Tip)
<1>1. /\ UNCHANGED <<db, saved, remote, marker, todo, byOthers, imported, baseline, edits>>
      /\ Holder("sync") /\ step \in {"absorbed", "rejected"} /\ tracking' = Len(remote)
      /\ AbortFails \/ AbortSucceeds
  BY DEF Pull, Pulling, PullStops, wikiVars, syncVars
<1>2. /\ Len(remote) \in Nat \ {0} /\ Tip = remote[Len(remote)] /\ Tip \in Trees /\ remote[base] \in Trees /\ local \in Seq(Commits)
      /\ marker \in 0..tracking /\ tracking \in 1..Len(remote) /\ base \in 1..Len(remote) /\ tree \in Trees
      /\ halfDone \in Halves(Len(remote))
  BY GitTypes, BoundTypes DEF GitInv
<1>3. r \in Replays /\ r.ours \in Trees /\ r.commits \in Seq(Commits) /\ Apply(Tip, r.commits) = r.ours
  BY <1>2, RebaseReplays DEF Replays
<1>4. Len(remote) \in 1..Len(remote) /\ marker \in 0..Len(remote) /\ (base # Len(remote) => base < Len(remote))
  BY <1>2
<1>5. MarkedDealt'
  BY <1>1, StillDealt
<1>6. faults' \in 0..MaxFaults /\ mishaps' \subseteq Mishaps /\ mishaps \subseteq mishaps' /\ (AbortFails => "abort failed" \in mishaps')
  BY <1>1, AbortFaults DEF GitInv
<1>7. Mode # "push" /\ marker # 0 /\ (Rebasing => "abort failed" \in mishaps)
  BY <1>1 DEF GitInv, HolderOK, Swallowed
<1>8. CASE PullStops /\ SyncThrows
  <2>1. /\ queue' \in Seq(Writes \cup {SyncTask}) /\ Len(queue') <= MaxQueue
        /\ step' = "start" /\ target' \in {"starting", "operational", "failed"}
    BY <1>1, <1>8, EndsTypes DEF GitInv
  <2>2. /\ tree' \in Trees /\ UNCHANGED <<local, base>> /\ halfDone' \in Halves(Len(remote))
        /\ halfDone' = halfDone \/ halfDone' = NoRebase \/ base # Len(remote)
    <3>1. CASE UNCHANGED repoVars
      BY <1>2, <3>1 DEF repoVars
    <3>2. CASE Aborted
      BY <3>2, AbortTypes DEF GitInv, Halves
    <3>3. CASE Conflicts /\ \E n \in Reached(Tip) : LeftHalfDone(Interrupted(Tip, n))
      BY <3>3, LeftTypes DEF GitInv, Conflicts
    <3>4. QED
      BY <1>8, <3>1, <3>2, <3>3 DEF PullStops
  <2>3. Behind'
    BY <1>1, <1>4, <1>7, <2>2 DEF GitInv, Behind, Rebasing
  <2>4. TypeOK'
    BY <1>1, <1>4, <1>6, <2>1, <2>2 DEF GitInv, TypeOK, Steps, Halves
  <2>5. QED
    BY <1>5, <2>1, <2>3, <2>4, AtStart
<1>9. CASE /\ PullRebases \/ PullFastForwards
           /\ step' \in {"pulled", "repulled"} /\ UNCHANGED <<queue, target>>
  <2>1. /\ tree' \in Trees /\ local' \in Seq(Commits) /\ base' \in 1..Len(remote) /\ halfDone' \in Halves(Len(remote))
        /\ HeadTree' = tree' /\ (Rebasing' => Rebasing /\ base' = base)
    <3>1. CASE PullRebases
      <4>1. base' = Len(remote) /\ local' = r.commits /\ tree' = r.ours /\ halfDone' = halfDone /\ ~Rebasing
        BY <3>1 DEF PullRebases
      <4>2. ~Rebasing'
        BY <4>1 DEF Rebasing
      <4> HIDE DEF r
      <4>3. HeadTree' = tree'
        BY <1>1, <1>2, <1>3, <4>1, <4>2 DEF HeadTree, BranchTree
      <4>4. QED
        BY <1>2, <1>3, <1>4, <4>1, <4>2, <4>3
    <3>2. CASE PullFastForwards
      <4>1. /\ Rebasing /\ halfDone.commits = <<>> /\ tree' = Tip /\ UNCHANGED <<local, base>>
            /\ halfDone' = [halfDone EXCEPT !.base = Len(remote)]
        BY <3>2 DEF PullFastForwards, OnRemote
      <4>2. halfDone \in [base : 1..Len(remote), commits : Seq(Commits), conflict : BOOLEAN]
        BY <1>2, <4>1 DEF Halves, Rebasing
      <4>3. /\ halfDone' \in [base : 1..Len(remote), commits : Seq(Commits), conflict : BOOLEAN]
            /\ halfDone'.base = Len(remote) /\ halfDone'.commits = <<>>
        BY <1>4, <4>1, <4>2
      <4>4. Rebasing'
        <5>1. NoRebase.base = 0
          BY DEF NoRebase
        <5>2. QED
          BY <1>2, <4>3, <5>1 DEF Rebasing
      <4>5. HeadTree' = Tip
        BY <1>1, <1>2, <4>3, <4>4, ApplyNothing DEF HeadTree
      <4>6. QED
        BY <1>2, <4>1, <4>3, <4>5 DEF Halves
    <3>3. QED
      BY <1>9, <3>1, <3>2
  <2>2. TypeOK'
    BY <1>1, <1>4, <1>6, <1>9, <2>1 DEF GitInv, TypeOK, Steps, Halves
  <2>3. HolderOK' /\ Clean' /\ ProcessingDealt'
    BY <1>1, <1>7, <1>9, <2>1 DEF GitInv, HolderOK, Clean, Absorbed, ProcessingDealt, Processing, Holder
  <2>4. Behind' /\ Swallowed'
    BY <1>1, <1>6, <1>7, <2>1 DEF GitInv, Behind, Swallowed
  <2>5. QED
    BY <1>5, <2>2, <2>3, <2>4 DEF GitInv
<1>10. QED
  BY <1>1, <1>8, <1>9 DEF Pull

LEMMA DiffStep ==
  ASSUME GitInv, Diff
  PROVE  GitInv'
<1>1. /\ UNCHANGED <<db, saved, queue, target, tree, local, base, halfDone, remote, tracking, marker, byOthers, imported, baseline, mishaps,
                    edits, faults>>
      /\ Holder("sync") /\ step \in {"pulled", "repulled"} /\ step' \in {"processing", "reprocessing"}
      /\ todo' = {p \in Pages : remote[marker][p] # remote[tracking][p]}
  BY DEF Diff, wikiVars, repoVars, originVars, ghostVars, boundVars
<1>2. TypeOK'
  BY <1>1 DEF GitInv, TypeOK, Steps
<1>3. marker # 0 /\ Mode # "push"
  BY <1>1 DEF GitInv, HolderOK
<1>4. HolderOK' /\ Clean' /\ Behind' /\ Swallowed' /\ MarkedDealt'
  BY <1>1, <1>3 DEF GitInv, HolderOK, Clean, Absorbed, Behind, Swallowed, Rebasing, MarkedDealt, CommitsOf, Holder, HeadTree, BranchTree
<1>5. \A c \in CommitsOf(remote[tracking]) : c \in CommitsOf(remote[marker]) \/ c \in {[page |-> p, text |-> remote[tracking][p]] : p \in todo'}
  BY <1>1 DEF CommitsOf
<1>6. ProcessingDealt'
  BY <1>1, <1>3, <1>5 DEF GitInv, MarkedDealt, ProcessingDealt, RestOf, CommitsOf
<1>7. QED
  BY <1>2, <1>4, <1>6 DEF GitInv

LEMMA ImportStep ==
  ASSUME GitInv, NEW p \in Pages, ImportFile(p) \/ ImportFails(p)
  PROVE  GitInv'
<1>1. /\ UNCHANGED <<saved, queue, step, target, tree, local, base, halfDone, remote, tracking, marker, byOthers, baseline, edits>>
      /\ mishaps \subseteq mishaps' /\ mishaps' \subseteq mishaps \cup {"import given up"}
      /\ todo' = todo \ {p} /\ imported' = imported \cup {[page |-> p, text |-> remote[tracking][p]]}
  BY DEF ImportFile, ImportFails, Dealt, wikiVars, lockVars, repoVars, originVars, boundVars
<1>2. /\ faults' = faults \/ (faults < MaxFaults /\ faults' = faults + 1)
      /\ db' = db \/ db' = [db EXCEPT ![p] = tree[p]]
  BY DEF ImportFile, ImportFails, wikiVars, boundVars
<1>3. faults' \in 0..MaxFaults
  BY <1>2, FaultTypes DEF GitInv
<1>4. db' \in Trees /\ imported' \subseteq Commits
  <2>1. db \in Trees /\ tree \in Trees /\ imported \subseteq Commits /\ remote[tracking] \in Trees
    BY BoundTypes, GitTypes DEF GitInv
  <2>2. db' \in Trees
    BY <1>2, <2>1 DEF Trees
  <2>3. [page |-> p, text |-> remote[tracking][p]] \in Commits
    BY <2>1 DEF Trees, Commits
  <2>4. QED
    BY <1>1, <2>1, <2>2, <2>3
<1>5. TypeOK'
  BY <1>1, <1>3, <1>4 DEF GitInv, TypeOK, Mishaps
<1>6. \A q \in todo \ todo' : [page |-> q, text |-> remote[tracking][q]] \in imported'
  BY <1>1
<1>7. /\ imported \subseteq imported' /\ Len(remote) <= Len(remote')
      /\ \A n \in 1..Len(remote) : remote'[n] = remote[n]
  <2>1. Len(remote) \in Nat /\ remote' = remote
    BY <1>1, GitTypes DEF GitInv
  <2>2. imported \subseteq imported'
    BY <1>1
  <2>3. QED
    BY <2>1, <2>2
<1>8. QED
  BY <1>1, <1>5, <1>6, <1>7, SameHolder

LEMMA MarkStep ==
  ASSUME GitInv, MarkProcessed
  PROVE  GitInv'
<1>1. /\ UNCHANGED <<db, saved, tree, local, base, halfDone, remote, tracking, todo, byOthers, imported, baseline, mishaps, edits, faults>>
      /\ Processing /\ Holder("sync") /\ todo = {} /\ marker' = tracking
      /\ \/ SyncEnds
         \/ Mode # "pull" /\ step' \in {"processed", "reprocessed"} /\ UNCHANGED <<queue, target>>
  BY DEF MarkProcessed, Processing, wikiVars, repoVars, originVars, ghostVars, boundVars
<1>2. CommitsOf(remote[tracking]) \subseteq imported \cup baseline
  BY <1>1 DEF GitInv, ProcessingDealt, RestOf
<1>3. MarkedDealt'
  BY <1>1, <1>2 DEF MarkedDealt, CommitsOf
<1>4. marker' \in 0..tracking' /\ marker' # 0
  <2>1. tracking \in 1..Len(remote) /\ Len(remote) \in Nat
    BY BoundTypes, GitTypes DEF GitInv
  <2>2. QED
    BY <1>1, <2>1
<1>5. Behind'
  BY <1>1 DEF GitInv, Behind, Rebasing
<1>6. CASE SyncEnds
  <2>1. /\ queue' \in Seq(Writes \cup {SyncTask}) /\ Len(queue') <= MaxQueue
        /\ step' = "start" /\ target' \in {"starting", "operational", "failed"}
    BY <1>1, <1>6, EndsTypes DEF GitInv
  <2>2. TypeOK'
    BY <1>1, <1>4, <2>1 DEF GitInv, TypeOK, Steps
  <2>3. QED
    BY <1>3, <1>5, <2>1, <2>2, AtStart
<1>7. CASE Mode # "pull" /\ step' \in {"processed", "reprocessed"} /\ UNCHANGED <<queue, target>>
  <2>1. TypeOK'
    BY <1>1, <1>4, <1>7 DEF GitInv, TypeOK, Steps
  <2>2. step \notin {"start", "repaired", "processed"}
    BY <1>1 DEF Processing
  <2>3. HolderOK' /\ Clean' /\ Swallowed' /\ ProcessingDealt'
    BY <1>1, <1>4, <1>7, <2>2 DEF GitInv, HolderOK, Clean, Absorbed, Swallowed, Rebasing, ProcessingDealt, Processing, Holder, HeadTree, BranchTree
  <2>4. QED
    BY <1>3, <1>5, <2>1, <2>3 DEF GitInv
<1>8. QED
  BY <1>1, <1>6, <1>7

(* The push adds the tree of the local branch to the remote. *)
LEMMA TakesTypes ==
  ASSUME GitInv, RemoteTakes
  PROVE  /\ remote' \in Seq(Trees) /\ Len(remote') \in Nat \ {0} /\ Len(remote) <= Len(remote') /\ local' \in Seq(Commits)
         /\ base' \in 1..Len(remote') /\ tracking \in 1..Len(remote') /\ Len(remote') \in 1..Len(remote')
         /\ marker \in 0..Len(remote')
         /\ \A n \in 1..Len(remote) : remote'[n] = remote[n]
         /\ BranchTree' = BranchTree
<1>1. /\ remote \in Seq(Trees) /\ Len(remote) \in Nat \ {0} /\ BranchTree \in Trees /\ local \in Seq(Commits)
      /\ base \in 1..Len(remote) /\ tracking \in 1..Len(remote) /\ marker \in 0..tracking
  BY GitTypes, BoundTypes DEF GitInv
<1>2. CASE UNCHANGED <<remote, base, local>>
  BY <1>1, <1>2 DEF BranchTree
<1>3. CASE remote' = Append(remote, BranchTree) /\ base' = Len(remote) + 1 /\ local' = <<>>
  <2>1. /\ remote' \in Seq(Trees) /\ Len(remote') = Len(remote) + 1 /\ remote'[Len(remote) + 1] = BranchTree
        /\ \A n \in 1..Len(remote) : remote'[n] = remote[n]
    BY <1>1, <1>3, AppendProperties
  <2>2. BranchTree' = BranchTree
    BY <1>1, <1>3, <2>1, ApplyNothing DEF BranchTree
  <2>3. local' \in Seq(Commits)
    BY <1>3
  <2>4. QED
    BY <1>1, <1>3, <2>1, <2>2, <2>3
<1>4. QED
  BY <1>2, <1>3 DEF RemoteTakes

(* The remote takes no push while a rebase lies half done. *)
LEMMA NoPushRebasing ==
  ASSUME GitInv, Accepted
  PROVE  ~Rebasing
<1>1. base \in 1..Len(remote) /\ Len(remote) \in Nat
  BY BoundTypes, GitTypes DEF GitInv
<1>2. QED
  BY <1>1 DEF GitInv, Behind, Accepted

LEMMA PushStep ==
  ASSUME GitInv, Push
  PROVE  GitInv'
<1>1. /\ UNCHANGED <<db, saved, tree, halfDone, marker, todo, byOthers, imported, baseline, mishaps, edits, faults>>
      /\ Holder("sync") /\ RemoteTakes /\ tracking' = Len(remote') /\ SyncEnds /\ ~Rebasing
  BY NoPushRebasing DEF Push, Pushing, wikiVars, syncVars, ghostVars, boundVars
<1>2. /\ remote' \in Seq(Trees) /\ local' \in Seq(Commits) /\ base' \in 1..Len(remote') /\ Len(remote') \in 1..Len(remote')
      /\ marker \in 0..Len(remote') /\ \A n \in 1..Len(remote) : remote'[n] = remote[n]
  BY <1>1, TakesTypes
<1>3. /\ queue' \in Seq(Writes \cup {SyncTask}) /\ Len(queue') <= MaxQueue
      /\ step' = "start" /\ target' \in {"starting", "operational", "failed"}
  BY <1>1, EndsTypes DEF GitInv
<1>4. halfDone' = NoRebase /\ Behind'
  BY <1>1 DEF Rebasing, Behind
<1>5. TypeOK'
  BY <1>1, <1>2, <1>3, <1>4 DEF GitInv, TypeOK, Steps
<1>6. MarkedDealt'
  BY <1>1, <1>2, StillDealt
<1>7. QED
  BY <1>3, <1>4, <1>5, <1>6, AtStart

(* The answer to a push that failed, whether the remote took it or not *)
LEMMA RetryStep ==
  ASSUME GitInv, PushRejected \/ PushFails
  PROVE  GitInv'
<1>1. /\ UNCHANGED <<db, saved, tree, halfDone, tracking, marker, todo, byOthers, imported, baseline, mishaps, edits>>
      /\ Holder("sync") /\ step \in {"processed", "reprocessed"} /\ RetryOrFail
      /\ UNCHANGED <<remote, base, local>> \/ (RemoteTakes /\ ~Rebasing)
  BY NoPushRebasing DEF PushRejected, PushFails, Pushing, wikiVars, repoVars, originVars, syncVars, ghostVars, boundVars
<1>2. /\ remote' \in Seq(Trees) /\ local' \in Seq(Commits) /\ base' \in 1..Len(remote') /\ tracking \in 1..Len(remote')
      /\ (\A n \in 1..Len(remote) : remote'[n] = remote[n]) /\ HeadTree' = HeadTree
      /\ halfDone' \in Halves(Len(remote')) /\ Behind'
  <2>1. CASE UNCHANGED <<remote, base, local>>
    BY <1>1, <2>1, GitTypes, BoundTypes DEF GitInv, HeadTree, BranchTree, Behind, Rebasing
  <2>2. CASE RemoteTakes /\ ~Rebasing
    <3>1. ~Rebasing' /\ halfDone' = NoRebase
      BY <1>1, <2>2 DEF Rebasing
    <3>2. QED
      BY <2>2, <3>1, TakesTypes DEF HeadTree, Behind, Halves
  <2>3. QED
    BY <1>1, <2>1, <2>2
<1>3. faults' \in 0..MaxFaults
  <2>1. faults' = faults \/ (faults < MaxFaults /\ faults' = faults + 1)
    BY DEF PushRejected, PushFails, boundVars
  <2>2. QED
    BY <2>1, FaultTypes DEF GitInv
<1>4. MarkedDealt'
  BY <1>1, <1>2, StillDealt
<1>5. CASE SyncThrows
  <2>1. /\ queue' \in Seq(Writes \cup {SyncTask}) /\ Len(queue') <= MaxQueue
        /\ step' = "start" /\ target' \in {"starting", "operational", "failed"}
    BY <1>1, <1>5, EndsTypes DEF GitInv
  <2>2. TypeOK'
    BY <1>1, <1>2, <1>3, <2>1 DEF GitInv, TypeOK, Steps, Halves
  <2>3. QED
    BY <1>2, <1>4, <2>1, <2>2, AtStart
<1>6. CASE Mode = "sync" /\ step' = "rejected" /\ UNCHANGED <<queue, target>>
  <2>1. TypeOK'
    BY <1>1, <1>2, <1>3, <1>6 DEF GitInv, TypeOK, Steps, Halves
  <2>2. HolderOK' /\ Clean' /\ Swallowed' /\ ProcessingDealt'
    BY <1>1, <1>2, <1>6 DEF GitInv, HolderOK, Clean, Absorbed, Swallowed, Rebasing, ProcessingDealt, Processing, Holder
  <2>3. QED
    BY <1>2, <1>4, <2>1, <2>2 DEF GitInv
<1>7. QED
  BY <1>1, <1>5, <1>6 DEF RetryOrFail

LEMMA GivenUpStep ==
  ASSUME GitInv, SyncFails \/ \E p \in Pages : DeleteThrows(p)
  PROVE  GitInv'
<1>1. /\ UNCHANGED <<db, saved, local, base, remote, marker, byOthers, imported, baseline, edits>>
      /\ Holder("sync") /\ todo' = {} /\ tracking' \in {tracking, Len(remote)} /\ SyncThrows
      /\ mishaps' = mishaps \/ mishaps' = mishaps \cup {"abort failed"}
      /\ \/ UNCHANGED <<tree, halfDone>>
         \/ BreaksOff
  BY DEF SyncFails, DeleteThrows, BreaksOff, LeftHalfDone, Processing, wikiVars, repoVars, originVars, ghostVars, boundVars
<1>2. faults' \in 0..MaxFaults
  <2>1. faults' = faults \/ (faults < MaxFaults /\ faults' = faults + 1)
    BY DEF SyncFails, DeleteThrows, boundVars
  <2>2. QED
    BY <2>1, FaultTypes DEF GitInv
<1>3. tracking' \in 1..Len(remote) /\ marker \in 0..tracking'
  <2>1. tracking \in 1..Len(remote) /\ marker \in 0..tracking /\ Len(remote) \in Nat
    BY BoundTypes, GitTypes DEF GitInv
  <2>2. tracking' \in {tracking, Len(remote)}
    BY <1>1
  <2>3. CASE tracking' = tracking
    BY <2>1, <2>3
  <2>4. CASE tracking' = Len(remote)
    BY <2>1, <2>4
  <2>5. QED
    BY <2>2, <2>3, <2>4
<1>4. /\ queue' \in Seq(Writes \cup {SyncTask}) /\ Len(queue') <= MaxQueue
      /\ step' = "start" /\ target' \in {"starting", "operational", "failed"}
  BY <1>1, EndsTypes DEF GitInv
<1>5. tree' \in Trees /\ halfDone' \in Halves(Len(remote)) /\ Behind'
  <2>1. /\ base \in 1..Len(remote) /\ Len(remote) \in Nat /\ tree \in Trees /\ halfDone \in Halves(Len(remote))
    BY BoundTypes, GitTypes DEF GitInv
  <2>2. CASE UNCHANGED <<tree, halfDone>>
    BY <1>1, <2>1, <2>2 DEF GitInv, Behind, Rebasing
  <2>3. CASE BreaksOff
    <3>1. base < Len(remote) /\ Mode # "push"
      <4>1. base # Len(remote) /\ Mode # "push"
        BY <2>3 DEF BreaksOff, HasToRebase, Pulling, GitInv, HolderOK
      <4>2. QED
        BY <2>1, <4>1
    <3>2. tree' \in Trees /\ halfDone' \in Halves(Len(remote))
      BY <2>3, LeftTypes DEF BreaksOff, GitInv
    <3>3. Behind'
      BY <1>1, <3>1 DEF Behind
    <3>4. QED
      BY <3>2, <3>3
  <2>4. QED
    BY <1>1, <2>2, <2>3
<1>6. TypeOK'
  BY <1>1, <1>2, <1>3, <1>4, <1>5 DEF GitInv, TypeOK, Steps, Halves, Mishaps
<1>7. MarkedDealt'
  BY <1>1, StillDealt
<1>8. QED
  BY <1>4, <1>5, <1>6, <1>7, AtStart

(* What the checkout of a restart leaves. *)
LEMMA CheckoutTypes ==
  ASSUME TypeOK, NEW onto \in 1..Len(remote), NEW commits \in Seq(Commits), NEW conflict \in BOOLEAN, NEW files \in Trees,
         ChecksOut([commits |-> commits, conflict |-> conflict, tree |-> files], onto)
  PROVE  /\ tree' \in Trees /\ halfDone' \in Halves(Len(remote))
         /\ (target' = "failed" /\ queue' = <<>>) \/ (target' = "starting" /\ queue' = <<SyncTask>>)
<1> DEFINE i == [commits |-> commits, conflict |-> conflict, tree |-> files]
           head == Apply(remote[onto], i.commits)
           changed == {p \in Pages : i.tree[p] # head[p]}
<1>1. i.commits = commits /\ i.conflict = conflict /\ i.tree = files
  OBVIOUS
<1>2. \/ /\ target' = "failed" /\ queue' = <<>> /\ tree' = files
         /\ halfDone' = [base |-> onto, commits |-> commits, conflict |-> conflict]
      \/ /\ target' = "starting" /\ queue' = <<SyncTask>>
         /\ tree' = [p \in Pages |-> IF p \in changed THEN files[p] ELSE BranchTree[p]]
         /\ halfDone' = [base |-> base, commits |-> local, conflict |-> FALSE]
  BY DEF ChecksOut, StartsOver
<1>3. BranchTree \in Trees /\ base \in 1..Len(remote) /\ local \in Seq(Commits)
  BY GitTypes, BoundTypes
<1> HIDE DEF changed
<1>4. [p \in Pages |-> IF p \in changed THEN files[p] ELSE BranchTree[p]] \in Trees
  BY <1>3 DEF Trees
<1>5. tree' \in Trees
  BY <1>2, <1>4
<1>6. halfDone' \in Halves(Len(remote))
  <2>1. [base |-> onto, commits |-> commits, conflict |-> conflict] \in Halves(Len(remote))
    BY DEF Halves
  <2>2. [base |-> base, commits |-> local, conflict |-> FALSE] \in Halves(Len(remote))
    BY <1>3 DEF Halves
  <2>3. QED
    BY <1>2, <2>1, <2>2
<1>7. QED
  BY <1>2, <1>5, <1>6

LEMMA CrashStep ==
  ASSUME GitInv, Crash \/ CrashInRebase
  PROVE  GitInv'
<1>1. /\ UNCHANGED <<db, local, base, remote, marker, byOthers, imported, baseline, edits>>
      /\ saved' = {} /\ todo' = {} /\ step' = "start" /\ tracking' = Len(remote)
      /\ faults < MaxFaults /\ faults' = faults + 1 /\ mishaps' = mishaps \cup {"restart"}
  BY DEF Crash, CrashInRebase, Restarts
<1>2. faults' \in 0..MaxFaults
  BY <1>1, FaultTypes DEF GitInv
<1>3. Len(remote) \in 1..Len(remote) /\ marker \in 0..Len(remote) /\ base \in 1..Len(remote) /\ Len(remote) \in Nat
  <2>1. tracking \in 1..Len(remote) /\ marker \in 0..tracking /\ Len(remote) \in Nat /\ base \in 1..Len(remote)
    BY BoundTypes, GitTypes DEF GitInv
  <2>2. QED
    BY <2>1
<1>4. /\ tree' \in Trees /\ halfDone' \in Halves(Len(remote))
      /\ (target' = "failed" /\ queue' = <<>>) \/ (target' = "starting" /\ queue' = <<SyncTask>>)
      /\ Rebasing' => Mode # "push" /\ base < Len(remote)
  <2>1. tree \in Trees /\ halfDone \in Halves(Len(remote))
    BY BoundTypes DEF GitInv
  <2>2. CASE Crash
    BY <2>1, <2>2 DEF Crash, StartsOver, Rebasing
  <2>3. CASE Rebasing /\ ChecksOut([commits |-> halfDone.commits, conflict |-> halfDone.conflict, tree |-> tree], halfDone.base)
    <3>1. halfDone.base \in 1..Len(remote) /\ halfDone.commits \in Seq(Commits) /\ halfDone.conflict \in BOOLEAN
      BY <2>1, <2>3 DEF Halves, Rebasing
    <3>2. QED
      BY <2>1, <2>3, <3>1, CheckoutTypes DEF GitInv, Behind
  <2>4. ASSUME Pulling, HasToRebase, NEW n \in Reached(Tip), ChecksOut(Interrupted(Tip, n), Len(remote))
        PROVE  /\ tree' \in Trees /\ halfDone' \in Halves(Len(remote))
               /\ (target' = "failed" /\ queue' = <<>>) \/ (target' = "starting" /\ queue' = <<SyncTask>>)
               /\ Mode # "push" /\ base < Len(remote)
    <3> DEFINE i == Interrupted(Tip, n)
    <3>1. i.commits \in Seq(Commits) /\ i.conflict \in BOOLEAN /\ i.tree \in Trees
      BY InterruptedTypes DEF GitInv
    <3>2. i = [commits |-> i.commits, conflict |-> i.conflict, tree |-> i.tree]
      BY DEF Interrupted
    <3>3. ChecksOut(i, Len(remote))
      BY <2>4
    <3> HIDE DEF i
    <3>4. ChecksOut([commits |-> i.commits, conflict |-> i.conflict, tree |-> i.tree], Len(remote))
      BY <3>2, <3>3
    <3>5. /\ tree' \in Trees /\ halfDone' \in Halves(Len(remote))
          /\ (target' = "failed" /\ queue' = <<>>) \/ (target' = "starting" /\ queue' = <<SyncTask>>)
      BY <1>3, <3>1, <3>4, CheckoutTypes DEF GitInv
    <3>6. Mode # "push" /\ base < Len(remote)
      BY <1>3, <2>4 DEF HasToRebase, Pulling, GitInv, HolderOK
    <3>7. QED
      BY <3>5, <3>6
  <2>5. QED
    BY <2>2, <2>3, <2>4 DEF CrashInRebase
<1>5. queue' \in Seq(Writes \cup {SyncTask}) /\ Len(queue') <= MaxQueue
  <2>1. MaxQueue \in Nat /\ MaxQueue > 0
    BY GitAssumption
  <2>2. <<SyncTask>> \in Seq(Writes \cup {SyncTask}) /\ Len(<<SyncTask>>) = 1
    OBVIOUS
  <2>3. <<>> \in Seq(Writes \cup {SyncTask}) /\ Len(<<>>) = 0
    OBVIOUS
  <2>4. CASE queue' = <<>>
    BY <2>1, <2>3, <2>4
  <2>5. CASE queue' = <<SyncTask>>
    BY <2>1, <2>2, <2>5
  <2>6. QED
    BY <1>4, <2>4, <2>5
<1>6. TypeOK'
  BY <1>1, <1>2, <1>3, <1>4, <1>5 DEF GitInv, TypeOK, Steps, Halves, Mishaps
<1>7. MarkedDealt' /\ Behind'
  BY <1>1, <1>4, StillDealt DEF Behind
<1>8. QED
  BY <1>1, <1>6, <1>7, AtStart

LEMMA NextGit == GitInv /\ [Next]_vars => GitInv'
<1> SUFFICES ASSUME GitInv, [Next]_vars PROVE GitInv'
  OBVIOUS
<1>1. CASE UNCHANGED vars
  <2>1. TypeOK'
    BY <1>1 DEF GitInv, TypeOK, vars
  <2>2. QED
    BY <1>1, <2>1, SameHolder, GitTypes DEF vars, GitInv
<1>2. CASE Next
  <2>1. ASSUME NEW p \in Pages, WikiSaves(p) \/ WikiDeletes(p) \/ RemoteEdit(p) \/ ImportFails(p) \/ ImportFile(p)
        PROVE  GitInv'
    BY <2>1, WikiStep, RemoteStep, ImportStep
  <2>2. QED
    BY <1>2, <2>1, DispatchStep, DueStep, EventStep, RepairStep, AbsorbStep, PullStep, DiffStep, MarkStep, PushStep, RetryStep, GivenUpStep, CrashStep
       DEF Next, SyncStep
<1>3. QED
  BY <1>1, <1>2

LEMMA GitAlways == Spec => []GitInv
  BY InitGit, NextGit, PTL DEF Spec

-----------------------------------------------------------------------------
(* What the runs check, for any pages and any bounds. *)

(* Every variable keeps its type: in particular base, tracking branch and    *)
(* marker name commits of the remote, and the marker never runs ahead of     *)
(* what was fetched.                                                         *)
THEOREM TypeCorrect == Spec => []TypeOK
<1>1. GitInv => TypeOK
  BY DEF GitInv
<1>2. QED
  BY <1>1, GitAlways, PTL

(* From the absorbing of leftovers to its end, a sync works on a clean       *)
(* working copy (storage.js:176-179), whatever failed before and whatever is *)
(* queued.  A rebase is half done by then only where git failed to abort it, *)
(* and the remote takes no push of such a sync.                              *)
THEOREM SyncsAreClean == Spec => []CleanDuringSync
<1>1. ASSUME GitInv
      PROVE  CleanDuringSync
  <2> SUFFICES ASSUME Absorbed
               PROVE  Dirty = {} /\ (Rebasing => "abort failed" \in mishaps /\ ~Accepted)
    BY DEF CleanDuringSync, Absorbed
  <2>1. Dirty = {}
    BY <1>1, GitTypes DEF GitInv, Clean
  <2>2. Rebasing => "abort failed" \in mishaps
    BY <1>1 DEF GitInv, Swallowed, Absorbed
  <2>3. QED
    BY <1>1, <2>1, <2>2, NoPushRebasing
<1>2. QED
  BY <1>1, GitAlways, PTL

(* The marker never passes a commit of others that processFiles did not see  *)
(* (storage.js:213-214, 290), but for those the first sync took for known.   *)
THEOREM NothingIsSkipped == Spec => []NoRemoteChangeSkipped
<1>1. GitInv => NoRemoteChangeSkipped
  BY DEF GitInv, MarkedDealt, NoRemoteChangeSkipped
<1>2. QED
  BY <1>1, GitAlways, PTL

(* A push adds the local commits to the last commit of the remote and        *)
(* nothing else: a page without a local commit keeps the text others gave it.*)
LEMMA PushStepKeeps ==
  ASSUME GitInv, Next, Mode # "push", remote' # remote, edits' = edits, NEW p \in Pages, Last(remote')[p] # Tip[p]
  PROVE  \E i \in DOMAIN local : local[i].page = p
<1>1. Accepted /\ RemoteTakes
  <2>1. ASSUME NEW q \in Pages, RemoteEdit(q)
        PROVE  FALSE
    <3>1. edits \in 0..MaxEdits /\ MaxEdits \in Nat /\ edits' = edits + 1
      BY <2>1, GitAssumption DEF RemoteEdit, GitInv, TypeOK, Texts
    <3>2. QED
      BY <3>1
  <2>2. Push \/ (PushFails /\ Accepted /\ RemoteTakes)
    BY <2>1 DEF Next, SyncStep, WikiSaves, WikiDeletes, ImportFails, ImportFile, DeleteThrows, EventDispatched, SyncDue, EventWrites,
             EventCommits, EventFails, Repair, Absorb, Pull, Diff, MarkProcessed, PushRejected, PushFails, SyncFails, Crash,
             CrashInRebase, Restarts, originVars
  <2>3. QED
    BY <2>2 DEF Push
<1>2. base = Len(remote) /\ remote' = Append(remote, BranchTree)
  BY <1>1 DEF Accepted, RemoteTakes
<1>3. Tip = remote[base] /\ remote \in Seq(Trees) /\ BranchTree \in Trees /\ local \in Seq(Commits)
  BY <1>2, GitTypes DEF GitInv
<1>4. Last(remote') = BranchTree
  BY <1>2, <1>3, AppendProperties DEF Last
<1>5. Apply(remote[base], local)[p] # remote[base][p]
  BY <1>3, <1>4 DEF BranchTree
<1>6. Of(p, local) # {}
  BY <1>3, <1>5, ApplyLast
<1>7. QED
  BY <1>6 DEF Of

(* Only mode "push" takes back what others pushed since the pull.            *)
THEOREM OthersKeepTheirWork == Spec => PushKeepsOthersWork
<1>1. GitInv /\ [Next]_vars =>
        [Mode # "push" /\ remote' # remote /\ edits' = edits =>
           \A p \in Pages : Last(remote')[p] # Tip[p] => \E i \in DOMAIN local : local[i].page = p]_vars
  BY PushStepKeeps
<1>2. QED
  BY <1>1, GitAlways, PTL DEF Spec, PushKeepsOthersWork

(* The working copy is what the local commits make of base, and a pull makes *)
(* it what they make of the remote's last commit: where a commit gives a     *)
(* page its text, these are the same.                                        *)
LEMMA PullKeeps ==
  ASSUME GitInv, Pull, ~Rebasing, step' \in {"pulled", "repulled"}, NEW i \in DOMAIN local
  PROVE  tree'[local[i].page] = tree[local[i].page]
<1> DEFINE p == local[i].page
<1>1. Pulling /\ PullRebases
  <2>1. ~(PullStops /\ SyncThrows)
    BY DEF SyncThrows, SyncSettles, Release
  <2>2. QED
    BY <2>1 DEF Pull, PullFastForwards, OnRemote
<1>2. tree' = Rebase(Tip).ours
  BY <1>1 DEF PullRebases
<1>3. tree = Apply(remote[base], local)
  BY <1>1 DEF Pulling, GitInv, Clean, Absorbed, HeadTree, BranchTree
<1>4. Tip \in Trees /\ remote[base] \in Trees /\ local \in Seq(Commits)
  BY GitTypes DEF GitInv
<1>5. tree' = Apply(Tip, local)
  BY <1>2, <1>4, RebaseReplays
<1>6. p \in Pages /\ Of(p, local) # {}
  <2>1. local[i] \in Commits /\ i \in Of(p, local)
    BY <1>4 DEF Of
  <2>2. QED
    BY <2>1 DEF Commits
<1>7. Apply(Tip, local)[p] = Apply(remote[base], local)[p]
  BY <1>4, <1>6, ApplySame
<1>8. QED
  BY <1>3, <1>5, <1>7

(* "On conflicting changes the local wiki edit wins" (storage.js:248-250).   *)
THEOREM LocalEditWins == Spec => WikiEditWins
<1>1. ASSUME GitInv, Next, Holder("sync"), step' \in {"pulled", "repulled"}, ~Rebasing, NEW i \in DOMAIN local
      PROVE  tree'[local[i].page] = tree[local[i].page]
  <2>1. ~Holder("write")
    BY <1>1 DEF Holder
  <2>2. CASE Pull
    BY <1>1, <2>2, PullKeeps
  <2>3. CASE ~Pull
    <3>1. tree' = tree
      BY <1>1, <2>1, <2>3 DEF Next, SyncStep, WikiSaves, WikiDeletes, RemoteEdit, ImportFails, ImportFile, DeleteThrows, EventDispatched,
             SyncDue, EventWrites, EventCommits, EventFails, Repair, Absorb, Diff, MarkProcessed, Push, PushRejected, PushFails, SyncFails,
             SyncThrows, SyncSettles, Release, Crash, CrashInRebase, Restarts, repoVars
    <3>2. QED
      BY <3>1
  <2>4. QED
    BY <2>2, <2>3
<1>2. GitInv /\ [Next]_vars =>
        [Holder("sync") /\ step' \in {"pulled", "repulled"} /\ ~Rebasing =>
           \A i \in DOMAIN local : LET p == local[i].page IN tree'[p] = tree[p]]_vars
  BY <1>1
<1>3. QED
  BY <1>2, GitAlways, PTL DEF Spec, WikiEditWins
=============================================================================
