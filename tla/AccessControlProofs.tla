------------------------ MODULE AccessControlProofs ------------------------
(***************************************************************************)
(* Theorems about PageRules and AccessControl, for any instances, groups,  *)
(* rules and changes: rules decide by their strength, instances keep up    *)
(* with the groups and tokens with their user, but for the cases that the  *)
(* properties name.                                                        *)
(***************************************************************************)
EXTENDS AccessControl, SequenceTheorems, FiniteSetTheorems, WellFoundedInduction, TLAPS

-----------------------------------------------------------------------------
(* Induction and recursion over the natural numbers *)

(* The natural numbers are well-founded, so that a set of them that holds   *)
(* every number whose predecessor it holds is that of all numbers.          *)
LEMMA Induction ==
  ASSUME NEW S, \A n \in Nat : (n = 0 \/ n - 1 \in S) => n \in S
  PROVE  Nat \subseteq S
<1>1. SUFFICES ASSUME Nat \ S # {} PROVE FALSE
  OBVIOUS
<1>2. IsWellFoundedOn(OpToRel(<, Nat), Nat)
  BY NatLessThanWellFounded
<1>3. PICK least \in Nat \ S : \A n \in Nat \ S : ~(<<n, least>> \in OpToRel(<, Nat))
  BY <1>1, <1>2, WFMin
<1>4. \A n \in Nat \ S : ~(n < least)
  BY <1>3 DEF OpToRel
<1>5. least # 0 /\ least - 1 \in Nat /\ least - 1 < least
  <2>1. 0 \in S
    OBVIOUS
  <2>2. least \in Nat /\ least # 0
    BY <2>1
  <2>3. QED
    BY <2>2
<1>6. least - 1 \in S
  BY <1>4, <1>5
<1>7. QED
  BY <1>3, <1>5, <1>6

(* f begins with first and applies apply[m] to the value before m. *)
Recurs(f, n, first, apply) == f = [m \in 0..n |-> IF m = 0 THEN first ELSE apply[m][f[m - 1]]]

LEMMA RecursiveFunction ==
  ASSUME NEW T, NEW first \in T, NEW apply \in [Nat -> [T -> T]], NEW L \in Nat
  PROVE  \E f \in [0..L -> T] : Recurs(f, L, first, apply)
<1> DEFINE Possible == {n \in Nat : \E f \in [0..n -> T] : Recurs(f, n, first, apply)}
<1>1. ASSUME NEW n \in Nat, n = 0 \/ n - 1 \in Possible
      PROVE  n \in Possible
  <2>1. CASE n = 0
    <3> DEFINE f == [m \in 0..0 |-> first]
    <3>1. f \in [0..0 -> T] /\ Recurs(f, 0, first, apply)
      BY DEF Recurs
    <3>2. QED
      BY <2>1, <3>1
  <2>2. CASE n # 0
    <3>1. n - 1 \in Nat /\ n - 1 \in Possible
      BY <1>1, <2>2
    <3>2. PICK g \in [0..(n - 1) -> T] : Recurs(g, n - 1, first, apply)
      BY <3>1
    <3>3. \A m \in 0..(n - 1) : g[m] = IF m = 0 THEN first ELSE apply[m][g[m - 1]]
      BY <3>2 DEF Recurs
    <3> DEFINE next == apply[n][g[n - 1]]
               f == [m \in 0..n |-> IF m = n THEN next ELSE g[m]]
    <3>4. next \in T
      <4>1. g[n - 1] \in T
        BY <3>1, <3>2
      <4>2. QED
        BY <4>1
    <3> HIDE DEF next
    <3>5. f[n - 1] = g[n - 1] /\ f[n] = next /\ f \in [0..n -> T]
      BY <3>1, <3>2, <3>4
    <3>6. \A m \in 0..n : m # n => m \in 0..(n - 1) /\ f[m] = g[m] /\ (m # 0 => f[m - 1] = g[m - 1])
      BY <3>1
    <3> HIDE DEF f
    <3>7. \A m \in 0..n : f[m] = IF m = 0 THEN first ELSE apply[m][f[m - 1]]
      <4> SUFFICES ASSUME NEW m \in 0..n PROVE f[m] = IF m = 0 THEN first ELSE apply[m][f[m - 1]]
        OBVIOUS
      <4>1. CASE m = n
        BY <4>1, <2>2, <3>5 DEF next
      <4>2. CASE m # n
        BY <4>2, <3>3, <3>6
      <4>3. QED
        BY <4>1, <4>2
    <3>8. Recurs(f, n, first, apply)
      BY <3>5, <3>7 DEF Recurs
    <3>9. QED
      BY <3>5, <3>8
  <2>3. QED
    BY <2>1, <2>2
<1>2. Nat \subseteq Possible
  <2> HIDE DEF Possible
  <2>1. QED
    BY <1>1, Induction
<1>3. QED
  BY <1>2

-----------------------------------------------------------------------------
(***************************************************************************)
(* Rules: their strength is a total order on what they say, and applying a *)
(* rule keeps the stronger of the two, whatever their lengths are.         *)
(***************************************************************************)
States == [match : Matches, deny : BOOLEAN, length : Nat]

(* The kinds of match are ranked in the order of Kinds. *)
LEMMA Ranks ==
  Rank("START") = 1 /\ Rank("END") = 2 /\ Rank("REGEX") = 3 /\ Rank("TAG") = 4 /\ Rank("EXACT") = 5
<1>1. DOMAIN Kinds = 1..5
  BY DEF Kinds
<1>2. Kinds[1] = "START" /\ Kinds[2] = "END" /\ Kinds[3] = "REGEX" /\ Kinds[4] = "TAG" /\ Kinds[5] = "EXACT"
  BY DEF Kinds
<1>3. QED
  BY <1>1, <1>2 DEF Rank

(* _applyPageRuleSpecificity passes over the kinds of match that rank       *)
(* higher.                                                                  *)
LEMMA HigherPriorityRanksHigher ==
  ASSUME NEW a \in Matches, NEW b \in Matches
  PROVE  Rank(a) \in 1..5 /\ (b \in HigherPriority(a) <=> Rank(b) > Rank(a)) /\ (Rank(a) = Rank(b) => a = b)
  BY Ranks DEF Matches, HigherPriority

(* Of two rules that say different things one is the stronger, and not the  *)
(* other one too; and a rule stronger than the stronger of two is stronger  *)
(* than both: no cycle of rules of several groups leaves the decision to    *)
(* the order of the groups (auth.js:258-311).                               *)
THEOREM StrongerIsTotalOrder ==
  ASSUME NEW a \in States, NEW b \in States, NEW c \in States
  PROVE  /\ a = b \/ Stronger(a, b) \/ Stronger(b, a)
         /\ ~(Stronger(a, b) /\ (Stronger(b, a) \/ a = b))
         /\ Stronger(a, b) /\ Stronger(b, c) => Stronger(a, c)
<1>1. \A s \in States : s.match \in Matches /\ s.deny \in BOOLEAN /\ s.length \in Nat
  BY DEF States
<1>2. \A s, t \in States :
        /\ Rank(s.match) \in 1..5
        /\ Rank(s.match) = Rank(t.match) => s.match = t.match
        /\ s.match = t.match /\ s.deny = t.deny /\ s.length = t.length => s = t
  BY <1>1, HigherPriorityRanksHigher DEF States
<1>3. a = b \/ Stronger(a, b) \/ Stronger(b, a)
  BY <1>1, <1>2 DEF Stronger
<1>4. ~(Stronger(a, b) /\ (Stronger(b, a) \/ a = b))
  BY <1>1, <1>2 DEF Stronger
<1>5. Stronger(a, b) /\ Stronger(b, c) => Stronger(a, c)
  BY <1>1, <1>2 DEF Stronger
<1>6. QED
  BY <1>3, <1>4, <1>5

(* The first rule that applies is taken, even if its path is empty.         *)
LEMMA FirstRuleIsTaken ==
  ASSUME NEW rule, AsState(rule) \in States
  PROVE  ApplyPageRuleSpecificity(NoMatch, rule) = AsState(rule)
<1>1. rule.match \in Matches /\ rule.length \in Nat
  BY DEF AsState, States
<1>2. "none" \notin HigherPriority(rule.match) /\ rule.match # "none"
  BY <1>1 DEF Matches, HigherPriority
<1>3. QED
  BY <1>1, <1>2 DEF ApplyPageRuleSpecificity, NoMatch

(* _applyPageRuleSpecificity keeps the state or takes the rule, and what it *)
(* returns is weaker than neither: the rule wins exactly if it is stronger, *)
(* or if the two are as strong, and then they say the same (auth.js         *)
(* 407-429).                                                                *)
THEOREM StrongerRuleWins ==
  ASSUME NEW state \in States, NEW rule, AsState(rule) \in States
  PROVE  LET next == ApplyPageRuleSpecificity(state, rule) IN
           /\ next \in {state, AsState(rule)}
           /\ ~Stronger(state, next)
           /\ ~Stronger(AsState(rule), next)
<1>1. rule.match \in Matches /\ rule.deny \in BOOLEAN /\ rule.length \in Nat
  BY DEF AsState, States
<1>2. AsState(rule).match = rule.match /\ AsState(rule).deny = rule.deny /\ AsState(rule).length = rule.length
  BY DEF AsState
<1>3. state.match \in Matches /\ state.deny \in BOOLEAN /\ state.length \in Nat
  BY DEF States
<1>4. /\ state.match \in HigherPriority(rule.match) <=> Rank(state.match) > Rank(rule.match)
      /\ Rank(state.match) = Rank(rule.match) => state.match = rule.match
      /\ Rank(state.match) \in 1..5 /\ Rank(rule.match) \in 1..5
  BY <1>1, <1>3, HigherPriorityRanksHigher
<1>5. QED
  BY <1>1, <1>2, <1>3, <1>4 DEF ApplyPageRuleSpecificity, Stronger

-----------------------------------------------------------------------------
(* What the rules of a user come to, by induction over the sequence: the    *)
(* state after each rule is what the rule makes of the state before it.     *)
Evaluates(state, n, rules, page) ==
  state = [m \in 0..n |-> IF m = 0 THEN NoMatch
                          ELSE IF page \in rules[m].pages THEN ApplyPageRuleSpecificity(state[m - 1], rules[m])
                          ELSE state[m - 1]]

LEMMA StatesExist ==
  ASSUME NEW rules, Len(rules) \in Nat, NEW page
  PROVE  Evaluates(StateAfter(rules, page), Len(rules), rules, page)
<1> DEFINE L == Len(rules)
           T == {NoMatch} \cup {AsState(rules[n]) : n \in 1..L}
           Ruled(m, s) == IF page \in rules[m].pages THEN ApplyPageRuleSpecificity(s, rules[m]) ELSE s
           step == [m \in Nat |-> [s \in T |-> IF m \in 1..L THEN Ruled(m, s) ELSE s]]
<1>1. \A m \in 1..L, s \in T : Ruled(m, s) \in T
  BY DEF ApplyPageRuleSpecificity
<1>2. step \in [Nat -> [T -> T]]
  <2> HIDE DEF T, Ruled
  <2>1. QED
    BY <1>1
<1>3. PICK state \in [0..L -> T] : Recurs(state, L, NoMatch, step)
  <2> HIDE DEF step
  <2>1. NoMatch \in T
    OBVIOUS
  <2> HIDE DEF T
  <2>2. QED
    BY <1>2, <2>1, RecursiveFunction
<1>4. \A m \in 0..L : state[m] = IF m = 0 THEN NoMatch ELSE Ruled(m, state[m - 1])
  <2> SUFFICES ASSUME NEW m \in 0..L PROVE state[m] = IF m = 0 THEN NoMatch ELSE Ruled(m, state[m - 1])
    OBVIOUS
  <2>1. state[m] = IF m = 0 THEN NoMatch ELSE step[m][state[m - 1]]
    <3> HIDE DEF step, T
    <3>1. QED
      BY <1>3 DEF Recurs
  <2>2. m # 0 => m \in 1..L /\ state[m - 1] \in T
    <3> HIDE DEF T
    <3>1. m # 0 => m \in 1..L /\ m - 1 \in 0..L
      OBVIOUS
    <3>2. QED
      BY <1>3, <3>1
  <2>3. m # 0 => step[m][state[m - 1]] = Ruled(m, state[m - 1])
    <3> HIDE DEF T, Ruled
    <3>1. QED
      BY <2>2
  <2>4. QED
    BY <2>1, <2>3
<1>5. Evaluates(state, L, rules, page)
  <2>1. state = [m \in 0..L |-> state[m]]
    <3> HIDE DEF T
    <3>1. QED
      BY <1>3
  <2> HIDE DEF T
  <2>2. QED
    BY <1>4, <2>1 DEF Evaluates
<1>6. QED
  BY <1>5 DEF Evaluates, StateAfter

(* After n rules the state is that of the strongest of those that apply.    *)
Applying(rules, n, page) == {m \in 1..n : page \in rules[m].pages}
Decided(state, rules, n, page) ==
  IF Applying(rules, n, page) = {} THEN state = NoMatch
  ELSE \E k \in Applying(rules, n, page) :
         /\ state = AsState(rules[k])
         /\ \A m \in Applying(rules, n, page) : ~Stronger(rules[m], rules[k])

LEMMA StrengthOfStates ==
  ASSUME NEW a, NEW b
  PROVE  Stronger(a, b) <=> Stronger(AsState(a), AsState(b))
  BY DEF Stronger, AsState

LEMMA NextRule ==
  ASSUME NEW rules, NEW n \in Nat, n # 0, NEW page,
         \A m \in 1..n : AsState(rules[m]) \in States,
         NEW before, Decided(before, rules, n - 1, page),
         NEW after, after = IF page \in rules[n].pages THEN ApplyPageRuleSpecificity(before, rules[n]) ELSE before
  PROVE  Decided(after, rules, n, page)
<1> DEFINE A == Applying(rules, n, page)
           B == Applying(rules, n - 1, page)
<1>1. CASE page \notin rules[n].pages
  <2>1. A = B
    BY <1>1 DEF Applying
  <2>2. QED
    BY <1>1, <2>1 DEF Decided
<1>2. CASE page \in rules[n].pages
  <2>1. n \in A /\ A = B \cup {n}
    BY <1>2 DEF Applying
  <2>2. after = ApplyPageRuleSpecificity(before, rules[n])
    BY <1>2
  <2>3. \A m \in A : AsState(rules[m]) \in States
    BY DEF Applying
  <2>4. CASE B = {}
    <3>1. after = AsState(rules[n])
      BY <2>1, <2>2, <2>3, <2>4, FirstRuleIsTaken DEF Decided
    <3>2. ~Stronger(rules[n], rules[n])
      BY <2>1, <2>3, StrengthOfStates, StrongerIsTotalOrder
    <3>3. QED
      BY <2>1, <2>4, <3>1, <3>2 DEF Decided
  <2>5. CASE B # {}
    <3>1. PICK k \in B : before = AsState(rules[k]) /\ \A m \in B : ~Stronger(rules[m], rules[k])
      BY <2>5 DEF Decided
    <3>2. before \in States
      BY <2>1, <2>3, <3>1
    <3>3. /\ after \in {before, AsState(rules[n])}
          /\ ~Stronger(before, after)
          /\ ~Stronger(AsState(rules[n]), after)
      BY <2>1, <2>2, <2>3, <3>2, StrongerRuleWins
    <3>4. PICK j \in A : after = AsState(rules[j])
      BY <2>1, <3>1, <3>3
    <3>5. after \in States /\ (after = before \/ Stronger(after, before))
      BY <2>3, <3>2, <3>3, <3>4, StrongerIsTotalOrder
    <3>6. ASSUME NEW m \in A
          PROVE  ~Stronger(rules[m], rules[j])
      <4>1. SUFFICES ~Stronger(AsState(rules[m]), after)
        BY <3>4, StrengthOfStates
      <4>2. CASE m = n
        BY <4>2, <3>3
      <4>3. CASE m \in B
        <5>1. ~Stronger(AsState(rules[m]), before)
          BY <4>3, <3>1, StrengthOfStates
        <5>2. QED
          BY <5>1, <2>3, <3>2, <3>5, StrongerIsTotalOrder
      <4>4. QED
        BY <4>2, <4>3, <2>1
    <3>7. QED
      BY <2>1, <3>4, <3>6 DEF Decided
  <2>6. QED
    BY <2>4, <2>5
<1>3. QED
  BY <1>1, <1>2

(* Whatever rules a user's groups have and in whichever order they come,    *)
(* what decides about a page is the strongest of those that apply to it:    *)
(* the fold over the rules neither passes over a rule nor lets a later one  *)
(* that is weaker win (auth.js:258-311, 407-429).                           *)
THEOREM StrongestDecides ==
  ASSUME NEW rules, Len(rules) \in Nat, \A n \in 1..Len(rules) : AsState(rules[n]) \in States, NEW page
  PROVE  LET strongest == Strongest({rules[n] : n \in 1..Len(rules)}, page)
         IN  EvaluatePageRules(rules, page) \in IF strongest = {} THEN {NoMatch} ELSE strongest
<1> DEFINE L == Len(rules)
           state == StateAfter(rules, page)
           S == {n \in Nat : n <= L => Decided(state[n], rules, n, page)}
<1>1. Evaluates(state, L, rules, page)
  BY StatesExist
<1> HIDE DEF state
<1>2. \A n \in 0..L : state[n] = IF n = 0 THEN NoMatch
                                ELSE IF page \in rules[n].pages THEN ApplyPageRuleSpecificity(state[n - 1], rules[n])
                                ELSE state[n - 1]
  BY <1>1 DEF Evaluates
<1>3. ASSUME NEW n \in Nat, n = 0 \/ n - 1 \in S
      PROVE  n \in S
  <2> SUFFICES ASSUME n <= L PROVE Decided(state[n], rules, n, page)
    OBVIOUS
  <2>1. CASE n = 0
    <3>1. state[0] = NoMatch /\ Applying(rules, 0, page) = {}
      BY <1>2 DEF Applying
    <3>2. QED
      BY <2>1, <3>1 DEF Decided
  <2>2. CASE n # 0
    <3>1. Decided(state[n - 1], rules, n - 1, page)
      BY <1>3, <2>2
    <3>2. state[n] = IF page \in rules[n].pages THEN ApplyPageRuleSpecificity(state[n - 1], rules[n]) ELSE state[n - 1]
      BY <1>2, <2>2
    <3>3. \A m \in 1..n : AsState(rules[m]) \in States
      OBVIOUS
    <3>4. QED
      BY <2>2, <3>1, <3>2, <3>3, NextRule
  <2>3. QED
    BY <2>1, <2>2
<1>4. L \in S
  <2>1. Nat \subseteq S
    <3> HIDE DEF S
    <3>1. QED
      BY <1>3, Induction
  <2>2. QED
    BY <2>1
<1>5. Decided(state[L], rules, L, page)
  BY <1>4
<1> DEFINE All == {rules[n] : n \in 1..L}
<1>6. \A b \in All : b.pages = b.pages /\ (page \in b.pages <=> \E n \in Applying(rules, L, page) : b = rules[n])
  BY DEF Applying
<1>7. CASE Applying(rules, L, page) = {}
  <2>1. Strongest(All, page) = {}
    BY <1>6, <1>7 DEF Strongest
  <2>2. EvaluatePageRules(rules, page) = NoMatch
    BY <1>5, <1>7 DEF Decided, EvaluatePageRules, state
  <2>3. QED
    BY <2>1, <2>2
<1>8. CASE Applying(rules, L, page) # {}
  <2>1. PICK k \in Applying(rules, L, page) :
          /\ state[L] = AsState(rules[k])
          /\ \A m \in Applying(rules, L, page) : ~Stronger(rules[m], rules[k])
    BY <1>5, <1>8 DEF Decided
  <2>2. rules[k] \in All /\ page \in rules[k].pages
    BY DEF Applying
  <2>3. \A c \in All : page \in c.pages => ~Stronger(c, rules[k])
    BY <1>6, <2>1
  <2>4. AsState(rules[k]) \in Strongest(All, page)
    BY <2>2, <2>3 DEF Strongest
  <2>5. EvaluatePageRules(rules, page) = AsState(rules[k])
    BY <2>1 DEF EvaluatePageRules, state
  <2>6. QED
    BY <2>4, <2>5
<1>9. QED
  BY <1>7, <1>8

(***************************************************************************)
(* Instances, groups and tokens.                                           *)
(***************************************************************************)
(* What a change is made of. *)
Records ==
  [step : {"new", "written", "revoked", "read", "done"}, kind : {"none", "user", "group"},
   at : SUBSET Instances, key : Keys, read : SUBSET Snapshots]
ChangeOK(c) ==
  \/ change[c] \in {Unmade, Finished}
  \/ /\ change[c].step \in Steps /\ change[c].kind \in {"user", "group"}
     /\ change[c].kind = "user" => change[c].step = "written"
     /\ \E i \in Instances : change[c].at = {i}
     /\ change[c].step = "read" => \E read \in Snapshots : change[c].read = {read}
ChangesOK ==
  /\ change \in [Changes -> Records] /\ \A c \in Changes : ChangeOK(c)
  /\ hist \in [token : SUBSET Instances, groups : SUBSET Instances]

(* A group is updated at most as often as there are changes. *)
Made == {c \in Changes : change[c] # Unmade}
VersionsCounted == \A g \in Groups : groups[g] = Deleted \/ groups[g] <= 1 + Cardinality(Made)

BasicTypes ==
  /\ groups \in Snapshots /\ member \subseteq {g \in Groups : Exists(g)} /\ active \in BOOLEAN
  /\ known \in [Instances -> Snapshots] /\ loading \in [Instances -> SUBSET Snapshots]
  /\ revoked \in [Instances -> [Keys -> 0..Expiration]]
  /\ started \in [Instances -> {"before", "since", "now"}]
  /\ inbox \in [Instances -> Seq(Messages)]
  /\ token \in Tokens /\ age \in 0..Expiration
  /\ signing \in [Instances -> SUBSET Tokens]
  /\ mishaps \in 0..MaxMishaps

Types == BasicTypes /\ ChangesOK /\ VersionsCounted

(* Nobody has read what was not written yet. *)
UpTo(read) == \A g \in Groups : read[g] <= groups[g]
ReadsAreOld ==
  /\ \A i \in Instances : UpTo(known[i]) /\ \A read \in loading[i] : UpTo(read)
  /\ \A c \in Changes : \A read \in change[c].read : UpTo(read)

(* The groups of now are on their way to instance i. *)
WillReload(c, i) ==
  /\ change[c].kind = "group"
  /\ \/ change[c].step \in {"written", "revoked"}
     \/ change[c].step = "read" /\ (change[c].at # {i} \/ groups \in change[c].read)
Told(i, message) == \E n \in DOMAIN inbox[i] : inbox[i][n][1] = message
Pending(i) ==
  \/ \E c \in Changes : WillReload(c, i)
  \/ Told(i, "reloadGroups")
  \/ groups \in loading[i]
KnownOrPending == \A i \in Instances : i \notin hist.groups => known[i] = groups \/ Pending(i)

GroupsInv == Types /\ ReadsAreOld /\ KnownOrPending

(* A revocation that catches the token is on its way to instance i. *)
Caught == {"user"} \cup DOMAIN token
Outstanding(i) ==
  \/ \E c \in Changes : change[c].step = "written" /\ change[c].key \in Caught
  \/ \E n \in DOMAIN inbox[i] : inbox[i][n][1] = "addAuthRevoke" /\ inbox[i][n][2] \in Caught
TokenOrOutstanding ==
  \A i \in Instances :
    MustRevalidate(i) \/ (active /\ token = Current) \/ i \in hist.token \/ Outstanding(i)

(* An entry of the revocation list outlasts the token it catches. *)
EntriesLast == \A i \in Instances, k \in Keys : revoked[i][k] > 0 => revoked[i][k] + age > Expiration

SessionInv == Types /\ EntriesLast /\ TokenOrOutstanding

-----------------------------------------------------------------------------
(* Types *)

LEMMA TypesSuffice == Types => TypeOK
<1> SUFFICES ASSUME Types PROVE TypeOK
  OBVIOUS
<1>1. ASSUME NEW c \in Changes
      PROVE  \/ change[c] \in {Unmade, Finished}
             \/ change[c].step \in Steps /\ Cardinality(change[c].at) = 1 /\ change[c].key \in Keys
  <2>1. change[c] \in Records /\ ChangeOK(c)
    BY DEF Types, ChangesOK
  <2>2. change[c].key \in Keys
    BY <2>1 DEF Records
  <2>3. \A i \in Instances : Cardinality({i}) = 1
    BY FS_Singleton
  <2>4. QED
    BY <2>1, <2>2, <2>3 DEF ChangeOK
<1>2. QED
  BY <1>1 DEF Types, BasicTypes, TypeOK

LEMMA Constants ==
  /\ Cardinality(Changes) \in Nat /\ Deleted \in Nat /\ Versions = 0..Deleted
  /\ Unmade \in Records /\ Finished \in Records /\ Unmade # Finished
  /\ "user" \in Keys /\ Groups \subseteq Keys
<1>1. Cardinality(Changes) \in Nat
  BY AccessAssumption, FS_CardinalityType
<1>2. Unmade \in Records /\ Finished \in Records /\ Unmade # Finished
  BY DEF Unmade, Finished, Records, Keys
<1>3. QED
  BY <1>1, <1>2 DEF Deleted, Versions, Missing, Keys

LEMMA CurrentIsToken ==
  ASSUME BasicTypes
  PROVE  Current \in Tokens
<1>1. member \subseteq Groups
  BY DEF BasicTypes
<1>2. Current \in [member -> Versions]
  BY <1>1 DEF BasicTypes, Current, Snapshots
<1>3. QED
  BY <1>1, <1>2 DEF Tokens

(* A request that changes something counts once. *)
LEMMA OneMore ==
  ASSUME Types, NEW c \in Changes, change[c] = Unmade, NEW r, r # Unmade,
         change' = [change EXCEPT ![c] = r]
  PROVE  /\ Cardinality(Made) \in Nat /\ Cardinality(Made') = Cardinality(Made) + 1
         /\ Cardinality(Made') <= Cardinality(Changes)
<1>1. Made' = Made \cup {c} /\ c \notin Made /\ Made \subseteq Changes /\ Made' \subseteq Changes
  BY DEF Types, ChangesOK, Made
<1>2. IsFiniteSet(Made) /\ IsFiniteSet(Made') /\ Cardinality(Made') <= Cardinality(Changes)
  BY <1>1, AccessAssumption, FS_Subset
<1>3. QED
  BY <1>1, <1>2, FS_AddElement, FS_CardinalityType

LEMMA NoMore ==
  ASSUME Types, \A c \in Changes : change'[c] = Unmade <=> change[c] = Unmade, groups' = groups
  PROVE  VersionsCounted'
<1>1. Made' = Made
  BY DEF Made
<1>2. QED
  BY <1>1 DEF Types, VersionsCounted

LEMMA OneChange ==
  ASSUME Types, NEW c \in Changes, NEW r \in Records, change' = [change EXCEPT ![c] = r],
         \/ r \in {Unmade, Finished}
         \/ /\ r.step \in Steps /\ r.kind \in {"user", "group"} /\ (r.kind = "user" => r.step = "written")
            /\ \E i \in Instances : r.at = {i}
            /\ r.step = "read" => \E read \in Snapshots : r.read = {read},
         hist' \in [token : SUBSET Instances, groups : SUBSET Instances]
  PROVE  ChangesOK'
<1>1. change \in [Changes -> Records] /\ change' \in [Changes -> Records]
  BY DEF Types, ChangesOK
<1>2. \A d \in Changes : change'[d] = IF d = c THEN r ELSE change[d]
  BY <1>1
<1>3. \A d \in Changes : ChangeOK(d)'
  BY <1>2 DEF Types, ChangesOK, ChangeOK
<1>4. QED
  BY <1>1, <1>3 DEF ChangesOK

(* The group that a request writes has a version that is counted. *)
LEMMA WriteTypes ==
  ASSUME Types, NEW c \in Changes, change[c] = Unmade, NEW i \in Instances, NEW r \in Records, r # Unmade,
         \/ r = Finished
         \/ /\ r.step \in {"written", "revoked"} /\ r.kind \in {"user", "group"} /\ (r.kind = "user" => r.step = "written")
            /\ r.at = {i},
         change' = [change EXCEPT ![c] = r],
         hist' \in [token : SUBSET Instances, groups : SUBSET Instances],
         \/ groups' = groups
         \/ \E g \in Groups : groups[g] # Deleted /\ groups' = [groups EXCEPT ![g] = @ + 1]
         \/ \E g \in Groups : groups[g] # Deleted /\ groups' = [groups EXCEPT ![g] = Deleted]
  PROVE  /\ groups' \in Snapshots /\ ChangesOK' /\ VersionsCounted'
         /\ \A g \in Groups : groups[g] <= groups'[g]
<1>1. ChangesOK'
  <2>1. \/ r \in {Unmade, Finished}
        \/ /\ r.step \in Steps /\ r.kind \in {"user", "group"} /\ (r.kind = "user" => r.step = "written")
           /\ \E j \in Instances : r.at = {j}
           /\ r.step = "read" => \E read \in Snapshots : r.read = {read}
    BY DEF Steps
  <2>2. QED
    BY <2>1, OneChange
<1>2. /\ Cardinality(Made) \in Nat /\ Cardinality(Made') = Cardinality(Made) + 1
      /\ Cardinality(Made') <= Cardinality(Changes)
  BY OneMore
<1>3. \A g \in Groups : groups[g] \in 0..Deleted /\ (groups[g] = Deleted \/ groups[g] <= 1 + Cardinality(Made))
  BY Constants DEF Types, BasicTypes, VersionsCounted, Snapshots
<1>4. groups \in [Groups -> 0..Deleted]
  BY Constants DEF Types, BasicTypes, Snapshots
<1>5. CASE groups' = groups
  BY <1>1, <1>2, <1>3, <1>4, <1>5, Constants DEF VersionsCounted, Snapshots, Deleted
<1>6. CASE \E g \in Groups : groups[g] # Deleted /\ groups' = [groups EXCEPT ![g] = @ + 1]
  BY <1>1, <1>2, <1>3, <1>4, <1>6, Constants DEF VersionsCounted, Snapshots, Deleted, Missing
<1>7. CASE \E g \in Groups : groups[g] # Deleted /\ groups' = [groups EXCEPT ![g] = Deleted]
  BY <1>1, <1>2, <1>3, <1>4, <1>7, Constants DEF VersionsCounted, Snapshots, Deleted, Missing
<1>8. QED
  BY <1>5, <1>6, <1>7

LEMMA InitTypes == Init => Types
<1> SUFFICES ASSUME Init PROVE Types
  OBVIOUS
<1>1. groups \in [Groups -> Versions] /\ \A g \in Groups : groups[g] <= 1
  BY Constants DEF Init, Missing, Deleted
<1>2. BasicTypes
  <2>1. member \subseteq Groups /\ token \in [member -> Versions]
    BY <1>1 DEF Init, Current
  <2>2. token \in Tokens
    BY <2>1 DEF Tokens
  <2>3. QED
    BY <1>1, <2>2, AccessAssumption DEF Init, BasicTypes, Snapshots, Exists
<1>3. ChangesOK
  BY Constants DEF Init, ChangesOK, ChangeOK
<1>4. Made = {}
  BY DEF Init, Made
<1>5. VersionsCounted
  BY <1>1, <1>4, FS_EmptySet DEF VersionsCounted
<1>6. QED
  BY <1>2, <1>3, <1>5 DEF Types

(* The requests that write the database. *)
Written(c, i, kind, key) == [Unmade EXCEPT !.step = "written", !.kind = kind, !.at = {i}, !.key = key]
Created(c, i, g) == [Unmade EXCEPT !.step = "revoked", !.kind = "group", !.at = {i}, !.key = g]

LEMMA NewChanges ==
  ASSUME NEW c \in Changes, NEW i \in Instances, NEW kind \in {"user", "group"}, NEW key \in Keys
  PROVE  /\ Written(c, i, kind, key) \in Records /\ Written(c, i, kind, key) # Unmade
         /\ Written(c, i, kind, key).step = "written" /\ Written(c, i, kind, key).kind = kind
         /\ Written(c, i, kind, key).at = {i} /\ Written(c, i, kind, key).key = key /\ Written(c, i, kind, key).read = {}
         /\ Created(c, i, key) \in Records /\ Created(c, i, key) # Unmade
         /\ Created(c, i, key).step = "revoked" /\ Created(c, i, key).kind = "group"
         /\ Created(c, i, key).at = {i} /\ Created(c, i, key).key = key /\ Created(c, i, key).read = {}
  BY Constants DEF Written, Created, Unmade, Records

LEMMA UserTypes ==
  ASSUME Types, NEW c \in Changes, change[c] = Unmade, groups' = groups, active' \in BOOLEAN,
         member' \subseteq {g \in Groups : Exists(g)},
         UNCHANGED <<known, loading, revoked, started, inbox, token, age, signing, mishaps>>,
         \/ \E i \in Instances : change' = [change EXCEPT ![c] = Written(c, i, "user", "user")] /\ hist' = hist
         \/ change' = [change EXCEPT ![c] = Finished] /\ hist' \in {hist, [hist EXCEPT !.token = Instances]}
  PROVE  Types' /\ \A h \in Groups : groups[h] <= groups'[h]
<1>1. hist' \in [token : SUBSET Instances, groups : SUBSET Instances]
  BY DEF Types, ChangesOK
<1>2. PICK r \in {Finished} \cup {Written(c, i, "user", "user") : i \in Instances} : change' = [change EXCEPT ![c] = r]
  OBVIOUS
<1>3. /\ r \in Records /\ r # Unmade
      /\ \/ r = Finished
         \/ r.step = "written" /\ r.kind = "user" /\ \E i \in Instances : r.at = {i}
  BY <1>2, NewChanges, Constants
<1>4. ChangesOK'
  BY <1>1, <1>2, <1>3, OneChange DEF Steps
<1>5. /\ Cardinality(Made) \in Nat /\ Cardinality(Made') = Cardinality(Made) + 1
  BY <1>2, <1>3, OneMore
<1>6. \A g \in Groups : groups[g] \in 0..Deleted
  BY Constants DEF Types, BasicTypes, Snapshots
<1>7. VersionsCounted'
  BY <1>5, <1>6, Constants DEF Types, VersionsCounted
<1>8. member' \subseteq {g \in Groups : Exists(g)'}
  BY DEF Exists
<1>9. QED
  BY <1>4, <1>6, <1>7, <1>8 DEF Types, BasicTypes

LEMMA WritingTypes ==
  ASSUME Types, NEW c \in Changes, NEW i \in Instances, NEW g \in Groups,
         CreateGroup(c, i, g) \/ UpdateGroup(c, i, g) \/ DeleteGroup(c, i, g) \/ AssignUser(c, i, g)
  PROVE  Types' /\ \A h \in Groups : groups[h] <= groups'[h]
<1>1. change[c] = Unmade /\ hist \in [token : SUBSET Instances, groups : SUBSET Instances]
  BY DEF CreateGroup, UpdateGroup, DeleteGroup, AssignUser, Writes, Types, ChangesOK
<1>2. UNCHANGED <<known, loading, revoked, started, inbox, token, age, signing, mishaps>>
  BY DEF CreateGroup, UpdateGroup, DeleteGroup, AssignUser, Writes, sessionVars
<1>3. ASSUME groups' \in Snapshots, ChangesOK', VersionsCounted',
             member' \subseteq {h \in Groups : Exists(h)'}, active' \in BOOLEAN
      PROVE  Types'
  BY <1>2, <1>3 DEF Types, BasicTypes
<1>4. \A h \in Groups : groups[h] \in 0..Deleted
  BY Constants DEF Types, BasicTypes, Snapshots
<1>5. CASE CreateGroup(c, i, g)
  <2> DEFINE r == Created(c, i, g)
  <2>0. /\ r \in Records /\ r # Unmade /\ r.step \in {"written", "revoked"} /\ r.kind \in {"user", "group"}
        /\ (r.kind = "user" => r.step = "written") /\ r.at = {i}
    BY NewChanges, Constants
  <2>1. /\ groups' = [groups EXCEPT ![g] = @ + 1] /\ groups[g] # Deleted
        /\ change' = [change EXCEPT ![c] = r] /\ hist' = hist /\ member' = member /\ active' = active
    BY <1>4, <1>5, Constants DEF CreateGroup, Created, Missing, Deleted
  <2>2. groups' \in Snapshots /\ ChangesOK' /\ VersionsCounted' /\ \A h \in Groups : groups[h] <= groups'[h]
    <3> HIDE DEF r
    <3>1. QED
      BY <1>1, <2>0, <2>1, WriteTypes
  <2>3. member' \subseteq {h \in Groups : Exists(h)'}
    BY <1>5, <2>1 DEF CreateGroup, Types, BasicTypes, Exists, Snapshots
  <2>4. QED
    BY <1>3, <2>1, <2>2, <2>3 DEF Types, BasicTypes
<1>6. CASE UpdateGroup(c, i, g)
  <2> DEFINE r == Written(c, i, "group", g)
  <2>0. /\ r \in Records /\ r # Unmade /\ r.step \in {"written", "revoked"} /\ r.kind \in {"user", "group"}
        /\ (r.kind = "user" => r.step = "written") /\ r.at = {i}
    BY NewChanges, Constants
  <2>1. /\ groups' = [groups EXCEPT ![g] = @ + 1] /\ groups[g] # Deleted /\ groups[g] # Missing
        /\ change' = [change EXCEPT ![c] = r] /\ hist' = hist /\ member' = member /\ active' = active
    BY <1>6 DEF UpdateGroup, Writes, Written, Exists
  <2>2. groups' \in Snapshots /\ ChangesOK' /\ VersionsCounted' /\ \A h \in Groups : groups[h] <= groups'[h]
    <3> HIDE DEF r
    <3>1. QED
      BY <1>1, <2>0, <2>1, WriteTypes
  <2>3. groups'[g] # Deleted
    <3> HIDE DEF r
    <3>1. Cardinality(Made) \in Nat /\ Cardinality(Made) + 1 <= Cardinality(Changes)
      BY <1>1, <2>0, <2>1, OneMore
    <3>2. groups[g] <= 1 + Cardinality(Made)
      BY <2>1 DEF Types, VersionsCounted
    <3>3. groups'[g] = groups[g] + 1
      BY <2>1 DEF Types, BasicTypes, Snapshots
    <3>4. QED
      BY <1>4, <3>1, <3>2, <3>3, Constants DEF Deleted
  <2>4. member' \subseteq {h \in Groups : Exists(h)'}
    <3>1. groups'[g] = groups[g] + 1 /\ \A h \in Groups : h # g => groups'[h] = groups[h]
      BY <2>1 DEF Types, BasicTypes, Snapshots
    <3>2. groups'[g] # Missing
      BY <1>4, <3>1 DEF Missing
    <3>3. QED
      BY <2>1, <2>3, <3>1, <3>2 DEF Types, BasicTypes, Exists
  <2>5. QED
    BY <1>3, <2>1, <2>2, <2>4 DEF Types, BasicTypes
<1>7. CASE DeleteGroup(c, i, g)
  <2> DEFINE r == Written(c, i, "group", g)
  <2>0. /\ r \in Records /\ r # Unmade /\ r.step \in {"written", "revoked"} /\ r.kind \in {"user", "group"}
        /\ (r.kind = "user" => r.step = "written") /\ r.at = {i}
    BY NewChanges, Constants
  <2>1. /\ groups' = [groups EXCEPT ![g] = Deleted] /\ groups[g] # Deleted
        /\ change' = [change EXCEPT ![c] = r] /\ hist' = hist /\ member' = member \ {g} /\ active' = active
    BY <1>7 DEF DeleteGroup, Writes, Written, Exists
  <2>2. groups' \in Snapshots /\ ChangesOK' /\ VersionsCounted' /\ \A h \in Groups : groups[h] <= groups'[h]
    <3> HIDE DEF r
    <3>1. QED
      BY <1>1, <2>0, <2>1, WriteTypes
  <2>3. member' \subseteq {h \in Groups : Exists(h)'}
    BY <2>1 DEF Types, BasicTypes, Exists, Snapshots
  <2>4. QED
    BY <1>3, <2>1, <2>2, <2>3 DEF Types, BasicTypes
<1>8. CASE AssignUser(c, i, g)
  <2>1. member' \subseteq {h \in Groups : Exists(h)}
    BY <1>8 DEF AssignUser, Toggled, Types, BasicTypes
  <2>2. active' \in BOOLEAN /\ groups' = groups /\ hist' = hist
        /\ change' = [change EXCEPT ![c] = Written(c, i, "user", "user")]
    BY <1>8 DEF AssignUser, Writes, Written, Types, BasicTypes
  <2>3. QED
    BY <1>1, <1>2, <2>1, <2>2, UserTypes
<1>9. QED
  BY <1>5, <1>6, <1>7, <1>8

LEMMA UpdateUserTypes ==
  ASSUME Types, NEW c \in Changes, NEW g \in Groups, UpdateUser(c, g)
  PROVE  Types' /\ \A h \in Groups : groups[h] <= groups'[h]
<1>1. member' \subseteq {h \in Groups : Exists(h)}
  BY DEF UpdateUser, Toggled, Types, BasicTypes
<1>2. /\ active' \in BOOLEAN /\ groups' = groups /\ hist' = [hist EXCEPT !.token = Instances]
      /\ change[c] = Unmade /\ change' = [change EXCEPT ![c] = Finished]
      /\ UNCHANGED <<known, loading, revoked, started, inbox, token, age, signing, mishaps>>
  BY DEF UpdateUser, Types, BasicTypes, sessionVars
<1>3. QED
  BY <1>1, <1>2, UserTypes

LEMMA ActivityTypes ==
  ASSUME Types, NEW c \in Changes, (\E i \in Instances : DeactivateUser(c, i)) \/ ActivateUser(c)
  PROVE  Types' /\ \A h \in Groups : groups[h] <= groups'[h]
<1>1. member' \subseteq {g \in Groups : Exists(g)}
  BY DEF DeactivateUser, ActivateUser, Types, BasicTypes
<1>2. active' \in BOOLEAN /\ groups' = groups /\ hist' = hist /\ change[c] = Unmade
      /\ UNCHANGED <<known, loading, revoked, started, inbox, token, age, signing, mishaps>>
  BY DEF DeactivateUser, ActivateUser, Writes, sessionVars
<1>3. \/ \E i \in Instances : change' = [change EXCEPT ![c] = Written(c, i, "user", "user")]
      \/ change' = [change EXCEPT ![c] = Finished]
  BY DEF DeactivateUser, ActivateUser, Writes, Written
<1>4. QED
  BY <1>1, <1>2, <1>3, UserTypes

(* Steps of a change that was written. *)
Hists == [token : SUBSET Instances, groups : SUBSET Instances]

LEMMA HistTypes ==
  ASSUME hist \in Hists, NEW S \in SUBSET Instances
  PROVE  /\ [hist EXCEPT !.token = S] \in Hists /\ [hist EXCEPT !.groups = S] \in Hists
         /\ hist.token \in SUBSET Instances /\ hist.groups \in SUBSET Instances
  BY DEF Hists

LEMMA RevokeTypes ==
  ASSUME Types, NEW i \in Instances, NEW key \in Keys, Revoke(i, key)
  PROVE  revoked' \in [Instances -> [Keys -> 0..Expiration]] /\ hist' \in Hists
<1>1. hist' \in Hists
  <2>1. hist' = [hist EXCEPT !.token = IF age > Grace THEN hist.token ELSE hist.token \cup {i}]
    BY DEF Revoke, Types, ChangesOK
  <2>2. QED
    BY <2>1, HistTypes DEF Types, ChangesOK, Hists
<1>2. revoked' \in [Instances -> [Keys -> 0..Expiration]]
  <2>1. Expiration \in 0..Expiration
    BY AccessAssumption
  <2>2. QED
    BY <2>1 DEF Revoke, Types, BasicTypes
<1>3. QED
  BY <1>1, <1>2

LEMMA EmitTypes ==
  ASSUME Types, NEW i \in Instances, NEW message \in Messages, Emit(i, message)
  PROVE  inbox' \in [Instances -> Seq(Messages)]
  BY DEF Types, BasicTypes, Emit

LEMMA SetGroupsTypes ==
  ASSUME Types, NEW i \in Instances, NEW read \in Snapshots, SetGroups(i, read)
  PROVE  known' \in [Instances -> Snapshots] /\ hist' \in Hists
<1>1. hist' = [hist EXCEPT !.groups = IF Older(read, known[i]) THEN hist.groups \cup {i} ELSE hist.groups]
  BY DEF SetGroups, Types, ChangesOK
<1>2. hist' \in Hists
  BY <1>1, HistTypes DEF Types, ChangesOK, Hists
<1>3. QED
  BY <1>2 DEF SetGroups, Types, BasicTypes

LEMMA ChangingTypes ==
  ASSUME Types, NEW c \in Changes, RevokeTokens(c) \/ ReadGroups(c) \/ ReloadGroups(c)
  PROVE  Types'
<1>1. change[c] \in Records /\ change \in [Changes -> Records] /\ hist \in Hists
  BY DEF Types, ChangesOK, Hists
<1>2. change[c].step \in Steps
  BY DEF RevokeTokens, ReadGroups, ReloadGroups, Steps
<1>3. change[c] # Unmade /\ change[c] # Finished
  BY <1>2 DEF Unmade, Finished, Steps
<1>4. /\ change[c].kind \in {"user", "group"} /\ (change[c].kind = "user" => change[c].step = "written")
      /\ change[c].key \in Keys /\ change[c].read \subseteq Snapshots
      /\ \E i \in Instances : change[c].at = {i}
  BY <1>1, <1>3 DEF Types, ChangesOK, ChangeOK, Records
<1>5. UNCHANGED <<groups, member, active>>
  BY DEF RevokeTokens, ReadGroups, ReloadGroups, dbVars
<1>6. member' \subseteq {g \in Groups : Exists(g)'}
  BY <1>5 DEF Types, BasicTypes, Exists
<1>7. ASSUME NEW r \in Records, r # Unmade, change' = [change EXCEPT ![c] = r]
      PROVE  VersionsCounted'
  <2>1. \A d \in Changes : change'[d] = Unmade <=> change[d] = Unmade
    BY <1>1, <1>3, <1>7
  <2>2. QED
    BY <1>5, <2>1, NoMore
<1>8. CASE RevokeTokens(c)
  <2>1. PICK i \in Instances : Revoke(i, change[c].key) /\ Emit(i, <<"addAuthRevoke", change[c].key>>)
    BY <1>4, <1>8 DEF RevokeTokens
  <2> DEFINE r == IF change[c].kind = "group" THEN [change[c] EXCEPT !.step = "revoked"] ELSE Finished
  <2>2. change' = [change EXCEPT ![c] = r]
    BY <1>1, <1>8 DEF RevokeTokens
  <2>3. /\ r \in Records /\ r # Unmade
        /\ \/ r = Finished
           \/ r.step = "revoked" /\ r.kind = "group" /\ \E j \in Instances : r.at = {j}
    <3>1. CASE change[c].kind = "group"
      BY <1>1, <1>4, <3>1 DEF Records, Unmade
    <3>2. CASE change[c].kind # "group"
      BY <3>2, Constants
    <3>3. QED
      BY <3>1, <3>2
  <2>4. revoked' \in [Instances -> [Keys -> 0..Expiration]] /\ hist' \in Hists
    BY <1>4, <2>1, RevokeTypes
  <2>5. inbox' \in [Instances -> Seq(Messages)]
    <3>1. <<"addAuthRevoke", change[c].key>> \in Messages
      BY <1>4 DEF Messages
    <3>2. QED
      BY <2>1, <3>1, EmitTypes
  <2>6. ChangesOK' /\ VersionsCounted'
    <3> HIDE DEF r
    <3>1. QED
      BY <2>2, <2>3, <2>4, <1>7, OneChange DEF Hists, Steps
  <2>7. QED
    BY <1>5, <1>6, <1>8, <2>4, <2>5, <2>6 DEF RevokeTokens, Types, BasicTypes, sessionVars
<1>9. CASE ReadGroups(c)
  <2> DEFINE r == [change[c] EXCEPT !.step = "read", !.read = {groups}]
  <2>1. change' = [change EXCEPT ![c] = r] /\ hist' = hist
    BY <1>1, <1>9 DEF ReadGroups
  <2>2. /\ r \in Records /\ r # Unmade
        /\ r.step = "read" /\ r.kind = "group" /\ (\E j \in Instances : r.at = {j}) /\ r.read = {groups} /\ groups \in Snapshots
    BY <1>1, <1>4, <1>9 DEF ReadGroups, Records, Unmade, Types, BasicTypes
  <2>3. ChangesOK' /\ VersionsCounted'
    <3> HIDE DEF r
    <3>1. QED
      BY <1>1, <2>1, <2>2, <1>7, OneChange DEF Hists, Steps
  <2>4. QED
    BY <1>5, <1>6, <1>9, <2>3 DEF ReadGroups, Types, BasicTypes, sessionVars
<1>10. CASE ReloadGroups(c)
  <2>1. PICK i \in Instances, read \in Snapshots : SetGroups(i, read) /\ Emit(i, <<"reloadGroups", "user">>)
    BY <1>4, <1>10 DEF ReloadGroups
  <2>2. change' = [change EXCEPT ![c] = Finished]
    BY <1>10 DEF ReloadGroups
  <2>3. known' \in [Instances -> Snapshots] /\ hist' \in Hists
    BY <2>1, SetGroupsTypes
  <2>4. inbox' \in [Instances -> Seq(Messages)]
    <3>1. <<"reloadGroups", "user">> \in Messages
      BY Constants DEF Messages
    <3>2. QED
      BY <2>1, <3>1, EmitTypes
  <2>5. ChangesOK' /\ VersionsCounted'
    BY <2>2, <2>3, <1>7, OneChange, Constants DEF Hists
  <2>6. QED
    BY <1>5, <1>6, <1>10, <2>3, <2>4, <2>5 DEF ReloadGroups, Types, BasicTypes, sessionVars
<1>11. QED
  BY <1>8, <1>9, <1>10

(* Notifications, restarts and requests with the token. *)
LEMMA OtherTypes ==
  ASSUME Types, UNCHANGED <<groups, member, active>>, hist' \in Hists,
         change' \in [Changes -> Records],
         \A c \in Changes : change'[c] = change[c] \/ (change[c] # Unmade /\ change'[c] = Finished)
  PROVE  ChangesOK' /\ VersionsCounted' /\ groups' \in Snapshots /\ member' \subseteq {g \in Groups : Exists(g)'} /\ active' \in BOOLEAN
<1>1. VersionsCounted'
  BY Constants, NoMore
<1>2. ChangesOK'
  BY DEF Types, ChangesOK, ChangeOK, Hists
<1>3. QED
  BY <1>1, <1>2 DEF Types, BasicTypes, Exists

LEMMA MessageTypes ==
  ASSUME Types, NEW i \in Instances, NEW event, Arrives(i, event)
  PROVE  inbox' \in [Instances -> Seq(Messages)] /\ Head(inbox[i]) \in Messages /\ Head(inbox[i])[2] \in Keys
<1>1. inbox[i] \in Seq(Messages) /\ inbox[i] # <<>>
  BY DEF Types, BasicTypes, Arrives
<1>2. Head(inbox[i]) \in Messages /\ Tail(inbox[i]) \in Seq(Messages)
  BY <1>1
<1>3. QED
  BY <1>2 DEF Types, BasicTypes, Arrives, Messages

LEMMA InstanceTypes ==
  ASSUME Types, NEW i \in Instances,
         \/ RevokeArrives(i) \/ ReloadArrives(i) \/ MessageMissed(i) \/ Loaded(i) \/ Restart(i) \/ Revalidate(i) \/ Sign(i)
  PROVE  Types'
<1>1. UNCHANGED <<groups, member, active>>
  BY DEF RevokeArrives, ReloadArrives, MessageMissed, Loaded, Restart, Revalidate, Sign, dbVars
<1>2. change \in [Changes -> Records] /\ hist \in Hists /\ hist.token \in SUBSET Instances /\ hist.groups \in SUBSET Instances
  BY DEF Types, ChangesOK, Hists
<1>3. ASSUME hist' \in Hists, change' = change
      PROVE  ChangesOK' /\ VersionsCounted' /\ member' \subseteq {g \in Groups : Exists(g)'}
  BY <1>1, <1>2, <1>3, OtherTypes
<1>4. CASE RevokeArrives(i)
  <2>1. inbox' \in [Instances -> Seq(Messages)] /\ Head(inbox[i])[2] \in Keys
    BY <1>4, MessageTypes DEF RevokeArrives
  <2>2. revoked' \in [Instances -> [Keys -> 0..Expiration]] /\ hist' \in Hists
    BY <1>4, <2>1, RevokeTypes DEF RevokeArrives
  <2>3. ChangesOK' /\ VersionsCounted' /\ member' \subseteq {g \in Groups : Exists(g)'}
    BY <1>3, <1>4, <2>2 DEF RevokeArrives
  <2>4. QED
    BY <1>1, <1>4, <2>1, <2>2, <2>3 DEF RevokeArrives, Types, BasicTypes, sessionVars
<1>5. CASE ReloadArrives(i)
  <2>1. inbox' \in [Instances -> Seq(Messages)]
    BY <1>5, MessageTypes DEF ReloadArrives
  <2>2. ChangesOK' /\ VersionsCounted' /\ member' \subseteq {g \in Groups : Exists(g)'}
    BY <1>2, <1>3, <1>5 DEF ReloadArrives
  <2>3. loading' \in [Instances -> SUBSET Snapshots]
    BY <1>5 DEF ReloadArrives, Types, BasicTypes
  <2>4. QED
    BY <1>1, <1>5, <2>1, <2>2, <2>3 DEF ReloadArrives, Types, BasicTypes, sessionVars
<1>6. CASE MessageMissed(i)
  <2>1. inbox' \in [Instances -> Seq(Messages)]
    BY <1>6, MessageTypes DEF MessageMissed
  <2>2. hist' \in Hists
    <3>1. hist' \in {[hist EXCEPT !.groups = hist.groups \cup {i}], [hist EXCEPT !.token = hist.token \cup {i}]}
      BY <1>2, <1>6 DEF MessageMissed, Hists
    <3>2. QED
      BY <1>2, <3>1, HistTypes
  <2>3. ChangesOK' /\ VersionsCounted' /\ member' \subseteq {g \in Groups : Exists(g)'}
    BY <1>3, <1>6, <2>2 DEF MessageMissed
  <2>4. mishaps' \in 0..MaxMishaps
    BY <1>6, AccessAssumption DEF MessageMissed, Mishap, Types, BasicTypes
  <2>5. QED
    BY <1>1, <1>6, <2>1, <2>3, <2>4 DEF MessageMissed, Types, BasicTypes, sessionVars
<1>7. CASE Loaded(i)
  <2>1. PICK read \in Snapshots : SetGroups(i, read) /\ loading' = [loading EXCEPT ![i] = @ \ {read}]
    BY <1>7 DEF Loaded, Types, BasicTypes
  <2>2. known' \in [Instances -> Snapshots] /\ hist' \in Hists
    BY <2>1, SetGroupsTypes
  <2>3. ChangesOK' /\ VersionsCounted' /\ member' \subseteq {g \in Groups : Exists(g)'}
    BY <1>3, <1>7, <2>2 DEF Loaded
  <2>4. loading' \in [Instances -> SUBSET Snapshots]
    BY <2>1 DEF Types, BasicTypes
  <2>5. QED
    BY <1>1, <1>7, <2>2, <2>3, <2>4 DEF Loaded, Types, BasicTypes, sessionVars
<1>8. CASE Restart(i)
  <2> DEFINE died == {c \in Changes : i \in change[c].at}
             untold == IF died = {} THEN {} ELSE Instances \ {i}
  <2>1. /\ Mishap /\ started' = [started EXCEPT ![i] = "now"]
        /\ known' = [known EXCEPT ![i] = groups] /\ loading' = [loading EXCEPT ![i] = {}]
        /\ revoked' = [revoked EXCEPT ![i] = [k \in Keys |-> 0]]
        /\ inbox' = [inbox EXCEPT ![i] = <<>>] /\ signing' = [signing EXCEPT ![i] = {}]
        /\ change' = [c \in Changes |-> IF c \in died THEN Finished ELSE change[c]]
        /\ hist' = [token |-> hist.token \cup untold, groups |-> (hist.groups \ {i}) \cup untold]
        /\ UNCHANGED <<token, age>>
    BY <1>8 DEF Restart
  <2>2. hist' \in Hists
    BY <1>2, <2>1 DEF Hists
  <2>3. change' \in [Changes -> Records]
    BY <1>2, <2>1, Constants
  <2>4. \A c \in Changes : change'[c] = change[c] \/ (change[c] # Unmade /\ change'[c] = Finished)
    <3>1. \A c \in died : change[c] # Unmade
      BY DEF Unmade
    <3>2. QED
      BY <1>2, <2>1, <3>1
  <2>5. ChangesOK' /\ VersionsCounted' /\ member' \subseteq {g \in Groups : Exists(g)'}
    BY <1>1, <2>2, <2>3, <2>4, OtherTypes
  <2>6. mishaps' \in 0..MaxMishaps
    BY <2>1, AccessAssumption DEF Mishap, Types, BasicTypes
  <2>7. revoked' \in [Instances -> [Keys -> 0..Expiration]] /\ inbox' \in [Instances -> Seq(Messages)]
    BY <2>1, AccessAssumption DEF Types, BasicTypes
  <2>8. QED
    BY <1>1, <2>1, <2>5, <2>6, <2>7 DEF Types, BasicTypes
<1>9. CASE Revalidate(i)
  <2>1. ChangesOK' /\ VersionsCounted' /\ member' \subseteq {g \in Groups : Exists(g)'}
    BY <1>2, <1>3, <1>9 DEF Revalidate
  <2>2. signing' \in [Instances -> SUBSET Tokens]
    BY <1>9, CurrentIsToken DEF Revalidate, Types, BasicTypes
  <2>3. QED
    BY <1>1, <1>9, <2>1, <2>2 DEF Revalidate, Types, BasicTypes
<1>10. CASE Sign(i)
  <2>1. hist' \in Hists
    <3>1. hist' \in {[hist EXCEPT !.token = {}], [hist EXCEPT !.token = Instances]}
      BY <1>2, <1>10 DEF Sign, Hists
    <3>2. QED
      BY <1>2, <3>1, HistTypes
  <2>2. ChangesOK' /\ VersionsCounted' /\ member' \subseteq {g \in Groups : Exists(g)'}
    BY <1>3, <1>10, <2>1 DEF Sign
  <2>3. token' \in Tokens /\ age' \in 0..Expiration /\ signing' \in [Instances -> SUBSET Tokens]
    BY <1>10, AccessAssumption DEF Sign, Types, BasicTypes
  <2>4. /\ revoked' \in [Instances -> [Keys -> 0..Expiration]]
        /\ started' \in [Instances -> {"before", "since", "now"}]
    BY <1>10, AccessAssumption DEF Sign, Types, BasicTypes
  <2>5. QED
    BY <1>1, <1>10, <2>2, <2>3, <2>4 DEF Sign, Types, BasicTypes
<1>11. QED
  BY <1>4, <1>5, <1>6, <1>7, <1>8, <1>9, <1>10

LEMMA TickTypes ==
  ASSUME Types, Tick
  PROVE  Types'
<1>1. hist' \in Hists
  BY HistTypes DEF Tick, Types, ChangesOK, Hists
<1>2. ChangesOK' /\ VersionsCounted' /\ member' \subseteq {g \in Groups : Exists(g)'}
  BY <1>1, OtherTypes DEF Tick, dbVars, Types, ChangesOK
<1>3. age' \in 0..Expiration
  BY AccessAssumption DEF Tick, Types, BasicTypes
<1>4. revoked' \in [Instances -> [Keys -> 0..Expiration]]
  <2>1. \A n \in 0..Expiration : (IF n > 0 /\ age' < Expiration THEN n - 1 ELSE 0) \in 0..Expiration
    BY AccessAssumption
  <2>2. QED
    BY <2>1 DEF Tick, Types, BasicTypes
<1>5. started' \in [Instances -> {"before", "since", "now"}]
  BY DEF Tick, Types, BasicTypes
<1>6. QED
  BY <1>2, <1>3, <1>4, <1>5 DEF Tick, dbVars, Types, BasicTypes

LEMMA NextTypes == Types /\ [Next]_vars => Types'
<1> SUFFICES ASSUME Types, [Next]_vars PROVE Types'
  OBVIOUS
<1>1. CASE UNCHANGED vars
  BY <1>1 DEF vars, dbVars, sessionVars, Types, BasicTypes, ChangesOK, ChangeOK, VersionsCounted, Made, Exists
<1>2. CASE Tick
  BY <1>2, TickTypes
<1>3. ASSUME NEW c \in Changes, NEW g \in Groups, NEW i \in Instances,
             CreateGroup(c, i, g) \/ UpdateGroup(c, i, g) \/ DeleteGroup(c, i, g) \/ AssignUser(c, i, g)
      PROVE  Types'
  BY <1>3, WritingTypes
<1>4. ASSUME NEW c \in Changes, NEW g \in Groups, UpdateUser(c, g)
      PROVE  Types'
  BY <1>4, UpdateUserTypes
<1>5. ASSUME NEW c \in Changes, (\E i \in Instances : DeactivateUser(c, i)) \/ ActivateUser(c)
      PROVE  Types'
  BY <1>5, ActivityTypes
<1>6. ASSUME NEW c \in Changes, RevokeTokens(c) \/ ReadGroups(c) \/ ReloadGroups(c)
      PROVE  Types'
  BY <1>6, ChangingTypes
<1>7. ASSUME NEW i \in Instances,
             \/ RevokeArrives(i) \/ ReloadArrives(i) \/ MessageMissed(i) \/ Loaded(i)
             \/ Restart(i) \/ Revalidate(i) \/ Sign(i)
      PROVE  Types'
  BY <1>7, InstanceTypes
<1>8. QED
  BY <1>1, <1>2, <1>3, <1>4, <1>5, <1>6, <1>7 DEF Next

(* Versions of groups, memberships, tokens, revocation lists, notifications *)
(* and the steps of changes stay what they can be, however many instances   *)
(* change them at once: no group is updated past the version of its         *)
(* deletion, and none that does not exist has members.                      *)
THEOREM TypeCorrect == Spec => []TypeOK
<1>1. Spec => []Types
  BY InitTypes, NextTypes, PTL DEF Spec
<1>2. QED
  BY <1>1, TypesSuffice, PTL

-----------------------------------------------------------------------------
(* Groups *)

LEMMA TailKeeps ==
  ASSUME NEW T, NEW q \in Seq(T), NEW n \in DOMAIN q, q[n] # Head(q)
  PROVE  n - 1 \in DOMAIN Tail(q) /\ Tail(q)[n - 1] = q[n]
<1>1. q # <<>> /\ n \in 1..Len(q) /\ Head(q) = q[1] /\ n # 1
  OBVIOUS
<1>2. Len(Tail(q)) = Len(q) - 1 /\ \A k \in 1..Len(Tail(q)) : Tail(q)[k] = q[k + 1]
  BY <1>1
<1>3. n - 1 \in 1..Len(Tail(q)) /\ n - 1 + 1 = n
  BY <1>1, <1>2
<1>4. DOMAIN Tail(q) = 1..Len(Tail(q))
  BY <1>1
<1>5. QED
  BY <1>2, <1>3, <1>4

LEMMA AppendKeeps ==
  ASSUME NEW T, NEW q \in Seq(T), NEW x \in T
  PROVE  /\ \A n \in DOMAIN q : n \in DOMAIN Append(q, x) /\ Append(q, x)[n] = q[n]
         /\ Len(q) + 1 \in DOMAIN Append(q, x) /\ Append(q, x)[Len(q) + 1] = x
  OBVIOUS

LEMMA GroupsTypes ==
  ASSUME Types
  PROVE  /\ groups \in [Groups -> Nat]
         /\ \A i \in Instances : known[i] \in [Groups -> Nat] /\ inbox[i] \in Seq(Messages)
         /\ \A i \in Instances : \A read \in loading[i] : read \in Snapshots
         /\ \A read \in Snapshots : read \in [Groups -> Nat]
         /\ change \in [Changes -> Records]
         /\ \A c \in Changes : change[c].read \subseteq Snapshots
<1>1. \A read \in Snapshots : read \in [Groups -> Nat]
  BY Constants DEF Snapshots
<1>2. QED
  BY <1>1 DEF Types, BasicTypes, ChangesOK, Records

(* A version that is read again is not older. *)
LEMMA SameAgain ==
  ASSUME Types, NEW i \in Instances, known[i] = groups, NEW read \in Snapshots, UpTo(read), ~Older(read, known[i])
  PROVE  read = groups
<1>1. read \in [Groups -> Nat] /\ groups \in [Groups -> Nat]
  BY GroupsTypes
<1>2. \A g \in Groups : read[g] = groups[g]
  BY <1>1 DEF UpTo, Older
<1>3. QED
  BY <1>1, <1>2

LEMMA InitGroups == Init => GroupsInv
<1> SUFFICES ASSUME Init PROVE GroupsInv
  OBVIOUS
<1>1. Types
  BY InitTypes
<1>2. ReadsAreOld
  BY <1>1, GroupsTypes DEF Init, ReadsAreOld, UpTo, Unmade
<1>3. KnownOrPending
  BY DEF Init, KnownOrPending
<1>4. QED
  BY <1>1, <1>2, <1>3 DEF GroupsInv

(* The database is written: what was read stays old, and whoever changed a  *)
(* group will reload. *)
LEMMA WriteReads ==
  ASSUME GroupsInv, Types', \A g \in Groups : groups[g] <= groups'[g],
         known' = known, loading' = loading,
         \A c \in Changes : change'[c].read \subseteq change[c].read
  PROVE  ReadsAreOld'
<1>1. groups \in [Groups -> Nat] /\ groups' \in [Groups -> Nat]
  BY Constants DEF GroupsInv, Types, BasicTypes, Snapshots
<1>2. ASSUME NEW read \in Snapshots, UpTo(read)
      PROVE  \A g \in Groups : read[g] <= groups'[g]
  <2>1. read \in [Groups -> Nat]
    BY GroupsTypes DEF GroupsInv
  <2>2. QED
    BY <1>1, <1>2, <2>1 DEF UpTo
<1>3. \A i \in Instances : known[i] \in Snapshots /\ loading[i] \subseteq Snapshots
  BY DEF GroupsInv, Types, BasicTypes
<1>4. \A c \in Changes : change[c].read \subseteq Snapshots
  BY GroupsTypes DEF GroupsInv
<1>5. \A i \in Instances : \A read \in {known'[i]} \cup loading'[i] : \A g \in Groups : read[g] <= groups'[g]
  BY <1>2, <1>3 DEF GroupsInv, ReadsAreOld
<1>6. \A c \in Changes : \A read \in change'[c].read : \A g \in Groups : read[g] <= groups'[g]
  BY <1>2, <1>4 DEF GroupsInv, ReadsAreOld
<1>7. QED
  BY <1>5, <1>6 DEF ReadsAreOld, UpTo

(* Nothing that i waits for is lost. *)
LEMMA StillPending ==
  ASSUME GroupsInv, groups' = groups, known' = known, hist.groups \subseteq hist'.groups,
         \A i \in Instances : i \notin hist'.groups =>
           /\ \A c \in Changes : WillReload(c, i) => WillReload(c, i)'
           /\ Told(i, "reloadGroups") => Pending(i)'
           /\ loading[i] \subseteq loading'[i]
  PROVE  KnownOrPending'
<1> SUFFICES ASSUME NEW i \in Instances, i \notin hist'.groups PROVE known'[i] = groups' \/ Pending(i)'
  BY DEF KnownOrPending
<1>1. known[i] = groups \/ Pending(i)
  BY DEF GroupsInv, KnownOrPending
<1>2. QED
  BY <1>1 DEF Pending

LEMMA WritingGroups ==
  ASSUME GroupsInv, NEW c \in Changes, NEW i \in Instances, NEW g \in Groups,
         CreateGroup(c, i, g) \/ UpdateGroup(c, i, g) \/ DeleteGroup(c, i, g)
  PROVE  GroupsInv'
<1>1. Types' /\ \A h \in Groups : groups[h] <= groups'[h]
  BY WritingTypes DEF GroupsInv
<1>2. PICK r \in {Created(c, i, g), Written(c, i, "group", g)} : change' = [change EXCEPT ![c] = r]
  BY DEF CreateGroup, UpdateGroup, DeleteGroup, Writes, Created, Written
<1>3. r.read = {} /\ r.kind = "group" /\ r.step \in {"written", "revoked"}
  BY <1>2, NewChanges, Constants
<1>4. change \in [Changes -> Records]
  BY GroupsTypes DEF GroupsInv
<1>5. ReadsAreOld'
  <2>1. \A d \in Changes : change'[d].read \subseteq change[d].read
    BY <1>2, <1>3, <1>4
  <2>2. known' = known /\ loading' = loading
    BY DEF CreateGroup, UpdateGroup, DeleteGroup, Writes
  <2>3. QED
    BY <1>1, <2>1, <2>2, WriteReads
<1>6. \A j \in Instances : WillReload(c, j)'
  BY <1>2, <1>3, <1>4 DEF WillReload
<1>7. QED
  BY <1>1, <1>5, <1>6 DEF GroupsInv, KnownOrPending, Pending

LEMMA UserGroups ==
  ASSUME GroupsInv, NEW c \in Changes,
         \/ \E g \in Groups : UpdateUser(c, g) \/ \E i \in Instances : AssignUser(c, i, g)
         \/ (\E i \in Instances : DeactivateUser(c, i)) \/ ActivateUser(c)
  PROVE  GroupsInv'
<1>1. Types' /\ \A h \in Groups : groups[h] <= groups'[h]
  BY WritingTypes, UpdateUserTypes, ActivityTypes DEF GroupsInv
<1>2. /\ groups' = groups /\ known' = known /\ loading' = loading /\ inbox' = inbox /\ change[c] = Unmade
      /\ hist'.groups = hist.groups
  BY DEF UpdateUser, AssignUser, DeactivateUser, ActivateUser, Writes, GroupsInv, Types, ChangesOK
<1>3. PICK r \in {Finished} \cup {Written(c, i, "user", "user") : i \in Instances} : change' = [change EXCEPT ![c] = r]
  BY DEF UpdateUser, AssignUser, DeactivateUser, ActivateUser, Writes, Written
<1>4. r.read = {}
  BY <1>3, NewChanges, Constants DEF Finished, Unmade
<1>5. change \in [Changes -> Records]
  BY GroupsTypes DEF GroupsInv
<1>6. ReadsAreOld'
  <2>1. \A d \in Changes : change'[d].read \subseteq change[d].read
    BY <1>3, <1>4, <1>5
  <2>2. QED
    BY <1>1, <1>2, <2>1, WriteReads
<1>7. \A d \in Changes, i \in Instances : WillReload(d, i) => WillReload(d, i)'
  <2>1. \A i \in Instances : ~WillReload(c, i)
    BY <1>2 DEF WillReload, Unmade
  <2>2. \A d \in Changes : d # c => change'[d] = change[d]
    BY <1>3, <1>5
  <2>3. QED
    BY <1>2, <2>1, <2>2 DEF WillReload
<1>8. \A i \in Instances : Told(i, "reloadGroups") => Pending(i)'
  BY <1>2 DEF Told, Pending
<1>9. KnownOrPending'
  BY <1>2, <1>7, <1>8, StillPending
<1>10. QED
  BY <1>1, <1>6, <1>9 DEF GroupsInv

(* Instances assign what they have read. *)
LEMMA ReadsStayOld ==
  ASSUME GroupsInv, groups' = groups,
         \A i \in Instances : UpTo(known'[i]),
         \A i \in Instances : \A read \in loading'[i] : UpTo(read),
         \A c \in Changes : \A read \in change'[c].read : UpTo(read)
  PROVE  ReadsAreOld'
  BY DEF ReadsAreOld, UpTo

LEMMA ToldMore ==
  ASSUME Types, NEW i \in Instances, NEW message \in Messages, Emit(i, message), NEW j \in Instances
  PROVE  /\ \A n \in DOMAIN inbox[j] : n \in DOMAIN inbox'[j] /\ inbox'[j][n] = inbox[j][n]
         /\ j # i => \E n \in DOMAIN inbox'[j] : inbox'[j][n] = message
<1>1. inbox[j] \in Seq(Messages)
  BY GroupsTypes
<1>2. inbox'[j] = IF j = i THEN inbox[j] ELSE Append(inbox[j], message)
  BY DEF Emit
<1>3. QED
  BY <1>1, <1>2, AppendKeeps

LEMMA ToldLess ==
  ASSUME Types, NEW i \in Instances, NEW event, Arrives(i, event), NEW j \in Instances,
         NEW n \in DOMAIN inbox[j], inbox[j][n][1] # event \/ j # i
  PROVE  \E k \in DOMAIN inbox'[j] : inbox'[j][k] = inbox[j][n]
<1>1. inbox[j] \in Seq(Messages) /\ inbox \in [Instances -> Seq(Messages)]
  BY DEF Types, BasicTypes
<1>2. CASE j = i
  <2>1. inbox'[j] = Tail(inbox[j]) /\ inbox[j][n] # Head(inbox[j])
    BY <1>1, <1>2 DEF Arrives
  <2>2. QED
    BY <1>1, <2>1, TailKeeps
<1>3. CASE j # i
  BY <1>1, <1>3 DEF Arrives
<1>4. QED
  BY <1>2, <1>3

(* known[i] becomes what was read, and is that of now unless another reload *)
(* is due. *)
LEMMA AssignedGroups ==
  ASSUME GroupsInv, groups' = groups, NEW i \in Instances, NEW read \in Snapshots, UpTo(read), SetGroups(i, read),
         \A j \in Instances : j # i \/ read # groups =>
           /\ \A c \in Changes : WillReload(c, j) => Pending(j)'
           /\ Told(j, "reloadGroups") => Pending(j)'
           /\ groups \in loading[j] => groups \in loading'[j]
  PROVE  /\ \A j \in Instances : UpTo(known'[j])
         /\ KnownOrPending'
<1>1. known \in [Instances -> Snapshots] /\ hist \in Hists
  BY DEF GroupsInv, Types, BasicTypes, ChangesOK, Hists
<1>2. /\ known'[i] = read /\ \A j \in Instances : j # i => known'[j] = known[j]
      /\ hist'.groups = IF Older(read, known[i]) THEN hist.groups \cup {i} ELSE hist.groups
  BY <1>1 DEF SetGroups, Hists
<1>3. \A j \in Instances : UpTo(known'[j])
  BY <1>2 DEF GroupsInv, ReadsAreOld
<1>4. ASSUME NEW j \in Instances, j \notin hist'.groups
      PROVE  known'[j] = groups' \/ Pending(j)'
  <2>1. known[j] = groups \/ Pending(j)
    BY <1>2, <1>4 DEF GroupsInv, KnownOrPending
  <2>2. CASE j # i
    BY <1>2, <2>1, <2>2 DEF Pending
  <2>3. CASE j = i /\ known[i] = groups
    <3>1. read = groups
      BY <1>2, <1>4, <2>3, SameAgain DEF GroupsInv
    <3>2. QED
      BY <1>2, <2>3, <3>1
  <2>4. CASE j = i /\ Pending(i)
    <3>1. CASE read = groups
      BY <1>2, <2>4, <3>1
    <3>2. CASE read # groups
      BY <2>4, <3>2 DEF Pending
    <3>3. QED
      BY <3>1, <3>2
  <2>5. QED
    BY <2>1, <2>2, <2>3, <2>4
<1>5. QED
  BY <1>3, <1>4 DEF KnownOrPending

LEMMA ChangingGroups ==
  ASSUME GroupsInv, NEW c \in Changes, RevokeTokens(c) \/ ReadGroups(c) \/ ReloadGroups(c)
  PROVE  GroupsInv'
<1>1. Types /\ Types'
  BY ChangingTypes DEF GroupsInv
<1>2. groups' = groups /\ groups \in [Groups -> Nat]
  BY <1>1, GroupsTypes DEF RevokeTokens, ReadGroups, ReloadGroups, dbVars
<1>3. change \in [Changes -> Records] /\ hist \in Hists /\ change[c].read \subseteq Snapshots /\ change[c].key \in Keys
  BY <1>1 DEF Types, ChangesOK, Hists, Records
<1>4. change[c].step \in Steps
  BY DEF RevokeTokens, ReadGroups, ReloadGroups, Steps
<1>5. /\ change[c].kind \in {"user", "group"} /\ (change[c].kind = "user" => change[c].step = "written")
      /\ \E i \in Instances : change[c].at = {i}
  BY <1>1, <1>4 DEF Types, ChangesOK, ChangeOK, Unmade, Finished, Steps
<1>6. /\ \A i \in Instances : UpTo(known[i]) /\ \A read \in loading[i] : UpTo(read)
      /\ \A d \in Changes : \A read \in change[d].read : UpTo(read)
  BY DEF GroupsInv, ReadsAreOld
<1>7. UpTo(groups)
  BY <1>2 DEF UpTo
<1>8. CASE RevokeTokens(c)
  <2>1. PICK i \in Instances : Revoke(i, change[c].key) /\ Emit(i, <<"addAuthRevoke", change[c].key>>)
    BY <1>5, <1>8 DEF RevokeTokens
  <2>2. /\ known' = known /\ loading' = loading /\ hist'.groups = hist.groups
        /\ change' = [change EXCEPT ![c] = IF change[c].kind = "group" THEN [change[c] EXCEPT !.step = "revoked"] ELSE Finished]
    BY <1>3, <1>8, <2>1 DEF RevokeTokens, Revoke, Hists
  <2>3. /\ change[c].kind = "group" => change'[c] = [change[c] EXCEPT !.step = "revoked"]
        /\ change[c].kind # "group" => change'[c] = Finished
        /\ \A d \in Changes : d # c => change'[d] = change[d]
    BY <1>3, <2>2
  <2>4. \A d \in Changes : change'[d].read \subseteq change[d].read
    BY <1>3, <2>3 DEF Finished, Unmade, Records
  <2>5. ReadsAreOld'
    BY <1>2, <1>6, <2>2, <2>4, ReadsStayOld
  <2>6. \A d \in Changes, j \in Instances : WillReload(d, j) => WillReload(d, j)'
    <3>1. \A j \in Instances : WillReload(c, j) => WillReload(c, j)'
      BY <1>3, <1>8, <2>3 DEF WillReload, RevokeTokens, Records
    <3>2. \A d \in Changes, j \in Instances : d # c => (WillReload(d, j) => WillReload(d, j)')
      BY <1>2, <2>3 DEF WillReload
    <3>3. QED
      BY <3>1, <3>2
  <2>7. \A j \in Instances : Told(j, "reloadGroups") => Told(j, "reloadGroups")'
    <3>1. <<"addAuthRevoke", change[c].key>> \in Messages
      BY <1>3 DEF Messages
    <3>2. QED
      BY <1>1, <2>1, <3>1, ToldMore DEF Told
  <2>8. KnownOrPending'
    BY <1>2, <2>2, <2>6, <2>7, StillPending DEF Pending
  <2>9. QED
    BY <1>1, <2>5, <2>8 DEF GroupsInv
<1>9. CASE ReadGroups(c)
  <2>1. /\ known' = known /\ loading' = loading /\ hist' = hist /\ inbox' = inbox
        /\ change'[c] = [change[c] EXCEPT !.step = "read", !.read = {groups}]
        /\ \A d \in Changes : d # c => change'[d] = change[d]
    BY <1>3, <1>9 DEF ReadGroups
  <2>2. change'[c].read = {groups} /\ change'[c].step = "read" /\ change'[c].kind = change[c].kind /\ change[c].kind = "group"
    BY <1>3, <1>5, <1>9, <2>1 DEF Records, ReadGroups
  <2>3. ReadsAreOld'
    BY <1>2, <1>6, <1>7, <2>1, <2>2, ReadsStayOld
  <2>4. \A d \in Changes, j \in Instances : WillReload(d, j) => WillReload(d, j)'
    BY <1>2, <2>1, <2>2 DEF WillReload
  <2>5. \A j \in Instances : Told(j, "reloadGroups") => Told(j, "reloadGroups")'
    BY <2>1 DEF Told
  <2>6. KnownOrPending'
    BY <1>2, <2>1, <2>4, <2>5, StillPending DEF Pending
  <2>7. QED
    BY <1>1, <2>3, <2>6 DEF GroupsInv
<1>10. CASE ReloadGroups(c)
  <2>1. PICK i \in Instances : change[c].at = {i}
    BY <1>5
  <2>2. PICK read \in change[c].read :
          /\ SetGroups(i, read) /\ Emit(i, <<"reloadGroups", "user">>) /\ change[c].step = "read"
    BY <1>10, <2>1 DEF ReloadGroups
  <2>3. read \in Snapshots /\ UpTo(read)
    BY <1>3, <1>6
  <2>4. /\ loading' = loading /\ change'[c] = Finished /\ change[c].step = "read"
        /\ \A d \in Changes : d # c => change'[d] = change[d]
    BY <1>3, <1>10 DEF ReloadGroups
  <2>5. <<"reloadGroups", "user">> \in Messages
    BY Constants DEF Messages
  <2>6. \A j \in Instances : Told(j, "reloadGroups") \/ j # i => Told(j, "reloadGroups")'
    <3>1. ASSUME NEW j \in Instances, Told(j, "reloadGroups")
          PROVE  Told(j, "reloadGroups")'
      BY <1>1, <2>2, <2>5, <3>1, ToldMore DEF Told
    <3>2. ASSUME NEW j \in Instances, j # i
          PROVE  Told(j, "reloadGroups")'
      <4>1. PICK n \in DOMAIN inbox'[j] : inbox'[j][n] = <<"reloadGroups", "user">>
        BY <1>1, <2>2, <2>5, <3>2, ToldMore
      <4>2. QED
        BY <4>1 DEF Told
    <3>3. QED
      BY <3>1, <3>2
  <2>7. \A d \in Changes, j \in Instances : d # c => (WillReload(d, j) => WillReload(d, j)')
    BY <1>2, <2>4 DEF WillReload
  <2>8. ASSUME NEW j \in Instances, j # i \/ read # groups
        PROVE  /\ \A d \in Changes : WillReload(d, j) => Pending(j)'
               /\ Told(j, "reloadGroups") => Pending(j)'
               /\ groups \in loading[j] => groups \in loading'[j]
    <3>1. CASE j # i
      BY <2>4, <2>6, <3>1 DEF Pending
    <3>2. CASE j = i /\ read # groups
      <4>1. change[c].read = {read}
        BY <2>2, <1>1 DEF Types, ChangesOK, ChangeOK, Unmade, Finished
      <4>2. ~WillReload(c, i)
        BY <2>1, <2>4, <3>2, <4>1 DEF WillReload
      <4>3. QED
        BY <2>4, <2>6, <2>7, <3>2, <4>2 DEF Pending
    <3>3. QED
      BY <2>8, <3>1, <3>2
  <2>9. (\A j \in Instances : UpTo(known'[j])) /\ KnownOrPending'
    BY <1>2, <2>2, <2>3, <2>8, AssignedGroups
  <2>10. ReadsAreOld'
    <3>1. \A d \in Changes : change'[d].read \subseteq change[d].read
      BY <2>4 DEF Finished, Unmade
    <3>2. QED
      BY <1>2, <1>6, <2>4, <2>9, <3>1, ReadsStayOld
  <2>11. QED
    BY <1>1, <2>9, <2>10 DEF GroupsInv
<1>11. QED
  BY <1>8, <1>9, <1>10

(* Notifications arrive, or do not.  A reload that arrives reads the groups *)
(* of now. *)
LEMMA MessageGroups ==
  ASSUME GroupsInv, NEW i \in Instances, RevokeArrives(i) \/ ReloadArrives(i) \/ MessageMissed(i)
  PROVE  GroupsInv'
<1>1. Types /\ Types'
  BY InstanceTypes DEF GroupsInv
<1>2. /\ groups' = groups /\ change' = change /\ known' = known /\ hist \in Hists
      /\ groups \in [Groups -> Nat] /\ loading \in [Instances -> SUBSET Snapshots]
  BY <1>1, GroupsTypes DEF RevokeArrives, ReloadArrives, MessageMissed, dbVars, Types, BasicTypes, ChangesOK, Hists
<1>3. \A j \in Instances : loading'[j] = loading[j] \/ (j = i /\ ReloadArrives(i) /\ loading'[j] = loading[j] \cup {groups})
  BY <1>2 DEF RevokeArrives, ReloadArrives, MessageMissed
<1>4. PICK event \in {"addAuthRevoke", "reloadGroups"} :
        /\ Arrives(i, event)
        /\ \/ event = "addAuthRevoke" /\ hist'.groups = hist.groups
           \/ event = "reloadGroups" /\ hist'.groups = hist.groups \cup {i}
           \/ ReloadArrives(i) /\ hist' = hist
  BY <1>2 DEF RevokeArrives, ReloadArrives, MessageMissed, Revoke, Hists
<1>5. ReadsAreOld'
  <2>1. UpTo(groups)
    BY <1>2 DEF UpTo
  <2>2. /\ \A j \in Instances : UpTo(known[j]) /\ \A read \in loading[j] : UpTo(read)
        /\ \A c \in Changes : \A read \in change[c].read : UpTo(read)
    BY DEF GroupsInv, ReadsAreOld
  <2>3. \A j \in Instances : \A read \in loading'[j] : UpTo(read)
    BY <1>3, <2>1, <2>2
  <2>4. QED
    BY <1>2, <2>2, <2>3, ReadsStayOld
<1>6. ASSUME NEW j \in Instances, j \notin hist'.groups, Told(j, "reloadGroups")
      PROVE  Pending(j)'
  <2>1. PICK n \in DOMAIN inbox[j] : inbox[j][n][1] = "reloadGroups"
    BY <1>6 DEF Told
  <2>2. CASE j # i \/ event # "reloadGroups"
    <3>1. \E k \in DOMAIN inbox'[j] : inbox'[j][k] = inbox[j][n]
      BY <1>1, <1>4, <2>1, <2>2, ToldLess
    <3>2. QED
      BY <2>1, <3>1 DEF Pending, Told
  <2>3. CASE j = i /\ event = "reloadGroups"
    <3>1. ReloadArrives(i)
      BY <1>4, <1>6, <2>3
    <3>2. groups \in loading'[i]
      BY <1>2, <3>1 DEF ReloadArrives
    <3>3. QED
      BY <1>2, <2>3, <3>2 DEF Pending
  <2>4. QED
    BY <2>2, <2>3
<1>7. KnownOrPending'
  <2>1. \A c \in Changes, j \in Instances : WillReload(c, j) => WillReload(c, j)'
    BY <1>2 DEF WillReload
  <2>2. hist.groups \subseteq hist'.groups
    BY <1>4
  <2>3. \A j \in Instances : loading[j] \subseteq loading'[j]
    BY <1>3
  <2>4. QED
    BY <1>2, <1>6, <2>1, <2>2, <2>3, StillPending
<1>8. QED
  BY <1>1, <1>5, <1>7 DEF GroupsInv

LEMMA LoadedGroups ==
  ASSUME GroupsInv, NEW i \in Instances, Loaded(i)
  PROVE  GroupsInv'
<1>1. Types /\ Types'
  BY InstanceTypes DEF GroupsInv
<1>2. PICK read \in loading[i] : SetGroups(i, read) /\ loading' = [loading EXCEPT ![i] = @ \ {read}]
  BY DEF Loaded
<1>3. groups' = groups /\ change' = change /\ inbox' = inbox /\ loading \in [Instances -> SUBSET Snapshots]
  BY <1>1 DEF Loaded, dbVars, Types, BasicTypes
<1>4. read \in Snapshots /\ UpTo(read)
  BY <1>2, <1>3 DEF GroupsInv, ReadsAreOld
<1>5. \A j \in Instances : loading'[j] \subseteq loading[j] /\ (j # i \/ read # groups => (groups \in loading[j] => groups \in loading'[j]))
  BY <1>2, <1>3
<1>6. ASSUME NEW j \in Instances, j # i \/ read # groups
      PROVE  /\ \A c \in Changes : WillReload(c, j) => Pending(j)'
             /\ Told(j, "reloadGroups") => Pending(j)'
             /\ groups \in loading[j] => groups \in loading'[j]
  <2>1. \A c \in Changes : WillReload(c, j) => WillReload(c, j)'
    BY <1>3 DEF WillReload
  <2>2. Told(j, "reloadGroups") => Told(j, "reloadGroups")'
    BY <1>3 DEF Told
  <2>3. QED
    BY <1>5, <1>6, <2>1, <2>2 DEF Pending
<1>7. (\A j \in Instances : UpTo(known'[j])) /\ KnownOrPending'
  BY <1>2, <1>3, <1>4, <1>6, AssignedGroups
<1>8. ReadsAreOld'
  <2>1. /\ \A j \in Instances : \A r \in loading'[j] : UpTo(r)
        /\ \A c \in Changes : \A r \in change'[c].read : UpTo(r)
    BY <1>3, <1>5 DEF GroupsInv, ReadsAreOld
  <2>2. QED
    BY <1>3, <1>7, <2>1, ReadsStayOld
<1>9. QED
  BY <1>1, <1>7, <1>8 DEF GroupsInv

(* An instance that starts has the groups of now; what it had not announced *)
(* the others may not get to know. *)
LEMMA RestartGroups ==
  ASSUME GroupsInv, NEW i \in Instances, Restart(i)
  PROVE  GroupsInv'
<1> DEFINE died == {c \in Changes : i \in change[c].at}
<1>1. Types /\ Types'
  BY InstanceTypes DEF GroupsInv
<1>2. /\ groups' = groups /\ known' = [known EXCEPT ![i] = groups] /\ loading' = [loading EXCEPT ![i] = {}]
      /\ inbox' = [inbox EXCEPT ![i] = <<>>]
      /\ change' = [c \in Changes |-> IF c \in died THEN Finished ELSE change[c]]
      /\ hist'.groups = (hist.groups \ {i}) \cup (IF died = {} THEN {} ELSE Instances \ {i})
  BY DEF Restart, dbVars
<1>3. /\ groups \in [Groups -> Nat] /\ known \in [Instances -> Snapshots] /\ loading \in [Instances -> SUBSET Snapshots]
      /\ inbox \in [Instances -> Seq(Messages)]
  BY <1>1, GroupsTypes DEF Types, BasicTypes
<1>4. known'[i] = groups /\ \A j \in Instances : j # i => known'[j] = known[j] /\ loading'[j] = loading[j] /\ inbox'[j] = inbox[j]
  BY <1>2, <1>3
<1>5. ReadsAreOld'
  <2>1. UpTo(groups)
    BY <1>3 DEF UpTo
  <2>2. /\ \A j \in Instances : UpTo(known[j]) /\ \A read \in loading[j] : UpTo(read)
        /\ \A c \in Changes : \A read \in change[c].read : UpTo(read)
    BY DEF GroupsInv, ReadsAreOld
  <2>3. \A j \in Instances : loading'[j] \subseteq loading[j]
    BY <1>2, <1>3
  <2>4. \A c \in Changes : change'[c].read \subseteq change[c].read
    BY <1>2 DEF Finished, Unmade
  <2>5. \A j \in Instances : UpTo(known'[j])
    BY <1>4, <2>1, <2>2
  <2>6. QED
    BY <1>2, <2>2, <2>3, <2>4, <2>5, ReadsStayOld
<1>6. ASSUME NEW j \in Instances, j \notin hist'.groups
      PROVE  known'[j] = groups' \/ Pending(j)'
  <2>1. CASE j = i
    BY <1>2, <1>4, <2>1
  <2>2. CASE j # i
    <3>1. died = {} /\ j \notin hist.groups
      BY <1>2, <1>6, <2>2
    <3>2. \A c \in Changes : change'[c] = change[c]
      BY <1>2, <3>1
    <3>3. \A c \in Changes : WillReload(c, j) => WillReload(c, j)'
      BY <1>2, <3>2 DEF WillReload
    <3>4. Told(j, "reloadGroups") => Told(j, "reloadGroups")'
      BY <1>4, <2>2 DEF Told
    <3>5. known[j] = groups \/ Pending(j)
      BY <3>1 DEF GroupsInv, KnownOrPending
    <3>6. QED
      BY <1>2, <1>4, <2>2, <3>3, <3>4, <3>5 DEF Pending
  <2>3. QED
    BY <2>1, <2>2
<1>7. KnownOrPending'
  BY <1>6 DEF KnownOrPending
<1>8. QED
  BY <1>1, <1>5, <1>7 DEF GroupsInv

(* Steps of the token and of time do not touch groups. *)
LEMMA TokenGroups ==
  ASSUME GroupsInv, Types', hist'.groups = hist.groups, UNCHANGED <<groups, known, loading, inbox, change>>
  PROVE  GroupsInv'
<1>1. ReadsAreOld'
  BY DEF GroupsInv, ReadsAreOld, UpTo
<1>2. KnownOrPending'
  BY DEF GroupsInv, KnownOrPending, Pending, WillReload, Told
<1>3. QED
  BY <1>1, <1>2 DEF GroupsInv

LEMMA NextGroups == GroupsInv /\ [Next]_vars => GroupsInv'
<1> SUFFICES ASSUME GroupsInv, [Next]_vars PROVE GroupsInv'
  OBVIOUS
<1>1. Types' /\ hist \in Hists
  BY NextTypes DEF GroupsInv, Types, ChangesOK, Hists
<1>2. CASE UNCHANGED vars
  BY <1>1, <1>2, TokenGroups DEF vars
<1>3. CASE Tick
  BY <1>1, <1>3, TokenGroups DEF Tick, dbVars, Hists
<1>4. ASSUME NEW c \in Changes, NEW g \in Groups, NEW i \in Instances,
             CreateGroup(c, i, g) \/ UpdateGroup(c, i, g) \/ DeleteGroup(c, i, g)
      PROVE  GroupsInv'
  BY <1>4, WritingGroups
<1>5. ASSUME NEW c \in Changes,
             \/ \E g \in Groups : UpdateUser(c, g) \/ \E i \in Instances : AssignUser(c, i, g)
             \/ (\E i \in Instances : DeactivateUser(c, i)) \/ ActivateUser(c)
      PROVE  GroupsInv'
  BY <1>5, UserGroups
<1>6. ASSUME NEW c \in Changes, RevokeTokens(c) \/ ReadGroups(c) \/ ReloadGroups(c)
      PROVE  GroupsInv'
  BY <1>6, ChangingGroups
<1>7. ASSUME NEW i \in Instances, RevokeArrives(i) \/ ReloadArrives(i) \/ MessageMissed(i)
      PROVE  GroupsInv'
  BY <1>7, MessageGroups
<1>8. ASSUME NEW i \in Instances, Revalidate(i) \/ Sign(i)
      PROVE  GroupsInv'
  BY <1>1, <1>8, TokenGroups DEF Revalidate, Sign, dbVars, Hists
<1>9. QED
  BY <1>2, <1>3, <1>4, <1>5, <1>6, <1>7, <1>8, LoadedGroups, RestartGroups DEF Next

(* Whatever order changes, reloads and notifications of any number of       *)
(* instances come in: when they are dealt with, every instance has the      *)
(* groups of the database, but for the cases that GroupsCurrent names       *)
(* (auth.js:434-438).                                                       *)
THEOREM GroupsAreCurrent == Spec => []GroupsCurrent
<1>1. GroupsInv => GroupsCurrent
  <2> SUFFICES ASSUME GroupsInv, \A c \in Changes : change[c].at = {}, NEW i \in Instances,
                      inbox[i] = <<>>, loading[i] = {}, i \notin hist.groups
               PROVE  known[i] = groups
    BY DEF GroupsCurrent
  <2>1. \A c \in Changes : change[c] \in {Unmade, Finished}
    BY DEF GroupsInv, Types, ChangesOK, ChangeOK
  <2>2. \A c \in Changes : ~WillReload(c, i)
    BY <2>1 DEF WillReload, Unmade, Finished
  <2>3. QED
    BY <2>2 DEF GroupsInv, KnownOrPending, Pending, Told
<1>2. Spec => []GroupsInv
  BY InitGroups, NextGroups, PTL DEF Spec
<1>3. QED
  BY <1>1, <1>2, PTL

-----------------------------------------------------------------------------
(* Tokens *)

LEMMA SessionTypes ==
  ASSUME Types
  PROVE  /\ revoked \in [Instances -> [Keys -> 0..Expiration]] /\ age \in 0..Expiration
         /\ change \in [Changes -> Records] /\ hist \in Hists /\ Caught \subseteq Keys
         /\ \A i \in Instances : inbox[i] \in Seq(Messages)
<1>1. DOMAIN token \subseteq Groups
  BY DEF Types, BasicTypes, Tokens
<1>2. QED
  BY <1>1 DEF Types, BasicTypes, ChangesOK, Hists, Caught, Keys

LEMMA InitSession == Init => SessionInv
<1> SUFFICES ASSUME Init PROVE SessionInv
  OBVIOUS
<1>1. Types
  BY InitTypes
<1>2. EntriesLast /\ TokenOrOutstanding
  BY DEF Init, EntriesLast, TokenOrOutstanding
<1>3. QED
  BY <1>1, <1>2 DEF SessionInv

(* Steps that leave the token and the revocation lists alone *)
LEMMA SameSession ==
  ASSUME SessionInv, Types', UNCHANGED <<token, age, revoked, started>>, hist.token \subseteq hist'.token,
         \A i \in Instances : i \notin hist'.token =>
           /\ active /\ token = Current => (active' /\ token = Current') \/ Outstanding(i)'
           /\ Outstanding(i) => Outstanding(i)'
  PROVE  SessionInv'
<1>1. EntriesLast'
  BY DEF SessionInv, EntriesLast
<1>2. \A i \in Instances : MustRevalidate(i) => MustRevalidate(i)'
  BY DEF MustRevalidate
<1>3. TokenOrOutstanding'
  BY <1>2 DEF SessionInv, TokenOrOutstanding
<1>4. QED
  BY <1>1, <1>3 DEF SessionInv

(* A change of what the token holds is announced. *)
LEMMA WritingSession ==
  ASSUME SessionInv, NEW c \in Changes, NEW i \in Instances, NEW g \in Groups,
         CreateGroup(c, i, g) \/ UpdateGroup(c, i, g) \/ DeleteGroup(c, i, g) \/ AssignUser(c, i, g)
  PROVE  SessionInv'
<1>1. Types /\ Types'
  BY WritingTypes DEF SessionInv
<1>2. UNCHANGED <<token, age, revoked, started, hist, inbox>> /\ change[c] = Unmade
  BY DEF CreateGroup, UpdateGroup, DeleteGroup, AssignUser, Writes, sessionVars
<1>3. change \in [Changes -> Records] /\ groups \in Snapshots /\ member \subseteq {h \in Groups : Exists(h)}
  BY <1>1 DEF Types, BasicTypes, ChangesOK
<1>4. \A d \in Changes : d # c => change'[d] = change[d]
  BY <1>3 DEF CreateGroup, UpdateGroup, DeleteGroup, AssignUser, Writes
<1>5. \A j \in Instances : Outstanding(j) => Outstanding(j)'
  BY <1>2, <1>4 DEF Outstanding, Caught, Unmade
<1>6. active /\ token = Current => (active' /\ token = Current') \/ \A j \in Instances : Outstanding(j)'
  <2>1. CASE CreateGroup(c, i, g)
    <3>1. g \notin member /\ member' = member /\ active' = active
      BY <1>3, <2>1 DEF CreateGroup, Exists
    <3>2. \A h \in member : groups'[h] = groups[h]
      BY <1>3, <2>1, <3>1 DEF CreateGroup, Snapshots
    <3>3. QED
      BY <3>1, <3>2 DEF Current
  <2>2. CASE UpdateGroup(c, i, g) \/ DeleteGroup(c, i, g)
    <3>1. change'[c].step = "written" /\ change'[c].key = g /\ active' = active
      BY <1>3, <2>2 DEF UpdateGroup, DeleteGroup, Writes, Unmade
    <3>2. \A h \in Groups : h # g => groups'[h] = groups[h] /\ (h \in member' <=> h \in member)
      BY <1>3, <2>2 DEF UpdateGroup, DeleteGroup, Writes, Snapshots
    <3>3. member' \subseteq member
      BY <2>2 DEF UpdateGroup, DeleteGroup
    <3>4. CASE g \in member
      <4>1. token = Current => g \in Caught
        BY <3>4 DEF Current, Caught
      <4>2. QED
        BY <1>2, <3>1, <4>1 DEF Outstanding, Caught
    <3>5. CASE g \notin member
      <4>1. member' = member
        BY <1>3, <3>2, <3>3, <3>5
      <4>2. \A h \in member : groups'[h] = groups[h]
        BY <1>3, <3>2, <3>5
      <4>3. QED
        BY <3>1, <4>1, <4>2 DEF Current
    <3>6. QED
      BY <3>4, <3>5
  <2>3. CASE AssignUser(c, i, g)
    <3>1. change'[c].step = "written" /\ change'[c].key = "user"
      BY <1>3, <2>3 DEF AssignUser, Writes, Unmade
    <3>2. QED
      BY <3>1 DEF Outstanding, Caught
  <2>4. QED
    BY <2>1, <2>2, <2>3
<1>7. QED
  BY <1>1, <1>2, <1>5, <1>6, SameSession

LEMMA UserSession ==
  ASSUME SessionInv, NEW c \in Changes,
         (\E g \in Groups : UpdateUser(c, g)) \/ (\E i \in Instances : DeactivateUser(c, i)) \/ ActivateUser(c)
  PROVE  SessionInv'
<1>1. Types /\ Types'
  BY UpdateUserTypes, ActivityTypes DEF SessionInv
<1>2. UNCHANGED <<token, age, revoked, started, inbox>> /\ change[c] = Unmade
  BY DEF UpdateUser, DeactivateUser, ActivateUser, Writes, sessionVars
<1>3. change \in [Changes -> Records] /\ hist \in Hists
  BY <1>1, SessionTypes
<1>4. \A d \in Changes : d # c => change'[d] = change[d]
  BY <1>3 DEF UpdateUser, DeactivateUser, ActivateUser, Writes
<1>5. \A j \in Instances : Outstanding(j) => Outstanding(j)'
  BY <1>2, <1>4 DEF Outstanding, Caught, Unmade
<1>6. CASE \E g \in Groups : UpdateUser(c, g)
  <2>1. hist'.token = Instances /\ hist.token \subseteq Instances
    BY <1>3, <1>6 DEF UpdateUser, Hists
  <2>2. QED
    BY <1>1, <1>2, <2>1, SameSession
<1>7. CASE \E i \in Instances : DeactivateUser(c, i)
  <2>1. change'[c].step = "written" /\ change'[c].key = "user" /\ hist' = hist
    BY <1>3, <1>7 DEF DeactivateUser, Writes, Unmade
  <2>2. \A j \in Instances : Outstanding(j)'
    BY <2>1 DEF Outstanding, Caught
  <2>3. QED
    BY <1>1, <1>2, <2>1, <2>2, SameSession
<1>8. CASE ActivateUser(c)
  <2>1. active' = TRUE /\ hist' = hist /\ member' = member /\ groups' = groups
    BY <1>8 DEF ActivateUser
  <2>2. Current' = Current
    BY <2>1 DEF Current
  <2>3. QED
    BY <1>1, <1>2, <1>5, <2>1, <2>2, SameSession
<1>9. QED
  BY <1>6, <1>7, <1>8

(* An entry that catches the token lets it be renewed; where none would,    *)
(* the token is too young. *)
LEMMA Revoked ==
  ASSUME SessionInv, NEW i \in Instances, NEW key \in Keys, Revoke(i, key), UNCHANGED <<token, age, started>>
  PROVE  /\ EntriesLast' /\ hist.token \subseteq hist'.token
         /\ \A j \in Instances : MustRevalidate(j) => MustRevalidate(j)'
         /\ key \in Caught => MustRevalidate(i)' \/ i \in hist'.token
<1>1. /\ revoked \in [Instances -> [Keys -> 0..Expiration]] /\ age \in 0..Expiration /\ hist \in Hists /\ Caught \subseteq Keys
      /\ Expiration \in Nat \ {0} /\ Grace \in Nat
  BY SessionTypes, AccessAssumption DEF SessionInv
<1>2. \A j \in Instances, k \in Keys :
        revoked'[j][k] = IF j = i /\ k = key /\ Catches(key) THEN Expiration ELSE revoked[j][k]
  BY <1>1 DEF Revoke
<1>3. hist'.token = IF age > Grace THEN hist.token ELSE hist.token \cup {i}
  BY <1>1 DEF Revoke, Hists
<1>4. EntriesLast'
  <2>1. \A j \in Instances, k \in Keys : revoked'[j][k] > 0 => revoked'[j][k] + age > Expiration
    BY <1>1, <1>2 DEF Catches, SessionInv, EntriesLast
  <2>2. QED
    BY <2>1 DEF EntriesLast
<1>5. \A j \in Instances, k \in Keys : revoked[j][k] > 0 => revoked'[j][k] > 0
  BY <1>1, <1>2
<1>6. \A j \in Instances : MustRevalidate(j) => MustRevalidate(j)'
  BY <1>1, <1>5 DEF MustRevalidate, Caught
<1>7. ASSUME key \in Caught
      PROVE  MustRevalidate(i)' \/ i \in hist'.token
  <2>1. CASE age > Grace /\ age < Expiration
    <3>1. revoked'[i][key] > 0
      BY <1>1, <1>2, <1>7, <2>1 DEF Catches, Caught
    <3>2. QED
      BY <1>7, <3>1 DEF MustRevalidate, Caught
  <2>2. CASE age >= Expiration
    BY <2>2 DEF MustRevalidate
  <2>3. CASE ~(age > Grace)
    BY <1>3, <2>3
  <2>4. QED
    BY <1>1, <2>1, <2>2, <2>3
<1>8. QED
  BY <1>3, <1>4, <1>6, <1>7

LEMMA ChangingSession ==
  ASSUME SessionInv, NEW c \in Changes, RevokeTokens(c) \/ ReadGroups(c) \/ ReloadGroups(c)
  PROVE  SessionInv'
<1>1. Types /\ Types'
  BY ChangingTypes DEF SessionInv
<1>2. UNCHANGED <<token, age, started, active>> /\ Current' = Current
  BY DEF RevokeTokens, ReadGroups, ReloadGroups, dbVars, sessionVars, Current
<1>3. change \in [Changes -> Records] /\ hist \in Hists /\ change[c].key \in Keys
  BY <1>1, SessionTypes DEF Records
<1>4. \A d \in Changes : d # c => change'[d] = change[d]
  BY <1>3 DEF RevokeTokens, ReadGroups, ReloadGroups
<1>5. CASE RevokeTokens(c)
  <2>1. PICK i \in Instances : Revoke(i, change[c].key) /\ Emit(i, <<"addAuthRevoke", change[c].key>>)
    <3>1. change[c].step = "written"
      BY <1>5 DEF RevokeTokens
    <3>2. \E i \in Instances : change[c].at = {i}
      BY <1>1, <3>1 DEF Types, ChangesOK, ChangeOK, Unmade, Finished
    <3>3. QED
      BY <1>5, <3>2 DEF RevokeTokens
  <2>2. <<"addAuthRevoke", change[c].key>> \in Messages
    BY <1>3 DEF Messages
  <2>3. /\ EntriesLast' /\ hist.token \subseteq hist'.token
        /\ \A j \in Instances : MustRevalidate(j) => MustRevalidate(j)'
        /\ change[c].key \in Caught => MustRevalidate(i)' \/ i \in hist'.token
    BY <1>2, <1>3, <2>1, Revoked
  <2>4. ASSUME NEW j \in Instances, Outstanding(j)
        PROVE  MustRevalidate(j)' \/ j \in hist'.token \/ Outstanding(j)'
    <3>1. CASE \E d \in Changes : d # c /\ change[d].step = "written" /\ change[d].key \in Caught
      BY <1>2, <1>4, <3>1 DEF Outstanding, Caught
    <3>2. CASE change[c].key \in Caught
      <4>1. CASE j = i
        BY <2>3, <3>2, <4>1
      <4>2. CASE j # i
        <5>1. PICK n \in DOMAIN inbox'[j] : inbox'[j][n] = <<"addAuthRevoke", change[c].key>>
          BY <1>1, <2>1, <2>2, <4>2, ToldMore
        <5>2. inbox'[j][n][1] = "addAuthRevoke" /\ inbox'[j][n][2] = change[c].key
          BY <5>1
        <5>3. QED
          BY <1>2, <3>2, <5>2 DEF Outstanding, Caught
      <4>3. QED
        BY <4>1, <4>2
    <3>3. CASE \E n \in DOMAIN inbox[j] : inbox[j][n][1] = "addAuthRevoke" /\ inbox[j][n][2] \in Caught
      <4>1. \A n \in DOMAIN inbox[j] : n \in DOMAIN inbox'[j] /\ inbox'[j][n] = inbox[j][n]
        BY <1>1, <2>1, <2>2, ToldMore
      <4>2. QED
        BY <1>2, <3>3, <4>1 DEF Outstanding, Caught
    <3>4. QED
      BY <2>4, <3>1, <3>2, <3>3 DEF Outstanding
  <2>5. TokenOrOutstanding'
    BY <1>2, <2>3, <2>4 DEF SessionInv, TokenOrOutstanding
  <2>6. QED
    BY <1>1, <2>3, <2>5 DEF SessionInv
<1>6. CASE ReadGroups(c) \/ ReloadGroups(c)
  <2>1. revoked' = revoked /\ change[c].step # "written" /\ hist'.token = hist.token
    BY <1>3, <1>6 DEF ReadGroups, ReloadGroups, SetGroups, Hists
  <2>2. \A j \in Instances : \A n \in DOMAIN inbox[j] : n \in DOMAIN inbox'[j] /\ inbox'[j][n] = inbox[j][n]
    <3>1. CASE ReadGroups(c)
      BY <3>1 DEF ReadGroups
    <3>2. CASE ReloadGroups(c)
      <4>1. PICK i \in Instances : Emit(i, <<"reloadGroups", "user">>)
        <5>1. change[c].step = "read"
          BY <3>2 DEF ReloadGroups
        <5>2. \E i \in Instances : change[c].at = {i}
          BY <1>1, <5>1 DEF Types, ChangesOK, ChangeOK, Unmade, Finished
        <5>3. QED
          BY <3>2, <5>2 DEF ReloadGroups
      <4>2. <<"reloadGroups", "user">> \in Messages
        BY Constants DEF Messages
      <4>3. QED
        BY <1>1, <4>1, <4>2, ToldMore
    <3>3. QED
      BY <1>6, <3>1, <3>2
  <2>3. \A j \in Instances : Outstanding(j) => Outstanding(j)'
    BY <1>2, <1>4, <2>1, <2>2 DEF Outstanding, Caught
  <2>4. QED
    BY <1>1, <1>2, <2>1, <2>3, SameSession
<1>7. QED
  BY <1>5, <1>6

LEMMA MessageSession ==
  ASSUME SessionInv, NEW i \in Instances, RevokeArrives(i) \/ ReloadArrives(i) \/ MessageMissed(i)
  PROVE  SessionInv'
<1>1. Types /\ Types'
  BY InstanceTypes DEF SessionInv
<1>2. UNCHANGED <<token, age, started, active, change>> /\ Current' = Current
  BY DEF RevokeArrives, ReloadArrives, MessageMissed, dbVars, sessionVars, Current
<1>3. hist \in Hists
  BY <1>1, SessionTypes
<1>4. ASSUME NEW event, Arrives(i, event), NEW j \in Instances, Outstanding(j), event # "addAuthRevoke" \/ j # i
      PROVE  Outstanding(j)'
  <2>1. CASE \E d \in Changes : change[d].step = "written" /\ change[d].key \in Caught
    BY <1>2, <2>1 DEF Outstanding, Caught
  <2>2. CASE \E n \in DOMAIN inbox[j] : inbox[j][n][1] = "addAuthRevoke" /\ inbox[j][n][2] \in Caught
    <3>1. PICK n \in DOMAIN inbox[j] : inbox[j][n][1] = "addAuthRevoke" /\ inbox[j][n][2] \in Caught
      BY <2>2
    <3>2. inbox[j][n][1] # event \/ j # i
      BY <1>4, <3>1
    <3>3. \E k \in DOMAIN inbox'[j] : inbox'[j][k] = inbox[j][n]
      BY <1>1, <1>4, <3>2, ToldLess
    <3>4. QED
      BY <1>2, <3>1, <3>3 DEF Outstanding, Caught
  <2>3. QED
    BY <1>4, <2>1, <2>2 DEF Outstanding
<1>5. CASE RevokeArrives(i)
  <2> DEFINE key == Head(inbox[i])[2]
  <2>1. Arrives(i, "addAuthRevoke") /\ Revoke(i, key)
    BY <1>5 DEF RevokeArrives
  <2>2. key \in Keys
    BY <1>1, <2>1, MessageTypes
  <2>3. /\ EntriesLast' /\ hist.token \subseteq hist'.token
        /\ \A j \in Instances : MustRevalidate(j) => MustRevalidate(j)'
        /\ key \in Caught => MustRevalidate(i)' \/ i \in hist'.token
    <3> HIDE DEF key
    <3>1. QED
      BY <1>2, <2>1, <2>2, Revoked
  <2>4. ASSUME NEW j \in Instances, Outstanding(j)
        PROVE  MustRevalidate(j)' \/ j \in hist'.token \/ Outstanding(j)'
    <3>1. CASE j # i
      BY <1>4, <2>1, <2>4, <3>1
    <3>2. CASE j = i
      <4>1. CASE \E d \in Changes : change[d].step = "written" /\ change[d].key \in Caught
        BY <1>2, <4>1 DEF Outstanding, Caught
      <4>2. CASE \E n \in DOMAIN inbox[j] : inbox[j][n][1] = "addAuthRevoke" /\ inbox[j][n][2] \in Caught
        <5>1. PICK n \in DOMAIN inbox[i] : inbox[i][n][1] = "addAuthRevoke" /\ inbox[i][n][2] \in Caught
          BY <3>2, <4>2
        <5>2. CASE inbox[i][n] = Head(inbox[i])
          BY <2>3, <3>2, <5>1, <5>2
        <5>3. CASE inbox[i][n] # Head(inbox[i])
          <6>1. inbox'[i] = Tail(inbox[i]) /\ inbox[i] \in Seq(Messages)
            BY <1>1, <2>1 DEF Arrives, Types, BasicTypes
          <6>2. n - 1 \in DOMAIN inbox'[i] /\ inbox'[i][n - 1] = inbox[i][n]
            BY <5>3, <6>1, TailKeeps
          <6>3. QED
            BY <1>2, <3>2, <5>1, <6>2 DEF Outstanding, Caught
        <5>4. QED
          BY <5>2, <5>3
      <4>3. QED
        BY <2>4, <4>1, <4>2 DEF Outstanding
    <3>3. QED
      BY <3>1, <3>2
  <2>5. TokenOrOutstanding'
    BY <1>2, <2>3, <2>4 DEF SessionInv, TokenOrOutstanding
  <2>6. QED
    BY <1>1, <2>3, <2>5 DEF SessionInv
<1>6. CASE ReloadArrives(i)
  <2>1. Arrives(i, "reloadGroups") /\ revoked' = revoked /\ hist' = hist
    BY <1>6 DEF ReloadArrives
  <2>2. \A j \in Instances : Outstanding(j) => Outstanding(j)'
    BY <1>4, <2>1
  <2>3. QED
    BY <1>1, <1>2, <2>1, <2>2, SameSession
<1>7. CASE MessageMissed(i)
  <2>1. PICK event \in {"addAuthRevoke", "reloadGroups"} :
          /\ Arrives(i, event)
          /\ hist' = IF event = "reloadGroups" THEN [hist EXCEPT !.groups = @ \cup {i}] ELSE [hist EXCEPT !.token = @ \cup {i}]
    BY <1>7 DEF MessageMissed
  <2>2. /\ revoked' = revoked /\ hist.token \subseteq hist'.token
        /\ event = "addAuthRevoke" => i \in hist'.token
    BY <1>3, <1>7, <2>1 DEF MessageMissed, Hists
  <2>3. \A j \in Instances : j \notin hist'.token => (Outstanding(j) => Outstanding(j)')
    BY <1>4, <2>1, <2>2
  <2>4. QED
    BY <1>1, <1>2, <2>2, <2>3, SameSession
<1>8. QED
  BY <1>5, <1>6, <1>7

LEMMA RestartSession ==
  ASSUME SessionInv, NEW i \in Instances, Restart(i)
  PROVE  SessionInv'
<1> DEFINE died == {c \in Changes : i \in change[c].at}
<1>1. Types /\ Types'
  BY InstanceTypes DEF SessionInv
<1>2. /\ UNCHANGED <<token, age, active>> /\ Current' = Current
      /\ started' = [started EXCEPT ![i] = "now"] /\ revoked' = [revoked EXCEPT ![i] = [k \in Keys |-> 0]]
      /\ inbox' = [inbox EXCEPT ![i] = <<>>]
      /\ change' = [c \in Changes |-> IF c \in died THEN Finished ELSE change[c]]
      /\ hist'.token = hist.token \cup (IF died = {} THEN {} ELSE Instances \ {i})
  BY DEF Restart, dbVars, Current
<1>3. /\ started \in [Instances -> {"before", "since", "now"}] /\ revoked \in [Instances -> [Keys -> 0..Expiration]]
      /\ inbox \in [Instances -> Seq(Messages)]
  BY <1>1 DEF Types, BasicTypes
<1>4. \A j \in Instances : j # i => started'[j] = started[j] /\ revoked'[j] = revoked[j] /\ inbox'[j] = inbox[j]
  BY <1>2, <1>3
<1>5. EntriesLast'
  <2>1. \A k \in Keys : revoked'[i][k] = 0
    BY <1>2, <1>3
  <2>2. \A j \in Instances, k \in Keys : revoked'[j][k] > 0 => revoked'[j][k] + age > Expiration
    BY <1>4, <2>1 DEF SessionInv, EntriesLast
  <2>3. QED
    BY <1>2, <2>2 DEF EntriesLast
<1>6. ASSUME NEW j \in Instances
      PROVE  MustRevalidate(j)' \/ (active /\ token = Current) \/ j \in hist'.token \/ Outstanding(j)'
  <2>1. CASE j = i
    BY <1>2, <1>3, <2>1 DEF MustRevalidate
  <2>2. CASE j # i /\ died # {}
    BY <1>2, <2>2
  <2>3. CASE j # i /\ died = {}
    <3>1. \A c \in Changes : change'[c] = change[c]
      BY <1>2, <2>3
    <3>2. MustRevalidate(j) => MustRevalidate(j)'
      BY <1>2, <1>4, <2>3 DEF MustRevalidate
    <3>3. Outstanding(j) => Outstanding(j)'
      BY <1>2, <1>4, <2>3, <3>1 DEF Outstanding, Caught
    <3>4. QED
      BY <1>2, <3>2, <3>3 DEF SessionInv, TokenOrOutstanding
  <2>4. QED
    BY <2>1, <2>2, <2>3
<1>7. TokenOrOutstanding'
  BY <1>2, <1>6 DEF TokenOrOutstanding
<1>8. QED
  BY <1>1, <1>5, <1>7 DEF SessionInv

(* The new token is that of now, or every instance is noted. *)
LEMMA SignSession ==
  ASSUME SessionInv, NEW i \in Instances, Sign(i)
  PROVE  SessionInv'
<1>1. Types /\ Types' /\ hist \in Hists
  BY InstanceTypes, SessionTypes DEF SessionInv
<1>2. /\ revoked' = [j \in Instances |-> [k \in Keys |-> 0]]
      /\ active' = active /\ Current' = Current
      /\ hist'.token = IF active /\ token' = Current THEN {} ELSE Instances
  BY <1>1 DEF Sign, dbVars, Current, Hists
<1>3. EntriesLast'
  BY <1>2 DEF EntriesLast
<1>4. TokenOrOutstanding'
  BY <1>2 DEF TokenOrOutstanding
<1>5. QED
  BY <1>1, <1>3, <1>4 DEF SessionInv

(* No entry runs out before the token does. *)
LEMMA TickSession ==
  ASSUME SessionInv, Tick
  PROVE  SessionInv'
<1>1. Types /\ Types'
  BY TickTypes DEF SessionInv
<1>2. /\ revoked \in [Instances -> [Keys -> 0..Expiration]] /\ age \in 0..Expiration /\ hist \in Hists
      /\ started \in [Instances -> {"before", "since", "now"}]
      /\ Expiration \in Nat \ {0} /\ Caught \subseteq Keys
  BY <1>1, SessionTypes, AccessAssumption DEF Types, BasicTypes
<1>3. /\ age' = IF age < Expiration THEN age + 1 ELSE age
      /\ started' = [j \in Instances |-> IF started[j] = "now" THEN "since" ELSE started[j]]
      /\ UNCHANGED <<active, inbox, change, token>> /\ Current' = Current
      /\ age' < Expiration => hist' = hist
  BY DEF Tick, dbVars, Current
<1>4. \A j \in Instances, k \in Keys : revoked'[j][k] = IF revoked[j][k] > 0 /\ age' < Expiration THEN revoked[j][k] - 1 ELSE 0
  BY DEF Tick
<1>5. \A j \in Instances, k \in Keys : revoked[j][k] \in 0..Expiration /\ (revoked[j][k] > 0 => revoked[j][k] + age > Expiration)
  BY <1>2 DEF SessionInv, EntriesLast
<1>6. EntriesLast'
  <2>1. \A j \in Instances, k \in Keys : revoked'[j][k] > 0 => revoked'[j][k] + age' > Expiration
    BY <1>2, <1>3, <1>4, <1>5
  <2>2. QED
    BY <2>1 DEF EntriesLast
<1>7. ASSUME NEW j \in Instances
      PROVE  MustRevalidate(j)' \/ (active /\ token = Current) \/ j \in hist'.token \/ Outstanding(j)'
  <2>1. CASE age' >= Expiration
    BY <2>1 DEF MustRevalidate
  <2>2. CASE age' < Expiration
    <3>1. \A k \in Keys : revoked[j][k] > 0 => revoked'[j][k] > 0
      BY <1>2, <1>3, <1>4, <1>5, <2>2
    <3>2. MustRevalidate(j) => MustRevalidate(j)'
      <4>1. age < Expiration
        BY <1>2, <1>3, <2>2
      <4>2. started[j] # "before" => started'[j] # "before"
        BY <1>3
      <4>3. QED
        BY <1>2, <1>3, <3>1, <4>1, <4>2 DEF MustRevalidate, Caught
    <3>3. Outstanding(j) => Outstanding(j)'
      BY <1>3 DEF Outstanding, Caught
    <3>4. QED
      BY <1>3, <2>2, <3>2, <3>3 DEF SessionInv, TokenOrOutstanding
  <2>3. QED
    BY <1>2, <1>3, <2>1, <2>2
<1>8. TokenOrOutstanding'
  BY <1>3, <1>7 DEF TokenOrOutstanding
<1>9. QED
  BY <1>1, <1>6, <1>8 DEF SessionInv

(* Loaded and Revalidate *)
LEMMA OtherSession ==
  ASSUME SessionInv, Types', hist'.token = hist.token, UNCHANGED <<token, age, revoked, started, inbox, change, groups, member, active>>
  PROVE  SessionInv'
<1>1. Current' = Current /\ \A j \in Instances : Outstanding(j) => Outstanding(j)'
  BY DEF Outstanding, Caught, Current
<1>2. QED
  BY <1>1, SameSession

LEMMA NextSession == SessionInv /\ [Next]_vars => SessionInv'
<1> SUFFICES ASSUME SessionInv, [Next]_vars PROVE SessionInv'
  OBVIOUS
<1>1. Types' /\ hist \in Hists
  BY NextTypes DEF SessionInv, Types, ChangesOK, Hists
<1>2. CASE UNCHANGED vars
  BY <1>1, <1>2, OtherSession DEF vars
<1>3. ASSUME NEW c \in Changes, NEW g \in Groups, NEW i \in Instances,
             CreateGroup(c, i, g) \/ UpdateGroup(c, i, g) \/ DeleteGroup(c, i, g) \/ AssignUser(c, i, g)
      PROVE  SessionInv'
  BY <1>3, WritingSession
<1>4. ASSUME NEW c \in Changes,
             (\E g \in Groups : UpdateUser(c, g)) \/ (\E i \in Instances : DeactivateUser(c, i)) \/ ActivateUser(c)
      PROVE  SessionInv'
  BY <1>4, UserSession
<1>5. ASSUME NEW c \in Changes, RevokeTokens(c) \/ ReadGroups(c) \/ ReloadGroups(c)
      PROVE  SessionInv'
  BY <1>5, ChangingSession
<1>6. ASSUME NEW i \in Instances, RevokeArrives(i) \/ ReloadArrives(i) \/ MessageMissed(i)
      PROVE  SessionInv'
  BY <1>6, MessageSession
<1>7. ASSUME NEW i \in Instances, Loaded(i) \/ Revalidate(i)
      PROVE  SessionInv'
  <2>1. /\ hist'.token = hist.token
        /\ UNCHANGED <<token, age, revoked, started, inbox, change, groups, member, active>>
    BY <1>1, <1>7 DEF Loaded, SetGroups, Revalidate, dbVars, sessionVars, Hists
  <2>2. QED
    BY <1>1, <2>1, OtherSession
<1>8. QED
  BY <1>2, <1>3, <1>4, <1>5, <1>6, <1>7, TickSession, RestartSession, SignSession DEF Next

(* A token that is accepted as it is holds the groups and permissions of an *)
(* active user, but for the cases that SessionCurrent names: no entry of a  *)
(* revocation list runs out before the tokens it is for, and no restart     *)
(* brings a token back (auth.js:117-171, 567-569).                          *)
THEOREM SessionsAreCurrent == Spec => []SessionCurrent
<1>1. SessionInv => SessionCurrent
  BY DEF SessionInv, TokenOrOutstanding, SessionCurrent, Outstanding
<1>2. Spec => []SessionInv
  BY InitSession, NextSession, PTL DEF Spec
<1>3. QED
  BY <1>1, <1>2, PTL

-----------------------------------------------------------------------------
(* Page rules *)

LEMMA FiniteRules ==
  ASSUME NEW read \in Snapshots
  PROVE  IsFiniteSet(RulesIn(read)) /\ RulesIn(read) \subseteq RulesFor(Pages)
<1> DEFINE G == {g \in Groups : read[g] \notin {Missing, Deleted}}
           f == [g \in G |-> RulesOf[read[g]]]
           T == {RulesOf[read[g]] : g \in G}
<1>1. IsFiniteSet(G)
  BY AccessAssumption, FS_Subset
<1>2. f \in Surjection(G, T)
  BY DEF Surjection
<1>3. IsFiniteSet(T)
  <2> HIDE DEF f, G, T
  <2>1. QED
    BY <1>1, <1>2, FS_Surjection
<1>4. \A R \in T : IsFiniteSet(R) /\ R \subseteq RulesFor(Pages)
  BY AccessAssumption DEF Snapshots
<1>5. RulesIn(read) = UNION T
  BY DEF RulesIn
<1>6. IsFiniteSet(UNION T)
  <2> HIDE DEF T
  <2>1. QED
    BY <1>3, <1>4, FS_UNION
<1>7. QED
  BY <1>4, <1>5, <1>6

(* The orders of a finite set are sequences of all of its members. *)
LEMMA OrdersAreComplete ==
  ASSUME NEW S, IsFiniteSet(S), NEW order \in SetToSeqs(S)
  PROVE  Len(order) \in Nat /\ DOMAIN order = 1..Len(order) /\ {order[n] : n \in 1..Len(order)} = S
<1> DEFINE D == 1..Cardinality(S)
<1>1. Cardinality(S) \in Nat
  BY FS_CardinalityType
<1>2. order \in [D -> S] /\ order \in Seq(S) /\ Len(order) = Cardinality(S)
  BY <1>1 DEF SetToSeqs
<1>3. \A a, b \in D : a # b => order[a] # order[b]
  BY DEF SetToSeqs
<1>4. order \in Injection(D, S)
  BY <1>2, <1>3 DEF Injection, IsInjective
<1>5. Cardinality(D) = Cardinality(S)
  BY <1>1, FS_Interval
<1>6. order \in Surjection(D, S)
  <2> HIDE DEF D
  <2>1. QED
    BY <1>4, <1>5, FS_Injection
<1>7. \A s \in S : \E n \in D : order[n] = s
  BY <1>6 DEF Surjection
<1>8. QED
  BY <1>1, <1>2, <1>7

(* Whatever rules the groups have, and in whichever order they come, those  *)
(* an instance has for the user decide as the strongest one that applies,   *)
(* and without one nothing is decided (auth.js:258-311, 407-429).           *)
THEOREM RulesDecideByStrength == Spec => []StrongestRuleDecides
<1>1. ASSUME NEW read \in Snapshots
      PROVE  RulesIn(read) \in DecidedByStrongest
  <2> DEFINE rules == RulesIn(read)
  <2>1. IsFiniteSet(rules) /\ rules \subseteq RulesFor(Pages)
    BY FiniteRules
  <2>2. ASSUME NEW order \in SetToSeqs(rules), NEW page \in Pages
        PROVE  LET strongest == Strongest(rules, page)
               IN  EvaluatePageRules(order, page) \in IF strongest = {} THEN {NoMatch} ELSE strongest
    <3> HIDE DEF rules
    <3>1. Len(order) \in Nat /\ {order[n] : n \in 1..Len(order)} = rules
      BY <2>1, OrdersAreComplete
    <3>2. \A n \in 1..Len(order) : AsState(order[n]) \in States
      BY <2>1, <3>1 DEF RulesFor, AsState, States
    <3>3. LET strongest == Strongest({order[n] : n \in 1..Len(order)}, page)
          IN  EvaluatePageRules(order, page) \in IF strongest = {} THEN {NoMatch} ELSE strongest
      BY <3>1, <3>2, StrongestDecides
    <3>4. QED
      BY <3>1, <3>3
  <2>3. QED
    BY <2>2 DEF DecidedByStrongest
<1>2. Types => StrongestRuleDecides
  BY <1>1 DEF Types, BasicTypes, StrongestRuleDecides
<1>3. Spec => []Types
  BY InitTypes, NextTypes, PTL DEF Spec
<1>4. QED
  BY <1>2, <1>3, PTL
=============================================================================
