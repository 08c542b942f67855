----------------------------- MODULE PageRules -----------------------------
(***************************************************************************)
(* How the page rules of a user's groups decide about a page               *)
(* (server/core/auth.js).  A rule is given by its kind of match, whether   *)
(* it denies, the length of its path, and the pages its path, its locales  *)
(* and its roles let it apply to.                                          *)
(***************************************************************************)
EXTENDS Integers, Sequences, SequencesExt

Kinds == <<"START", "END", "REGEX", "TAG", "EXACT">>
Matches == {"START", "END", "REGEX", "TAG", "EXACT"}
RulesFor(pages) == [match : Matches, deny : BOOLEAN, length : Nat, pages : SUBSET pages]
NoMatch == [match |-> "none", deny |-> FALSE, length |-> 0]
AsState(rule) == [match |-> rule.match, deny |-> rule.deny, length |-> rule.length]

(* The matches that are not overridden by one of this kind, at equal length *)
HigherPriority(match) ==
  CASE match = "START" -> {"END", "REGEX", "EXACT", "TAG"}
    [] match = "END"   -> {"REGEX", "EXACT", "TAG"}
    [] match = "REGEX" -> {"EXACT", "TAG"}
    [] match = "TAG"   -> {"EXACT"}
    [] match = "EXACT" -> {}

(* Mutant: a rule that allows overrides one that denies. *)
LastRuleWins(state, rule) ==
  IF \/ rule.length < state.length
     \/ rule.length = state.length /\ state.match \in HigherPriority(rule.match)
  THEN state
  ELSE AsState(rule)

ApplyPageRuleSpecificity(state, rule) ==
  IF \/ rule.length < state.length
     \/ rule.length = state.length /\ state.match \in HigherPriority(rule.match)
     \/ rule.length = state.length /\ rule.match = state.match /\ state.deny /\ ~rule.deny
  THEN state
  ELSE AsState(rule)

(* rules: those of the user's groups, one group after the other; the state  *)
(* after each of them                                                       *)
StateAfter(rules, page) ==
  LET state[n \in 0..Len(rules)] ==
        IF n = 0 THEN NoMatch
        ELSE IF page \in rules[n].pages THEN ApplyPageRuleSpecificity(state[n - 1], rules[n])
        ELSE state[n - 1]
  IN  state

EvaluatePageRules(rules, page) == StateAfter(rules, page)[Len(rules)]

CheckAccess(rules, page) ==
  LET state == EvaluatePageRules(rules, page) IN state.match # "none" /\ ~state.deny

-----------------------------------------------------------------------------
(* What decides, however the rules are ordered: the longest path, among     *)
(* these the kind of match that comes last in Kinds, among these a denial.  *)

Rank(match) == CHOOSE i \in DOMAIN Kinds : Kinds[i] = match
Stronger(a, b) ==
  \/ a.length > b.length
  \/ a.length = b.length /\ Rank(a.match) > Rank(b.match)
  \/ a.length = b.length /\ a.match = b.match /\ a.deny /\ ~b.deny
Strongest(rules, page) == {AsState(a) : a \in {b \in rules : page \in b.pages /\ ~\E c \in rules : page \in c.pages /\ Stronger(c, b)}}

=============================================================================
