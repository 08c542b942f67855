--------------------------- MODULE AccessControl ---------------------------
(***************************************************************************)
(* How the instances of the server keep up with groups (server/core/auth.js*)
(* and the resolvers of groups and users).  Every instance has a copy of   *)
(* the groups, which it reloads after a change made there or announced by  *)
(* another one.  A user's session token holds the groups and permissions   *)
(* of the moment it was issued; a change puts the user or the group on     *)
(* every instance's revocation list, and a request with an older token is  *)
(* served with a new one.                                                  *)
(*                                                                         *)
(* One user with one token, who may be deactivated.  A version of a group  *)
(* stands for its permissions and page rules.  Requests that change something run         *)
(* concurrently; an instance may stop between any two of their steps.      *)
(* Times are relative to now and to the token.                             *)
(***************************************************************************)
EXTENDS Integers, Sequences, FiniteSets, PageRules

CONSTANTS
  Instances,   \* servers that share the database
  Groups,
  RulesOf,     \* the rules that a group has in each of its versions
  Pages,       \* pages that rules apply to
  Grace,       \* seconds that a revocation is dated back: 5
  Expiration,  \* of a token: 30 minutes
  Changes,     \* bound: requests that change groups, each made once
  MaxMishaps   \* bound: restarts and notifications that are not delivered

Missing == 0                            \* a group that is yet to be created
Deleted == Cardinality(Changes) + 2
Versions == Missing..Deleted

ASSUME AccessAssumption ==
  /\ IsFiniteSet(Instances) /\ IsFiniteSet(Groups) /\ IsFiniteSet(Changes)
  /\ \A v \in Versions \ {Missing, Deleted} : IsFiniteSet(RulesOf[v]) /\ RulesOf[v] \subseteq RulesFor(Pages)
  /\ Grace \in Nat /\ Expiration \in Nat \ {0} /\ MaxMishaps \in Nat

VARIABLES
  groups,     \* rows of groups: their versions
  member,     \* rows of userGroups
  active,     \* is the user active?
  known,      \* WIKI.auth.groups of each instance
  loading,    \* what reloads of it under way have read
  revoked,    \* the revocation list of each instance: how long the entries that catch the token last
  started,    \* when each process started: "before" the token's second, "since" then, or "now", in this second
  inbox,      \* notifications on their way to each instance
  change,     \* the requests that change something
  token,      \* the groups in the token, with their permissions
  age,        \* of the token, in seconds
  signing,    \* what a request that renews the token has read, on each instance
  mishaps,    \* bound: those so far
  hist        \* history: the instances that cannot know the token or the groups are old

vars == <<groups, member, active, known, loading, revoked, started, inbox, change, token, age, signing, mishaps, hist>>
dbVars == <<groups, member, active>>
sessionVars == <<token, age, signing>>

-----------------------------------------------------------------------------
Keys == {"user"} \cup Groups
Snapshots == [Groups -> Versions]
Messages == {"addAuthRevoke", "reloadGroups"} \X Keys
Steps == {"written", "revoked", "read"}
Tokens == UNION {[s -> Versions] : s \in SUBSET Groups}

Exists(g) == groups[g] \notin {Missing, Deleted}

(* The user's groups and their permissions *)
Current == [g \in member |-> groups[g]]

Unmade == [step |-> "new", kind |-> "none", at |-> {}, key |-> "user", read |-> {}]
Finished == [Unmade EXCEPT !.step = "done"]

TypeOK ==
  /\ groups \in Snapshots /\ member \subseteq {g \in Groups : Exists(g)} /\ active \in BOOLEAN
  /\ known \in [Instances -> Snapshots] /\ loading \in [Instances -> SUBSET Snapshots]
  /\ revoked \in [Instances -> [Keys -> 0..Expiration]]
  /\ started \in [Instances -> {"before", "since", "now"}]
  /\ inbox \in [Instances -> Seq(Messages)]
  /\ \A c \in Changes :
       \/ change[c] \in {Unmade, Finished}
       \/ change[c].step \in Steps /\ Cardinality(change[c].at) = 1 /\ change[c].key \in Keys
  /\ token \in Tokens /\ age \in 0..Expiration
  /\ signing \in [Instances -> SUBSET Tokens]
  /\ mishaps \in 0..MaxMishaps

Init ==
  /\ groups \in [Groups -> {Missing, 1}]
  /\ member = {g \in Groups : Exists(g)} /\ active = TRUE
  /\ known = [i \in Instances |-> groups]
  /\ loading = [i \in Instances |-> {}]
  /\ revoked = [i \in Instances |-> [k \in Keys |-> 0]]
  /\ started = [i \in Instances |-> "before"]
  /\ inbox = [i \in Instances |-> <<>>]
  /\ change = [c \in Changes |-> Unmade]
  /\ token = Current /\ age = 0
  /\ signing = [i \in Instances |-> {}]
  /\ mishaps = 0
  /\ hist = [token |-> {}, groups |-> {}]

(* A second passes; entries of the revocation list run out.  What is known  *)
(* of a token that has expired does not matter any more.                    *)
Tick ==
  /\ age < Expiration \/ \E i \in Instances : started[i] = "now"
  /\ age' = IF age < Expiration THEN age + 1 ELSE age
  /\ revoked' = [i \in Instances |-> [k \in Keys |-> IF revoked[i][k] > 0 /\ age' < Expiration THEN revoked[i][k] - 1 ELSE 0]]
  /\ started' = [i \in Instances |-> IF started[i] = "now" THEN "since" ELSE started[i]]
  /\ UNCHANGED <<dbVars, known, loading, inbox, change, token, signing, mishaps>>
  /\ hist' = IF age' < Expiration THEN hist ELSE [hist EXCEPT !.token = {}]

-----------------------------------------------------------------------------
(* Changes.  First the database is written. *)

Writes(c, i, kind, key) ==
  /\ change[c] = Unmade
  /\ change' = [change EXCEPT ![c] = [Unmade EXCEPT !.step = "written", !.kind = kind, !.at = {i}, !.key = key]]
  /\ UNCHANGED <<known, loading, revoked, started, inbox, sessionVars, mishaps>>

(* GroupMutation.create: no token is revoked. *)
CreateGroup(c, i, g) ==
  /\ groups[g] = Missing
  /\ groups' = [groups EXCEPT ![g] = 1]
  /\ change[c] = Unmade
  /\ change' = [change EXCEPT ![c] = [Unmade EXCEPT !.step = "revoked", !.kind = "group", !.at = {i}, !.key = g]]
  /\ UNCHANGED <<member, active, known, loading, revoked, started, inbox, sessionVars, mishaps, hist>>

(* GroupMutation.update *)
UpdateGroup(c, i, g) ==
  /\ Exists(g)
  /\ groups' = [groups EXCEPT ![g] = @ + 1]
  /\ Writes(c, i, "group", g)
  /\ UNCHANGED <<member, active, hist>>

(* Mutant: the rows of userGroups stay. *)
DeleteGroupOnly(c, i, g) ==
  /\ Exists(g)
  /\ groups' = [groups EXCEPT ![g] = Deleted]
  /\ Writes(c, i, "group", g)
  /\ UNCHANGED <<member, active, hist>>

(* GroupMutation.delete; its rows of userGroups go with it. *)
DeleteGroup(c, i, g) ==
  /\ Exists(g)
  /\ groups' = [groups EXCEPT ![g] = Deleted]
  /\ member' = member \ {g}
  /\ Writes(c, i, "group", g)
  /\ UNCHANGED <<active, hist>>

Toggled(g) == IF g \in member THEN member \ {g} ELSE member \cup {g}

(* GroupMutation.assignUser and unassignUser *)
AssignUser(c, i, g) ==
  /\ Exists(g)
  /\ member' = Toggled(g)
  /\ Writes(c, i, "user", "user")
  /\ UNCHANGED <<groups, active, hist>>

(* UserMutation.deactivate *)
DeactivateUser(c, i) ==
  /\ active' = FALSE
  /\ Writes(c, i, "user", "user")
  /\ UNCHANGED <<groups, member, hist>>

(* UserMutation.activate: tokens of before are good again. *)
ActivateUser(c) ==
  /\ active' = TRUE
  /\ change[c] = Unmade /\ change' = [change EXCEPT ![c] = Finished]
  /\ UNCHANGED <<groups, member, known, loading, revoked, started, inbox, sessionVars, mishaps, hist>>

(* UserMutation.update: the token is left to expire. *)
UpdateUser(c, g) ==
  /\ Exists(g)
  /\ member' = Toggled(g)
  /\ change[c] = Unmade /\ change' = [change EXCEPT ![c] = Finished]
  /\ hist' = [hist EXCEPT !.token = Instances]
  /\ UNCHANGED <<groups, active, known, loading, revoked, started, inbox, sessionVars, mishaps>>

(* An entry that does not catch the token, or one that has expired, is left *)
(* out: tokens issued later are younger still.                              *)
Catches(key) == age > Grace /\ age < Expiration /\ key \in {"user"} \cup DOMAIN token

(* revokeUserTokens *)
Revoke(i, key) ==
  /\ revoked' = [revoked EXCEPT ![i][key] = IF Catches(key) THEN Expiration ELSE @]
  /\ hist' = [hist EXCEPT !.token = IF age > Grace THEN @ ELSE @ \cup {i}]

Emit(i, message) == inbox' = [j \in Instances |-> IF j = i THEN inbox[j] ELSE Append(inbox[j], message)]

(* Mutant: the other instances are not told. *)
RevokeTokensHere(c) ==
  \E i \in change[c].at :
    /\ change[c].step = "written"
    /\ Revoke(i, change[c].key)
    /\ change' = [change EXCEPT ![c] = IF @.kind = "group" THEN [@ EXCEPT !.step = "revoked"] ELSE Finished]
    /\ UNCHANGED <<dbVars, known, loading, started, inbox, sessionVars, mishaps>>

RevokeTokens(c) ==
  \E i \in change[c].at :
    /\ change[c].step = "written"
    /\ Revoke(i, change[c].key)
    /\ Emit(i, <<"addAuthRevoke", change[c].key>>)
    /\ change' = [change EXCEPT ![c] = IF @.kind = "group" THEN [@ EXCEPT !.step = "revoked"] ELSE Finished]
    /\ UNCHANGED <<dbVars, known, loading, started, sessionVars, mishaps>>

(* reloadGroups: a query, then an assignment. *)
ReadGroups(c) ==
  /\ change[c].step = "revoked"
  /\ change' = [change EXCEPT ![c].step = "read", ![c].read = {groups}]
  /\ UNCHANGED <<dbVars, known, loading, revoked, started, inbox, sessionVars, mishaps, hist>>

(* Versions only grow: of two reads, the earlier one has smaller versions. *)
Older(a, b) == \E g \in Groups : a[g] < b[g]

SetGroups(i, read) ==
  /\ known' = [known EXCEPT ![i] = read]
  /\ hist' = [hist EXCEPT !.groups = IF Older(read, known[i]) THEN @ \cup {i} ELSE @]

(* Mutant: the other instances are not told. *)
ReloadGroupsHere(c) ==
  \E i \in change[c].at, read \in change[c].read :
    /\ change[c].step = "read"
    /\ SetGroups(i, read)
    /\ change' = [change EXCEPT ![c] = Finished]
    /\ UNCHANGED <<dbVars, loading, revoked, started, inbox, sessionVars, mishaps>>

ReloadGroups(c) ==
  \E i \in change[c].at, read \in change[c].read :
    /\ change[c].step = "read"
    /\ SetGroups(i, read)
    /\ Emit(i, <<"reloadGroups", "user">>)
    /\ change' = [change EXCEPT ![c] = Finished]
    /\ UNCHANGED <<dbVars, loading, revoked, started, sessionVars, mishaps>>

-----------------------------------------------------------------------------
(* Notifications, which arrive in the order they were sent *)

Arrives(i, event) ==
  /\ inbox[i] # <<>> /\ Head(inbox[i])[1] = event
  /\ inbox' = [inbox EXCEPT ![i] = Tail(@)]

RevokeArrives(i) ==
  /\ Arrives(i, "addAuthRevoke")
  /\ Revoke(i, Head(inbox[i])[2])
  /\ UNCHANGED <<dbVars, known, loading, started, change, sessionVars, mishaps>>

ReloadArrives(i) ==
  /\ Arrives(i, "reloadGroups")
  /\ loading' = [loading EXCEPT ![i] = @ \cup {groups}]
  /\ UNCHANGED <<dbVars, known, revoked, started, change, sessionVars, mishaps, hist>>

Loaded(i) ==
  \E read \in loading[i] :
    /\ loading' = [loading EXCEPT ![i] = @ \ {read}]
    /\ SetGroups(i, read)
    /\ UNCHANGED <<dbVars, revoked, started, inbox, change, sessionVars, mishaps>>

Mishap == mishaps < MaxMishaps /\ mishaps' = mishaps + 1

MessageMissed(i) ==
  /\ Mishap
  /\ \E event \in {"addAuthRevoke", "reloadGroups"} :
       /\ Arrives(i, event)
       /\ hist' = IF event = "reloadGroups" THEN [hist EXCEPT !.groups = @ \cup {i}] ELSE [hist EXCEPT !.token = @ \cup {i}]
  /\ UNCHANGED <<dbVars, known, loading, revoked, started, change, sessionVars>>

(* The process ends and starts again; its changes that had written the      *)
(* database are not announced any more.                                     *)
Restart(i) ==
  LET died == {c \in Changes : i \in change[c].at}
      untold == IF died = {} THEN {} ELSE Instances \ {i}
  IN /\ Mishap
     /\ started' = [started EXCEPT ![i] = "now"]
     /\ known' = [known EXCEPT ![i] = groups] /\ loading' = [loading EXCEPT ![i] = {}]
     /\ revoked' = [revoked EXCEPT ![i] = [k \in Keys |-> 0]]
     /\ inbox' = [inbox EXCEPT ![i] = <<>>] /\ signing' = [signing EXCEPT ![i] = {}]
     /\ change' = [c \in Changes |-> IF c \in died THEN Finished ELSE change[c]]
     /\ hist' = [token |-> hist.token \cup untold, groups |-> (hist.groups \ {i}) \cup untold]
     /\ UNCHANGED <<dbVars, token, age>>

-----------------------------------------------------------------------------
(* Requests with the token.  A token that is expired, revoked or older than *)
(* the process is renewed.                                                  *)

MustRevalidate(i) ==
  \/ age >= Expiration
  \/ started[i] # "before"
  \/ \E key \in {"user"} \cup DOMAIN token : revoked[i][key] > 0

(* refreshToken reads the user, who must be active, and the groups, then    *)
(* signs.  Bound: one request at a time does.                               *)
Revalidate(i) ==
  /\ MustRevalidate(i) /\ active /\ \A j \in Instances : signing[j] = {}
  /\ signing' = [signing EXCEPT ![i] = {Current}]
  /\ UNCHANGED <<dbVars, known, loading, revoked, started, inbox, change, token, age, mishaps, hist>>

Sign(i) ==
  \E read \in signing[i] :
    /\ token' = read /\ age' = 0
    /\ signing' = [signing EXCEPT ![i] = {}]
    /\ revoked' = [j \in Instances |-> [k \in Keys |-> 0]]
    /\ started' = [j \in Instances |-> IF started[j] = "now" THEN "now" ELSE "before"]
    /\ hist' = [hist EXCEPT !.token = IF active /\ read = Current THEN {} ELSE Instances]
    /\ UNCHANGED <<dbVars, known, loading, inbox, change, mishaps>>

-----------------------------------------------------------------------------
Next ==
  \/ Tick
  \/ \E c \in Changes :
       \/ \E g \in Groups :
            \/ \E i \in Instances : CreateGroup(c, i, g) \/ UpdateGroup(c, i, g) \/ DeleteGroup(c, i, g) \/ AssignUser(c, i, g)
            \/ UpdateUser(c, g)
       \/ (\E i \in Instances : DeactivateUser(c, i)) \/ ActivateUser(c)
       \/ RevokeTokens(c) \/ ReadGroups(c) \/ ReloadGroups(c)
  \/ \E i \in Instances :
       \/ RevokeArrives(i) \/ ReloadArrives(i) \/ MessageMissed(i) \/ Loaded(i)
       \/ Restart(i) \/ Revalidate(i) \/ Sign(i)

Spec == Init /\ [][Next]_vars

-----------------------------------------------------------------------------
(* Properties *)

(* The rules that an instance has for the user decide, in whichever order   *)
(* they and the groups come, as the strongest of them does (auth.js:258-311,*)
(* 407-429).                                                                *)
RulesIn(read) == UNION {RulesOf[read[g]] : g \in {h \in Groups : read[h] \notin {Missing, Deleted}}}
DecidedByStrongest ==
  {rules \in {RulesIn(read) : read \in Snapshots} :
     \A order \in SetToSeqs(rules), page \in Pages :
       LET strongest == Strongest(rules, page)
       IN EvaluatePageRules(order, page) \in IF strongest = {} THEN {NoMatch} ELSE strongest}
StrongestRuleDecides == \A i \in Instances : RulesIn(known[i]) \in DecidedByStrongest

(* When all changes and notifications are dealt with, every instance has    *)
(* the groups of the database, unless it missed a notification, a change    *)
(* died with its instance, or two reloads were assigned in the other order  *)
(* than they had read (auth.js:434-438).                                    *)
GroupsCurrent ==
  (\A c \in Changes : change[c].at = {}) =>
    \A i \in Instances :
      inbox[i] = <<>> /\ loading[i] = {} /\ i \notin hist.groups => known[i] = groups

(* A token that is accepted as it is holds the groups of an active user and *)
(* their permissions, unless a change is still being announced, the instance      *)
(* missed it, the groups were set with an update of the user, or the token  *)
(* was issued within the grace period or read before the change: also       *)
(* after a restart, which forgets the revocation list (auth.js:117-171,     *)
(* 567-569).                                                                *)
SessionCurrent ==
  \A i \in Instances :
    ~MustRevalidate(i) =>
      \/ active /\ token = Current
      \/ i \in hist.token
      \/ \E c \in Changes : change[c].step = "written"
      \/ \E n \in DOMAIN inbox[i] : inbox[i][n][1] = "addAuthRevoke"

=============================================================================
