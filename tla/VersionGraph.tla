----------------------------- MODULE VersionGraph -----------------------------
(***************************************************************************)
(* Resolving the module versions a root depends on.  A run links each      *)
(* version to a stored snapshot whose closure is still complete, or checks *)
(* the version out, discovers what it requires in turn, and indexes the    *)
(* versions it collected one strongly connected component at a time,       *)
(* dependencies first; the members of a cycle are published together.      *)
(* Meanwhile tags move, checkouts are registered, other runs publish and   *)
(* history is pruned.                                                      *)
(*                                                                         *)
(* A tag is the number of the commit a version names, 0 when no registered *)
(* checkout has it.  Snapshots are numbered in order of publication.       *)
(***************************************************************************)
EXTENDS Integers, Sequences, FiniteSets, FiniteSetsExt, Functions

CONSTANTS
  VersionNames,      \* module@version
  Requires,          \* what a version's commit requires
  FirstTags,         \* the tags at the start
  VersionRuns, Wanted,
  Flaky,             \* versions whose load may be degraded, and not for good
  MaxRetags, MaxVersionPrunes   \* bounds

\* Versions are finitely many and numbered; what a commit requires are versions; a tag names a
\* commit whose requirements are known, or none.
ASSUME VersionConstants ==
  /\ IsFiniteSet(VersionNames) /\ VersionNames \subseteq Nat
  /\ DOMAIN Requires \subseteq VersionNames \X {1, 2}
  /\ \A x \in DOMAIN Requires : Requires[x] \subseteq VersionNames
  /\ FirstTags \in [VersionNames -> 0..2]
  /\ \A v \in VersionNames : FirstTags[v] # 0 => <<v, FirstTags[v]>> \in DOMAIN Requires
  /\ \A r \in VersionRuns : Wanted[r] \in Seq(VersionNames)

VARIABLES tags, versions, resolver, retags, versionPrunes
versionVars == <<tags, versions, resolver, retags, versionPrunes>>

Unknown == -1      \* the run has not looked
Unavailable == 0   \* errVersionUnavailable; on an edge, no target

\* A set of versions in the order they are listed in.
Ascending(vs) ==
  CHOOSE q \in [1..Cardinality(vs) -> vs] : \A i, j \in DOMAIN q : i < j => q[i] < q[j]

Stored == {s \in DOMAIN versions : versions[s].kept}
SnapshotsOf(v) == {s \in Stored : versions[s].version = v}

\* storedVersionSnapshot: the newest whose coverage is settled, or else the newest.
StoredVersion(v) ==
  LET settled == {s \in SnapshotsOf(v) : versions[s].settled}
  IN IF settled # {} THEN Max(settled) ELSE IF SnapshotsOf(v) # {} THEN Max(SnapshotsOf(v)) ELSE 0

\* Everything reachable from a snapshot through dependency edges.
Closure(s) ==
  LET reach[n \in 0..Len(versions)] ==
        IF n = 0 THEN {s}
        ELSE reach[n - 1] \cup UNION {Range(versions[t].edges) \ {Unavailable} : t \in reach[n - 1]}
  IN reach[Len(versions)]

\* versionTag, looked up once per run.
TagSeen(r, v) == IF resolver[r].tags[v] = Unknown THEN tags[v] ELSE resolver[r].tags[v]

\* Mutant: a stored version is complete whatever commit its tag names now.
NodeCompleteUntagged(r, s) ==
  \A w \in DOMAIN versions[s].edges : versions[s].edges[w] = Unavailable => TagSeen(r, w) = 0

\* loadClosureNode: the snapshot's version still names its commit, or no checkout has it,
\* and no edge without a target could get one.
NodeComplete(r, s) ==
  /\ TagSeen(r, versions[s].version) \in {0, versions[s].commit}
  /\ \A w \in DOMAIN versions[s].edges : versions[s].edges[w] = Unavailable => TagSeen(r, w) = 0

VersionedClosureMiss(r, s) == \E t \in Closure(s) : ~NodeComplete(r, t)
StoredVersionMiss(r, s) == ~versions[s].settled \/ VersionedClosureMiss(r, s)

\* The versions whose tags a closure check looks up.
TagsRead(s) == {versions[t].version : t \in Closure(s)} \cup UNION {{w \in DOMAIN versions[t].edges : versions[t].edges[w] = Unavailable} : t \in Closure(s)}

-----------------------------------------------------------------------------
NewResolver == [pc |-> "idle", queue |-> <<>>, nodes |-> <<>>, groups |-> <<>>, ids |-> <<>>, settled |-> <<>>,
                memo |-> [v \in VersionNames |-> Unknown], tags |-> [v \in VersionNames |-> Unknown]]

VersionInit ==
  /\ tags = FirstTags
  /\ versions = <<>>
  /\ resolver = [r \in VersionRuns |-> NewResolver]
  /\ retags = 0 /\ versionPrunes = 0

Node(r, v) == \E i \in DOMAIN resolver[r].nodes : resolver[r].nodes[i].version = v
CommitOf(r, v) == (CHOOSE n \in Range(resolver[r].nodes) : n.version = v).commit
RequiresOf(r, v) == Requires[<<v, CommitOf(r, v)>>]
Look(r, vs) == [v \in VersionNames |-> IF v \in vs THEN TagSeen(r, v) ELSE resolver[r].tags[v]]

Resolve(r) ==
  /\ resolver[r].pc = "idle"
  /\ resolver' = [resolver EXCEPT ![r].pc = "expand", ![r].queue = Wanted[r]]
  /\ UNCHANGED <<tags, versions, retags, versionPrunes>>

\* expandVersionedNode of the next version: nothing to do, a stored snapshot that stands,
\* a checkout to add with what it requires, or what is known of a version no checkout has.
ExpandVersionedNode(r) ==
  /\ resolver[r].pc = "expand" /\ resolver[r].queue # <<>>
  /\ LET v == Head(resolver[r].queue)
         left == Tail(resolver[r].queue)
         stored == StoredVersion(v)
         read == IF stored # 0 /\ versions[stored].settled THEN TagsRead(stored) \cup {v} ELSE {v}
         commit == TagSeen(r, v)
     IN \/ /\ Node(r, v) \/ resolver[r].memo[v] # Unknown
           /\ resolver' = [resolver EXCEPT ![r].queue = left]
        \/ /\ ~Node(r, v) /\ resolver[r].memo[v] = Unknown
           /\ stored # 0 /\ ~StoredVersionMiss(r, stored)
           /\ resolver' = [resolver EXCEPT ![r].queue = left, ![r].memo[v] = stored, ![r].tags = Look(r, read)]
        \/ /\ ~Node(r, v) /\ resolver[r].memo[v] = Unknown
           /\ stored # 0 => StoredVersionMiss(r, stored)
           /\ commit = 0
           /\ resolver' = [resolver EXCEPT ![r].queue = left, ![r].memo[v] = stored, ![r].tags = Look(r, read)]
        \/ /\ ~Node(r, v) /\ resolver[r].memo[v] = Unknown
           /\ stored # 0 => StoredVersionMiss(r, stored)
           /\ commit # 0
           /\ resolver' = [resolver EXCEPT ![r].tags = Look(r, read),
                             ![r].nodes = Append(@, [version |-> v, commit |-> commit]),
                             ![r].queue = left \o Ascending(Requires[<<v, commit>>])]
  /\ UNCHANGED <<tags, versions, retags, versionPrunes>>

\* What a node reaches among the nodes.
Reaches(r, v) ==
  LET among == {n.version : n \in Range(resolver[r].nodes)}
      reach[n \in 0..Cardinality(among)] ==
        IF n = 0 THEN {v} ELSE reach[n - 1] \cup UNION {RequiresOf(r, w) \cap among : w \in reach[n - 1]}
  IN reach[Cardinality(among)]

\* dependencyComponents: the strongly connected components, each after those it depends on.
Components(r) ==
  LET among == {n.version : n \in Range(resolver[r].nodes)}
      group(v) == {w \in Reaches(r, v) : v \in Reaches(r, w)}
      groups == {group(v) : v \in among}
      before(g, h) == \E v \in h : g \subseteq Reaches(r, v)
  IN CHOOSE s \in [1..Cardinality(groups) -> groups] :
       Range(s) = groups /\ \A i, j \in DOMAIN s : i < j => ~before(s[j], s[i])

Discovered(r) ==
  /\ resolver[r].pc = "expand" /\ resolver[r].queue = <<>>
  /\ resolver' = [resolver EXCEPT ![r].pc = "group", ![r].groups = Components(r)]
  /\ UNCHANGED <<tags, versions, retags, versionPrunes>>

Group(r) == Head(resolver[r].groups)
Cyclic(r) == \E v \in Group(r) : RequiresOf(r, v) \cap Group(r) # {}

\* linkVersionedDependency and setVersionedTargets: the group's own snapshots, or the run's.
Edges(r, v, ids) == [w \in RequiresOf(r, v) |-> IF w \in Group(r) THEN ids[w] ELSE resolver[r].memo[w]]

\* Every version outside the group was resolved; resolvedVersion fails otherwise.
Linkable(r) == \A v \in Group(r) : \A w \in RequiresOf(r, v) \ Group(r) : resolver[r].memo[w] # Unknown

Extractions(r) == {x \in [Group(r) -> BOOLEAN] : \A v \in Group(r) : x[v] \/ v \in Flaky}

Remember(r, ids) ==
  resolver' = [resolver EXCEPT ![r].groups = Tail(@), ![r].pc = "group", ![r].ids = <<>>, ![r].settled = <<>>,
                 ![r].memo = [v \in VersionNames |-> IF v \in DOMAIN ids THEN ids[v] ELSE @[v]]]

\* storedRevision without an extraction: a settled snapshot of the commit and dependency set.
SettledIn(r, v, edges) ==
  {s \in SnapshotsOf(v) : versions[s].commit = CommitOf(r, v) /\ versions[s].edges = edges /\ versions[s].settled}

\* indexPreparedRevision, before it extracts.
ReuseRevision(r) ==
  /\ resolver[r].pc = "group" /\ resolver[r].groups # <<>> /\ ~Cyclic(r)
  /\ LET v == CHOOSE w \in Group(r) : TRUE
         edges == Edges(r, v, <<>>)
     IN IF SettledIn(r, v, edges) # {}
        THEN Remember(r, [w \in {v} |-> Max(SettledIn(r, v, edges))])
        ELSE resolver' = [resolver EXCEPT ![r].pc = "extract"]
  /\ UNCHANGED <<tags, versions, retags, versionPrunes>>

\* reuseVersionedGraph: every member's stored snapshot has the member's commit, links the
\* stored snapshots of the others, and is what extracting the member gives.
ReuseVersionedGraph(r, x) ==
  /\ resolver[r].pc = "group" /\ resolver[r].groups # <<>> /\ Cyclic(r)
  /\ LET ids == [v \in Group(r) |-> StoredVersion(v)]
         same == \A v \in Group(r) : /\ ids[v] # 0
                    /\ versions[ids[v]].commit = CommitOf(r, v)
                    /\ versions[ids[v]].edges = Edges(r, v, ids)
                    /\ versions[ids[v]].settled = x[v]
     IN IF same THEN Remember(r, ids) ELSE resolver' = [resolver EXCEPT ![r].pc = "extract"]
  /\ UNCHANGED <<tags, versions, retags, versionPrunes>>

\* extractFromBase, or extractModule of every member; then storedRevision with the extraction.
ExtractVersion(r, x) ==
  /\ resolver[r].pc = "extract"
  /\ LET v == CHOOSE w \in Group(r) : TRUE
         same == {s \in SnapshotsOf(v) : /\ versions[s].commit = CommitOf(r, v) /\ versions[s].edges = Edges(r, v, <<>>)
                                         /\ versions[s].settled = x[v]}
     IN IF ~Cyclic(r) /\ same # {}
        THEN Remember(r, [w \in {v} |-> Max(same)])
        ELSE resolver' = [resolver EXCEPT ![r].pc = "publish", ![r].settled = x]
  /\ UNCHANGED <<tags, versions, retags, versionPrunes>>

\* publishRevision or publishVersionedGraph: one transaction for the whole group, in which a
\* linked snapshot that was removed is a foreign-key failure.
PublishGroup(r) ==
  /\ resolver[r].pc = "publish"
  /\ LET order == Ascending(Group(r))
         ids == [v \in Group(r) |-> Len(versions) + CHOOSE i \in DOMAIN order : order[i] = v]
         row(v) == [version |-> v, commit |-> CommitOf(r, v), edges |-> Edges(r, v, ids),
                    settled |-> resolver[r].settled[v], kept |-> TRUE]
         outside == {resolver[r].memo[w] : w \in UNION {RequiresOf(r, v) \ Group(r) : v \in Group(r)}} \ {Unavailable}
     IN IF outside \subseteq Stored
        THEN versions' = versions \o [i \in DOMAIN order |-> row(order[i])] /\ Remember(r, ids)
        ELSE resolver' = [resolver EXCEPT ![r].pc = "failed"] /\ UNCHANGED versions
  /\ UNCHANGED <<tags, retags, versionPrunes>>

Finish(r) ==
  /\ resolver[r].pc = "group" /\ resolver[r].groups = <<>>
  /\ resolver' = [resolver EXCEPT ![r].pc = "done"]
  /\ UNCHANGED <<tags, versions, retags, versionPrunes>>

-----------------------------------------------------------------------------
\* A tag moves to the version's other commit, or a checkout that has it is registered or removed.
Retag(v) ==
  /\ retags < MaxRetags
  /\ \E c \in {n \in 0..2 : n = 0 \/ <<v, n>> \in DOMAIN Requires} \ {tags[v]} : tags' = [tags EXCEPT ![v] = c]
  /\ retags' = retags + 1
  /\ UNCHANGED <<versions, resolver, versionPrunes>>

\* History pruning removes snapshots that no snapshot it keeps links to.
PruneVersions(gone) ==
  /\ versionPrunes < MaxVersionPrunes /\ gone # {}
  /\ \A s \in Stored \ gone : Range(versions[s].edges) \cap gone = {}
  /\ versions' = [s \in DOMAIN versions |-> IF s \in gone THEN [versions[s] EXCEPT !.kept = FALSE] ELSE versions[s]]
  /\ versionPrunes' = versionPrunes + 1
  /\ UNCHANGED <<tags, resolver, retags>>

VersionNext ==
  \/ \E r \in VersionRuns :
       \/ Resolve(r) \/ ExpandVersionedNode(r) \/ Discovered(r) \/ ReuseRevision(r)
       \/ PublishGroup(r) \/ Finish(r)
       \/ resolver[r].pc \in {"group", "extract"} /\ resolver[r].groups # <<>>
            /\ \E x \in Extractions(r) : ReuseVersionedGraph(r, x) \/ ExtractVersion(r, x)
  \/ \E v \in VersionNames : Retag(v)
  \/ \E gone \in SUBSET Stored : PruneVersions(gone)

VersionSpec == VersionInit /\ [][VersionNext]_versionVars

-----------------------------------------------------------------------------
\* Tags name commits, stored versions their requirements, and a resolver what it has read.
VersionTypeOK ==
  /\ tags \in [VersionNames -> 0..2]
  /\ \A s \in DOMAIN versions : versions[s].version \in VersionNames /\ versions[s].settled \in BOOLEAN
  /\ \A r \in VersionRuns : resolver[r].memo \in [VersionNames -> -1..Len(versions)]

(* A stored version links exactly what its commit requires, each edge to a    *)
(* stored snapshot of that version, also between the members of a cycle whose *)
(* snapshots refer to each other before either is written                     *)
(* (setVersionedTargets, publishVersionedGraph).                              *)
EdgesNameTheirVersions ==
  \A s \in Stored :
    /\ DOMAIN versions[s].edges = Requires[<<versions[s].version, versions[s].commit>>]
    /\ \A w \in DOMAIN versions[s].edges : LET t == versions[s].edges[w] IN
         t = Unavailable \/ (t \in Stored /\ versions[t].version = w)

(* No run meets a dependency it has not resolved: the components come after   *)
(* all they depend on, although some versions never become nodes              *)
(* (resolveVersionedGraph, resolvedVersion's error).                          *)
DependenciesComeFirst ==
  \A r \in VersionRuns : (resolver[r].pc = "group" /\ resolver[r].groups # <<>>) => Linkable(r)

(* What a finished run resolved a version to is of the commit the version     *)
(* named when the run looked, and so is all that it links, up to versions     *)
(* that no checkout has any more; an edge has no target only if its version   *)
(* had no checkout (storedVersionMiss, versionedClosureMiss).                 *)
ResolvedVersionsAreCurrent ==
  \A r \in VersionRuns : resolver[r].pc = "done" =>
    \A v \in VersionNames : (resolver[r].memo[v] > 0 /\ resolver[r].tags[v] > 0) =>
      LET s == versions[resolver[r].memo[v]] IN
        /\ s.commit = resolver[r].tags[v]
        /\ \A w \in DOMAIN s.edges : s.edges[w] = Unavailable => resolver[r].tags[w] = 0

(* Whatever tags move, checkouts disappear and prunes delete while two runs  *)
(* resolve, the stored graph of versions is whole and what a run resolved is *)
(* current.                                                                  *)
VersionsAreWhole ==
  VersionTypeOK /\ EdgesNameTheirVersions /\ DependenciesComeFirst /\ ResolvedVersionsAreCurrent
=============================================================================
