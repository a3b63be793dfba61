----------------------------- MODULE CycleGroups -----------------------------
(***************************************************************************)
(* Indexing modules whose local dependencies form cycles.  A run reads the *)
(* whole local dependency graph of a target and goes through its strongly  *)
(* connected groups, dependencies first.  A group is taken from what the   *)
(* run remembers, reused at its heads, or extracted and published in one   *)
(* transaction, so that its members' snapshots refer to each other.        *)
(* Meanwhile sources are edited, other runs publish and history is pruned. *)
(*                                                                         *)
(* Content 0 is the committed content of a checkout, any other is dirty.   *)
(* The graph's sources are read in one step: a source that changes between *)
(* two reads no longer matches when its group is verified.                 *)
(***************************************************************************)
EXTENDS Integers, Sequences, FiniteSets, FiniteSetsExt, Functions, SequencesExt

CONSTANTS
  Checkouts, LocalDeps,
  GroupRuns, GroupTargets, ForcedRuns,
  GroupAttempts,                 \* indexAttempts
  MaxSourceEdits, MaxGroupPrunes \* bounds

\* The local dependencies of every checkout of the workspace, and the targets of each run.
ASSUME GroupConstants ==
  /\ IsFiniteSet(Checkouts) /\ LocalDeps \in [Checkouts -> SUBSET Checkouts]
  /\ GroupTargets \in [GroupRuns -> Seq(Checkouts)] /\ GroupAttempts \in Nat \ {0}

VARIABLES source, facts, head, grouped, pruned
groupVars == <<source, facts, head, grouped, pruned>>

KeptFacts == {s \in DOMAIN facts : facts[s].kept}

Needed(m) ==
  LET reach[n \in 0..Cardinality(Checkouts)] ==
        IF n = 0 THEN {m} ELSE reach[n - 1] \cup UNION {LocalDeps[x] : x \in reach[n - 1]}
  IN reach[Cardinality(Checkouts)]

GroupOf(m) == {n \in Needed(m) : m \in Needed(n)}

\* discoverLocalDependencyGraph: the groups of a target's graph, dependencies first.
GroupOrder(m) ==
  LET groups == {GroupOf(n) : n \in Needed(m)}
  IN CHOOSE s \in [1..Cardinality(groups) -> groups] :
       /\ Range(s) = groups
       /\ \A i, j \in DOMAIN s : i < j => \A n \in s[i] : s[j] \cap (Needed(n) \ s[i]) = {}

Nothing == [m \in Checkouts |-> 0]
NewGroupRun == [pc |-> "idle", left |-> <<>>, groups |-> <<>>, read |-> Nothing, links |-> Nothing,
                memo |-> Nothing, heads |-> Nothing, attempt |-> 1]

GroupInit ==
  /\ source = [m \in Checkouts |-> 0]
  /\ facts = <<>> /\ head = Nothing
  /\ grouped = [r \in GroupRuns |-> [NewGroupRun EXCEPT !.left = GroupTargets[r]]]
  /\ pruned = 0

\* Discovery and readModuleDependencies of the target at hand.
ReadGraph(r) ==
  /\ grouped[r].pc = "idle" /\ grouped[r].left # <<>>
  /\ grouped' = [grouped EXCEPT ![r].pc = "group", ![r].groups = GroupOrder(Head(grouped[r].left)),
                                ![r].read = source, ![r].links = Nothing]
  /\ UNCHANGED <<source, facts, head, pruned>>

At1(r) == Head(grouped[r].groups)
InGroup(r) == grouped[r].pc = "group" /\ grouped[r].groups # <<>>
\* Only the target's own group is forced.
ForcedGroup(r) == r \in ForcedRuns /\ Head(grouped[r].left) \in At1(r)

\* resolveLocalGroup: a member is dirty when its source is, when what it links is, and when
\* any other member of its group is.
Dirty(r) == \E m \in At1(r) : \/ grouped[r].read[m] # 0
                              \/ \E n \in LocalDeps[m] \ At1(r) : facts[grouped[r].links[n]].dirty

GroupEdges(r, m, ids) == [n \in LocalDeps[m] |-> IF n \in At1(r) THEN ids[n] ELSE grouped[r].links[n]]
GroupRow(r, m, ids) == [module |-> m, content |-> grouped[r].read[m], dirty |-> Dirty(r), edges |-> GroupEdges(r, m, ids), kept |-> TRUE]

NextGroup(r, ids) ==
  grouped' = [grouped EXCEPT ![r].pc = "group", ![r].groups = Tail(@), ![r].heads = Nothing,
                ![r].links = [m \in Checkouts |-> IF m \in DOMAIN ids THEN ids[m] ELSE @[m]],
                ![r].memo = [m \in Checkouts |-> IF m \in DOMAIN ids THEN ids[m] ELSE @[m]]]

\* rememberedLocalGroup: the whole group was indexed earlier in the run; a snapshot that was
\* pruned since fails the run.
RememberedGroup(r) ==
  /\ InGroup(r) /\ ~ForcedGroup(r)
  /\ \A m \in At1(r) : grouped[r].memo[m] # 0
  /\ IF \A m \in At1(r) : grouped[r].memo[m] \in KeptFacts
     THEN NextGroup(r, [m \in At1(r) |-> grouped[r].memo[m]])
     ELSE grouped' = [grouped EXCEPT ![r].pc = "failed"]
  /\ UNCHANGED <<source, facts, head, pruned>>

\* linkGroupHeads and groupHeadsReusable: every member's head has the content, state and
\* links the group has now; if not, every member is extracted.
CheckHeads(r) ==
  /\ InGroup(r) /\ (ForcedGroup(r) \/ \E m \in At1(r) : grouped[r].memo[m] = 0)
  /\ LET reusable == ~ForcedGroup(r) /\ \A m \in At1(r) : head[m] # 0 /\ facts[head[m]] = GroupRow(r, m, head)
     IN grouped' = [grouped EXCEPT ![r].pc = IF reusable THEN "reuse" ELSE "publish", ![r].heads = head]
  /\ UNCHANGED <<source, facts, head, pruned>>

\* Mutant: a group's transaction reads its own members again and not what they require.
MembersVerified(r) == \A m \in At1(r) : source[m] = grouped[r].read[m]

\* verifyIndexInputs of groupInputs: members and linked dependencies are as they were read,
\* and a linked snapshot is still its checkout's head.
GroupVerified(r) ==
  \A m \in At1(r) :
    /\ source[m] = grouped[r].read[m]
    /\ \A n \in LocalDeps[m] \ At1(r) : LET s == grouped[r].links[n] IN head[n] = s /\ source[n] = facts[s].content

\* ErrIndexInputsChanged: the target is tried again with nothing remembered, or given up.
InputsChanged(r) ==
  grouped' = [grouped EXCEPT ![r] =
    IF @.attempt < GroupAttempts
    THEN [NewGroupRun EXCEPT !.left = grouped[r].left, !.attempt = grouped[r].attempt + 1]
    ELSE [@ EXCEPT !.pc = "failed"]]

\* reuseLocalGroup: one transaction that verifies the inputs and that no head moved.
ReuseGroup(r) ==
  /\ grouped[r].pc = "reuse"
  /\ IF GroupVerified(r) /\ \A m \in At1(r) : head[m] = grouped[r].heads[m]
     THEN NextGroup(r, [m \in At1(r) |-> head[m]])
     ELSE InputsChanged(r)
  /\ UNCHANGED <<source, facts, head, pruned>>

\* createLocalGroup: one transaction that verifies the inputs and publishes every member.
CreateGroup(r) ==
  /\ grouped[r].pc = "publish"
  /\ LET order == SetToSeq(At1(r))
         ids == [m \in At1(r) |-> Len(facts) + CHOOSE i \in DOMAIN order : order[i] = m]
     IN IF GroupVerified(r)
        THEN /\ facts' = facts \o [i \in DOMAIN order |-> GroupRow(r, order[i], ids)]
             /\ head' = [m \in Checkouts |-> IF m \in At1(r) THEN ids[m] ELSE head[m]]
             /\ NextGroup(r, ids)
        ELSE InputsChanged(r) /\ UNCHANGED <<facts, head>>
  /\ UNCHANGED <<source, pruned>>

NextTarget(r) ==
  /\ grouped[r].pc = "group" /\ grouped[r].groups = <<>>
  /\ grouped' = [grouped EXCEPT ![r].pc = IF Len(grouped[r].left) = 1 THEN "done" ELSE "idle",
                                ![r].left = Tail(@), ![r].attempt = 1]
  /\ UNCHANGED <<source, facts, head, pruned>>

EditSource(m) ==
  /\ FoldFunction(+, 0, source) < MaxSourceEdits
  /\ source' = [source EXCEPT ![m] = @ + 1]
  /\ UNCHANGED <<facts, head, grouped, pruned>>

\* History pruning keeps the heads and all they link.
PruneFacts ==
  /\ pruned < MaxGroupPrunes
  /\ LET reach[n \in 0..Len(facts)] ==
           IF n = 0 THEN Range(head) \ {0} ELSE reach[n - 1] \cup UNION {Range(facts[s].edges) : s \in reach[n - 1]}
     IN facts' = [s \in DOMAIN facts |-> [facts[s] EXCEPT !.kept = s \in reach[Len(facts)]]]
  /\ facts' # facts
  /\ pruned' = pruned + 1
  /\ UNCHANGED <<source, head, grouped>>

GroupNext ==
  \/ \E r \in GroupRuns : \/ ReadGraph(r) \/ RememberedGroup(r) \/ CheckHeads(r)
                          \/ ReuseGroup(r) \/ CreateGroup(r) \/ NextTarget(r)
  \/ \E m \in Checkouts : EditSource(m)
  \/ PruneFacts

GroupSpec == GroupInit /\ [][GroupNext]_groupVars

-----------------------------------------------------------------------------
\* Sources, facts, heads and what each run holds are in range; a head is a fact of its checkout.
GroupTypeOK ==
  /\ head \in [Checkouts -> 0..Len(facts)]
  /\ \A m \in Checkouts : head[m] # 0 => facts[head[m]].module = m
  /\ \A r \in GroupRuns : grouped[r].attempt \in 1..GroupAttempts

(* The heads of modules that depend on each other are of one publication: the *)
(* links between them name the heads themselves, whichever runs published or  *)
(* reused them (createLocalGroup, reuseLocalGroup).                           *)
CycleHeadsAgree ==
  \A m, n \in Checkouts : (n \in LocalDeps[m] /\ n \in GroupOf(m) /\ head[m] # 0) => facts[head[m]].edges[n] = head[n]

(* All that a stored snapshot links, directly or through others, holds one    *)
(* snapshot of each module, and all of it is stored, although its parts were  *)
(* published, reused or remembered at different times (verifyLocalDependency, *)
(* rememberedLocalGroup).                                                     *)
LinksAreOneGeneration ==
  \A s \in KeptFacts :
    LET reach[n \in 0..Cardinality(Checkouts)] ==
          IF n = 0 THEN {s} ELSE reach[n - 1] \cup UNION {Range(facts[t].edges) : t \in reach[n - 1]}
    IN \A t, u \in reach[Cardinality(Checkouts)] : t \in KeptFacts /\ (facts[t].module = facts[u].module => t = u)

(* A snapshot is dirty when its own source, or that of anything it links, is  *)
(* not the committed one, and clean otherwise (resolveLocalGroup).            *)
DirtIsInherited ==
  \A s \in KeptFacts :
    LET reach[n \in 0..Cardinality(Checkouts)] ==
          IF n = 0 THEN {s} ELSE reach[n - 1] \cup UNION {Range(facts[t].edges) : t \in reach[n - 1]}
    IN facts[s].dirty <=> \E t \in reach[Cardinality(Checkouts)] : facts[t].content # 0

(* A run is given up only because its inputs changed under every attempt, or  *)
(* because a snapshot it remembered was pruned (rememberedLocalGroup).        *)
GroupsFailForCause ==
  \A r \in GroupRuns : grouped[r].pc = "failed" => grouped[r].attempt = GroupAttempts \/ pruned > 0

(* Modules that depend on each other are published, reused and remembered as *)
(* one, in every interleaving of runs, edits and prunes.                     *)
GroupsStayTogether ==
  GroupTypeOK /\ CycleHeadsAgree /\ LinksAreOneGeneration /\ DirtIsInherited /\ GroupsFailForCause
=============================================================================
