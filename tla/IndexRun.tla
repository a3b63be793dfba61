------------------------------- MODULE IndexRun -------------------------------
(***************************************************************************)
(* Index runs: requests that index module checkouts while their sources    *)
(* are edited and other runs publish.  A run reuses the index a checkpoint *)
(* recorded when nothing it read has changed, joins an identical run in    *)
(* progress, or indexes its targets one at a time, a target's local        *)
(* dependencies first.  What it resolved is remembered for the whole run;  *)
(* an attempt that finds its inputs changed forgets it all and starts over.*)
(*                                                                         *)
(* Sources are version numbers, Shape is the export shape of a version.    *)
(* Snapshots are numbered in the order of publication; 0 is none.          *)
(***************************************************************************)
EXTENDS Integers, Sequences, FiniteSets

CONSTANTS
  Modules,        \* module checkouts
  Deps,           \* local dependencies: go.mod requirements found on disk
  Siblings,       \* workspace modules imported without a requirement
  Tracked,        \* checkouts inside a Git repository
  Settled,        \* checkouts whose coverage another load would not improve
  Shape,          \* export shape of a version
  Runs, Targets, Forced, ProcessOf,
  IndexAttempts,  \* indexAttempts
  MaxEdits,       \* bound: edits of all the checkouts
  Reverts,        \* an edit may restore an earlier version
  None

Versions == 0..MaxEdits
Needs(m) == Deps[m] \cup Siblings[m]

ASSUME IndexRunConstants ==
  /\ Deps \in [Modules -> SUBSET Modules] /\ Siblings \in [Modules -> SUBSET Modules]
  \* Siblings are leaves: confirming one confirms nothing else.
  /\ \A m \in Modules : \A s \in Siblings[m] : Needs(s) = {}
  /\ Targets \in [Runs -> Seq(Modules)]
  /\ IndexAttempts \in Nat \ {0} /\ MaxEdits \in Nat /\ Reverts \in BOOLEAN
  /\ None \notin Versions
  \* Local dependencies that form a cycle are indexed as a group (CycleGroups).
  /\ \E height \in [Modules -> 1..Cardinality(Modules)] :
       \A m \in Modules : \A d \in Deps[m] : height[d] < height[m]

VARIABLES
  disk,        \* the version of each checkout's sources
  edits,
  heads,       \* location_heads
  snaps,       \* snapshots
  checkpoints, \* index_checkpoints, by request
  run

vars == <<disk, edits, heads, snaps, checkpoints, run>>

NoSnapshots == [m \in Modules |-> 0]
NoInputs == [m \in Modules |-> None]
Key(r) == Targets[r]
Keys == {Key(r) : r \in Runs}

\* One IndexModules call: the module, what was discovered, the dependency snapshots
\* linked so far, the head it reuses or bases on, and the shapes the load saw.
Frame(m) == [module |-> m, step |-> "read", content |-> None, links |-> NoSnapshots,
             reuse |-> 0, base |-> 0, seen |-> NoInputs]

\* A run: where it is, the targets left, the frames of the target at hand, its memo,
\* attempt, checkpoint inputs, results, failed targets, and the run it joined.
IdleRun == [pc |-> "idle", left |-> <<>>, stack |-> <<>>, memo |-> NoSnapshots, attempt |-> 1,
            inputs |-> NoInputs, eligible |-> TRUE, read |-> NoInputs,
            results |-> NoSnapshots, failed |-> {}, of |-> None]

Init ==
  /\ disk = [m \in Modules |-> 0]
  /\ edits = 0
  /\ heads = NoSnapshots
  /\ snaps = <<>>
  /\ checkpoints = [k \in Keys |-> None]
  /\ run = [r \in Runs |-> IdleRun]

Set(r, new) == run' = [run EXCEPT ![r] = new]
Top(r) == Head(run[r].stack)
SetTop(me, new) == [me EXCEPT !.stack = <<new>> \o Tail(@)]
Busy(r) == run[r].pc = "work" /\ (run[r].left # <<>> \/ run[r].stack # <<>>)

-----------------------------------------------------------------------------
\* Mutant: the last fingerprint counts.
ObservedLast(me, seen) ==
  IF ~me.eligible THEN me
  ELSE IF ~(seen \subseteq Tracked) THEN [me EXCEPT !.eligible = FALSE]
  ELSE [me EXCEPT !.inputs = [m \in Modules |-> IF m \in seen THEN disk[m] ELSE @[m]]]

\* observeCheckpoint: the first fingerprint of a repository is the one that counts.
Observed(me, seen) ==
  IF ~me.eligible THEN me
  ELSE IF ~(seen \subseteq Tracked) THEN [me EXCEPT !.eligible = FALSE]
  ELSE [me EXCEPT !.inputs = [m \in Modules |-> IF m \in seen /\ @[m] = None THEN disk[m] ELSE @[m]]]

\* refresh: the fingerprints, now, of the repositories a checkpoint lists.
Refreshed(inputs) == [m \in Modules |-> IF inputs[m] = None THEN None ELSE disk[m]]

\* catalog: the registered locations, and the sibling shapes their heads recorded.
Catalog == [m \in Modules |->
  CASE heads[m] = 0 -> <<>>
    [] Siblings[m] = {} -> <<"location">>
    [] OTHER -> <<heads[m], [s \in Siblings[m] |-> snaps[heads[m]].seen[s]]>>]

HeadsCurrent(expected) == \A m \in Modules : expected[m] # 0 => heads[m] = expected[m]

-----------------------------------------------------------------------------
\* startModuleRun: join an identical run in progress, or start.
Started(r) ==
  LET same == {q \in Runs \ {r} : /\ Busy(q) /\ ProcessOf[q] = ProcessOf[r]
                                  /\ Key(q) = Key(r) /\ (q \in Forced) = (r \in Forced)} IN
  IF same # {} THEN [IdleRun EXCEPT !.pc = "joined", !.of = CHOOSE q \in same : TRUE]
  ELSE [IdleRun EXCEPT !.pc = "work", !.left = Targets[r]]

\* StartModulesTask: a forced request has no checkpoint key; without a stored
\* checkpoint, or when the sources it lists changed, the run indexes.
Start(r) ==
  LET stored == checkpoints[Key(r)] IN
  /\ run[r].pc = "idle"
  /\ IF r \in Forced \/ stored = None THEN Set(r, Started(r))
     ELSE Set(r, [IdleRun EXCEPT !.pc = "catalog", !.read = Refreshed(stored.inputs), !.of = stored])
  /\ UNCHANGED <<disk, edits, heads, snaps, checkpoints>>

\* prepareCheckpoint: the digest covers the sources and the catalog.
CompareDigest(r) ==
  LET stored == run[r].of IN
  /\ run[r].pc = "catalog"
  /\ IF run[r].read = stored.inputs /\ Catalog = stored.catalog
     THEN Set(r, [run[r] EXCEPT !.pc = "heads"])
     ELSE Set(r, Started(r))
  /\ UNCHANGED <<disk, edits, heads, snaps, checkpoints>>

CompareHeads(r) ==
  LET stored == run[r].of IN
  /\ run[r].pc = "heads"
  /\ IF HeadsCurrent(stored.heads)
     THEN Set(r, [run[r] EXCEPT !.pc = "reused", !.results = stored.results, !.of = None])
     ELSE Set(r, Started(r))
  /\ UNCHANGED <<disk, edits, heads, snaps, checkpoints>>

-----------------------------------------------------------------------------
\* discoverRequestedModules, up to the walk over the sources.
BeginTarget(r) ==
  LET me == run[r] IN
  /\ me.pc = "work" /\ me.stack = <<>> /\ me.left # <<>>
  /\ Set(r, [Observed(me, {Head(me.left)}) EXCEPT !.stack = <<Frame(Head(me.left))>>])
  /\ UNCHANGED <<disk, edits, heads, snaps, checkpoints>>

\* populateRoot: read the sources, then observe every module of the workspace.
Read(r) ==
  LET me == run[r]  top == Top(r) IN
  /\ me.pc = "work" /\ me.stack # <<>> /\ top.step = "read"
  /\ Set(r, SetTop(Observed(me, {top.module} \cup Needs(top.module)),
                   [top EXCEPT !.step = "deps", !.content = disk[top.module]]))
  /\ UNCHANGED <<disk, edits, heads, snaps, checkpoints>>

Unlinked(top) == {d \in Deps[top.module] : top.links[d] = 0}

\* indexLocalDependencies: the remembered snapshot, or an index of the dependency.
LinkDependency(r) ==
  LET me == run[r]  top == Top(r) IN
  /\ me.pc = "work" /\ me.stack # <<>> /\ top.step = "deps"
  /\ \E d \in Unlinked(top) :
       IF me.memo[d] # 0 THEN Set(r, SetTop(me, [top EXCEPT !.links[d] = me.memo[d]]))
       ELSE Set(r, [Observed(me, {d}) EXCEPT !.stack = <<Frame(d)>> \o @])
  /\ UNCHANGED <<disk, edits, heads, snaps, checkpoints>>

\* confirmLocation: what the run published or confirmed, else a head that is reusable.
Confirmed(r, s) ==
  IF run[r].memo[s] # 0 THEN run[r].memo[s]
  ELSE IF heads[s] # 0 /\ snaps[heads[s]].content = disk[s] THEN heads[s]
  ELSE 0

\* headReuse: sources, dependencies and every sibling's shape are the head's.
Reusable(r, top) ==
  LET h == heads[top.module] IN
  /\ h # 0
  /\ snaps[h].content = top.content
  /\ snaps[h].links = top.links
  /\ \A s \in Siblings[top.module] :
       /\ Confirmed(r, s) # 0
       /\ Shape[snaps[Confirmed(r, s)].content] = snaps[h].seen[s]

\* Only the target itself is forced, never a dependency indexed on the way.
IsForced(r) == r \in Forced /\ Len(run[r].stack) = 1

\* extractOrReuse: the unchanged check.
CheckHead(r) ==
  LET me == run[r]  top == Top(r) IN
  /\ me.pc = "work" /\ me.stack # <<>> /\ top.step = "deps" /\ Unlinked(top) = {}
  /\ IF ~IsForced(r) /\ Reusable(r, top)
     THEN Set(r, SetTop(me, [top EXCEPT !.step = "publish", !.reuse = heads[top.module]]))
     ELSE Set(r, SetTop(me, [top EXCEPT !.step = "extract"]))
  /\ UNCHANGED <<disk, edits, heads, snaps, checkpoints>>

\* Mutant: a retry that is not counted.
ChangedUncounted(me) == [me EXCEPT !.stack = <<>>]

\* indexTarget and the task's retries: forget everything and start the target over,
\* or report it failed after the last attempt.
Changed(me) ==
  LET again == [me EXCEPT !.stack = <<>>, !.memo = NoSnapshots] IN
  IF me.attempt < IndexAttempts THEN [again EXCEPT !.attempt = @ + 1]
  ELSE [again EXCEPT !.attempt = 1, !.left = Tail(@), !.failed = @ \cup {Head(me.left)}]

\* loadTyped: the load reads the module again, which must not have changed, and
\* whatever its dependencies and siblings are by now.
Extract(r) ==
  LET me == run[r]  top == Top(r) IN
  /\ me.pc = "work" /\ me.stack # <<>> /\ top.step = "extract"
  /\ IF disk[top.module] # top.content THEN Set(r, Changed(me))
     ELSE Set(r, SetTop(me, [top EXCEPT
            !.step = "publish",
            !.base = IF IsForced(r) THEN 0 ELSE heads[top.module],
            !.seen = [d \in Modules |-> IF d \in Needs(top.module) THEN Shape[disk[d]] ELSE None]]))
  /\ UNCHANGED <<disk, edits, heads, snaps, checkpoints>>

\* Mutant: a dependency whose head stands is taken to have the sources of its head.
VerifiedByHeads(top) ==
  /\ disk[top.module] = top.content
  /\ \A d \in Deps[top.module] : heads[d] = top.links[d]

\* verifyIndexInputs: the sources are the extracted ones, each local dependency's head is
\* the linked snapshot, and its sources are that snapshot's.
Verified(top) ==
  /\ disk[top.module] = top.content
  /\ \A d \in Deps[top.module] : /\ heads[d] = top.links[d]
                                 /\ disk[d] = snaps[top.links[d]].content

\* indexModule: the location's head is still the one reused or based on.
BaseHolds(top) ==
  LET h == heads[top.module] IN
  IF top.reuse # 0 THEN h = top.reuse ELSE top.base \in {0, h}

Unchanged(r, top) ==
  LET h == heads[top.module] IN
  \/ top.reuse # 0
  \/ /\ ~IsForced(r) /\ h # 0
     /\ snaps[h].content = top.content /\ snaps[h].links = top.links /\ snaps[h].seen = top.seen

\* rememberModules, and the next target when this was one.
Finished(me, top, id) ==
  LET popped == [me EXCEPT !.stack = Tail(@), !.memo[top.module] = id] IN
  IF Len(me.stack) > 1 THEN popped
  ELSE [popped EXCEPT !.results[top.module] = id, !.left = Tail(@), !.attempt = 1]

\* publishModules: one transaction.
Publish(r) ==
  LET me == run[r]  top == Top(r)  id == Len(snaps) + 1 IN
  /\ me.pc = "work" /\ me.stack # <<>> /\ top.step = "publish"
  /\ \/ /\ ~(Verified(top) /\ BaseHolds(top))
        /\ Set(r, Changed(me))
        /\ UNCHANGED <<heads, snaps>>
     \/ /\ Verified(top) /\ BaseHolds(top) /\ Unchanged(r, top)
        /\ Set(r, Finished(me, top, heads[top.module]))
        /\ UNCHANGED <<heads, snaps>>
     \/ /\ Verified(top) /\ BaseHolds(top) /\ ~Unchanged(r, top)
        /\ snaps' = Append(snaps, [module |-> top.module, content |-> top.content,
                                   links |-> top.links, seen |-> top.seen, run |-> r])
        /\ heads' = [heads EXCEPT ![top.module] = id]
        /\ Set(r, Finished(me, top, id))
  /\ UNCHANGED <<disk, edits, checkpoints>>

-----------------------------------------------------------------------------
\* Wait: the results, once every task ended; a run without failures saves its
\* checkpoint if the sources are still what it first observed.
Wait(r) ==
  LET me == run[r]
      saves == /\ me.failed = {} /\ r \notin Forced /\ me.eligible
               /\ Refreshed(me.inputs) = me.inputs IN
  /\ me.pc = "work" /\ me.left = <<>> /\ me.stack = <<>>
  /\ Set(r, [me EXCEPT !.pc = IF saves THEN "saving" ELSE "done"])
  /\ UNCHANGED <<disk, edits, heads, snaps, checkpoints>>

\* save: the heads are those of the modules the run still remembers.
SaveHeads(r) ==
  LET memo == run[r].memo
      saves == (\A m \in Modules : memo[m] # 0 => m \in Settled) /\ HeadsCurrent(memo) IN
  /\ run[r].pc = "saving"
  /\ Set(r, [run[r] EXCEPT !.pc = IF saves THEN "storing" ELSE "done"])
  /\ UNCHANGED <<disk, edits, heads, snaps, checkpoints>>

SaveCheckpoint(r) ==
  LET me == run[r] IN
  /\ me.pc = "storing"
  /\ checkpoints' = [checkpoints EXCEPT ![Key(r)] =
       [inputs |-> me.inputs, catalog |-> Catalog, results |-> me.results, heads |-> me.memo]]
  /\ Set(r, [me EXCEPT !.pc = "done"])
  /\ UNCHANGED <<disk, edits, heads, snaps>>

\* A joined request waits for the run it joined and saves nothing.
WaitJoined(r) ==
  LET of == run[r].of IN
  /\ run[r].pc = "joined" /\ ~Busy(of)
  /\ Set(r, [run[r] EXCEPT !.pc = "done", !.results = run[of].results, !.failed = run[of].failed, !.of = None])
  /\ UNCHANGED <<disk, edits, heads, snaps, checkpoints>>

\* Somebody edits a checkout.
Edit(m) ==
  /\ edits < MaxEdits
  /\ \E v \in Versions :
       /\ IF Reverts THEN v # disk[m] ELSE v = disk[m] + 1
       /\ disk' = [disk EXCEPT ![m] = v]
  /\ edits' = edits + 1
  /\ UNCHANGED <<heads, snaps, checkpoints, run>>

Step(r) ==
  \/ Start(r) \/ CompareDigest(r) \/ CompareHeads(r)
  \/ BeginTarget(r) \/ Read(r) \/ LinkDependency(r) \/ CheckHead(r) \/ Extract(r) \/ Publish(r)
  \/ Wait(r) \/ SaveHeads(r) \/ SaveCheckpoint(r) \/ WaitJoined(r)

Next == (\E r \in Runs : Step(r)) \/ (\E m \in Modules : Edit(m))

Spec == Init /\ [][Next]_vars
FairSpec == Spec /\ \A r \in Runs : WF_vars(Step(r))

-----------------------------------------------------------------------------
Ids == 0..Len(snaps)

\* Every variable holds what its column or field may hold; heads belong to their module.
IndexTypeOK ==
  /\ disk \in [Modules -> Versions] /\ edits \in 0..MaxEdits
  /\ \A m \in Modules : heads[m] \in Ids /\ (heads[m] # 0 => snaps[heads[m]].module = m)
  /\ \A r \in Runs :
       /\ run[r].pc \in {"idle", "catalog", "heads", "reused", "work", "saving", "storing", "joined", "done"}
       /\ run[r].attempt \in 1..IndexAttempts
       /\ run[r].memo \in [Modules -> Ids] /\ run[r].results \in [Modules -> Ids]

\* A snapshot never mixes versions: the shapes it was type-checked against are those of
\* the dependency snapshots it links (verifyIndexInputs, src/indexer/verify_inputs.go:18).
\* It holds when no edit restores an earlier version.
FactsMatchDependencies ==
  \A i \in DOMAIN snaps : \A d \in Deps[snaps[i].module] :
    snaps[i].seen[d] = Shape[snaps[snaps[i].links[d]].content]

\* A target is reported as failed only when its inputs changed under every one of its
\* attempts: by an edit, or by what another run published.  A retry that kept anything
\* the run remembered would fail again without a change (src/indexer/task.go:305).
FailuresAreChanges ==
  \A r \in Runs : run[r].failed # {} /\ run[r].pc # "joined" =>
    edits + Cardinality({i \in DOMAIN snaps : snaps[i].run # r}) >= IndexAttempts

\* What a run publishes and reports is of the sources it read, however runs and edits interleave.
RunsPublishWhatTheyRead == IndexTypeOK /\ FactsMatchDependencies /\ FailuresAreChanges

\* A reused index is what indexing would have produced from the sources the request read:
\* every result has the sources, and the sibling shapes, that were on disk
\* (prepareCheckpoint, src/indexer/checkpoint.go:32).  No edit restores a version.
ReusedIndexIsCurrent ==
  \A r \in Runs : run[r].pc = "reused" =>
    \A t \in 1..Len(Targets[r]) :
      LET m == Targets[r][t]  snap == snaps[run[r].results[m]]  read == run[r].read IN
      /\ run[r].results[m] # 0
      /\ snap.content = read[m]
      /\ \A d \in Needs(m) : read[d] # None /\ snap.seen[d] = Shape[read[d]]

\* A request whose snapshot head moved takes the normal path: the results of a reused
\* index are the heads of their locations (src/indexer/checkpoint_integration_test.go).
ReusedResultsAreHeads ==
  [][\A r \in Runs : run[r].pc = "heads" /\ run'[r].pc = "reused" =>
       \A t \in 1..Len(Targets[r]) : run'[r].results[Targets[r][t]] = heads[Targets[r][t]]]_vars

\* Every request ends, however the runs interleave: in the end none is under way.
NoRunUnderWay == \A r \in Runs : run[r].pc \in {"done", "reused"}
RunsEnd == <>NoRunUnderWay
=============================================================================
