# A formal model of the uir snapshot index

uir indexes source code into a relational database (PostgreSQL or SQLite) as a history of immutable,
delta-encoded snapshots, numbers the symbols it finds with compact handles, and answers queries over
the result through an in-process cache. Around that core are the runs that index checkouts, versions
and revisions, a server, a query language, diffs and graphs over what is stored, and the intermediate
representation (IR) everything is stored in. This directory holds TLA+ modules that model them, TLC
configurations that check them on small instances, and TLAPS proofs, for all instances, of the safety
properties of the core, of index runs, of historical revisions and of the server. `PROJECT.json` maps every definition to the lines it models and lists runs, mutants,
hazards, findings and theorems.

## 1. The system

### Components, their state and their operations

| Component | State | Operations | Modelled by |
| --- | --- | --- | --- |
| Delta chains (`storage/effective_sources.go`, `indexer/modules_sources.go`) | base pointers, `source_deltas`, `document_deltas` | resolve what a snapshot serves; write the difference to a base | `DeltaChain` |
| Snapshot publication (`indexer/publication.go`, `modules_locations.go`, `verify_inputs.go`, `storage/allocation.go`, `surrogates.go`) | `snapshots`, `location_heads`, `primary_locations`, `source_revisions`, `documents`, `source_blobs`, `snapshot_dependencies` | extract or reuse, verify inputs, register a root, lock and read the base, write rows, advance the head, retry | `SnapshotStore` |
| History pruning (`storage/prune_history.go`, `prune_apply.go`) | the same tables, `history_prunes.epoch` | list, plan, rebase, delete, advance the epoch | `SnapshotStore` |
| Symbol handles (`storage/symbol_handles.go`, `symbolhandle/`, `prune_symbols.go`, `indexer/modules_documents.go`) | `symbol_modules`, `symbol_packages`, `symbols`, postings, symbol and implements deltas | register, number, upsert and read back, delete orphans | `SymbolHandles` |
| Query cache (`query/index_cache.go` and its users) | token, generation with selections, symbol facts | validate, select, resolve handles, read postings | `QueryCache` |
| Symbol generations (`storage/symbol_generations.go`, `indexer/symbol_deltas.go`) | `symbol_deltas.content_generation`, the backfill marker | count along a chain, backfill at open, resume | `SymbolGenerations` |
| Opening a database (`storage/database.go`, `handle_cutover.go`, `membership_cutover.go`, `snapshot_stats.go`, `readonly.go`) | schema, layout row, membership marker, digests, recorded counts | detect, discard, migrate, carry over in steps, refuse read-only | `OpenDatabase` |
| Index runs, memo, checkpoints (`indexer/task.go`, `modules.go`, `run_memo.go`, `checkpoint.go`) | runs and attempts, per-run maps, `index_checkpoints` | reuse, join, index dependencies first, verify, publish, forget and retry, save | `IndexRun` |
| Dependency graphs (`indexer/versioned_dependency_graph.go`, `dependency_targets.go`, `dependency_cycle_publish.go`) | resolved versions, components, pending edges | resolve, reuse, check out, publish a component or a local cycle at once | `VersionGraph`, `CycleGroups` |
| Historical revisions (`indexer/revision*.go`) | scratch worktrees, joined runs, the pinned base | probe, join, check out, extract, publish, clean up | `RevisionIndex` |
| Server (`cmd/uir/serve.go`, `module_index_commands.go`, `refactor_service.go`, `storage/taskruns`) | handlers, detached runs, the preview hash | accept, preview, apply, interrupt, drain, close | `ServeRuntime` |
| Query language (`query/grammar.peg.go`, `parser.go`, `compact_*.go`, `selector_*.go`) | none | parse, quote, select, relate, walk calls, union and intersect | `QuerySyntax`, `QueryEval` |
| Indexed graph (`query/graph*.go`) | none | draw, exclude, compare with an earlier snapshot, guards of a site | `IndexGraph`, `SiteGuards` |
| Call graph (`graph/`) | the walk's queue and counts | resolve, absorb, walk, fold | `CallGraph`, `SiteGuards` |
| Symbol diff (`symboldiff/`) | none; the patch parser's section | pair, classify, count lines, write and cut, read a patch | `SymbolPairs`, `ShapeLines`, `PatchReader` |
| IR (`*.go` at the top, `diff/`) | trees | build, place, merge, coalesce, encode, decode, walk, hash, fingerprint, diff | `IRNodes`, `IRCodec`, `BodyWalk`, `NodeDiff` |
| Extraction, SQL lowering, lint, test runs, producers, catalog, analyses, rendering, ports | mostly none | data transformation and I/O | not modelled, see section 7 |

### How they interact

A run discovers modules, resolves each local dependency to the head snapshot of the depended-on
checkout, and extracts. Nothing is locked meanwhile. It then opens one transaction that verifies that
what discovery saw is still so, locks the location's head row, reads the base, writes symbols,
documents, deltas and edges, and moves the head. Several processes may do this at once on PostgreSQL;
the unique and foreign keys and the head's version arbitrate. A prune is one transaction over one
root, concurrent with all of that. Queries are sequences of statements outside any transaction; they
share a cache whose validity is judged by a token of counters, the prune epoch among them.

A request to index becomes a run: it is answered from a checkpoint, joins an identical run of its
process, or indexes its targets, local dependencies first, and remembers what it resolved until an
attempt fails because inputs changed. Versions and local cycles are published a strongly connected
component at a time; a revision is checked out into a scratch worktree and published beside the head.
The server answers with a run's id while the run goes on, and waits for it before it closes the
database. The rest are functions of what is stored: a diff of two snapshots, a graph, the answer to a
query, and the IR's encodings and fingerprints that the rows hold.

### What is hard here

- **Check and use far apart.** Dependency targets, the base, stored documents, blob rows and handles
  are read before they are relied on, and prunes commit in between.
- **No counters.** Ordinals, module and package numbers and locals are "largest stored plus one". Two
  transactions pick the same number, and a prune may lower the maximum of a handle bucket, so handles
  are reused.
- **Rewriting immutable data.** A prune rewrites a kept snapshot without its base.
- **Shared rows without foreign keys.** `source_blobs` are shared through their hash alone.
- **Caches across reuse.** A cached handle outlives the symbol it named.
- **Upgrades while in use.** Older binaries write rows the current one has to complete, at any time,
  and every process that opens the database completes them.
- **Retries.** A lost number runs the whole transaction again, at most three times; changed inputs run
  a target again, with everything the run remembered thrown away.
- **Remembered results.** Checkpoints, memos, joined runs and reused revisions answer without looking
  at everything again.
- **Cleaning up.** Worktrees, detached runs and half-done cutovers outlive the process that began them.
- **Shortcuts.** Diffs, graphs and queries decide what to read before they read it, and must not answer
  differently for it.

### What makes each component correct

- *Delta chains*: a snapshot serves its own delta over what its base serves; a difference reproduces
  its target.
- *Publication*: a snapshot serves its request; heads never lose an update; calls end.
- *Pruning*: surviving snapshots serve what they served; no reference dangles; a prune never trips
  over its own plan; pruning twice is pruning once; bytes that only the database has are kept.
- *Handles*: a handle names one symbol and carries that symbol's module, package and bucket; rows keep
  naming the symbol they were written for; orphans are really unused.
- *Generations*: a symbol's generation is the number of implementations it has had, whoever counted
  them and whatever was pruned; what was answered stays; an interrupted cutover is resumed.
- *Query cache*: a query that no prune overlaps is answered as if there were no cache.
- *Opening*: an index is carried over whole, however often that is interrupted; nothing that is kept
  is lost, and a read-only open accepts only what is whole.
- *Indexing*: what is published is of the inputs that were read, what is reused is current, the members
  of a cycle are of one publication, a version is of the commit its tag names, a revision is answered
  once and leaves nothing behind, and every run ends.
- *Serving*: an accepted run is recorded, a reviewed patch is the one written, shutdown ends.
- *Algorithms*: each computes what a plain definition says, told in the module's second half.

## 2. The modules

`DeltaChain` has the vocabulary: snapshots, file sets, deltas, and the resolution the code does in one
recursive SQL query (`Chain`, `Naming`, `Nearest`, `Effective`): of the chain's snapshots that name a
path, the nearest one wins, and a tombstone means absent. `Difference` is the delta a publication or a
rebase writes. The chain is defined as the least set closed under bases, not recursively, so that it
can be proved about.

`SnapshotStore` extends it with the tables and two kinds of process.

| Action | Code | What happens |
| --- | --- | --- |
| `Extract` | `extractOrReuse` and discovery | reads heads without a lock; a matching head is to be reused |
| `Begin` | `indexModule` up to the publication | `verifyIndexInputs`, `ensureModuleLocation`, `loadModuleBase` with its row lock; stops when inputs moved or nothing changed |
| `Write` | `publishSnapshot`, `baseMembership` | the reads that inserts rely on: the base's files, stored documents and blobs, the next ordinal |
| `Commit` | `publishSnapshotRows`, `publishBlobsAndEdges`, `advanceHead` | rows appear, the head moves; historical snapshots leave it alone |
| `OrdinalTaken`, `AllocationLost` | `RetryAllocationConflicts` | roll back, run again |
| `PublicationRefused`, `Abort` | foreign keys, head version; errors and crashes | roll back |
| `PruneList`, `PrunePlan`, `PruneApply`, `PruneEnd` | `planPrune`, `keptSnapshots`, `prunePlan.apply` | list, keep to a fixpoint, rebase and delete, or give up |

Open transactions keep their reads and pending writes in `txn`, so a READ COMMITTED interleaving is an
interleaving of actions. `SerialWriters` gives SQLite: one transaction at a time.

`SnapshotHistory` is the abstract specification: a set of immutable file sets, a head per location,
`Append` and `Forget`. `SnapshotStore!ImplementsHistory` is the refinement.

`SymbolHandles` models a publication's symbols as two steps, the reads (`Assign`: `neededSymbols`,
`resolveModules`, `resolvePackages`, `firstFree`) and the writes (`Commit`: `UpsertSymbols`, the read
back in `ensureSymbols`, postings and facts), and a prune of a root down to its head. A row remembers,
in `means`, the symbol it was written for; the code has no such column, and the properties compare it
with what the handle names now.

`HandleIndex` is the abstract index: symbols with handles, snapshots naming them, publications and
prunes as single steps. `SymbolHandles!ImplementsIndex` is the refinement; it maps the rows that documents
have (`DocumentRows`), because a row of an implements fact can lose its symbol (finding 2). And `QueryCache` extends
`HandleIndex`, so that what queries are checked against is what the allocator is shown to provide.

`QueryCache` runs queries statement by statement over it: `Start` and `ReadCounts` are the two reads
of the token, `Validate` and `Install` the two critical sections of `indexCache.current`, `Select`,
`KeepSelection`, `Capture`, `HandleKept`, `ReadHandle`, `KeepHandle` and `ReadPostings` the rest.
Generations and fact tables are heap objects that queries may hold after the cache dropped them;
object identities nobody holds are used again.

`SymbolGenerations` extends `DeltaChain` once more: its paths are symbol handles, its contents are
declarations, and `BodyOf` gives a declaration's `content_fp`, so that two contents may differ in their
signature only. Each row has a generation or `Null`. `Publish` and `Prune` are the parts of a publication
and of a prune that read and write generations; `OldPublish` is an older binary's publication. Opening
the database is a process of its own steps, each a statement or a transaction of
`cutOverSymbolGenerations`: `ReadMarker`, `FindLowest`, `SaveMarker`, `ListSnapshots`, then `ReadBase`
and `Fill` for each snapshot, `Complete`; `Stop` ends a process anywhere. `memo` holds the maps it keeps,
at most `MemoSize`. `history` remembers what was declared along each chain when it was published, which
no table does; the properties count implementations there.

### Opening, indexing and serving

`OpenDatabase`: one action per statement or transaction of `UirDB`: `Detect`, `Discard`, `Migrate`,
`RecordLayout`, `StartMembership`, `DigestBatchStep` (a batch of documents), `MemberStep` (a snapshot's
membership rows), `CompleteMembership`, `BackfillStats`; `Stop` between any two; `Publish` and
`Register` once it is open; and a read-only opener. A database starts as any generation that a release
could have left.

`IndexRun`: a run is a stack of modules it is indexing, what it remembers, the targets left and an
attempt. `Start`, `CompareDigest` and `CompareHeads` are the checkpoint's reuse; `BeginTarget`, `Read`,
`LinkDependency`, `CheckHead`, `Extract`, `Publish` index a module; `Changed` is the retry and
`memo.forget`; `SaveHeads` and `SaveCheckpoint` the two halves of `checkpoint.save`; `Wait` and
`WaitJoined` the shared run. `Edit` changes a checkout at any time.

`VersionGraph`: `Resolve` and `ExpandVersionedNode` look versions up, `Discovered` cuts the graph into
components, then a component is reused (`ReuseRevision`, `ReuseVersionedGraph`) or extracted and
published (`ExtractVersion`, `PublishGroup`). `Retag` and `PruneVersions` interfere.

`CycleGroups`: `ReadGraph`, then for each group `RememberedGroup`, `CheckHeads`, `ReuseGroup` or
`CreateGroup`, which verifies every member and everything they require in the publishing transaction.

`RevisionIndex`: a request probes and then starts or joins a run; each checks the commit out
(`MakeScratch`, `AddWorktree`, `Discover`), tries `ReusableRevision`, picks a base, extracts, publishes,
and removes the worktree, its record and the directory in three steps. Git fails, the network goes and
comes, a sibling is edited, snapshots are pruned and the process stops.

`ServeRuntime`: requests that start detached runs, a refactor's preview and apply as separate requests
that share a hash, and the shutdown from `Interrupt` to `Close` with its two timeouts.

### The algorithms

These modules take an input and compute, in one step or in the steps the code takes, and state what the
result should be by a definition of another kind.

| Module | Computes | Compared with |
| --- | --- | --- |
| `SymbolPairs` | the rows and line counts of a diff, reading only the documents it chooses | the same with everything read; every line counted once |
| `ShapeLines` | token and line diffs with their regions, the cut of a file at extents | the two sides read back from what was written |
| `PatchReader` | the files of a patch, line by line | the files the patch was written for |
| `CallGraph` | the bounded walk in both directions, absorbed nodes | the neighbourhood within the limits, and what was left out |
| `BodyWalk` | guards, relationships and hash of a body | running the body under every environment; edits that must change the hash |
| `SiteGuards` | a site's guards from source, covered sites, guards filled in | running the statements |
| `NodeDiff` | layered fingerprints and the diff of a node with its edit | the edit that was made |
| `QuerySyntax` | tokens, expression, quoting | the expression or literal that was written; the derivation |
| `QueryEval` | the value of an expression with all its shortcuts | the expression's reading as sets, paths and rows |
| `IndexGraph` | the graph and its changes since a snapshot | the two graphs compared node by node |
| `IRCodec` | both layouts of the JSON encoding | the tree that was written; refusal of spoiled documents |
| `IRNodes` | built, placed, merged and coalesced nodes | qualified names, nothing lost, independence of order |

### Instances

`MCSnapshotStore`, `MCSymbolHandles`, `MCQueryCache`, `MCSymbolGenerations` and `MCIndexRun` give the
instances of the core. `MCIndexing` puts the four ways to index into one specification, one to a
behaviour, and `MCOperations` does so for opening, serving and the algorithms: they share no state in
the model, so the behaviours of each are those of its own specification. `MCDiffInputs`, `MCTreeInputs`,
`MCIndexInputs` and `MCQuerySyntax` hold the algorithms' inputs; `MCIRCodec` and `MCOpenDatabase` the instances
of those two. The modules named `...Proofs` hold the theorems of section 4.
Definitions marked *Mutant* are the faulty variants named in `PROJECT.json`; no specification uses
them.

## 3. The runs

States are distinct states. Every run but the violations passes. Deadlock is checked in the runs of the
core; in `indexing`, `index_lost_head` and `operations` requests are served, edits are used up and
calculations end, so those may stop.

| Run | Instance | Shows |
| --- | --- | --- |
| `store_concurrent` (213K) | one module, two checkouts, one path, two contents, two publishers, a pruner, three snapshots, two attempts | references resolve and documents exist under every interleaving; snapshots are immutable; publications serve their request; heads lose no update |
| `store_serial` (43K) | two roots, three checkouts, dirty files with shared bytes, five snapshots, SQLite | bytes of dirty files stay; a prune's plan is never refused; pruning is idempotent |
| `store_liveness` (6K) | two publishers force-indexing one root's checkouts, a pruner, two snapshots, three attempts | every publication ends; the store implements `SnapshotHistory` |
| `store_blob_race` | two roots sharing bytes, PostgreSQL | **violation**, finding 1 |
| `handles_concurrent` (382K) | two roots, four symbols in two packages of two modules (one reserved), two publishers, a pruner, four publications, locals 0..1 | handles identify symbols; postings keep their meaning; the allocator implements `HandleIndex` |
| `handles_fact_race` | facts about another root's interface, PostgreSQL | **violation**, finding 2 |
| `query_cache` (2.0M) | two queries for two symbols that take one handle in turn, three publications | undisturbed queries are right, never conflict, and never see an older head |
| `generations_counts` (44K) | one process that is stopped again and again, one handle, three declarations with two implementations, three snapshots, one kept map, older binaries at any time | generations follow from their base and count implementations; in the end every row has one |
| `generations_concurrent` (164K) | two processes, one declaration, three snapshots, older binaries at any time | the marker never runs ahead; an answered generation never changes |
| `indexing` (240K) | *runs*: three checkouts with a dependency and a sibling, three requests in two processes, one forced, two attempts, one edit. *versions*: two that require each other and a third that loads badly at times, two runs, two moved tags, one prune. *revisions*: three commits, one broken, one that reads a sibling, two requests of one process, two faults. *groups*: a cycle, what it requires and a dependent, two runs, one forced, one edit, one prune | publications are of what was read; reuse is current; versions, revisions and groups are whole; every run ends |
| `index_lost_head` | two targets, the second edited while it is indexed, then the first indexed again | **violation**, finding 3 |
| `operations` (142K) | *open*: a database of every generation, a fresh one and one of another layout, one path, three hashes, batches of two, two stops. *serve*: one index and one refactor request, two edits. *algorithms*: the inputs in the `MC` modules, a few hundred to some thousand each | an index is carried over and opening ends; answers are kept and serving ends; each algorithm computes what it should |

**Bounds.** `MaxSnapshots`, `MaxPublications`, `AllocationAttempts` and the field capacities bound the
state; the guards name them. Three snapshots are a base, a snapshot on it and a third that makes the
first prunable (`Keep = 1`); a fourth and fifth let a second root depend on a doomed one. One path is
enough because paths never interact. Two contents tell an overwritten file from an inherited one. One
handle and two symbols are the shortest history in which a cached handle lies. Capacities of two
locals make overflow and reuse happen. For generations, three snapshots are a declaration, its deletion
and its return, or two branches that share the one map that is kept. (With four snapshots and two
implementations, where two bases compete for it, the two invariants of `generations_counts` hold too:
444K states, longer than the run should take with its liveness property.) Where publishers are interchangeable the run uses symmetry,
except in the liveness run.

In `indexing` and `operations` the bounds name what interferes (`MaxEdits`, `MaxRetags`, `MaxFaults`,
`MaxStops`, prunes); one edit and two attempts let a run fail, retry and fail for good; two requests are
enough for one to join the other; four checkouts hold a cycle, something below it and something above
it. An algorithm's inputs are chosen so that each of its branches is taken, and each part of its property
failed on a variant of the code that leaves a branch out.

**Composed properties.** A property of `indexing` and `operations` is a conjunction of named parts, each
with its own comment (`IndexIsCarriedOver` is five, `RevisionsAreAnswered` five, `GroupsStayTogether`
five, and so on); every part was violated by a fault of its own while the module was developed, and
`PROJECT.json` keeps one fault for each conjunction.

**Reductions in `query_cache`.** The action constraint `TellingIndexSteps` keeps the index steps that
a cache can notice: publications that name at most one symbol, prunes that delete a symbol and every
superseded snapshot. `Held` is a view that forgets heap objects no one holds. Symbol facts
are never evicted in the code; the bounded tables (documents, snapshots) are not modelled. Name
resolution reads rows whether or not their handles are kept, so `ReadHandle` is always allowed.

**Fairness** (`SnapshotStore!FairSpec`, used by `store_liveness`). A call that was started keeps running, so
`Write` and the committing step are weakly fair, and the prune's steps are too. `Begin` is strongly
fair because it may wait for a row lock that others take again and again, and PostgreSQL's lock queue
serves waiters in order (as does SQLite's connection pool). Nothing is assumed about `Extract`
(a user's request), about `Abort`, or about losing a race: a publication ends although it may lose
three times.

`SymbolGenerations!FairSpec`, used by `generations_counts`: commands are run again and again and each of
them ends (weak fairness of `ReadMarker` and `Stop`). A command may be stopped at any point of any open,
but not at the same point of every open (strong fairness of the steps up to `Fill`). Nothing is assumed
about `Complete`, publications and prunes.

`indexing`: a run's and a request's own steps are weakly fair (`Step`, `RevisionStep`): a goroutine that
can go on does. `operations`: an opener's steps and, of the server, the closing of the listener and the
two timers with what follows them; nothing is assumed of handlers and detached runs, which may hang.
Edits, retags, prunes, faults, stops and interrupts need not happen.

**Mutants.** Every property of every passing run is violated by a plausible fault of the code it is
about: a missing foreign key, an upserted first head, a rebase that only clears the base, a difference
without tombstones, unique keys that do not exist, rows not read back, a token that ignores heads, a
cache kept across prunes, a retry that does not count its attempts, a group of which only the members are
verified, a detached run that is not counted, a layout that is not looked at, and so on (`PROJECT.json`).

## 4. What is proved

Eight modules hold proofs that TLAPS checks, for every value of the constants: any number of
snapshots, publishers, queries, requests, runs and modules, infinite sets included where nothing says
otherwise. Each theorem that states a property of a run says for all instances what the run shows on one.

### Assumptions

Every constant is constrained by one named assumption of the module that declares it, and TLC evaluates
each on the instances of the runs.

| Assumption | Says |
| --- | --- |
| `ChainAssumption` (`DeltaChain`), `ConstantsAssumption` (`SnapshotStore`) | marker values are distinct, `RootOf` maps locations to roots, requests are well typed, `Keep` and the attempts are positive |
| `HandleConstants` (`SymbolHandles`) | a symbol has one package, bucket and possibly an owner; an owner's owner is in the closure that a publication takes; reserved module numbers differ and lie below the first allocated one; the order in which names are numbered is total |
| `IndexConstants` (`HandleIndex`), `QueryConstants` (`QueryCache`) | `NoHandle` and `Nothing` are no handle and no snapshot; finitely many queries |
| `GenerationConstants` (`SymbolGenerations`) | every declaration has a body fingerprint, and `NotFound` is none |
| `RevisionConstants` (`RevisionIndex`) | commits are numbered, with a newest one; each request belongs to a process and asks for a commit |
| `IndexRunConstants` (`IndexRun`) | local dependencies have no cycle (cycles are indexed by `CycleGroups`); siblings are leaves; `None` is no version |
| `OpenConstants` (`OpenDatabase`) | finitely many paths; a rendering has a digest; a batch digests a document at least; a database that is found has no rows if its generation is stale, else every snapshot's inputs select a document, and nothing was carried over yet |
| `GroupConstants` (`CycleGroups`) | finitely many checkouts; a dependency is a checkout; a run has a list of targets and at least one attempt |
| `VersionConstants` (`VersionGraph`) | finitely many versions, ordered; a commit requires versions; a tag names a commit whose requirements are known, or none |

Nine theorems carry a hypothesis in their statement. `SerialWriters` (one transaction at a time, as SQLite has it) is assumed by `LonePrunesAreNeverRefused`,
`DirtyBytesStayRetained` and `LonePrunesAreIdempotent`: without it the second is finding 1, and publications that commit between a prune's
reads and its deletion make its plan incomplete, which is what the foreign keys refuse.
`~Reverts` (no edit restores a version a checkout had before) is assumed by the three theorems about
index runs: inputs are compared by content, so an edit that is taken back goes unnoticed (section 5).
`OneOpener` (no two processes open the database read-write at once) is assumed by the two theorems about
opening: with two, an index can be discarded (section 5). Stops, later opens and readers are not limited.
`TargetsInOrder` (a forced run indexes a target after what it depends on, unless each depends on the other)
is assumed by `CyclesStayTogether`. Runs that are not forced need no order. A forced run republishes a
target although an earlier one has linked it, and a third target that needs both then links two of its
snapshots: on three checkouts, the second required by the first and both by the third, TLC reaches that
(`LinksAreOneGeneration` fails) when they are forced in this order. `enclosingFirst` orders targets by the
packages they import, but puts a nested module after the one it is nested in, and does not see a
dependency that only a module outside the run, or no import at all, stands for; the theorem says nothing
of forced runs over such targets.

### Chains and the store

1. *Chains* (`DeltaChainProofs`). If bases have lower ordinals and are stored (`WellBased`), the chain of
   `s` is `s` and the chain of its base, chains are linear, and so `Effective` unfolds
   (`EffectiveUnfold`): what the single SQL query returns is the snapshot's delta over what the base
   serves. `ChainInduction` is derived from least elements of sets of naturals, since the library's
   induction theorems take operators. `DifferenceServes`: a difference written over a base reproduces the
   intended files. `RewritePreserves`: replacing rows by differences from nothing, and leaving the rest,
   changes what no remaining snapshot serves.
2. *The store* (`SnapshotStoreProofs`). The checked invariants are not inductive. A commit needs to know
   that the delta it computed earlier is still the difference to its base although prunes may have
   rebased that base since, that its ordinal exceeds its base's, and that its base is the head whenever
   the version is still what it read: `CallOK`. A prune needs that its list and kept set name only
   identities that exist: `PrunerOK`. `Inv` joins these to the tables' own invariant `StoreOK`. `Frame`
   states what any step leaves alone for other calls; `CallFramed` shows that it preserves their `CallOK`,
   so each action is proved once for its own caller. Theorems: `TypeCorrect`, `ReferencesAlwaysResolve`,
   `ServedDocumentsAlwaysExist`, `SnapshotsStayImmutable`, `PublicationsServeTheirRequest`,
   `HeadsNeverLoseAnUpdate`, and the refinement `StoreImplementsHistory`.
3. *One writer at a time.* `SerialInv` adds what holds when nothing runs beside a transaction: what a
   prune listed is still all its root has and its kept set still follows from it (`PruneAlone`), and the
   bytes a dirty publication did not find stored it writes itself (`BytesAtHand`). The kept set is the least
   one that has the first ones and is closed under what survivors refer to (`KeptIsLeastClosed`). From
   these `LonePrunesAreNeverRefused` and `DirtyBytesStayRetained`. `LonePrunesAreIdempotent` compares two prunes:
   what the first keeps, the second keeps for the same reason.

### Handles and the cache over them

4. *Handles* (`SymbolHandlesProofs`). `HandleInv` says of the registries that modules, packages and
   symbols have numbers of their own (`ModulesDiffer`, `PackagesDiffer`, `HandlesDiffer`), and of a
   publication between its reads and its commit that what it is about to write is sound by itself
   (`Assigned`). It does not say that the two fit together: a commit that collides is `AllocationLost`, and
   the proof of `Commit` takes the union apart by which side numbered a symbol. `Planned` keeps a prune's
   orphans stored and its snapshots no heads. Theorems: `StoredHandlesAreSound`,
   `DocumentsKeepTheirSymbols`, and `SymbolHandlesImplementIndex`, with document postings as the rows that
   the index has (a fact's row can be wrong, finding 2).
5. *The query cache* (`QueryCacheProofs`), over the abstract index that `SymbolHandles` implements. `CacheInv`
   ties everything remembered to an epoch. `Lasts(r, x, e)`: a snapshot that was a head since epoch `e` is
   there while the epoch is still `e`. A generation's selections last since its token's epoch
   (`GenerationOK`), fact tables that are still reachable are right if no prune came since (`FactsAreFresh`),
   and each phase of a query knows what it may still rely on (`QueryOK`). Heap objects are used again, so
   the invariant speaks only of objects that a query or the cache holds. Theorems:
   `CachedHandlesStayCurrent`, `SelectionsStayCurrent`.

### Generations

6. *Content generations* (`SymbolGenerationsProofs`). `GenInv` has, besides types: `TableOK`, every stored
   generation follows from the base chain its row has now; `MarkerOK`, everything below the marker is
   filled in, unless an older binary published above it; and for each opening process `ProcOK`, of which
   `Knows` is the heart: the map a process read or keeps for a snapshot says what the chain says now, or
   it is a tombstone's that a rebase has since dropped, which `NextContentGeneration` treats alike. `Moves`
   describes what publications, prunes and backfills may do to a row between a process's steps (it stays
   on its base, or it stands alone with the same files), and maps survive it. Theorems: `MarkerStaysTrue`,
   `GenerationsKeepFollowing`, `GenerationsStayFinal`.

   That generations also *count* is a second invariant, `CountInv`, which relates the tables to the history
   that nothing stores. `HistoryOK`: a snapshot's history is its base's and what it declares, every
   stored generation is between the implementations since the symbol was last added and all of them
   (`Bounded`), and what is served was added. `BoundedGrows` says how that survives each of the four
   ways in which one more publication can go. A kept map may be of a snapshot that a prune has removed, together with its history,
   while a snapshot that builds on it is still to be filled in: `Remembers` says there is some count for
   every listed snapshot, the pruned ones too, that no map exceeds and that a base never has more of than
   what builds on it (`Ceiling`). Theorem: `GenerationsStayCounts`.

### Indexing, serving and opening

7. *Index runs* (`IndexRunProofs`). `IndexInv` is said over tables that only grow. A frame of a run's stack
   knows that what it read lies between the checkpoint's inputs and the disk (`FrameOK`), the stack follows
   the requirements downwards (`StackOK`, by the height that acyclic dependencies have), what is remembered
   is linked to what was remembered before it, and no more attempts of a run have failed than there
   were edits and publications of other runs (`Counted`), an attempt that met none being on a steady index. A run's step is
   proved on the record it changes, once for each action (`GoesOn`, `OwnStep`); that another process's publication and an edit
   keep the invariant is proved once for all runs (`StepKeeps`, `EditKeeps`). Theorems:
   `RunsPublishTheirSources`, `ReusedIndexStaysCurrent`.
8. *Historical revisions* (`IndexRunProofs`). `RevisionInv` says where a request's worktree, record and
   scratch directory may be at each place (`TreesOK`), whom a joined request waits for, what base and load
   a publication has, and that a process has one run per commit. Theorem: `RevisionsStayAnswered`.
9. *Serving* (`OpenAndServeProofs`). `ServeInv` says of each request, its handler and its detached run, how
   much of a hash is known, that the patch about to be written is the previewed one, that a patch reaches
   the index, and that a shutdown that is not overdue has left behind no handler at work, then no counted
   run, then no run unrecorded. Theorem: `ServeAnswersAreKept`.
10. *Opening* (`OpenAndServeProofs`). `OpenInv` says of the tables what holds at every stop: `CatalogTells`, a
    schema that would be discarded has no snapshots; `RootsAreNumbered`, roots have all their ordinals or
    none; `DigestsTell`, a digest is its document's and the earliest document's of that rendering, and
    what the marker has passed has a twin with a digest; `MembersAreCarried`, a snapshot below the marker
    serves its inputs along its chain, the deltas above it are not relied on, and as long as the cutover
    is not complete every input still selects a document and the chains below the marker say what the old rule
    says (`LegacyOf`), which is what the next snapshot's rows are taken from. `OpenerKnows` says what an
    opener may rely on at each step, above all that its own marker and the digests it has seen are the stored ones, `MayRead`
    that a reader was let in only when all is carried over, or nothing is there. Chains are read by a recursive
    function: `ChainedIs` unfolds it and `ChainedAgrees` says that an appended snapshot leaves the chains
    before it alone, both by induction over ordinals; `RowsLead` that the rows from one membership to another lead there.
    Theorems: `AnIndexIsCarriedOver`, `NoOpenLosesTheIndex`.

### Dependencies

11. *Versions and what they require* (`DependencyGraphProofs`). `VersionInv` has, besides types: `TagsName`,
    a tag that a run saw names a commit whose requirements are known; `RowLinks`, a stored version's edges
    are what its commit requires, to stored snapshots of those versions or unavailable; and for each run
    `RunResolves`: what it remembers is stored, current by the tags it saw and closed under its edges
    (`RemembersVersion`), the nodes it has read are of versions it does not remember (`NodesAreRead`), a node's
    requirements are remembered or nodes too (`NodesAreClosed`), and what the groups written so far leave is what
    later groups need (`GroupsAreLeft`). The prune keeps what an open run needs because the closure of a stored
    snapshot is stored and holds only what is reached through edges (`ClosureHolds`). That every graph has an
    order in which a group comes after those it depends on is an induction over its nodes: reachability is
    existence of a walk (`WalkReaches`), and the components arranged by how many nodes they reach come each
    after those it depends on (`ComponentOrder`), so the order the code's Tarjan pass computes exists, cycles
    included.
    Theorem: `VersionsStayWhole`.
12. *Cycles of local modules* (`DependencyGraphProofs`). What `GroupsStayTogether` says of links is a closure,
    and a closure is not inductive as it stands: a run publishes rows over links that it took while other runs
    published. `GroupInv` therefore speaks of *generations*, one snapshot of each of some modules that link each
    other (`IsGeneration`). Every snapshot ever stored, pruned or not, is of one, and if it is dirty something in
    it has dirty content (`IsOneOf`); what a run remembers is one, and its links are part of that (`GroupRunHolds`). Two generations
    that agree on a module agree on all it needs (`GenerationsAgree`), so a group's new rows and what the run
    remembers make one again (`RememberingIs`) provided nothing else that is remembered depends on the group
    (`Replaceable`). That holds when a member is not remembered, because what is remembered has all it needs
    remembered, and for a forced target by `LeftInOrder`, the only place where the order is used
    (`GroupIsReplaceable`). `GroupsInHand` has a group's dependencies linked before it is reached, from the order of
    the components (`GroupOrderIs`, by `ComponentOrder`). Links are stored and dirt passes along them one
    step at a time (`FactLinks`) and so along a generation (`GenerationInherits`); a prune keeps a closed set
    (`PruneFactsKeeps`). What the recursive `reach` of a snapshot is: its generation (`FactReaches`).
    Theorem: `CyclesStayTogether`.

### Only model-checked

- Liveness: `PublicationsEnd`, `CutoverResumes`, `IndexingEnds`, `OperationsEnd`. Fairness and ENABLED are
  outside the prover's reach.
- The algorithms: what a recursive definition computes for every input cannot be proved by the installed
  provers.

## 5. Findings

1. **A prune can delete bytes an open publication relies on** (`store_blob_race`). The blob insert does
   nothing when the row exists and takes no lock on it; the prune does not see the uncommitted revision;
   there is no foreign key. The dirty snapshot is then served from bytes that are gone.
2. **An implements fact can name the wrong interface** (`handles_fact_race`). The interface's handle is
   read and not protected; a prune frees it and another symbol takes it before the fact is inserted.
   Symbols named by documents are safe: they are written and read back in the same transaction.
3. **A checkpoint can be reused although a head it should have recorded moved** (`index_lost_head`). A
   retry forgets what the run remembered, targets that were done included; the checkpoint saves the
   heads of what is remembered and the results of everything.

Disagreements that were met and have no run of their own:

- *Handles are reassigned.* `query/index_cache.go:241` says a handle never is, within a layout; the
  handle of a pruned tail symbol is given to the next symbol of its bucket. The cache is right because it
  goes by the prune epoch, which `CachedHandlesAreCurrent` shows.
- `storage/README.md` says that a rebased snapshot "has its stats recorded again" while
  `prune_apply.go` says that recorded stats remain unchanged.
- *Opening.* With two openers of a fresh database, one may find the tables of the other's migration
  without its layout row, take the index for one of the first handle generation and discard it
  (`handle_cutover.go:79-108`, `149-163`): `IndexOutlivesOpens` is then violated. The run has one opener.
- *Index runs.* Inputs are compared by content when extraction starts and in the transaction, so an edit
  that is taken back in between is not noticed (`verify_inputs.go`): with `Reverts = TRUE`
  `FactsMatchDependencies` is violated. Two processes may index one revision twice; a request that joins
  a run takes its result although its reason and version differ. A refactor's reindex is not counted
  among the detached runs.
- *Symbol diff.* A symbol that a producer declares in several documents and drops from one makes the
  diff fail in `classify` (`symboldiff/deltas.go:133`), although `docs/diff.md:115` says such symbols are
  matched over their documents. An added row of `groupRetypedPairs` may lack its old shape when the
  visibilities differ.
- *IR.* A body's hash leaves out the text of expressions and the names of local declarations.
  `classifyRelocation` (`diff/diff.go:690`) with moves and without renames loses a rename. A null child of
  a block is read as nil and cannot be written again. `Merge` drops the other's raw files and SQL catalog;
  `Coalesce` changes property maps it shares with its input; forks of a builder share slices and maps; two
  paths outside a transaction keep the first although the comment says the lexicographic one; `Negate` of
  the finder does not negate. `MethodBuilder.WithStatement` is dropped when `WithBody` is set.
- *Queries.* A union drops witness rows of its second relation (`compact_execute.go:316`) where
  `docs/query.md:29` says the rows are united. `path:a/p/**` does not read package `a/p` itself, although
  the comment in `selector_ranges.go` calls a range a necessary condition only. A path between callables
  may pass through a symbol that `<<` never walks. `f >>` and `f<-func:x` leave tokens that no derivation
  has and are refused for it; `func:x:impl` without a space is refused.
- *Graphs.* Nodes that only the earlier graph has are never told as `dependency-version` although
  `docs/graph.md:153` says so; at the depth bound excluded dependencies are neither counted nor flagged
  (`docs/graph.md:113`); a function that is read as a value has a step outwards and none inwards.

Rebasing drops tombstones, so a symbol that returns after a prune may restart at generation 1, although
`docs/sql-query.md` says that a re-add continues the count. `docs/symbol-generations-tests-plan.md` names
this as intended, and `GenerationsAreCounts` allows for exactly it: the count is at least that
of the implementations since the symbol last appeared.

## 6. Abstractions

*SnapshotStore.* Snapshot ids are numbers used once. A content stands for a source revision and the
document rendered from it. One publication publishes one module. `Begin` reads the inputs and the base
in one step. Rows appear at the commit, and foreign keys are evaluated there; key-share locks make the
outcome the same as at the insert. A file is dirty when no commit has its bytes. One prune runs at a
time. Deletions are computed from the tables at `PruneApply`; what a listed snapshot serves cannot have
changed since it was listed. Revision, configuration and content hashes are compared as the files,
the dirty flag and the dependency target they digest.

*SymbolHandles.* A transaction is its reads and its commit; two publications of one root exclude one
another through the head row or the registration. Visibility and kind together are a bucket, fixed per
symbol. Owner chains have at most two links. A prune keeps the head only.

*QueryCache.* A query asks for one symbol in one root. Per-snapshot facts (documents, defined handles)
are not modelled: snapshots are immutable and they are dropped with the epoch. The layout part of the
token never changes while a process runs. No claim is made about a query that a prune overlaps.

*SymbolGenerations.* Snapshots are numbered by their ordinals; a prune always keeps the newest snapshot,
so an ordinal is not used again (analysis snapshots, which do not count as newest, are left out). A prune
may take any others. A publication, a prune and the backfill of one snapshot are atomic; on PostgreSQL the
last reads and updates rows in two statements, and a prune of a tombstone between the reads of two
openers could let them write different counts. Older binaries only publish. Handles do not interact, so
one is enough. The error of a deletion that nothing precedes is not modelled because it never occurs:
`GenerationsFollowTheirBase`, a part of `GenerationsAreCounts`, says so.

*OpenDatabase.* One file to a package; schema migration is one step; a digest is the rendering it digests.

*IndexRun, CycleGroups, VersionGraph, RevisionIndex.* Sources are version numbers, a publication is one
step (`SnapshotStore` has its inside), and loading packages is one step that reads what it reads.
Siblings are leaves. A commit's history is a line. Tags, git and the network are the environment.

*ServeRuntime.* A refactor touches one place of one checkout; an edit is near it or far from it. The patch
that is written is the reviewed one unless the place is edited after the hashes were compared
(`ReviewedPatchIsWritten` names the window).

*Algorithms.* Texts are atoms, digests are what they digest, rows are sets, an ambiguous name is a failed
evaluation. Library algorithms (Myers diff, the JSON reader, the PEG runtime's memory) are their results.
Sites keep their line and not their text, and covered sites are keyed as in the code by owner, type and
line. Early returns are no guards, in the code and in the model. The codec of relationships is left out.

## 7. Not modelled

Extraction and SQL lowering are sequential walks over the trees of a type checker and of SQL parsers:
their difficulty lies in those languages. Lint, rendering, suggestions, metrics and browsing read and
print. Test-run import, producers, the database catalog, connections and analyses have some state of their
own and are planned. A connection's module that is deleted while it is captured
(`connections_http.go:195`, `databasecatalog/capture.go:73`) is a race of that part. The language ports
and the web client hold no core logic. Database migration is done by a library; the task engine, git and
the type checker are external. Reasons per component are in `PROJECT.json`.

## 8. Plan

Done: the modules and proofs above. Next, in this order:

1. Analysis heads as prune roots in `SnapshotStore`, and the database catalog's capture against deletion.
2. The packed handle arithmetic and the kind registry, with a reference definition.
3. Test-run import, flaky tests and coverage closure, producers.
