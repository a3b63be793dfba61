---------------------------- MODULE SymbolHandles ----------------------------
(***************************************************************************)
(* Compact symbol handles.  A symbol row gets a handle made of its         *)
(* module's number, its package's number, its visibility and kind (its     *)
(* bucket here) and the next local number of that bucket.  No counter      *)
(* exists: a publication reads the largest number stored and the unique    *)
(* keys arbitrate.  Postings and deltas name symbols by handle only, and a *)
(* prune deletes the symbols that nothing names any more.                  *)
(*                                                                         *)
(* A publication's transaction is two steps, its reads and its commit; a   *)
(* prune's is too.  Publications of one root exclude one another (the head *)
(* row or the root's registration is locked), those of two roots do not.   *)
(***************************************************************************)
EXTENDS Integers, FiniteSets

CONSTANTS
  Roots, Publishers,
  Symbols,
  Owner,          \* symbols.owner_id: a symbol, or None
  PackageOf, BucketOf,  \* a symbol's package, and its visibility and kind
  Modules, Packages, ModuleOf,
  Reserved,       \* the fixed numbers of the builtin and std modules
  FirstAllocated, MaxModule, MaxPackage, MaxLocal,  \* field capacities
  Order,          \* the order in which rows and keys are numbered
  Requests,       \* what indexing a root may publish
  AllocationAttempts,
  SerialWriters,  \* TRUE: SQLite's single connection
  MaxPublications,
  None

\* A publication: the symbols its new documents name, the ones whose unchanged
\* documents it inherits, and the symbols its implements facts name.
RequestType == [root : Roots, docs : SUBSET Symbols, keeps : SUBSET Symbols,
                facts : SUBSET Symbols]

OwnersOf(S) == {Owner[s] : s \in S} \ {None}
\* Owner chains are at most two long: a member, its type, its package.
WithOwners(S) == S \cup OwnersOf(S) \cup OwnersOf(OwnersOf(S))

ASSUME HandleConstants ==
  /\ Owner \in [Symbols -> Symbols \cup {None}]
  /\ PackageOf \in [Symbols -> Packages]
  /\ ModuleOf \in [Packages -> Modules]
  /\ DOMAIN BucketOf = Symbols
  /\ DOMAIN Reserved \subseteq Modules
  /\ \A m \in DOMAIN Reserved : Reserved[m] \in 0..(FirstAllocated - 1)
  /\ \A m, n \in DOMAIN Reserved : Reserved[m] = Reserved[n] => m = n
  /\ {FirstAllocated, MaxModule, MaxPackage, MaxLocal, MaxPublications} \subseteq Nat
  /\ FirstAllocated <= MaxModule
  /\ Order \in [Symbols \cup Modules \cup Packages -> Nat]
  /\ \A x, y \in DOMAIN Order : Order[x] = Order[y] => x = y
  /\ Requests \subseteq RequestType
  /\ \A S \in SUBSET Symbols : WithOwners(WithOwners(S)) = WithOwners(S)
  /\ AllocationAttempts \in Nat \ {0}
  /\ SerialWriters \in BOOLEAN
  /\ None \notin Symbols \cup Roots \cup RequestType

VARIABLES
  modules,   \* symbol_modules: a module's number, Unnumbered without a row
  packages,  \* symbol_packages, likewise
  handle,    \* symbols: a symbol's handle, NoHandle without a row
  live,      \* snapshots, as pairs of a root and a number
  rows,      \* symbol_postings, symbol_deltas and implements_deltas
  head,      \* the root's head snapshot, 0 before its first
  epoch,     \* history_prunes.epoch
  published, \* snapshots published, numbered in order
  call, pruner

tables == <<modules, packages, handle, live, rows, head, epoch, published>>
handleVars == <<modules, packages, handle, live, rows, head, epoch, published, call, pruner>>

Unnumbered == -1
Buckets == {BucketOf[s] : s \in Symbols}
Handles == (0..MaxModule) \X (0..MaxPackage) \X Buckets \X (0..MaxLocal)
NoHandle == <<>>
Stored == {s \in Symbols : handle[s] # NoHandle}

\* A row that names a handle.  means is the symbol its publication wrote it for.
RowKinds == {"document", "implements"}
RowType == [root : Roots, snapshot : 1..MaxPublications, kind : RowKinds,
            handle : Handles, means : Symbols]

Calls == [phase : {"idle", "requested", "assigned"}, req : RequestType \cup {None},
          attempt : 0..AllocationAttempts,
          modules : [Modules -> -1..MaxModule], packages : [Packages -> -1..MaxPackage],
          assigned : [Symbols -> Handles \cup {NoHandle}],
          found : [Symbols -> Handles \cup {NoHandle}]]
Idle == [phase |-> "idle", req |-> None, attempt |-> 0,
         modules |-> [m \in Modules |-> Unnumbered],
         packages |-> [k \in Packages |-> Unnumbered],
         assigned |-> [s \in Symbols |-> NoHandle],
         found |-> [s \in Symbols |-> NoHandle]]
NoPrune == [phase |-> "idle", snapshots |-> {}, orphans |-> {}]
\* The rows of a set of snapshots, which cascade with them.
RowsIn(snapshots) == {r \in rows : <<r.root, r.snapshot>> \in snapshots}

Init ==
  /\ modules = [m \in Modules |-> Unnumbered]
  /\ packages = [k \in Packages |-> Unnumbered]
  /\ handle = [s \in Symbols |-> NoHandle]
  /\ live = {}
  /\ rows = {}
  /\ head = [r \in Roots |-> 0]
  /\ epoch = 0
  /\ published = 0
  /\ call = [p \in Publishers |-> Idle]
  /\ pruner = NoPrune

-----------------------------------------------------------------------------
(* AssignSymbolHandles.                                                    *)

Largest(S) == CHOOSE n \in S : \A k \in S : k <= n
\* x's place among the members of S, in key order.
Place(x, S) == Cardinality({y \in S : Order[y] < Order[x]})

\* resolveModules: a reserved module its fixed number, any other the next one
\* past the largest stored.
NumberedModules(needed) ==
  LET used == {ModuleOf[PackageOf[s]] : s \in needed}
      missing == {m \in used : modules[m] = Unnumbered /\ m \notin DOMAIN Reserved}
      next == Largest({Largest({modules[m] : m \in Modules}) + 1, FirstAllocated})
  IN [m \in Modules |->
        CASE m \in missing -> next + Place(m, missing)
          [] m \in used \cap DOMAIN Reserved -> Reserved[m]
          [] OTHER -> modules[m]]

\* resolvePackages, per module.
NumberedPackages(needed) ==
  LET missing == {k \in {PackageOf[s] : s \in needed} : packages[k] = Unnumbered}
      siblings(k) == {j \in Packages : ModuleOf[j] = ModuleOf[k]}
  IN [k \in Packages |->
        IF k \in missing
          THEN Largest({packages[j] : j \in siblings(k)}) + 1
                 + Place(k, missing \cap siblings(k))
          ELSE packages[k]]

\* firstFree: the first local of a bucket, past the largest handle stored in it;
\* a package this call registers has none.
FirstFree(m, k, b, registered) ==
  LET locals == {handle[t][4] : t \in {u \in Stored : /\ handle[u][1] = m
                                                      /\ handle[u][2] = k
                                                      /\ handle[u][3] = b}}
  IN IF registered \/ locals = {} THEN 0 ELSE Largest(locals) + 1

\* A stored symbol keeps its handle; a new one takes the next local of its bucket.
AssignedHandles(needed, numbers, packageNumbers) ==
  LET SameBucket(s, t) == PackageOf[s] = PackageOf[t] /\ BucketOf[s] = BucketOf[t]
      new == needed \ Stored
      module(s) == numbers[ModuleOf[PackageOf[s]]]
      package(s) == packageNumbers[PackageOf[s]]
      local(s) ==
        FirstFree(module(s), package(s), BucketOf[s], packages[PackageOf[s]] = Unnumbered)
          + Place(s, {t \in new : SameBucket(s, t)})
  IN [s \in Symbols |->
        CASE s \in new -> <<module(s), package(s), BucketOf[s], local(s)>>
          [] s \in needed \cap Stored -> handle[s]
          [] OTHER -> NoHandle]

\* A number that does not fit its field.
Overflows(numbers, packageNumbers, assigned) ==
  \/ \E m \in Modules : numbers[m] > MaxModule
  \/ \E k \in Packages : packageNumbers[k] > MaxPackage
  \/ \E s \in Symbols : assigned[s] # NoHandle /\ assigned[s][4] > MaxLocal

-----------------------------------------------------------------------------
(* Publishing.                                                             *)

InTransaction(p) == call[p].phase = "assigned"
Finish(p) == call' = [call EXCEPT ![p] = Idle]

\* The unchanged documents a request inherits are the current head's.
Request(p, req) ==
  /\ call[p].phase = "idle"
  /\ call' = [call EXCEPT ![p] = [Idle EXCEPT !.phase = "requested", !.req = req,
                                              !.attempt = 1]]
  /\ UNCHANGED <<tables, pruner>>

\* neededSymbols and the reads of ensureSymbols: owners are written too, and an
\* implements fact about a stored symbol takes the handle as it is read here, and
\* does not write the symbol.
Assign(p) ==
  LET req == call[p].req
      named == WithOwners(req.docs)
      found == (req.facts \ named) \cap Stored
      needed == named \cup WithOwners(req.facts \ (named \cup Stored))
      numbers == NumberedModules(needed)
      packageNumbers == NumberedPackages(needed)
      assigned == AssignedHandles(needed, numbers, packageNumbers)
  IN /\ call[p].phase = "requested"
     /\ published < MaxPublications
     /\ \A q \in Publishers \ {p} :
          InTransaction(q) => ~SerialWriters /\ call[q].req.root # req.root
     /\ SerialWriters => pruner.phase = "idle"
     /\ IF Overflows(numbers, packageNumbers, assigned) THEN Finish(p)
        ELSE call' = [call EXCEPT ![p] =
               [call[p] EXCEPT !.phase = "assigned", !.assigned = assigned,
                  !.modules = [m \in Modules |-> IF modules[m] = Unnumbered THEN numbers[m] ELSE Unnumbered],
                  !.packages = [k \in Packages |-> IF packages[k] = Unnumbered THEN packageNumbers[k] ELSE Unnumbered],
                  !.found = [s \in Symbols |-> IF s \in found THEN handle[s] ELSE NoHandle]]]
     /\ UNCHANGED <<tables, pruner>>

\* Some other row has the module's key or number (or the package's).
ModuleTaken(t) ==
  \E m, n \in Modules : /\ t.modules[m] # Unnumbered /\ modules[n] # Unnumbered
                        /\ n = m \/ modules[n] = t.modules[m]
PackageTaken(t) ==
  \E k, j \in Packages : /\ t.packages[k] # Unnumbered /\ packages[j] # Unnumbered
                         /\ j = k \/ (ModuleOf[j] = ModuleOf[k] /\ packages[j] = t.packages[k])
\* An insert meets its handle under another symbol.
HandleTaken(t) ==
  \E s, u \in Symbols : s # u /\ t.assigned[s] # NoHandle /\ handle[u] = t.assigned[s]
\* The upsert found the symbol stored, and the row read back has another handle.
HandleDiffers(t) ==
  \E s \in Symbols : t.assigned[s] # NoHandle /\ handle[s] \notin {NoHandle, t.assigned[s]}

\* Mutants: the rows are not read back; handles have no unique key.
AllocationConflictNoReread(t) == ModuleTaken(t) \/ PackageTaken(t) \/ HandleTaken(t)
AllocationConflictNotUnique(t) == ModuleTaken(t) \/ PackageTaken(t) \/ HandleDiffers(t)

\* A concurrent publication took a number first.
AllocationConflict(t) ==
  ModuleTaken(t) \/ PackageTaken(t) \/ HandleTaken(t) \/ HandleDiffers(t)

\* A foreign key on a handle that was only read.
HandleGone(t) ==
  \E s \in Symbols : t.found[s] # NoHandle /\ \A u \in Symbols : handle[u] # t.found[s]

\* The rows of the new snapshot: documents it inherits and writes, facts it states.
NewRows(t) ==
  LET named(s) == IF t.assigned[s] # NoHandle THEN t.assigned[s] ELSE t.found[s]
      row(kind, s) == [root |-> t.req.root, snapshot |-> published + 1, kind |-> kind,
                       handle |-> named(s), means |-> s]
  IN {[r EXCEPT !.snapshot = published + 1] :
        r \in {q \in RowsIn({<<t.req.root, head[t.req.root]>>}) :
                 q.kind = "document" /\ q.means \in t.req.keeps}}
     \cup {row("document", s) : s \in t.req.docs}
     \cup {row("implements", s) : s \in t.req.facts}

\* The writes and the commit.
Commit(p) ==
  LET t == call[p] IN
  /\ t.phase = "assigned"
  /\ published < MaxPublications
  /\ ~AllocationConflict(t) /\ ~HandleGone(t)
  /\ modules' = [m \in Modules |-> IF t.modules[m] = Unnumbered THEN modules[m] ELSE t.modules[m]]
  /\ packages' = [k \in Packages |-> IF t.packages[k] = Unnumbered THEN packages[k] ELSE t.packages[k]]
  /\ handle' = [s \in Symbols |-> IF s \in Stored THEN handle[s] ELSE t.assigned[s]]
  /\ live' = live \cup {<<t.req.root, published + 1>>}
  /\ rows' = rows \cup NewRows(t)
  /\ head' = [head EXCEPT ![t.req.root] = published + 1]
  /\ published' = published + 1
  /\ Finish(p)
  /\ UNCHANGED <<epoch, pruner>>

\* A lost number, or a deadlock between allocators, runs the transaction again.
AllocationLost(p) ==
  LET t == call[p] IN
  /\ t.phase = "assigned"
  /\ ~SerialWriters \/ AllocationConflict(t)
  /\ call' = [call EXCEPT ![p] =
       IF t.attempt < AllocationAttempts
         THEN [Idle EXCEPT !.phase = "requested", !.req = t.req, !.attempt = t.attempt + 1]
         ELSE Idle]
  /\ UNCHANGED <<tables, pruner>>

\* Any other error, among them a foreign key's, rolls the transaction back.
Abort(p) ==
  /\ call[p].phase # "idle"
  /\ Finish(p)
  /\ UNCHANGED <<tables, pruner>>

-----------------------------------------------------------------------------
(* Pruning a root down to its head.                                        *)

\* keepOwners: drop the owners of what stays, until none is dropped.
WithoutOwners(orphans) ==
  {s \in orphans : s \notin OwnersOf(Stored \ orphans)
                   /\ s \notin OwnersOf(OwnersOf(Stored \ orphans))}

\* unreferencedSymbols: of the symbols a deleted row named, those no row names.
Orphans(doomed) ==
  {s \in Stored : /\ \E r \in doomed : r.handle = handle[s]
                  /\ \A r \in rows \ doomed : r.handle # handle[s]}

PrunePlan(root) ==
  LET old == {x \in live : x[1] = root /\ x[2] # head[root]} IN
  /\ pruner.phase = "idle"
  /\ old # {}
  /\ SerialWriters => \A p \in Publishers : ~InTransaction(p)
  /\ pruner' = [phase |-> "planned", snapshots |-> old,
                orphans |-> WithoutOwners(Orphans(RowsIn(old)))]
  /\ UNCHANGED <<tables, call>>

\* Mutant: no foreign key from postings and deltas to symbols.handle.
PruneRefusedByOwners ==
  \E s \in pruner.orphans : \E t \in Stored \ pruner.orphans : Owner[t] = s

\* A row written since, or a symbol that stays, still names an orphan.
PruneRefused ==
  \E s \in pruner.orphans :
    \/ \E r \in rows \ RowsIn(pruner.snapshots) : r.handle = handle[s]
    \/ \E t \in Stored \ pruner.orphans : Owner[t] = s

PruneApply ==
  /\ pruner.phase = "planned"
  /\ ~PruneRefused
  /\ live' = live \ pruner.snapshots
  /\ rows' = rows \ RowsIn(pruner.snapshots)
  /\ handle' = [s \in Symbols |-> IF s \in pruner.orphans THEN NoHandle ELSE handle[s]]
  /\ epoch' = epoch + 1
  /\ pruner' = NoPrune
  /\ UNCHANGED <<modules, packages, head, published, call>>

PruneEnd ==
  /\ pruner.phase = "planned"
  /\ pruner' = NoPrune
  /\ UNCHANGED <<tables, call>>

-----------------------------------------------------------------------------
Next ==
  \/ \E p \in Publishers :
       \/ \E req \in Requests : Request(p, req)
       \/ Assign(p) \/ Commit(p) \/ AllocationLost(p) \/ Abort(p)
  \/ \E root \in Roots : PrunePlan(root)
  \/ PruneApply \/ PruneEnd

Spec == Init /\ [][Next]_handleVars

-----------------------------------------------------------------------------
(* Properties.                                                             *)

TypeOK ==
  /\ modules \in [Modules -> -1..MaxModule]
  /\ packages \in [Packages -> -1..MaxPackage]
  /\ handle \in [Symbols -> Handles \cup {NoHandle}]
  /\ live \subseteq Roots \X (1..MaxPublications)
  /\ rows \subseteq RowType
  /\ head \in [Roots -> 0..MaxPublications]
  /\ epoch \in Nat
  /\ published \in 0..MaxPublications
  /\ call \in [Publishers -> Calls]
  /\ pruner \in [phase : {"idle", "planned"}, snapshots : SUBSET (Roots \X (1..MaxPublications)),
                orphans : SUBSET Symbols]

\* A handle names one symbol, and its fields are the symbol's own: its module's and
\* package's registered numbers, its visibility and kind.  So every range scan of a
\* package or bucket finds exactly its symbols and checkStoredHandle never fails,
\* whichever publications registered and numbered them concurrently.
HandlesIdentify ==
  /\ \A s, t \in Stored : handle[s] = handle[t] => s = t
  /\ \A s \in Stored : LET k == PackageOf[s] IN
       /\ packages[k] # Unnumbered
       /\ modules[ModuleOf[k]] # Unnumbered
       /\ handle[s][1] = modules[ModuleOf[k]]
       /\ handle[s][2] = packages[k]
       /\ handle[s][3] = BucketOf[s]
  /\ \A m, n \in Modules : modules[m] = modules[n] /\ modules[m] # Unnumbered => m = n
  /\ \A k, j \in Packages :
       (ModuleOf[k] = ModuleOf[j] /\ packages[k] = packages[j] /\ packages[k] # Unnumbered) => k = j
  /\ \A m \in DOMAIN Reserved : modules[m] \in {Unnumbered, Reserved[m]}

\* No field of a stored handle carries into another, and handles identify: the registries
\* at their capacities included.
HandlesAreSound == TypeOK /\ HandlesIdentify

\* A posting or symbol delta still names the symbol its document declares or uses:
\* the symbol is stored under that handle for as long as the row exists, and so is
\* its owner, whatever was pruned or published since.
DocumentsMeanTheirSymbols ==
  /\ \A r \in rows : r.kind = "document" => handle[r.means] = r.handle
  /\ \A s \in Stored : Owner[s] # None => Owner[s] \in Stored

\* "writes a `set` for each new pair" (docs/symbol-index-storage.md, Implements
\* facts): a fact names the interface that extraction found.
FactsMeanTheirSymbols ==
  \A r \in rows : r.kind = "implements" => handle[r.means] = r.handle

\* What reading the postings shows: which symbols documents name, and by which handle.
DocumentRows ==
  {[root |-> r.root, snapshot |-> r.snapshot, handle |-> r.handle, means |-> r.means] :
     r \in {q \in rows : q.kind = "document"}}

\* The allocator implements HandleIndex: registries, buckets, lost races, orphans and
\* their owners are invisible to readers of the index.  (Implements facts are not part
\* of it: they may race a prune, FactsMeanTheirSymbols.)
Index == INSTANCE HandleIndex WITH rows <- DocumentRows

ImplementsIndex == Index!IndexSpec
=============================================================================
