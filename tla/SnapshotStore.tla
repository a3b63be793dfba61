---------------------------- MODULE SnapshotStore ----------------------------
(***************************************************************************)
(* The snapshot index of uir: publishers add delta-encoded snapshots and   *)
(* move location heads, a pruner deletes old history and rebases what it   *)
(* keeps.  Every publication and every prune is one database transaction;  *)
(* on PostgreSQL (READ COMMITTED) transactions interleave and the unique   *)
(* and foreign keys arbitrate, on SQLite (SerialWriters) they do not.      *)
(*                                                                         *)
(* A snapshot's identity (a random UUID in the code) is a number that is   *)
(* never used twice; its ordinal is a column, allocated as the code does.  *)
(* A file's content stands for its source revision together with the       *)
(* document rendered from it; both rows are keyed by root, path and        *)
(* content here.  Uncommitted writes live in the transaction's record and  *)
(* reach the tables in its committing action.                              *)
(***************************************************************************)
EXTENDS DeltaChain, FiniteSets

CONSTANTS
  Roots, Locations,
  RootOf,         \* the module root a location is a checkout of
  Publishers,
  Requests,       \* the index requests users and producers make
  Keep,           \* uir prune --keep
  SerialWriters,  \* TRUE: SQLite's single connection
  AllocationAttempts, \* transactions a publication may run (3 in the code)
  None            \* no location, no root, no request

DocumentRows == Roots \X Paths \X Contents

\* An index request: where, the files found there, whether they are a worktree's
\* own (none of them can be read back from a commit), the location whose head it
\* depends on, the publication reason, and --force.
RequestType == [loc : Locations, files : FileSets, dirty : BOOLEAN,
                dep : Locations \cup {None}, historical : BOOLEAN,
                force : BOOLEAN]

ASSUME ConstantsAssumption ==
  /\ RootOf \in [Locations -> Roots]
  /\ Requests \subseteq RequestType
  /\ Keep \in Nat \ {0}
  /\ SerialWriters \in BOOLEAN
  /\ AllocationAttempts \in Nat \ {0}
  /\ None \notin Locations \cup Roots \cup RequestType \cup FileSets

VARIABLES
  created,    \* snapshot identities used so far
  live,       \* snapshots: the identities of its rows
  row,        \* snapshots with their source/document deltas and dependency edge
  head,       \* location_heads.snapshot_id, NoSnapshot without a row
  version,    \* location_heads.version, 0 without a row
  primary,    \* primary_locations, None before the root is registered
  documents,  \* source_revisions and documents
  blobs,      \* source_blobs
  epoch,      \* history_prunes.epoch
  txn,        \* each publisher's call and open transaction
  pruner      \* the prune's open transaction

tables == <<created, live, row, head, version, primary, documents, blobs, epoch>>
vars == <<created, live, row, head, version, primary, documents, blobs, epoch,
          txn, pruner>>

Rows == [ordinal : Nat \ {0}, loc : Locations, base : 0..MaxSnapshots, dep : 0..MaxSnapshots,
         dirty : BOOLEAN, historical : BOOLEAN, delta : Deltas]
\* What row holds for an identity without a snapshot.
EmptyRow == [ordinal |-> 0, loc |-> None, base |-> NoSnapshot, dep |-> NoSnapshot,
             dirty |-> FALSE, historical |-> FALSE,
             delta |-> [p \in Paths |-> Same]]

\* The document rows the set rows of a delta refer to.
DocumentsOf(root, delta) ==
  {<<root, p, delta[p]>> : p \in {q \in Paths : delta[q] \in Contents}}
SnapshotsOf(root) == {s \in live : RootOf[row[s].loc] = root}

-----------------------------------------------------------------------------
(* Transactions.                                                           *)

\* A publisher's call: the request and what extraction saw of the database, then
\* the transaction's reads and pending writes, which a retry drops.
Phases == {"idle", "extracted", "begun", "written"}
Calls ==
  [phase : Phases, req : RequestType \cup {None}, seen : 0..MaxSnapshots,
   pin : 0..MaxSnapshots, target : 0..MaxSnapshots, reused : BOOLEAN,
   attempt : 0..AllocationAttempts, base : 0..MaxSnapshots, version : Nat,
   registers : BOOLEAN, ordinal : Nat, delta : Deltas,
   found : SUBSET DocumentRows, bytes : SUBSET Contents]
Idle ==
  [phase |-> "idle", req |-> None, seen |-> NoSnapshot, pin |-> NoSnapshot,
   target |-> NoSnapshot, reused |-> FALSE, attempt |-> 0, base |-> NoSnapshot,
   version |-> 0, registers |-> FALSE, ordinal |-> NoSnapshot,
   delta |-> [p \in Paths |-> Same], found |-> {}, bytes |-> {}]

PrunePhases == {"idle", "listed", "planned"}
Prunes == [phase : PrunePhases, root : Roots \cup {None}, preserve : BOOLEAN,
           list : SUBSET Snapshots, kept : SUBSET Snapshots]
NoPrune == [phase |-> "idle", root |-> None, preserve |-> FALSE,
            list |-> {}, kept |-> {}]

InTransaction(p) == txn[p].phase \in {"begun", "written"}
\* With one connection, a transaction starts only when none is open.
MayBegin(p) ==
  SerialWriters => /\ pruner.phase = "idle"
                   /\ \A q \in Publishers \ {p} : ~InTransaction(q)

\* SELECT ... FOR UPDATE holds the head row, when there is one, to the end.
HeadLocked(p, l) ==
  \E q \in Publishers \ {p} :
    InTransaction(q) /\ txn[q].req.loc = l /\ txn[q].version # 0
\* An uncommitted root row makes a second registration of its key wait.
RootLocked(p, root) ==
  \E q \in Publishers \ {p} :
    InTransaction(q) /\ txn[q].registers /\ RootOf[txn[q].req.loc] = root

Finish(p) == txn' = [txn EXCEPT ![p] = Idle]
LeaveTables == UNCHANGED tables

\* Mutant: the insert is repeated inside the open transaction.
LoseAllocationInPlace(p) ==
  /\ txn' = [txn EXCEPT ![p].found = {}]
  /\ LeaveTables

\* A retryable failure runs the transaction again, from the start, until the
\* attempts are used up.
LoseAllocation(p) ==
  /\ LET t == txn[p] IN
       txn' = [txn EXCEPT ![p] =
         IF t.attempt < AllocationAttempts
           THEN [Idle EXCEPT !.phase = "extracted", !.req = t.req, !.seen = t.seen,
                             !.pin = t.pin, !.target = t.target,
                             !.reused = t.reused, !.attempt = t.attempt + 1]
           ELSE Idle]
  /\ LeaveTables

-----------------------------------------------------------------------------
(* Publishing.                                                             *)

Init ==
  /\ created = 0
  /\ live = {}
  /\ row = [o \in Snapshots |-> EmptyRow]
  /\ head = [l \in Locations |-> NoSnapshot]
  /\ version = [l \in Locations |-> 0]
  /\ primary = [r \in Roots |-> None]
  /\ documents = {}
  /\ blobs = {}
  /\ epoch = 0
  /\ txn = [p \in Publishers |-> Idle]
  /\ pruner = NoPrune

\* Whether snapshot s is what the request would publish, so the run reuses it.
Matches(s, req, target) ==
  /\ Effective(row, s) = req.files
  /\ row[s].dirty = req.dirty
  /\ row[s].dep = target

\* The part of a call before its transaction: discovery resolves the dependency
\* to a head; extraction takes the location's head as its base unless forced, and
\* a head equal to what was discovered is reused without extracting.  A producer's
\* publication extracts from no base (known = NoSnapshot); a historical one may
\* name any snapshot of the root.
Extract(p, req, pin, known) ==
  /\ txn[p].phase = "idle"
  /\ created < MaxSnapshots
  /\ req.dep # None => head[req.dep] # NoSnapshot
  /\ pin # NoSnapshot => req.historical /\ pin \in SnapshotsOf(RootOf[req.loc])
  /\ known # NoSnapshot => ~req.force /\ ~req.historical /\ known = head[req.loc]
  /\ LET target == IF req.dep = None THEN NoSnapshot ELSE head[req.dep]
     IN txn' = [txn EXCEPT ![p] =
          [Idle EXCEPT !.phase = "extracted", !.req = req, !.seen = known,
                       !.pin = pin, !.target = target, !.attempt = 1,
                       !.reused = known # NoSnapshot /\ Matches(known, req, target)]]
  /\ LeaveTables /\ UNCHANGED pruner

\* loadModuleBase: the location's own head, else the primary's, else none.
ModuleBase(l) ==
  CASE head[l] # NoSnapshot -> head[l]
    [] head[l] = NoSnapshot /\ primary[RootOf[l]] \notin {None, l} -> head[primary[RootOf[l]]]
    [] OTHER -> NoSnapshot

\* The transaction's inputs are not what extraction saw: ErrIndexInputsChanged,
\* or an explicit base that was pruned.
InputsChanged(t) ==
  \/ t.req.dep # None /\ head[t.req.dep] # t.target
  \/ t.pin # NoSnapshot /\ t.pin \notin live
  \/ t.seen # NoSnapshot /\ t.seen # ModuleBase(t.req.loc)

\* Nothing new to publish: the head, or for a historical request a stored
\* historical snapshot of the location, already is the request.
Unchanged(t) ==
  LET l == t.req.loc IN
  \/ t.reused
  \/ /\ ~t.req.force /\ t.req.historical
     /\ \E s \in live : /\ row[s].loc = l /\ row[s].historical
                        /\ Matches(s, t.req, t.target)
                        /\ t.pin # NoSnapshot => row[s].base = t.pin
  \/ /\ ~t.req.force /\ ~t.req.historical
     /\ head[l] # NoSnapshot /\ Matches(head[l], t.req, t.target)

\* indexModule up to the publication: verify the inputs, register the root,
\* lock and read the base, and stop when the inputs moved or nothing changed.
Begin(p) ==
  LET t == txn[p]
      l == t.req.loc
  IN /\ t.phase = "extracted"
     /\ MayBegin(p)
     /\ ~HeadLocked(p, l)
     /\ ~RootLocked(p, RootOf[l])
     /\ IF InputsChanged(t) \/ Unchanged(t) THEN Finish(p)
        ELSE txn' = [txn EXCEPT ![p] =
               [t EXCEPT !.phase = "begun",
                         !.base = IF t.pin # NoSnapshot THEN t.pin ELSE ModuleBase(l),
                         !.version = version[l],
                         !.registers = primary[RootOf[l]] = None]]
     /\ LeaveTables /\ UNCHANGED pruner

\* The largest stored ordinal plus one.
NextOrdinal ==
  IF live = {} THEN 1
  ELSE 1 + row[CHOOSE m \in live : \A s \in live : row[s].ordinal <= row[m].ordinal].ordinal

\* publishSnapshot's reads: the base's membership, the rows an insert finds
\* already stored, the next ordinal.  A base pruned by now cannot be read.
Write(p) ==
  LET t == txn[p]
      delta == Difference(ServedBy(row, t.base), t.req.files)
      needed == DocumentsOf(RootOf[t.req.loc], delta)
      bytes == IF t.req.dirty THEN ContentOf(t.req.files) ELSE {}
  IN /\ t.phase = "begun"
     /\ IF t.base # NoSnapshot /\ t.base \notin live THEN Finish(p)
        ELSE txn' = [txn EXCEPT ![p] =
               [t EXCEPT !.phase = "written", !.ordinal = NextOrdinal,
                         !.delta = delta, !.found = needed \cap documents,
                         !.bytes = bytes \ blobs]]
     /\ LeaveTables /\ UNCHANGED pruner

\* Mutants: no foreign key on the base, on documents.
ReferencesGoneButBase(t) ==
  \/ t.target # NoSnapshot /\ t.target \notin live
  \/ ~(t.found \subseteq documents)
ReferencesGoneButDocuments(t) ==
  \/ t.base # NoSnapshot /\ t.base \notin live
  \/ t.target # NoSnapshot /\ t.target \notin live

\* A row the snapshot references was pruned since it was read: a foreign key
\* refuses the insert.
ReferencesGone(t) ==
  \/ t.base # NoSnapshot /\ t.base \notin live
  \/ t.target # NoSnapshot /\ t.target \notin live
  \/ ~(t.found \subseteq documents)

\* A transaction that committed first took the ordinal, which is unique.
OrdinalUsed(t) == \E s \in live : row[s].ordinal = t.ordinal

\* Mutant: the first head of a location is upserted.
HeadMovedUpsert(t) == t.version # 0 /\ version[t.req.loc] # t.version

\* advanceHead: an insert of a row that must not exist yet, or an update that
\* must find the version the transaction read.
HeadMoved(t) == version[t.req.loc] # t.version

SnapshotRow(t) ==
  [ordinal |-> t.ordinal, loc |-> t.req.loc, base |-> t.base, dep |-> t.target, dirty |-> t.req.dirty,
   historical |-> t.req.historical, delta |-> t.delta]

\* The inserts, the head's compare-and-swap and the commit.
Commit(p) ==
  LET t == txn[p]
      l == t.req.loc
  IN /\ t.phase = "written"
     /\ ~OrdinalUsed(t)
     /\ ~ReferencesGone(t)
     /\ created < MaxSnapshots
     /\ t.req.historical \/ ~HeadMoved(t)
     /\ created' = created + 1
     /\ live' = live \cup {created'}
     /\ row' = [row EXCEPT ![created'] = SnapshotRow(t)]
     /\ primary' = IF t.registers THEN [primary EXCEPT ![RootOf[l]] = l] ELSE primary
     /\ documents' = documents \cup (DocumentsOf(RootOf[l], t.delta) \ t.found)
     /\ blobs' = blobs \cup t.bytes
     /\ IF t.req.historical THEN UNCHANGED <<head, version>>
        ELSE /\ head' = [head EXCEPT ![l] = created']
             /\ version' = [version EXCEPT ![l] = @ + 1]
     /\ Finish(p)
     /\ UNCHANGED <<epoch, pruner>>

\* The unique key on ordinals refuses the insert; the transaction may retry.
OrdinalTaken(p) ==
  /\ txn[p].phase = "written"
  /\ OrdinalUsed(txn[p])
  /\ LoseAllocation(p)
  /\ UNCHANGED pruner

\* A unique key on document, module or symbol numbers, a deadlock or a
\* serialization failure: races on tables this module does not have, which only
\* concurrent transactions meet.  They may be retried too.
AllocationLost(p) ==
  /\ ~SerialWriters
  /\ InTransaction(p)
  /\ LoseAllocation(p)
  /\ UNCHANGED pruner

\* A foreign key or the head's compare-and-swap fails the publication (or the
\* bound on snapshots does).
PublicationRefused(p) ==
  /\ txn[p].phase = "written"
  /\ ~OrdinalUsed(txn[p])
  /\ \/ ReferencesGone(txn[p])
     \/ ~txn[p].req.historical /\ HeadMoved(txn[p])
     \/ created = MaxSnapshots
  /\ Finish(p) /\ LeaveTables /\ UNCHANGED pruner

\* Any other error, a cancelled context, or a crash: the database rolls back.
Abort(p) ==
  /\ txn[p].phase # "idle"
  /\ Finish(p) /\ LeaveTables /\ UNCHANGED pruner

-----------------------------------------------------------------------------
(* Pruning: storage.PruneHistory of one root.                              *)

\* planPrune lists the root's snapshots ...
PruneList(root, preserve) ==
  /\ pruner.phase = "idle"
  /\ primary[root] # None
  /\ SerialWriters => \A q \in Publishers : ~InTransaction(q)
  /\ pruner' = [NoPrune EXCEPT !.phase = "listed", !.root = root,
                               !.preserve = preserve, !.list = SnapshotsOf(root)]
  /\ LeaveTables /\ UNCHANGED txn

NewestOf(list) ==
  {s \in list : Cardinality({t \in list : row[t].ordinal > row[s].ordinal}) < Keep}

\* Mutants: dependency targets are not kept; so are the bases of what is deleted.
KeepsNoTargets(list, K) == TRUE
KeepsTargetsAndBases(list, K) ==
  /\ \A s \in live \ (list \ K) : row[s].dep \in list => row[s].dep \in K
  /\ \A s \in list : row[s].base \in list => row[s].base \in K

\* A kept set must hold what any surviving snapshot, of any root, depends on.
KeepsTargets(list, K) ==
  \A s \in live \ (list \ K) : row[s].dep \in list => row[s].dep \in K

\* keptSnapshots: the newest, the historical ones on request, the heads, and
\* then dependency targets until none is added.
Kept(list, root, preserve) ==
  LET start == NewestOf(list)
               \cup {s \in list : preserve /\ row[s].historical}
               \cup {s \in list : \E l \in Locations : RootOf[l] = root /\ head[l] = s}
  IN {s \in list : \A K \in SUBSET list :
        (start \subseteq K /\ KeepsTargets(list, K)) => s \in K}

\* ... and then what it keeps of them.
PrunePlan ==
  /\ pruner.phase = "listed"
  /\ pruner' = [pruner EXCEPT !.phase = "planned",
                              !.kept = Kept(pruner.list, pruner.root, pruner.preserve)]
  /\ LeaveTables /\ UNCHANGED txn

Doomed == pruner.list \ pruner.kept
Rebased == {s \in pruner.kept : row[s].base \in Doomed}

\* Mutant: the base is cleared and the deltas are left as they are.
RebasedRowBare(s) == [row[s] EXCEPT !.base = NoSnapshot]

\* rebaseSnapshot: one set row per path served, and no base.
RebasedRow(s) ==
  [row[s] EXCEPT !.base = NoSnapshot,
                 !.delta = Difference(EmptyFiles, Effective(row, s))]

\* Mutant: the deltas of a deleted snapshot are left behind.
PrunedRowsNoCascade ==
  [o \in Snapshots |-> IF o \in Rebased THEN RebasedRow(o) ELSE row[o]]

PrunedRows ==
  [o \in Snapshots |-> CASE o \in Doomed -> EmptyRow
                        [] o \in Rebased -> RebasedRow(o)
                        [] OTHER -> row[o]]

\* deleteDocuments: the root's documents no snapshot of the plan activates.
DeadDocuments ==
  {d \in documents : d[1] = pruner.root
     /\ ~\E s \in pruner.kept : Effective(row, s)[d[2]] = d[3]}

\* A row outside the plan still references what the prune deletes.
PruneRefused ==
  \/ \E l \in Locations : head[l] \in Doomed
  \/ \E s \in live \ Doomed :
       \/ PrunedRows[s].base \in Doomed
       \/ row[s].dep \in Doomed
       \/ DocumentsOf(RootOf[row[s].loc], PrunedRows[s].delta) \cap DeadDocuments # {}

\* Mutant: only the pruned root's revisions are consulted.
DeadBlobsOfRoot ==
  {c \in Contents : /\ \E d \in DeadDocuments : d[3] = c
                    /\ \A d \in documents \ DeadDocuments :
                         d[1] = pruner.root => d[3] # c}

\* deleteUnusedBlobs: hashes of deleted revisions that no revision has any more.
DeadBlobs ==
  {c \in Contents : /\ \E d \in DeadDocuments : d[3] = c
                    /\ \A d \in documents \ DeadDocuments : d[3] # c}

PruneApply ==
  /\ pruner.phase = "planned"
  /\ Doomed # {}
  /\ ~PruneRefused
  /\ live' = live \ Doomed
  /\ row' = PrunedRows
  /\ documents' = documents \ DeadDocuments
  /\ blobs' = blobs \ DeadBlobs
  /\ epoch' = epoch + 1
  /\ pruner' = NoPrune
  /\ UNCHANGED <<created, head, version, primary, txn>>

\* Nothing to delete, a foreign key refuses, or the caller goes away.
PruneEnd ==
  /\ pruner.phase # "idle"
  /\ pruner' = NoPrune
  /\ LeaveTables /\ UNCHANGED txn

-----------------------------------------------------------------------------
Publish(p) ==
  \/ \E req \in Requests, pin, known \in 0..MaxSnapshots : Extract(p, req, pin, known)
  \/ Begin(p) \/ Write(p) \/ Commit(p)
  \/ OrdinalTaken(p) \/ AllocationLost(p) \/ PublicationRefused(p) \/ Abort(p)

Prune ==
  \/ \E root \in Roots, preserve \in BOOLEAN : PruneList(root, preserve)
  \/ PrunePlan \/ PruneApply \/ PruneEnd

Next == (\E p \in Publishers : Publish(p)) \/ Prune

Spec == Init /\ [][Next]_vars

\* A started call keeps running, and PostgreSQL's row locks and the SQLite
\* connection pool serve waiters in order, so a waiting transaction begins.
Fairness ==
  /\ \A p \in Publishers :
       /\ SF_vars(Begin(p))
       /\ WF_vars(Write(p))
       /\ WF_vars(Commit(p) \/ OrdinalTaken(p) \/ PublicationRefused(p))
  /\ WF_vars(PrunePlan)
  /\ WF_vars(PruneApply \/ (pruner.phase = "planned" /\ PruneEnd))

FairSpec == Spec /\ Fairness

-----------------------------------------------------------------------------
(* Properties.                                                             *)

TypeOK ==
  /\ created \in 0..MaxSnapshots
  /\ live \subseteq 1..created
  /\ \A o \in Snapshots : row[o] \in (IF o \in live THEN Rows ELSE {EmptyRow})
  /\ DOMAIN row = Snapshots
  /\ head \in [Locations -> 0..MaxSnapshots]
  /\ version \in [Locations -> Nat]
  /\ primary \in [Roots -> Locations \cup {None}]
  /\ documents \subseteq DocumentRows
  /\ blobs \subseteq Contents
  /\ epoch \in Nat
  /\ txn \in [Publishers -> Calls]
  /\ pruner \in Prunes

\* Every reference a reader follows ends at a stored snapshot of the right
\* place: a head at a snapshot of its location, a base at a snapshot of the same
\* root with a lower ordinal (23_symbol_generations.hcl relies on it; chains end,
\* so EffectiveSources never reports a dangling base or a cycle), a dependency
\* edge at some snapshot.
ReferencesResolve ==
  /\ \A l \in Locations : head[l] # NoSnapshot =>
       head[l] \in live /\ row[head[l]].loc = l
  /\ \A s \in live :
       /\ row[s].base # NoSnapshot =>
            /\ row[s].base \in live
            /\ row[row[s].base].ordinal < row[s].ordinal
            /\ RootOf[row[row[s].base].loc] = RootOf[row[s].loc]
       /\ row[s].dep # NoSnapshot => row[s].dep \in live

\* ActiveDocuments never fails: every path a stored snapshot serves is bound to
\* a document row of its root, whichever publisher wrote it and whatever was
\* pruned since.
ServedDocumentsExist ==
  \A s \in live, p \in Paths :
    Effective(row, s)[p] # Absent =>
      <<RootOf[row[s].loc], p, Effective(row, s)[p]>> \in documents

\* "source_blobs retain source bytes for dirty and non-Git snapshots"
\* (storage/README.md): the bytes of every file a dirty snapshot serves are stored.
DirtyBytesRetained ==
  \A s \in live : row[s].dirty => ContentOf(Effective(row, s)) \subseteq blobs

\* A snapshot is immutable: publications on top of it and prunes that rebase it
\* or its bases leave what it serves alone ("serves exactly what it served
\* before", PruneHistory).
SnapshotsImmutable ==
  [][\A s \in live \cap live' : Effective(row', s) = Effective(row, s)]_vars

\* A committed publication serves exactly the files of its request, on whatever
\* base its transaction found.
PublishesItsRequest ==
  [][\A p \in Publishers :
       (/\ txn[p].phase = "written" /\ txn'[p].phase = "idle"
        /\ created' # created)
         => Effective(row', created') = txn[p].req.files]_vars

\* No lost update of a head: it moves one version at a time, and only to a new
\* snapshot of its location based on the snapshot it named, so a concurrent
\* publication is never silently overwritten (docs/module-indexing.md).
HeadsAdvanceFromTheirBase ==
  [][\A l \in Locations :
       head'[l] # head[l] =>
         /\ version'[l] = version[l] + 1
         /\ head'[l] \in live' \ live
         /\ row'[head'[l]].loc = l
         /\ head[l] # NoSnapshot => row'[head'[l]].base = head[l]]_vars

Settled(root, preserve) ==
  Kept(SnapshotsOf(root), root, preserve) = SnapshotsOf(root)

\* "a second prune with the same keep deletes nothing and leaves the epoch alone"
\* (storage/README.md): right after a prune, planning it again dooms nothing.
PruneIsIdempotent ==
  [][\A root \in Roots, preserve \in BOOLEAN :
       (epoch' # epoch /\ pruner.root = root /\ pruner.preserve = preserve)
         => Settled(root, preserve)']_vars

\* A prune that runs alone is never refused: what it keeps, it keeps whole. The
\* heads, bases, dependency targets and documents its plan spares are all the
\* references that remain, so no foreign key stops it half way.
PlanIsComplete == pruner.phase = "planned" => ~PruneRefused

\* A publication ends: it waits for locks and retries lost allocations, but
\* never forever.
PublicationsEnd ==
  \A p \in Publishers : (txn[p].phase = "extracted") ~> (txn[p].phase = "idle")

\* The store implements the abstract history: its deltas, chains, rebases and
\* retries are invisible to readers.
History == INSTANCE SnapshotHistory WITH
  NoFiles <- None,
  content <- [o \in Snapshots |-> IF o \in live THEN Effective(row, o) ELSE None],
  current <- head

ImplementsHistory == History!HistorySpec
=============================================================================
