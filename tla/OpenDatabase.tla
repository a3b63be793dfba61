----------------------------- MODULE OpenDatabase -----------------------------
(***************************************************************************)
(* Opening a database read-write: UirDB discards an index of a stale       *)
(* generation, migrates the schema, records the handle layout, and carries *)
(* an index that predates document membership over to it.  Every cutover   *)
(* step is a transaction, a process may stop between any two, and the next *)
(* open resumes.  OpenReadOnly runs none of this and refuses what is not   *)
(* carried over.                                                           *)
(*                                                                         *)
(* A package holds one file, so a path's package input hash selects its    *)
(* document; Rendering and Revision are what a document keyed by path and  *)
(* hash renders and the source revision it describes.                      *)
(***************************************************************************)
EXTENDS Integers, Sequences, FiniteSets, FiniteSetsExt, Functions

CONSTANTS
  Openers, Readers,   \* processes that open read-write, and read-only
  Paths, Hashes,
  Rendering,          \* content digest of a path's document under an input hash
  Revision,           \* source revision of a path under an input hash
  Databases,          \* the databases an opener may find
  DigestBatch,        \* digestBatch
  MaxStops            \* bound: processes stopped part way, and publications

VARIABLES
  catalog,     \* what detectGeneration reads of the schema
  roots,       \* modules rows in creation order: their ordinals, 0 before they have one
  documents,   \* documents, by ordinal: path, input hash and stored digest
  snapshots,   \* snapshots, by ordinal: base and the input hash of every path served
  deltas,      \* document_deltas, by snapshot ordinal
  stats,       \* snapshots' recorded counts, by ordinal
  membership,  \* the document_membership row
  opener,      \* each opener's progress
  reader,      \* each reader's progress
  stops        \* the bound's count

openVars == <<catalog, roots, documents, snapshots, deltas, stats, membership, opener, reader, stops>>
indexTables == <<documents, snapshots, deltas, stats, membership>>

None == 0
NoMembership == [row |-> FALSE, complete |-> FALSE, digested |-> 0, members |-> 0]
NoCounts == [added |-> -1, changed |-> -1, deleted |-> -1]
Idle == [step |-> "idle", generation |-> "none", marker |-> NoMembership, seen |-> {}]

-----------------------------------------------------------------------------
\* Mutant: a layout of another version is taken for one that was never recorded.
GenerationOfAnyLayout(c) ==
  CASE ~c.modules -> "empty"
    [] c.modules /\ ~c.ordinal -> "preHandle"
    [] c.modules /\ c.ordinal /\ c.layout # "ours" -> "H64a"
    [] c.modules /\ c.ordinal /\ c.layout = "ours" /\ c.shapeFP -> "twoLayer"
    [] OTHER -> "current"

\* The generation the catalog shows; a layout of another version is an error.
Generation(c) ==
  CASE ~c.modules -> "empty"
    [] c.modules /\ ~c.ordinal -> "preHandle"
    [] c.modules /\ c.ordinal /\ c.layout \in {"noTable", "noRow"} -> "H64a"
    [] c.modules /\ c.ordinal /\ c.layout = "other" -> "error"
    [] c.modules /\ c.ordinal /\ c.layout = "ours" /\ c.shapeFP -> "twoLayer"
    [] OTHER -> "current"

Stale == {"preHandle", "H64a", "twoLayer"}

\* The input hashes of a snapshot's paths, and the columns of the catalog.
Inputs == UNION {[ps -> Hashes] : ps \in SUBSET Paths}
Catalogs == [modules : BOOLEAN, ordinal : BOOLEAN, layout : {"noTable", "noRow", "ours", "other"},
             shapeFP : BOOLEAN, tables : BOOLEAN, member : BOOLEAN]

\* A database that an opener may find: of a stale generation no rows are represented, and an index
\* of a recorded layout predates document membership.
Found(d) ==
  LET unnumbered == d.catalog.modules /\ ~d.catalog.ordinal
      older == \/ ~d.catalog.modules \/ ~d.catalog.ordinal
               \/ d.catalog.layout \in {"noTable", "noRow"} \/ (d.catalog.layout = "ours" /\ d.catalog.shapeFP)
  IN /\ d.catalog \in Catalogs
     /\ d.catalog.layout # "noTable" => d.catalog.modules /\ d.catalog.ordinal
     /\ d.catalog.shapeFP => d.catalog.modules
     /\ d.roots \in Seq(Nat)
     /\ unnumbered => Range(d.roots) \subseteq {0}
     /\ ~unnumbered => 0 \notin Range(d.roots) /\ IsInjective(d.roots)
     /\ d.documents \in Seq([path : Paths, hash : Hashes, digest : {None}])
     /\ d.snapshots \in Seq([base : Nat, inputs : Inputs])
     /\ older => d.snapshots = <<>>
     /\ DOMAIN d.deltas = DOMAIN d.snapshots /\ d.deltas \in Seq({<<>>})
     /\ DOMAIN d.stats = DOMAIN d.snapshots /\ d.stats \in Seq({NoCounts})
     /\ d.membership = NoMembership
     /\ \A s \in DOMAIN d.snapshots :
          /\ d.snapshots[s].base < s
          /\ \A p \in DOMAIN d.snapshots[s].inputs : \E e \in DOMAIN d.documents :
               d.documents[e].path = p /\ d.documents[e].hash = d.snapshots[s].inputs[p]

\* A rendering has a digest; a revision is told of a path and an input hash.
ASSUME OpenConstants ==
  /\ IsFiniteSet(Paths)
  /\ Rendering \in [Paths \X Hashes -> Nat \ {None}]
  /\ DOMAIN Revision = Paths \X Hashes
  /\ DigestBatch \in Nat \ {0} /\ MaxStops \in Nat
  /\ \A d \in Databases : Found(d)

\* A path's member document under the rule that preceded document deltas.
LegacyMembership(s) ==
  [p \in DOMAIN snapshots[s].inputs |->
     CHOOSE d \in DOMAIN documents : documents[d].path = p /\ documents[d].hash = snapshots[s].inputs[p]]

\* What a snapshot's deltas say along its base chain.
Effective ==
  LET eff[s \in 0..Len(snapshots)] ==
        IF s = 0 THEN <<>>
        ELSE LET base == eff[snapshots[s].base]
                 own == deltas[s]
             IN [p \in {q \in DOMAIN base \cup DOMAIN own : q \in DOMAIN own => own[q] # None} |->
                   IF p \in DOMAIN own THEN own[p] ELSE base[p]]
  IN eff

\* Mutant: a file that is gone leaves no row.
SetRowsOnly(base, current) ==
  [p \in {q \in DOMAIN current : q \notin DOMAIN base \/ base[q] # current[q]} |-> current[p]]

\* The set and delete rows that turn one membership into another.
DeltaRows(base, current) ==
  [p \in {q \in DOMAIN current : q \notin DOMAIN base \/ base[q] # current[q]} \cup (DOMAIN base \ DOMAIN current) |->
     IF p \in DOMAIN current THEN current[p] ELSE None]

\* Files added, changed and deleted, from the revisions of two sets of sources.
Counts(base, files) ==
  [added |-> Cardinality(DOMAIN files \ DOMAIN base),
   changed |-> Cardinality({p \in DOMAIN files \cap DOMAIN base : files[p] # base[p]}),
   deleted |-> Cardinality(DOMAIN base \ DOMAIN files)]

Sources(s) == IF s = 0 THEN <<>>
              ELSE [p \in DOMAIN snapshots[s].inputs |-> Revision[<<p, snapshots[s].inputs[p]>>]]
\* The sources of the paths a snapshot's documents serve.
Served(s) == [p \in DOMAIN Effective[s] |-> Sources(s)[p]]

-----------------------------------------------------------------------------
OpenInit ==
  /\ \E d \in Databases :
       /\ catalog = d.catalog /\ roots = d.roots /\ documents = d.documents
       /\ snapshots = d.snapshots /\ deltas = d.deltas /\ stats = d.stats /\ membership = d.membership
  /\ opener = [o \in Openers |-> Idle]
  /\ reader = [r \in Readers |-> "closed"]
  /\ stops = 0

At(o, step) == opener[o].step = step
Go(o, step) == opener' = [opener EXCEPT ![o].step = step]
CanStop == stops < MaxStops

\* UirDB: ping, then discardStaleGeneration reads the catalog.
Detect(o) ==
  /\ At(o, "idle")
  /\ LET g == Generation(catalog) IN
       opener' = [opener EXCEPT ![o] = [Idle EXCEPT !.generation = g,
                    !.step = IF g = "error" THEN "failed" ELSE IF g \in Stale THEN "discard" ELSE "migrate"]]
  /\ UNCHANGED <<catalog, roots, indexTables, reader, stops>>

\* cutOverSQLite or cutOverPostgres: one transaction drops every index table and
\* numbers the roots of a pre-handle database in the order they were created.
Discard(o) ==
  /\ At(o, "discard")
  /\ documents' = <<>> /\ snapshots' = <<>> /\ deltas' = <<>> /\ stats' = <<>>
  /\ membership' = NoMembership
  /\ roots' = IF opener[o].generation = "preHandle" THEN [i \in DOMAIN roots |-> i] ELSE roots
  /\ catalog' = [catalog EXCEPT !.tables = FALSE, !.shapeFP = FALSE, !.ordinal = TRUE]
  /\ Go(o, "migrate")
  /\ UNCHANGED <<reader, stops>>

\* The migration creates the tables that are missing.
Migrate(o) ==
  /\ At(o, "migrate")
  /\ catalog' = [catalog EXCEPT !.modules = TRUE, !.ordinal = TRUE, !.tables = TRUE, !.member = TRUE,
                                !.layout = IF @ = "noTable" THEN "noRow" ELSE @]
  /\ Go(o, "layout")
  /\ UNCHANGED <<roots, indexTables, reader, stops>>

\* recordHandleLayout, then discardLegacyTables, which no index table refers to.
RecordLayout(o) ==
  /\ At(o, "layout")
  /\ catalog' = [catalog EXCEPT !.layout = IF @ = "noRow" THEN "ours" ELSE @]
  /\ Go(o, "marker")
  /\ UNCHANGED <<roots, indexTables, reader, stops>>

\* cutOverDocumentMembership reads its marker, and starts one on a database that has none.
StartMembership(o) ==
  /\ At(o, "marker")
  /\ LET empty == documents = <<>> /\ snapshots = <<>>
         m == IF membership.row THEN membership ELSE [NoMembership EXCEPT !.row = TRUE, !.complete = empty]
         digested == {<<documents[d].path, documents[d].digest>> : d \in {e \in DOMAIN documents : documents[e].digest # None}}
     IN /\ membership' = m
        /\ opener' = [opener EXCEPT ![o].marker = m, ![o].seen = digested,
                                    ![o].step = IF m.complete THEN "stats" ELSE "digest"]
  /\ UNCHANGED <<catalog, roots, documents, snapshots, deltas, stats, reader, stops>>

\* The documents a batch digests: the earliest of each path and digest not seen yet.
Keepers(batch, seen) ==
  {d \in batch : documents[d].digest = None
    /\ LET key(e) == <<documents[e].path, Rendering[<<documents[e].path, documents[e].hash>>]>>
       IN key(d) \notin seen /\ \A e \in batch : e < d => key(e) # key(d)}

\* backfillDocumentDigests: one batch and the marker in one transaction.
DigestBatchStep(o) ==
  /\ At(o, "digest")
  /\ LET from == opener[o].marker.digested
         batch == {d \in DOMAIN documents : from < d /\ d <= from + DigestBatch}
         keep == Keepers(batch, opener[o].seen)
         digest(d) == Rendering[<<documents[d].path, documents[d].hash>>]
     IN IF batch = {}
        THEN Go(o, "members") /\ UNCHANGED <<documents, membership>>
        ELSE /\ documents' = [d \in DOMAIN documents |->
                                IF d \in keep THEN [documents[d] EXCEPT !.digest = digest(d)] ELSE documents[d]]
             /\ membership' = [membership EXCEPT !.digested = Max(batch)]
             /\ opener' = [opener EXCEPT ![o].marker.digested = Max(batch),
                                         ![o].seen = @ \cup {<<documents[d].path, digest(d)>> : d \in keep}]
  /\ UNCHANGED <<catalog, roots, snapshots, deltas, stats, reader, stops>>

\* Mutant: the stored marker moves and the opener's own does not.
MemberStepUnmarked(o) ==
  /\ At(o, "members")
  /\ LET s == opener[o].marker.members + 1
         base == IF s \in DOMAIN snapshots /\ snapshots[s].base # 0 THEN LegacyMembership(snapshots[s].base) ELSE <<>>
     IN IF s > Len(snapshots)
        THEN Go(o, "complete") /\ UNCHANGED <<deltas, membership>>
        ELSE /\ deltas' = [deltas EXCEPT ![s] = DeltaRows(base, LegacyMembership(s))]
             /\ membership' = [membership EXCEPT !.members = s]
             /\ UNCHANGED opener
  /\ UNCHANGED <<catalog, roots, documents, snapshots, stats, reader, stops>>

\* backfillDocumentMembership: one snapshot's document deltas and the marker in one transaction.
MemberStep(o) ==
  /\ At(o, "members")
  /\ LET s == opener[o].marker.members + 1
         base == IF s \in DOMAIN snapshots /\ snapshots[s].base # 0 THEN LegacyMembership(snapshots[s].base) ELSE <<>>
     IN IF s > Len(snapshots)
        THEN Go(o, "complete") /\ UNCHANGED <<deltas, membership>>
        ELSE /\ deltas' = [deltas EXCEPT ![s] = DeltaRows(base, LegacyMembership(s))]
             /\ membership' = [membership EXCEPT !.members = s]
             /\ opener' = [opener EXCEPT ![o].marker.members = s]
  /\ UNCHANGED <<catalog, roots, documents, snapshots, stats, reader, stops>>

CompleteMembership(o) ==
  /\ At(o, "complete")
  /\ membership' = [membership EXCEPT !.complete = TRUE]
  /\ Go(o, "stats")
  /\ UNCHANGED <<catalog, roots, documents, snapshots, deltas, stats, reader, stops>>

\* backfillSnapshotStats: the lowest snapshot without counts gets those of its documents
\* against its base's sources; with none left the database is open.
BackfillStats(o) ==
  /\ At(o, "stats")
  /\ LET pending == {s \in DOMAIN snapshots : stats[s] = NoCounts} IN
       IF pending = {}
       THEN Go(o, "open") /\ UNCHANGED stats
       ELSE LET s == Min(pending) IN
            stats' = [stats EXCEPT ![s] = Counts(Sources(snapshots[s].base), Served(s))] /\ UNCHANGED opener
  /\ UNCHANGED <<catalog, roots, documents, snapshots, deltas, membership, reader, stops>>

\* A publication through an open database: documents are found by path and digest.
Publish(o, inputs) ==
  /\ At(o, "open") /\ catalog.tables /\ CanStop
  /\ LET n == Len(snapshots)
         stored(p) == {d \in DOMAIN documents : documents[d].path = p /\ documents[d].digest = Rendering[<<p, inputs[p]>>]}
         new == {p \in DOMAIN inputs : stored(p) = {}}
         added == IF new = {} THEN <<>> ELSE
                  LET p == CHOOSE q \in new : TRUE IN <<[path |-> p, hash |-> inputs[p], digest |-> Rendering[<<p, inputs[p]>>]]>>
         current == [p \in DOMAIN inputs |-> IF p \in new THEN Len(documents) + 1 ELSE Min(stored(p))]
     IN /\ Cardinality(new) <= 1
        /\ documents' = documents \o added
        /\ snapshots' = Append(snapshots, [base |-> n, inputs |-> inputs])
        /\ deltas' = Append(deltas, DeltaRows(Effective[n], current))
        /\ stats' = Append(stats, Counts(Sources(n), [p \in DOMAIN inputs |-> Revision[<<p, inputs[p]>>]]))
  /\ stops' = stops + 1
  /\ UNCHANGED <<catalog, roots, membership, opener, reader>>

\* A registration numbers its root past the others.
Register(o) ==
  /\ At(o, "open") /\ CanStop
  /\ roots' = Append(roots, Max(Range(roots) \cup {0}) + 1)
  /\ stops' = stops + 1
  /\ UNCHANGED <<catalog, indexTables, opener, reader>>

Stop(o) ==
  /\ ~At(o, "idle") /\ CanStop
  /\ opener' = [opener EXCEPT ![o] = Idle]
  /\ stops' = stops + 1
  /\ UNCHANGED <<catalog, roots, indexTables, reader>>

\* OpenReadOnly: detectGeneration, then the probe of symbols and requireDocumentMembership.
ReadGeneration(r) ==
  /\ reader[r] = "closed"
  /\ reader' = [reader EXCEPT ![r] = IF Generation(catalog) \in Stale \cup {"error"} THEN "refused" ELSE "require"]
  /\ UNCHANGED <<catalog, roots, indexTables, opener, stops>>

RequireMembership(r) ==
  /\ reader[r] = "require"
  /\ reader' = [reader EXCEPT ![r] =
       IF catalog.tables /\ catalog.member /\ membership.row /\ membership.complete THEN "open" ELSE "refused"]
  /\ UNCHANGED <<catalog, roots, indexTables, opener, stops>>

CloseReader(r) ==
  /\ reader[r] \in {"open", "refused"}
  /\ reader' = [reader EXCEPT ![r] = "closed"]
  /\ UNCHANGED <<catalog, roots, indexTables, opener, stops>>

OpenStep(o) ==
  \/ Discard(o) \/ Migrate(o) \/ RecordLayout(o) \/ StartMembership(o)
  \/ DigestBatchStep(o) \/ MemberStep(o) \/ CompleteMembership(o) \/ BackfillStats(o)

OpenNext ==
  \/ \E o \in Openers :
       \/ Detect(o) \/ OpenStep(o) \/ Register(o) \/ Stop(o)
       \/ \E ps \in SUBSET Paths : \E inputs \in [ps -> Hashes] : Publish(o, inputs)
  \/ \E r \in Readers : ReadGeneration(r) \/ RequireMembership(r) \/ CloseReader(r)

OpenFairness == \A o \in Openers : WF_openVars(OpenStep(o))

OpenSpec == OpenInit /\ [][OpenNext]_openVars /\ OpenFairness

-----------------------------------------------------------------------------
\* Every table and every opener's place hold what their columns and fields may hold.
OpenTypeOK ==
  /\ catalog.layout \in {"noTable", "noRow", "ours", "other"}
  /\ \A i \in DOMAIN roots : roots[i] \in Nat
  /\ \A d \in DOMAIN documents : documents[d].path \in Paths /\ documents[d].hash \in Hashes
  /\ \A s \in DOMAIN snapshots : snapshots[s].base \in 0..(s - 1)
  /\ DOMAIN deltas = DOMAIN snapshots /\ DOMAIN stats = DOMAIN snapshots
  /\ \A o \in Openers : opener[o].marker.digested <= Len(documents)
  /\ \A r \in Readers : reader[r] \in {"closed", "require", "open", "refused"}

CarriedOver(s) == membership.complete \/ s <= membership.members

(* However often the cutover is interrupted and resumed, every snapshot it has *)
(* reached serves, along its base chain, exactly the documents its package     *)
(* input hashes used to select, and later snapshots the renderings they        *)
(* published (backfillDocumentMembership, CreateDocumentDeltas).               *)
MembershipFollowsInputs ==
  \A s \in DOMAIN snapshots : CarriedOver(s) =>
    /\ DOMAIN Effective[s] = DOMAIN snapshots[s].inputs
    /\ \A p \in DOMAIN Effective[s] : LET d == documents[Effective[s][p]] IN
         /\ d.path = p
         /\ Rendering[<<p, d.hash>>] = Rendering[<<p, snapshots[s].inputs[p]>>]
         /\ s <= membership.members => d.hash = snapshots[s].inputs[p]

(* A path and digest name one document, the earliest with that rendering, and *)
(* every document the digest backfill has passed has one that bears its digest *)
(* (backfillDocumentDigests resumed from its marker, digestStoredDocument).    *)
DigestsNameTheEarliest ==
  \A d \in DOMAIN documents :
    LET twins == {e \in DOMAIN documents : /\ documents[e].path = documents[d].path
                    /\ Rendering[<<documents[e].path, documents[e].hash>>] = Rendering[<<documents[d].path, documents[d].hash>>]}
    IN /\ documents[d].digest # None => d = Min(twins)
       /\ (membership.row /\ (membership.complete \/ d <= membership.digested)) => documents[Min(twins)].digest # None

(* A snapshot's recorded change counts lead from its base's files to its own, *)
(* whether its publication or the backfill at open recorded them.             *)
StatsLeadFromBase ==
  \A s \in DOMAIN snapshots : stats[s] # NoCounts =>
    /\ Cardinality(DOMAIN Sources(s)) = Cardinality(DOMAIN Sources(snapshots[s].base)) + stats[s].added - stats[s].deleted
    /\ (stats[s].added = 0 /\ stats[s].changed = 0 /\ stats[s].deleted = 0) <=> (Sources(s) = Sources(snapshots[s].base))

(* A database opened read-only serves every snapshot it lists: an open that was *)
(* stopped part way never leaves one that OpenReadOnly accepts too early.       *)
ReadersFindMembership ==
  (\E r \in Readers : reader[r] = "open") =>
    \A s \in DOMAIN snapshots : DOMAIN Effective[s] = DOMAIN snapshots[s].inputs

(* An index is carried over whole: the four together, in every reachable state *)
(* of the cutovers at open and of publications and read-only opens beside them. *)
IndexIsCarriedOver ==
  OpenTypeOK /\ MembershipFollowsInputs /\ DigestsNameTheEarliest /\ StatsLeadFromBase /\ ReadersFindMembership

(* No open discards an index that this version, or another, wrote with a       *)
(* recorded handle layout (discardStaleGeneration, detectGeneration).          *)
IndexOutlivesOpens == [][Len(snapshots') >= Len(snapshots)]_openVars

(* A registered root stays registered and keeps its ordinal through every open; *)
(* once a database is open all its roots have distinct ordinals.                *)
RootsKeepOrdinals ==
  [][/\ \A i \in DOMAIN roots : i \in DOMAIN roots' /\ (roots[i] # 0 => roots'[i] = roots[i])
     /\ (\E o \in Openers : opener'[o].step = "open") => 0 \notin Range(roots') /\ IsInjective(roots')]_openVars

(* An open loses neither snapshots nor the ordinals its roots are known by. *)
OpensKeepTheIndex == IndexOutlivesOpens /\ RootsKeepOrdinals

(* An open that is not stopped again ends, however far an earlier one came. *)
OpeningEnds ==
  \A o \in Openers : opener[o].step \notin {"idle", "open", "failed"} ~> opener[o].step \in {"idle", "open", "failed"}

=============================================================================
