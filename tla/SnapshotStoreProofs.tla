------------------------- MODULE SnapshotStoreProofs -------------------------
(***************************************************************************)
(* The safety properties of SnapshotStore for every number of publishers,  *)
(* locations, roots, paths and contents, every set of requests, every Keep *)
(* and both databases.                                                     *)
(***************************************************************************)
EXTENDS SnapshotStore, DeltaChainProofs, FiniteSetTheorems

-----------------------------------------------------------------------------
(* The inductive invariant.                                                *)

\* The primary location of a root is a checkout of it.
PrimariesPlaced ==
  \A r \in Roots : primary[r] # None => RootOf[primary[r]] = r

\* Ordinals are allocated from the stored maximum, so none passes the number of
\* snapshots ever created.
OrdinalsBounded == \A s \in live : row[s].ordinal <= created

\* The foreign key of document_deltas.
DeltasDocumented ==
  \A s \in live : DocumentsOf(RootOf[row[s].loc], row[s].delta) \subseteq documents

\* What a publisher's call relies on between its steps.  A base or pin may be
\* pruned under it; while it is live it is what the call took it for.
CallOK(t) ==
  /\ t.phase # "idle" =>
       /\ t.req \in RequestType
       /\ t.pin \in 0..created /\ t.base \in 0..created
       /\ t.pin # NoSnapshot => t.req.historical
       /\ t.pin \in live => RootOf[row[t.pin].loc] = RootOf[t.req.loc]
  /\ t.phase \in {"begun", "written"} =>
       /\ t.base \in live => RootOf[row[t.base].loc] = RootOf[t.req.loc]
       /\ t.version <= version[t.req.loc]
       /\ (~t.req.historical /\ t.version = version[t.req.loc]
             /\ head[t.req.loc] # NoSnapshot) => t.base = head[t.req.loc]
  /\ t.phase = "written" =>
       /\ t.ordinal \in 1..(created + 1)
       /\ t.base \in live => row[t.base].ordinal < t.ordinal
       /\ t.base \in live \cup {NoSnapshot} =>
            t.delta = Difference(ServedBy(row, t.base), t.req.files)

PrunerOK == pruner.list \subseteq 1..created /\ pruner.kept \subseteq pruner.list

StoreOK == TypeOK /\ ReferencesResolve /\ PrimariesPlaced /\ OrdinalsBounded /\ DeltasDocumented

Inv == StoreOK /\ (\A p \in Publishers : CallOK(txn[p])) /\ PrunerOK

\* What a step leaves alone for the calls that do not take it: identities are
\* new, rows that stay serve what they served, and a head moves with its version.
Frame ==
  /\ created \in Nat /\ created' \in Nat /\ created <= created'
  /\ live \subseteq 1..created /\ live' \subseteq live \cup ((created + 1)..created')
  /\ \A s \in live \cap live' :
       /\ row'[s].loc = row[s].loc /\ row'[s].ordinal = row[s].ordinal
       /\ Effective(row', s) = Effective(row, s)
  /\ \A l \in Locations :
       /\ version[l] \in Nat /\ version'[l] \in Nat /\ version[l] <= version'[l]
       /\ version'[l] = version[l] => head'[l] = head[l]

-----------------------------------------------------------------------------
(* Reading.                                                                *)

\* Stored snapshots form well-founded base chains.
LEMMA StoredWellBased ==
  ASSUME TypeOK, ReferencesResolve
  PROVE  /\ WellBased(row, live)
         /\ \A s \in live : s \in Snapshots /\ row[s] \in Rows /\ row[s].delta \in Deltas
         /\ \A s \in live : Effective(row, s) \in FileSets
<1>1. \A s \in live : s \in Snapshots /\ row[s] \in Rows
  BY ChainAssumption DEF TypeOK, Snapshots
<1>2. \A s \in live : row[s].delta \in Deltas /\ row[s].ordinal \in Nat
  BY <1>1 DEF Rows
<1>3. WellBased(row, live)
  BY <1>1, <1>2 DEF WellBased, ReferencesResolve
<1> QED BY <1>1, <1>2, <1>3, EffectiveType

\* Every served path of a stored snapshot has its document row: along the base
\* chain of one root each delta has its own.
LEMMA DocumentedServes ==
  ASSUME TypeOK, ReferencesResolve, DeltasDocumented
  PROVE  ServedDocumentsExist
<1> DEFINE G == {s \in live : \A p \in Paths : Effective(row, s)[p] # Absent =>
                   <<RootOf[row[s].loc], p, Effective(row, s)[p]>> \in documents}
<1>1. ASSUME NEW s \in live, row[s].base # NoSnapshot => row[s].base \in G
      PROVE  s \in G
  <2>1. ASSUME NEW p \in Paths, Effective(row, s)[p] # Absent
        PROVE  <<RootOf[row[s].loc], p, Effective(row, s)[p]>> \in documents
    <3>1. Effective(row, s)[p] = IF row[s].delta[p] # Same THEN Decode(row[s].delta[p])
                                 ELSE ServedBy(row, row[s].base)[p]
      BY StoredWellBased, EffectiveUnfold
    <3>2. CASE row[s].delta[p] # Same
      <4>1. row[s].delta[p] \in Contents
        BY <2>1, <3>1, <3>2, StoredWellBased DEF Decode, Deltas
      <4>2. Effective(row, s)[p] = row[s].delta[p]
        BY <3>1, <3>2, <4>1, ChainAssumption DEF Decode
      <4> QED BY <4>1, <4>2 DEF DeltasDocumented, DocumentsOf
    <3>3. CASE row[s].delta[p] = Same
      <4>1. row[s].base # NoSnapshot
        BY <2>1, <3>1, <3>3 DEF ServedBy, EmptyFiles
      <4>2. Effective(row, s)[p] = Effective(row, row[s].base)[p]
        BY <3>1, <3>3, <4>1 DEF ServedBy
      <4>3. RootOf[row[row[s].base].loc] = RootOf[row[s].loc]
        BY <4>1 DEF ReferencesResolve
      <4> QED BY <1>1, <2>1, <4>1, <4>2, <4>3
    <3> QED BY <3>2, <3>3
  <2> QED BY <2>1
<1>2. G \in SUBSET live
  OBVIOUS
<1> HIDE DEF G
<1>3. live \subseteq G
  BY <1>1, <1>2, StoredWellBased, ChainInduction
<1> QED BY <1>3 DEF G, ServedDocumentsExist

\* The next ordinal is above every stored one.
LEMMA NextOrdinalAbove ==
  ASSUME TypeOK, OrdinalsBounded
  PROVE  /\ NextOrdinal \in 1..(created + 1)
         /\ \A s \in live : row[s].ordinal < NextOrdinal
<1>1. created \in Nat /\ \A s \in live : row[s].ordinal \in Nat \ {0}
  <2>1. \A s \in live : s \in Snapshots /\ row[s] \in Rows
    BY ChainAssumption DEF TypeOK, Snapshots
  <2> QED BY <2>1, ChainAssumption DEF TypeOK, Rows
<1>2. CASE live = {}
  BY <1>1, <1>2 DEF NextOrdinal
<1>3. CASE live # {}
  <2> DEFINE T == {created - row[s].ordinal : s \in live}
  <2>1. T \in SUBSET Nat /\ T # {}
    BY <1>1, <1>3 DEF OrdinalsBounded
  <2>2. PICK n \in T : \A m \in T : n <= m
    <3> HIDE DEF T
    <3> QED BY <2>1, LeastNatural
  <2>3. PICK m \in live : n = created - row[m].ordinal
    BY <2>2
  <2>4. ASSUME NEW s \in live
        PROVE  row[s].ordinal <= row[m].ordinal
    <3>1. created - row[s].ordinal \in T
      OBVIOUS
    <3> HIDE DEF T
    <3>2. n <= created - row[s].ordinal
      BY <2>2, <3>1
    <3>3. row[s].ordinal \in Nat /\ row[m].ordinal \in Nat /\ created \in Nat
      BY <1>1
    <3> QED BY <2>3, <3>2, <3>3
  <2> DEFINE top == CHOOSE k \in live : \A s \in live : row[s].ordinal <= row[k].ordinal
  <2>5. top \in live /\ \A s \in live : row[s].ordinal <= row[top].ordinal
    BY <2>4
  <2> HIDE DEF top
  <2>6. row[top].ordinal \in Nat \ {0} /\ row[top].ordinal <= created
    BY <1>1, <2>5 DEF OrdinalsBounded
  <2>7. NextOrdinal = 1 + row[top].ordinal
    BY <1>3 DEF NextOrdinal, top
  <2> QED BY <1>1, <2>5, <2>6, <2>7
<1> QED BY <1>2, <1>3

-----------------------------------------------------------------------------
(* Steps.                                                                  *)

\* A step that leaves the tables alone frames every call.
LEMMA QuietFrame ==
  ASSUME TypeOK, UNCHANGED tables
  PROVE  Frame
BY ChainAssumption DEF TypeOK, tables, Frame

\* A call that does not step keeps its part of the invariant under any step.
LEMMA CallFramed ==
  ASSUME NEW p \in Publishers, txn'[p] = txn[p], txn[p] \in Calls, Frame,
         CallOK(txn[p])
  PROVE  CallOK(txn[p])'
<1> DEFINE t == txn[p]
<1>0. t.version \in Nat /\ t.ordinal \in Nat
  BY DEF Calls
<1>1. ASSUME NEW o, o \in 0..created, o \in live' PROVE o \in live
  BY <1>1 DEF Frame
<1>2. ASSUME t.phase # "idle"
      PROVE  /\ t.req \in RequestType
             /\ t.pin \in 0..created' /\ t.base \in 0..created'
             /\ t.pin # NoSnapshot => t.req.historical
             /\ t.pin \in live' => RootOf[row'[t.pin].loc] = RootOf[t.req.loc]
  BY <1>1, <1>2 DEF CallOK, Frame
<1>3. ASSUME t.phase \in {"begun", "written"}
      PROVE  /\ t.base \in live' => RootOf[row'[t.base].loc] = RootOf[t.req.loc]
             /\ t.version <= version'[t.req.loc]
             /\ (~t.req.historical /\ t.version = version'[t.req.loc]
                   /\ head'[t.req.loc] # NoSnapshot) => t.base = head'[t.req.loc]
  <2>1. t.req.loc \in Locations /\ t.base \in 0..created
    BY <1>3 DEF CallOK, RequestType
  <2> QED BY <1>0, <1>1, <1>3, <2>1 DEF CallOK, Frame
<1>4. ASSUME t.phase = "written"
      PROVE  /\ t.ordinal \in 1..(created' + 1)
             /\ t.base \in live' => row'[t.base].ordinal < t.ordinal
             /\ t.base \in live' \cup {NoSnapshot} =>
                  t.delta = Difference(ServedBy(row', t.base), t.req.files)
  <2>1. t.base \in 0..created
    BY <1>4 DEF CallOK
  <2>2. t.ordinal \in 1..(created' + 1)
    BY <1>0, <1>4 DEF CallOK, Frame
  <2>3. t.base \in live' => row'[t.base].ordinal < t.ordinal
    BY <1>1, <1>4, <2>1 DEF CallOK, Frame
  <2>4. ASSUME t.base \in live' \cup {NoSnapshot}
        PROVE  t.delta = Difference(ServedBy(row', t.base), t.req.files)
    <3>1. ServedBy(row', t.base) = ServedBy(row, t.base)
      BY <1>1, <2>1, <2>4 DEF Frame, ServedBy
    <3>2. t.delta = Difference(ServedBy(row, t.base), t.req.files)
      BY <1>1, <1>4, <2>1, <2>4 DEF CallOK
    <3> QED BY <3>1, <3>2
  <2> QED BY <2>2, <2>3, <2>4
<1> QED BY <1>2, <1>3, <1>4 DEF CallOK

\* An idle call relies on nothing.
LEMMA IdleCall ==
  /\ Idle \in Calls
  /\ CallOK(Idle)
<1>1. 0 \in 0..MaxSnapshots /\ 0 \in 0..AllocationAttempts
  BY ChainAssumption, ConstantsAssumption
<1>2. [p \in Paths |-> Same] \in Deltas
  BY DEF Deltas
<1>3. Idle \in Calls
  BY <1>1, <1>2 DEF Idle, Calls, Phases, NoSnapshot
<1>4. CallOK(Idle)
  BY DEF Idle, CallOK
<1> QED BY <1>3, <1>4

\* A step that only changes publisher p's call keeps the invariant when the new
\* call is a call and is right.
LEMMA OwnStep ==
  ASSUME Inv, NEW p \in Publishers, NEW t \in Calls,
         txn' = [txn EXCEPT ![p] = t], UNCHANGED tables, UNCHANGED pruner, CallOK(t)
  PROVE  Inv' /\ Frame
<1>1. Frame
  BY QuietFrame DEF Inv, StoreOK
<1>2. txn \in [Publishers -> Calls]
  BY DEF Inv, StoreOK, TypeOK
<1>3. TypeOK'
  BY <1>2 DEF Inv, StoreOK, TypeOK, tables
<1>4. ReferencesResolve' /\ PrimariesPlaced' /\ OrdinalsBounded' /\ DeltasDocumented' /\ PrunerOK'
  BY DEF Inv, StoreOK, tables, ReferencesResolve, PrimariesPlaced, OrdinalsBounded,
         DeltasDocumented, PrunerOK
<1>5. CallOK(t)'
  BY DEF CallOK, tables
<1>6. ASSUME NEW q \in Publishers
      PROVE  CallOK(txn[q])'
  <2>1. CASE q = p
    BY <1>2, <1>5, <2>1
  <2>2. CASE q # p
    <3>1. txn'[q] = txn[q] /\ txn[q] \in Calls /\ CallOK(txn[q])
      BY <1>2, <2>2 DEF Inv
    <3> QED BY <1>1, <3>1, CallFramed
  <2> QED BY <2>1, <2>2
<1> QED BY <1>1, <1>3, <1>4, <1>6 DEF Inv, StoreOK

\* Extraction reads heads that are stored and a base of the request's root.
LEMMA ExtractStep ==
  ASSUME Inv, NEW p \in Publishers, NEW req \in Requests, NEW pin \in 0..MaxSnapshots,
         NEW known \in 0..MaxSnapshots, Extract(p, req, pin, known)
  PROVE  Inv' /\ Frame
<1> DEFINE target == IF req.dep = None THEN NoSnapshot ELSE head[req.dep]
           t == [Idle EXCEPT !.phase = "extracted", !.req = req, !.seen = known,
                             !.pin = pin, !.target = target, !.attempt = 1,
                             !.reused = known # NoSnapshot /\ Matches(known, req, target)]
<1>1. txn' = [txn EXCEPT ![p] = t] /\ UNCHANGED tables /\ UNCHANGED pruner
  BY DEF Extract, LeaveTables
<1>2. req \in RequestType /\ req.loc \in Locations /\ req.dep \in Locations \cup {None}
  BY ConstantsAssumption DEF RequestType
<1>3. target \in 0..MaxSnapshots /\ 1 \in 0..AllocationAttempts
  BY <1>2, ChainAssumption, ConstantsAssumption DEF Inv, StoreOK, TypeOK, NoSnapshot
<1>4. t.reused \in BOOLEAN
  BY DEF Idle
<1>5. t \in Calls
  BY <1>2, <1>3, <1>4, IdleCall, ZenonT(40) DEF Idle, Calls, Phases
<1>6. pin # NoSnapshot => /\ req.historical /\ pin \in live
                          /\ RootOf[row[pin].loc] = RootOf[req.loc]
  BY DEF Extract, SnapshotsOf
<1>7. pin \in 0..created
  BY <1>6, ChainAssumption DEF Inv, StoreOK, TypeOK, NoSnapshot
<1>8. NoSnapshot \notin live /\ NoSnapshot \in 0..created
  BY ChainAssumption DEF Inv, StoreOK, TypeOK, NoSnapshot
<1>9. CallOK(t)
  BY <1>2, <1>6, <1>7, <1>8 DEF CallOK, Idle
<1> HIDE DEF t
<1> QED BY <1>1, <1>5, <1>9, OwnStep

\* A call that ends, or starts over, relies on nothing its transaction read.
LEMMA EndStep ==
  ASSUME Inv, NEW p \in Publishers, LeaveTables, UNCHANGED pruner,
         Finish(p) \/ (InTransaction(p) /\ LoseAllocation(p))
  PROVE  Inv' /\ Frame
<1> DEFINE t == txn[p]
           u == [Idle EXCEPT !.phase = "extracted", !.req = t.req, !.seen = t.seen,
                             !.pin = t.pin, !.target = t.target,
                             !.reused = t.reused, !.attempt = t.attempt + 1]
<1>0. t \in Calls /\ CallOK(t)
  BY DEF Inv, StoreOK, TypeOK
<1>1. CASE txn' = [txn EXCEPT ![p] = Idle]
  BY <1>1, IdleCall, OwnStep DEF LeaveTables
<1>2. CASE /\ InTransaction(p) /\ t.attempt < AllocationAttempts
           /\ txn' = [txn EXCEPT ![p] = u]
  <2>1. t.attempt + 1 \in 0..AllocationAttempts
    BY <1>0, <1>2, ConstantsAssumption DEF Calls
  <2>2. u \in Calls
    BY <1>0, <2>1, IdleCall DEF Idle, Calls, Phases
  <2>3. NoSnapshot \notin live /\ NoSnapshot \in 0..created
    BY ChainAssumption DEF Inv, StoreOK, TypeOK, NoSnapshot
  <2>4. CallOK(u)
    BY <1>0, <1>2, <2>3 DEF CallOK, Idle, InTransaction
  <2> HIDE DEF u
  <2> QED BY <1>2, <2>2, <2>4, OwnStep DEF LeaveTables
<1> QED BY <1>1, <1>2 DEF Finish, LoseAllocation

\* The base a transaction locks is a stored snapshot of the request's root, and
\* the location's head when there is one.
LEMMA BeginStep ==
  ASSUME Inv, NEW p \in Publishers, Begin(p)
  PROVE  Inv' /\ Frame
<1> DEFINE t == txn[p]
           l == t.req.loc
           u == [t EXCEPT !.phase = "begun",
                          !.base = IF t.pin # NoSnapshot THEN t.pin ELSE ModuleBase(l),
                          !.version = version[l],
                          !.registers = primary[RootOf[l]] = None]
<1>0. t \in Calls /\ CallOK(t) /\ t.phase = "extracted"
  BY DEF Inv, StoreOK, TypeOK, Begin
<1>1. CASE InputsChanged(t) \/ Unchanged(t)
  BY <1>1, EndStep DEF Begin
<1>2. CASE ~(InputsChanged(t) \/ Unchanged(t))
  <2>1. txn' = [txn EXCEPT ![p] = u] /\ UNCHANGED tables /\ UNCHANGED pruner
    BY <1>2 DEF Begin, LeaveTables
  <2>2. t.req \in RequestType /\ l \in Locations /\ RootOf[l] \in Roots
    BY <1>0, ConstantsAssumption DEF CallOK, RequestType
  <2>3. /\ ModuleBase(l) # NoSnapshot =>
             ModuleBase(l) \in live /\ RootOf[row[ModuleBase(l)].loc] = RootOf[l]
        /\ head[l] # NoSnapshot => ModuleBase(l) = head[l]
    <3>1. CASE head[l] # NoSnapshot
      <4>1. ModuleBase(l) = head[l]
        BY <3>1 DEF ModuleBase
      <4> QED BY <2>2, <3>1, <4>1 DEF Inv, StoreOK, ReferencesResolve
    <3>2. CASE head[l] = NoSnapshot /\ primary[RootOf[l]] \notin {None, l}
      <4> DEFINE m == primary[RootOf[l]]
      <4>1. ModuleBase(l) = head[m]
        BY <3>2 DEF ModuleBase
      <4>2. m \in Locations /\ RootOf[m] = RootOf[l]
        BY <2>2, <3>2 DEF Inv, StoreOK, TypeOK, PrimariesPlaced
      <4> QED BY <3>2, <4>1, <4>2 DEF Inv, StoreOK, ReferencesResolve
    <3>3. CASE head[l] = NoSnapshot /\ primary[RootOf[l]] \in {None, l}
      BY <3>3 DEF ModuleBase
    <3> QED BY <3>1, <3>2, <3>3
  <2>4. live \subseteq 1..created /\ created \in 0..MaxSnapshots /\ version[l] \in Nat
    BY <2>2 DEF Inv, StoreOK, TypeOK
  <2>5. t.pin \notin {NoSnapshot} => t.pin \in live
    BY <1>2 DEF InputsChanged
  <2>6. u.base \in 0..created /\ u.base \in 0..MaxSnapshots
    BY <1>0, <2>3, <2>4, <2>5, ChainAssumption DEF NoSnapshot, Calls
  <2>7. u \in Calls
    BY <1>0, <2>4, <2>6 DEF Calls, Phases
  <2>8. NoSnapshot \notin live
    BY <2>4, ChainAssumption DEF NoSnapshot
  <2>9. CallOK(u)
    BY <1>0, <2>2, <2>3, <2>4, <2>6, <2>8 DEF CallOK, Calls
  <2> HIDE DEF u
  <2> QED BY <2>1, <2>7, <2>9, OwnStep
<1> QED BY <1>1, <1>2

\* The delta is computed from what the base serves now, under an ordinal above
\* the base's.
LEMMA WriteStep ==
  ASSUME Inv, NEW p \in Publishers, Write(p)
  PROVE  Inv' /\ Frame
<1> DEFINE t == txn[p]
           d == Difference(ServedBy(row, t.base), t.req.files)
           needed == DocumentsOf(RootOf[t.req.loc], d)
           bytes == IF t.req.dirty THEN ContentOf(t.req.files) ELSE {}
           u == [t EXCEPT !.phase = "written", !.ordinal = NextOrdinal,
                          !.delta = d, !.found = needed \cap documents,
                          !.bytes = bytes \ blobs]
<1>0. t \in Calls /\ CallOK(t) /\ t.phase = "begun"
  BY DEF Inv, StoreOK, TypeOK, Write
<1>1. CASE t.base # NoSnapshot /\ t.base \notin live
  BY <1>1, EndStep DEF Write
<1>2. CASE ~(t.base # NoSnapshot /\ t.base \notin live)
  <2>1. txn' = [txn EXCEPT ![p] = u] /\ UNCHANGED tables /\ UNCHANGED pruner
    BY <1>2 DEF Write, LeaveTables
  <2>2. t.req \in RequestType /\ t.req.files \in FileSets
    BY <1>0 DEF CallOK, RequestType
  <2>3. d \in Deltas
    BY <2>2 DEF Difference, Deltas, FileSets
  <2>4. bytes \subseteq Contents /\ needed \cap documents \subseteq DocumentRows
    BY <2>2 DEF ContentOf, FileSets, Inv, StoreOK, TypeOK
  <2>5. NextOrdinal \in 1..(created + 1) /\ \A s \in live : row[s].ordinal < NextOrdinal
    BY NextOrdinalAbove DEF Inv, StoreOK
  <2>6. NextOrdinal \in Nat
    BY <2>5, ChainAssumption DEF Inv, StoreOK, TypeOK
  <2> HIDE DEF d, bytes, needed
  <2>7. u \in Calls
    BY <1>0, <2>3, <2>4, <2>6 DEF Calls, Phases
  <2>8. CallOK(u)
    BY <1>0, <2>5 DEF CallOK, Calls, d
  <2> HIDE DEF u
  <2> QED BY <2>1, <2>7, <2>8, OwnStep
<1> QED BY <1>1, <1>2

\* A commit adds one row on a base that is still stored.  Everything stored
\* serves what it did, and the new snapshot serves its request.
LEMMA CommitStep ==
  ASSUME Inv, NEW p \in Publishers, Commit(p)
  PROVE  Inv' /\ Frame /\ Effective(row', created') = txn[p].req.files
<1> DEFINE t == txn[p]
           l == t.req.loc
           new == created + 1
<1>0. t \in Calls /\ CallOK(t) /\ t.phase = "written"
  BY DEF Inv, StoreOK, TypeOK, Commit
<1>1. /\ created' = new /\ live' = live \cup {new}
      /\ row' = [row EXCEPT ![new] = SnapshotRow(t)]
      /\ primary' = IF t.registers THEN [primary EXCEPT ![RootOf[l]] = l] ELSE primary
      /\ documents' = documents \cup (DocumentsOf(RootOf[l], t.delta) \ t.found)
      /\ t.found \subseteq documents
      /\ blobs' = blobs \cup t.bytes
      /\ UNCHANGED <<epoch, pruner>> /\ txn' = [txn EXCEPT ![p] = Idle]
      /\ created < MaxSnapshots
  BY DEF Commit, Finish, ReferencesGone
<1>2. /\ t.req.historical => head' = head /\ version' = version
      /\ ~t.req.historical => /\ head' = [head EXCEPT ![l] = new]
                              /\ version' = [version EXCEPT ![l] = @ + 1]
  BY DEF Commit
<1>3. t.req \in RequestType /\ l \in Locations /\ RootOf[l] \in Roots /\ t.req.files \in FileSets
  BY <1>0, ConstantsAssumption DEF CallOK, RequestType
<1>4. /\ created \in Nat /\ new \in Nat /\ new \in Snapshots /\ new \in 0..MaxSnapshots
      /\ live \subseteq 1..created /\ new \notin live /\ NoSnapshot \notin live'
      /\ new # NoSnapshot
  BY <1>1, ChainAssumption DEF Inv, StoreOK, TypeOK, Snapshots, NoSnapshot
<1>5. /\ t.base # NoSnapshot => t.base \in live
      /\ t.target # NoSnapshot => t.target \in live
  BY DEF Commit, ReferencesGone
<1>6. row'[new] = SnapshotRow(t) /\ \A s \in live : row'[s] = row[s]
  BY <1>1, <1>4 DEF Inv, StoreOK, TypeOK
<1>7. SnapshotRow(t) \in Rows
  BY <1>0, <1>3, <1>4 DEF CallOK, Calls, RequestType, SnapshotRow, Rows
<1>8. DocumentsOf(RootOf[l], t.delta) \subseteq DocumentRows
  BY <1>3 DEF DocumentsOf, DocumentRows
<1>9. head' \in [Locations -> 0..MaxSnapshots] /\ version' \in [Locations -> Nat]
  BY <1>2, <1>3, <1>4 DEF Inv, StoreOK, TypeOK
<1>10. TypeOK'
  <2>1. created' \in 0..MaxSnapshots /\ live' \subseteq 1..created'
    BY <1>1, <1>4
  <2>2. \A o \in Snapshots : row'[o] \in (IF o \in live' THEN Rows ELSE {EmptyRow})
    BY <1>1, <1>6, <1>7 DEF Inv, StoreOK, TypeOK
  <2>3. DOMAIN row' = Snapshots
    BY <1>1 DEF Inv, StoreOK, TypeOK
  <2>4. primary' \in [Roots -> Locations \cup {None}]
    BY <1>1, <1>3 DEF Inv, StoreOK, TypeOK
  <2>5. documents' \subseteq DocumentRows /\ blobs' \subseteq Contents
    BY <1>0, <1>1, <1>8 DEF Inv, StoreOK, TypeOK, Calls
  <2>6. epoch' \in Nat /\ pruner' \in Prunes /\ txn' \in [Publishers -> Calls]
    BY <1>1, IdleCall DEF Inv, StoreOK, TypeOK
  <2> QED BY <1>9, <2>1, <2>2, <2>3, <2>4, <2>5, <2>6 DEF TypeOK
<1>11. ReferencesResolve'
  <2>1. ASSUME NEW k \in Locations, head'[k] # NoSnapshot
        PROVE  head'[k] \in live' /\ row'[head'[k]].loc = k
    BY <1>1, <1>2, <1>3, <1>6, <2>1 DEF Inv, StoreOK, TypeOK, ReferencesResolve, SnapshotRow
  <2>2. ASSUME NEW s \in live
        PROVE  /\ row'[s].base # NoSnapshot =>
                    /\ row'[s].base \in live'
                    /\ row'[row'[s].base].ordinal < row'[s].ordinal
                    /\ RootOf[row'[row'[s].base].loc] = RootOf[row'[s].loc]
               /\ row'[s].dep # NoSnapshot => row'[s].dep \in live'
    BY <1>1, <1>6 DEF Inv, StoreOK, ReferencesResolve
  <2>3. /\ row'[new].base # NoSnapshot =>
             /\ row'[new].base \in live'
             /\ row'[row'[new].base].ordinal < row'[new].ordinal
             /\ RootOf[row'[row'[new].base].loc] = RootOf[row'[new].loc]
        /\ row'[new].dep # NoSnapshot => row'[new].dep \in live'
    BY <1>0, <1>1, <1>5, <1>6 DEF CallOK, SnapshotRow
  <2> QED BY <1>1, <2>1, <2>2, <2>3 DEF ReferencesResolve
<1>12. PrimariesPlaced' /\ OrdinalsBounded'
  <2>1. PrimariesPlaced'
    BY <1>1, <1>3 DEF Inv, StoreOK, TypeOK, PrimariesPlaced
  <2>2. \A s \in live : row[s].ordinal \in Nat
    BY StoredWellBased DEF Inv, StoreOK, Rows
  <2>3. OrdinalsBounded'
    BY <1>0, <1>1, <1>4, <1>6, <2>2 DEF Inv, StoreOK, OrdinalsBounded, CallOK, SnapshotRow
  <2> QED BY <2>1, <2>3
<1>13. DeltasDocumented'
  BY <1>1, <1>6 DEF Inv, StoreOK, DeltasDocumented, SnapshotRow
<1>14. \A s \in live : Effective(row', s) = Effective(row, s)
  <2>1. WellBased(row, live) /\ \A s \in live : row[s].delta \in Deltas
    BY StoredWellBased DEF Inv, StoreOK
  <2>2. WellBased(row', live) /\ Rewrites(row, row', live)
    BY <1>6, <2>1 DEF WellBased, Rewrites
  <2> QED BY <2>1, <2>2, RewritePreserves
<1>15. Effective(row', new) = t.req.files
  <2>0. \A s \in live' : s \in Snapshots /\ row'[s].ordinal \in Nat
    BY <1>10, ChainAssumption DEF TypeOK, Snapshots, Rows
  <2>1. WellBased(row', live')
    BY <1>11, <2>0 DEF ReferencesResolve, WellBased
  <2>2. ServedBy(row', t.base) = ServedBy(row, t.base)
    BY <1>5, <1>14 DEF ServedBy
  <2>3. row'[new].delta = Difference(ServedBy(row', row'[new].base), t.req.files)
    BY <1>0, <1>5, <1>6, <2>2 DEF CallOK, SnapshotRow
  <2>4. new \in live'
    BY <1>1
  <2> HIDE DEF new, t
  <2> QED BY <1>3, <2>1, <2>3, <2>4, DifferenceServes
<1>16. Frame
  <2>1. \A s \in live \cap live' : /\ row'[s].loc = row[s].loc
                                   /\ row'[s].ordinal = row[s].ordinal
                                   /\ Effective(row', s) = Effective(row, s)
    BY <1>6, <1>14
  <2>2. \A k \in Locations :
          /\ version[k] \in Nat /\ version'[k] \in Nat /\ version[k] <= version'[k]
          /\ version'[k] = version[k] => head'[k] = head[k]
    BY <1>2, <1>3 DEF Inv, StoreOK, TypeOK
  <2>3. live' \subseteq live \cup ((created + 1)..created') /\ created <= created'
    BY <1>1, <1>4
  <2> QED BY <1>1, <1>4, <2>1, <2>2, <2>3 DEF Frame
<1>17. ASSUME NEW q \in Publishers
       PROVE  CallOK(txn[q])'
  <2>1. txn \in [Publishers -> Calls]
    BY DEF Inv, StoreOK, TypeOK
  <2>2. CASE q = p
    BY <1>1, <2>1, <2>2 DEF CallOK, Idle
  <2>3. CASE q # p
    <3>1. txn'[q] = txn[q] /\ txn[q] \in Calls /\ CallOK(txn[q])
      BY <1>1, <2>1, <2>3 DEF Inv
    <3> QED BY <1>16, <3>1, CallFramed
  <2> QED BY <2>2, <2>3
<1>18. PrunerOK'
  BY <1>1, <1>4 DEF Inv, PrunerOK
<1> QED BY <1>1, <1>10, <1>11, <1>12, <1>13, <1>15, <1>16, <1>17, <1>18 DEF Inv, StoreOK

\* A prune that no foreign key refuses leaves the remaining snapshots serving
\* what they served, and every reference resolving.
LEMMA PruneApplyStep ==
  ASSUME Inv, PruneApply
  PROVE  Inv' /\ Frame
<1>1. /\ live' = live \ Doomed /\ row' = PrunedRows
      /\ documents' = documents \ DeadDocuments /\ blobs' = blobs \ DeadBlobs
      /\ epoch' = epoch + 1 /\ pruner' = NoPrune
      /\ UNCHANGED <<created, head, version, primary, txn>>
  BY DEF PruneApply
<1>2. /\ \A l \in Locations : head[l] \notin Doomed
      /\ \A s \in live \ Doomed :
           /\ PrunedRows[s].base \notin Doomed /\ row[s].dep \notin Doomed
           /\ DocumentsOf(RootOf[row[s].loc], PrunedRows[s].delta) \cap DeadDocuments = {}
  BY DEF PruneApply, PruneRefused
<1>3. /\ created \in Nat /\ live \subseteq 1..created /\ live \subseteq Snapshots
      /\ Doomed \subseteq Snapshots /\ NoSnapshot \notin Doomed
  BY ChainAssumption DEF Inv, StoreOK, TypeOK, Prunes, Doomed, Snapshots, NoSnapshot
<1>4. /\ WellBased(row, live)
      /\ \A s \in live : row[s] \in Rows /\ row[s].delta \in Deltas
      /\ \A s \in live : Effective(row, s) \in FileSets
  BY StoredWellBased DEF Inv, StoreOK
<1>5. ASSUME NEW o \in Snapshots, o \notin live
      PROVE  row'[o] = EmptyRow
  <2>1. row[o] = EmptyRow
    BY <1>5 DEF Inv, StoreOK, TypeOK
  <2>2. o \notin Rebased
    BY <1>3, <2>1 DEF Rebased, EmptyRow
  <2> QED BY <1>1, <2>1, <2>2 DEF PrunedRows
<1>6. ASSUME NEW o \in Doomed
      PROVE  row'[o] = EmptyRow
  <2>1. o \in Snapshots /\ o \notin Rebased
    BY <1>3 DEF Doomed, Rebased
  <2> QED BY <1>1, <2>1 DEF PrunedRows
<1>7. ASSUME NEW s \in live'
      PROVE  row'[s] = IF s \in Rebased THEN RebasedRow(s) ELSE row[s]
  BY <1>1, <1>3 DEF PrunedRows
<1>8. ASSUME NEW s \in live'
      PROVE  /\ row'[s].loc = row[s].loc /\ row'[s].ordinal = row[s].ordinal
             /\ row'[s].dep = row[s].dep /\ row'[s] \in Rows
             /\ \/ row'[s].base = row[s].base /\ row'[s].delta = row[s].delta
                \/ /\ row'[s].base = NoSnapshot
                   /\ row'[s].delta = Difference(EmptyFiles, Effective(row, s))
  <2>1. s \in live /\ row[s] \in Rows /\ Effective(row, s) \in FileSets
    BY <1>1, <1>4
  <2>2. Difference(EmptyFiles, Effective(row, s)) \in Deltas
    BY <2>1 DEF Difference, FileSets, Deltas
  <2>3. CASE s \in Rebased
    <3>1. row'[s] = RebasedRow(s)
      BY <1>7, <2>3
    <3>2. NoSnapshot \in 0..MaxSnapshots
      BY ChainAssumption DEF NoSnapshot
    <3> HIDE DEF Difference
    <3> QED BY <2>1, <2>2, <3>1, <3>2 DEF RebasedRow, Rows
  <2>4. CASE s \notin Rebased
    BY <1>7, <2>1, <2>4
  <2> QED BY <2>3, <2>4
<1>9. TypeOK'
  <2>1. \A o \in Snapshots : row'[o] \in (IF o \in live' THEN Rows ELSE {EmptyRow})
    BY <1>1, <1>5, <1>6, <1>8
  <2>2. DOMAIN row' = Snapshots
    BY <1>1 DEF PrunedRows
  <2>3. pruner' \in Prunes
    BY <1>1 DEF NoPrune, Prunes, PrunePhases
  <2>4. epoch' \in Nat /\ live' \subseteq 1..created'
    BY <1>1, <1>3 DEF Inv, StoreOK, TypeOK
  <2>5. documents' \subseteq DocumentRows /\ blobs' \subseteq Contents
    BY <1>1 DEF Inv, StoreOK, TypeOK
  <2> QED BY <1>1, <2>1, <2>2, <2>3, <2>4, <2>5 DEF Inv, StoreOK, TypeOK
<1>10. ReferencesResolve'
  <2>1. ASSUME NEW l \in Locations, head'[l] # NoSnapshot
        PROVE  head'[l] \in live' /\ row'[head'[l]].loc = l
    BY <1>1, <1>2, <1>8, <2>1 DEF Inv, StoreOK, ReferencesResolve
  <2>2. ASSUME NEW s \in live'
        PROVE  /\ row'[s].base # NoSnapshot =>
                    /\ row'[s].base \in live'
                    /\ row'[row'[s].base].ordinal < row'[s].ordinal
                    /\ RootOf[row'[row'[s].base].loc] = RootOf[row'[s].loc]
               /\ row'[s].dep # NoSnapshot => row'[s].dep \in live'
    <3>1. s \in live \ Doomed
      BY <1>1
    <3>2. row'[s].dep # NoSnapshot => row'[s].dep \in live'
      BY <1>1, <1>2, <1>8, <3>1 DEF Inv, StoreOK, ReferencesResolve
    <3>3. ASSUME row'[s].base # NoSnapshot
          PROVE  row'[s].base = row[s].base /\ row[s].base \in live /\ row[s].base \in live'
      <4>1. row'[s].base = row[s].base /\ row[s].base \in live
        BY <1>8, <3>1, <3>3 DEF Inv, StoreOK, ReferencesResolve
      <4>2. row'[s].base \notin Doomed
        BY <1>1, <1>2, <3>1
      <4> QED BY <1>1, <4>1, <4>2
    <3> QED BY <1>8, <3>1, <3>2, <3>3 DEF Inv, StoreOK, ReferencesResolve
  <2> QED BY <2>1, <2>2 DEF ReferencesResolve
<1>11. PrimariesPlaced' /\ OrdinalsBounded'
  BY <1>1, <1>8 DEF Inv, StoreOK, PrimariesPlaced, OrdinalsBounded
<1>12. \A s \in live' : Effective(row', s) = Effective(row, s)
  <2>1. live' \subseteq live
    BY <1>1
  <2>2. WellBased(row', live')
    <3>1. \A s \in live' : s \in Snapshots /\ row'[s].ordinal \in Nat
      BY <1>3, <1>8, <2>1 DEF Rows
    <3> QED BY <1>10, <3>1 DEF WellBased, ReferencesResolve
  <2>3. Rewrites(row, row', live')
    BY <1>8, <1>10 DEF Rewrites, ReferencesResolve
  <2> QED BY <1>4, <2>1, <2>2, <2>3, RewritePreserves
<1>13. DeltasDocumented'
  <2> SUFFICES ASSUME NEW s \in live'
               PROVE  DocumentsOf(RootOf[row[s].loc], row'[s].delta) \subseteq documents'
    BY <1>8 DEF DeltasDocumented
  <2>1. s \in live /\ s \notin Doomed
    BY <1>1
  <2>2. DocumentsOf(RootOf[row[s].loc], row'[s].delta) \cap DeadDocuments = {}
    BY <1>1, <1>2, <2>1
  <2>3. DocumentsOf(RootOf[row[s].loc], row'[s].delta) \subseteq documents
    <3>1. CASE row'[s].delta = row[s].delta
      BY <2>1, <3>1 DEF Inv, StoreOK, DeltasDocumented
    <3>2. CASE row'[s].delta = Difference(EmptyFiles, Effective(row, s))
      <4>1. \A q \in Paths : row'[s].delta[q] \in Contents =>
              row'[s].delta[q] = Effective(row, s)[q] /\ Effective(row, s)[q] # Absent
        BY <3>2, ChainAssumption DEF Difference, EmptyFiles
      <4>2. ServedDocumentsExist
        BY DocumentedServes DEF Inv, StoreOK
      <4> QED BY <2>1, <4>1, <4>2 DEF ServedDocumentsExist, DocumentsOf
    <3> QED BY <1>8, <3>1, <3>2
  <2> QED BY <1>1, <2>2, <2>3
<1>14. Frame
  <2>1. \A l \in Locations : version[l] \in Nat
    BY DEF Inv, StoreOK, TypeOK
  <2> QED BY <1>1, <1>3, <1>8, <1>12, <2>1 DEF Frame
<1>15. ASSUME NEW p \in Publishers
       PROVE  CallOK(txn[p])'
  <2>1. txn'[p] = txn[p] /\ txn[p] \in Calls /\ CallOK(txn[p])
    BY <1>1 DEF Inv, StoreOK, TypeOK
  <2> QED BY <1>14, <2>1, CallFramed
<1>16. PrunerOK'
  BY <1>1 DEF PrunerOK, NoPrune
<1> QED BY <1>9, <1>10, <1>11, <1>13, <1>14, <1>15, <1>16 DEF Inv, StoreOK

\* Planning a prune changes nothing but the plan, which lists stored snapshots.
LEMMA PlanStep ==
  ASSUME Inv, UNCHANGED tables, UNCHANGED txn,
         \/ \E root \in Roots, preserve \in BOOLEAN : PruneList(root, preserve)
         \/ PrunePlan \/ PruneEnd
  PROVE  Inv' /\ Frame
<1>1. Frame
  BY QuietFrame DEF Inv, StoreOK
<1>2. live \subseteq Snapshots /\ live \subseteq 1..created /\ pruner \in Prunes
  BY ChainAssumption DEF Inv, StoreOK, TypeOK, Snapshots
<1>3. pruner' \in Prunes /\ PrunerOK'
  <2>1. ASSUME NEW root \in Roots, NEW preserve \in BOOLEAN, PruneList(root, preserve)
        PROVE  pruner' \in Prunes /\ PrunerOK'
    BY <1>2, <2>1 DEF PruneList, NoPrune, Prunes, PrunePhases, PrunerOK, SnapshotsOf, tables
  <2>2. ASSUME PrunePlan
        PROVE  pruner' \in Prunes /\ PrunerOK'
    <3> DEFINE K == Kept(pruner.list, pruner.root, pruner.preserve)
    <3>1. K \subseteq pruner.list
      BY DEF Kept
    <3>2. pruner' = [pruner EXCEPT !.phase = "planned", !.kept = K]
      BY <2>2 DEF PrunePlan
    <3> HIDE DEF K
    <3> QED BY <1>2, <3>1, <3>2 DEF Prunes, PrunePhases, Inv, PrunerOK, tables
  <2>3. ASSUME PruneEnd
        PROVE  pruner' \in Prunes /\ PrunerOK'
    BY <2>3 DEF PruneEnd, NoPrune, Prunes, PrunePhases, PrunerOK
  <2> QED BY <2>1, <2>2, <2>3
<1>4. StoreOK'
  BY <1>3 DEF Inv, StoreOK, TypeOK, tables, ReferencesResolve, PrimariesPlaced,
              OrdinalsBounded, DeltasDocumented
<1>5. ASSUME NEW p \in Publishers
      PROVE  CallOK(txn[p])'
  <2>1. txn'[p] = txn[p] /\ txn[p] \in Calls /\ CallOK(txn[p])
    BY DEF Inv, StoreOK, TypeOK
  <2> QED BY <1>1, <2>1, CallFramed
<1> QED BY <1>1, <1>3, <1>4, <1>5 DEF Inv

-----------------------------------------------------------------------------
(* Theorems.                                                               *)

\* The empty database satisfies the invariant.
LEMMA InitInv ==
  ASSUME Init
  PROVE  Inv
<1>1. TypeOK
  BY IdleCall, ChainAssumption
     DEF Init, TypeOK, Snapshots, NoSnapshot, NoPrune, Prunes, PrunePhases
<1>2. ReferencesResolve /\ PrimariesPlaced /\ OrdinalsBounded /\ DeltasDocumented /\ PrunerOK
  BY DEF Init, ReferencesResolve, PrimariesPlaced, OrdinalsBounded, DeltasDocumented,
         PrunerOK, NoPrune
<1>3. \A p \in Publishers : CallOK(txn[p])
  BY IdleCall DEF Init
<1> QED BY <1>1, <1>2, <1>3 DEF Inv, StoreOK

\* Every step preserves the invariant and frames the calls that do not take it.
LEMMA StepInv ==
  ASSUME Inv, [Next]_vars
  PROVE  Inv' /\ Frame
<1>1. ASSUME NEW p \in Publishers, Publish(p)
      PROVE  Inv' /\ Frame
  <2>1. ASSUME NEW req \in Requests, NEW pin \in 0..MaxSnapshots,
               NEW known \in 0..MaxSnapshots, Extract(p, req, pin, known)
        PROVE  Inv' /\ Frame
    BY <2>1, ExtractStep
  <2>2. CASE Begin(p)
    BY <2>2, BeginStep
  <2>3. CASE Write(p)
    BY <2>3, WriteStep
  <2>4. CASE Commit(p)
    BY <2>4, CommitStep
  <2>5. CASE OrdinalTaken(p)
    BY <2>5, EndStep DEF OrdinalTaken, InTransaction, LoseAllocation
  <2>6. CASE AllocationLost(p)
    BY <2>6, EndStep DEF AllocationLost, LoseAllocation
  <2>7. CASE PublicationRefused(p)
    BY <2>7, EndStep DEF PublicationRefused
  <2>8. CASE Abort(p)
    BY <2>8, EndStep DEF Abort
  <2> QED BY <1>1, <2>1, <2>2, <2>3, <2>4, <2>5, <2>6, <2>7, <2>8 DEF Publish
<1>2. CASE Prune
  <2>1. CASE PruneApply
    BY <2>1, PruneApplyStep
  <2>2. CASE ~PruneApply
    BY <1>2, <2>2, PlanStep DEF Prune, PruneList, PrunePlan, PruneEnd, LeaveTables
  <2> QED BY <2>1, <2>2
<1>3. CASE UNCHANGED vars
  <2>1. UNCHANGED tables /\ UNCHANGED txn /\ UNCHANGED pruner
    BY <1>3 DEF vars, tables
  <2>2. Frame
    BY <2>1, QuietFrame DEF Inv, StoreOK
  <2>3. StoreOK' /\ PrunerOK'
    BY <2>1 DEF Inv, StoreOK, TypeOK, tables, ReferencesResolve, PrimariesPlaced,
                OrdinalsBounded, DeltasDocumented, PrunerOK
  <2>4. ASSUME NEW p \in Publishers
        PROVE  CallOK(txn[p])'
    <3>1. txn'[p] = txn[p] /\ txn[p] \in Calls /\ CallOK(txn[p])
      BY <2>1 DEF Inv, StoreOK, TypeOK
    <3> QED BY <2>2, <3>1, CallFramed
  <2> QED BY <2>2, <2>3, <2>4 DEF Inv
<1> QED BY <1>1, <1>2, <1>3 DEF Next

\* The invariant holds in every reachable state.
THEOREM InvariantHolds == Spec => []Inv
<1>1. Init => Inv
  BY InitInv
<1>2. Inv /\ [Next]_vars => Inv'
  BY StepInv
<1> QED BY <1>1, <1>2, PTL DEF Spec

\* Type correctness: tables hold rows for stored snapshots and nothing for others.
THEOREM TypeCorrect == Spec => []TypeOK
<1>1. Inv => TypeOK
  BY DEF Inv, StoreOK
<1> QED BY <1>1, InvariantHolds, PTL

\* Heads, bases and dependency edges always resolve, and base chains descend.
THEOREM ReferencesAlwaysResolve == Spec => []ReferencesResolve
<1>1. Inv => ReferencesResolve
  BY DEF Inv, StoreOK
<1> QED BY <1>1, InvariantHolds, PTL

\* Every served path of every stored snapshot has its document.
THEOREM ServedDocumentsAlwaysExist == Spec => []ServedDocumentsExist
<1>1. Inv => ServedDocumentsExist
  BY DocumentedServes DEF Inv, StoreOK
<1> QED BY <1>1, InvariantHolds, PTL

\* Whatever publishers and the pruner do, a stored snapshot serves the same files
\* until it is deleted.
THEOREM SnapshotsStayImmutable == Spec => SnapshotsImmutable
<1>1. Inv /\ [Next]_vars =>
        [\A s \in live \cap live' : Effective(row', s) = Effective(row, s)]_vars
  BY StepInv DEF Frame
<1> QED BY <1>1, InvariantHolds, PTL DEF Spec, SnapshotsImmutable

\* Of a publisher's steps only a commit changes the tables.
LEMMA PublishersOnlyCommit ==
  ASSUME NEW q \in Publishers, Publish(q), ~Commit(q)
  PROVE  UNCHANGED tables
BY DEF Publish, Extract, Begin, Write, OrdinalTaken, AllocationLost, PublicationRefused,
       Abort, LoseAllocation, LeaveTables

\* Of the pruner's steps only the last changes the tables.
LEMMA PrunerOnlyApplies ==
  ASSUME Prune, ~PruneApply
  PROVE  UNCHANGED tables
BY DEF Prune, PruneList, PrunePlan, PruneEnd, LeaveTables

\* Only a commit creates a snapshot or moves a head.
LEMMA OnlyCommitPublishes ==
  ASSUME [Next]_vars, created' # created \/ head' # head
  PROVE  \E q \in Publishers : Commit(q)
<1>1. ASSUME Prune
      PROVE  UNCHANGED <<created, head>>
  BY <1>1, PrunerOnlyApplies DEF PruneApply, tables
<1> QED BY <1>1, PublishersOnlyCommit DEF Next, vars, tables

\* A committed publication serves exactly what it was asked to publish.
THEOREM PublicationsServeTheirRequest == Spec => PublishesItsRequest
<1> DEFINE A == \A p \in Publishers :
                  (/\ txn[p].phase = "written" /\ txn'[p].phase = "idle"
                   /\ created' # created)
                    => Effective(row', created') = txn[p].req.files
<1>1. ASSUME Inv, [Next]_vars
      PROVE  A
  <2> SUFFICES ASSUME NEW p \in Publishers, txn[p].phase = "written",
                      txn'[p].phase = "idle", created' # created
               PROVE  Effective(row', created') = txn[p].req.files
    OBVIOUS
  <2>1. PICK q \in Publishers : Commit(q)
    BY <1>1, OnlyCommitPublishes
  <2>2. q = p
    BY <1>1, <2>1 DEF Commit, Finish, Inv, StoreOK, TypeOK
  <2> QED BY <1>1, <2>1, <2>2, CommitStep
<1>2. Inv /\ [Next]_vars => [A]_vars
  BY <1>1
<1> QED BY <1>2, InvariantHolds, PTL DEF Spec, PublishesItsRequest

\* No head is moved over a publication its mover did not build on.
THEOREM HeadsNeverLoseAnUpdate == Spec => HeadsAdvanceFromTheirBase
<1> DEFINE A == \A l \in Locations :
                  head'[l] # head[l] =>
                    /\ version'[l] = version[l] + 1
                    /\ head'[l] \in live' \ live
                    /\ row'[head'[l]].loc = l
                    /\ head[l] # NoSnapshot => row'[head'[l]].base = head[l]
<1>1. ASSUME Inv, [Next]_vars
      PROVE  A
  <2> SUFFICES ASSUME NEW l \in Locations, head'[l] # head[l]
               PROVE  /\ version'[l] = version[l] + 1
                      /\ head'[l] \in live' \ live
                      /\ row'[head'[l]].loc = l
                      /\ head[l] # NoSnapshot => row'[head'[l]].base = head[l]
    OBVIOUS
  <2>1. PICK q \in Publishers : Commit(q)
    BY <1>1, OnlyCommitPublishes
  <2> DEFINE t == txn[q]
             new == created + 1
  <2>2. t \in Calls /\ CallOK(t) /\ t.phase = "written"
    BY <1>1, <2>1 DEF Inv, StoreOK, TypeOK, Commit
  <2>3. ~t.req.historical
    BY <2>1 DEF Commit
  <2>4. /\ created' = new /\ live' = live \cup {new}
        /\ row' = [row EXCEPT ![new] = SnapshotRow(t)] /\ created < MaxSnapshots
        /\ head' = [head EXCEPT ![t.req.loc] = new]
        /\ version' = [version EXCEPT ![t.req.loc] = @ + 1]
        /\ version[t.req.loc] = t.version
    BY <2>1, <2>3 DEF Commit, HeadMoved
  <2>5. /\ head \in [Locations -> 0..MaxSnapshots] /\ version \in [Locations -> Nat]
        /\ created \in Nat /\ live \subseteq 1..created /\ DOMAIN row = Snapshots
    BY <1>1, ChainAssumption DEF Inv, StoreOK, TypeOK
  <2>6. l = t.req.loc /\ head'[l] = new /\ version'[l] = version[l] + 1
    BY <2>4, <2>5
  <2>7. new \in Snapshots /\ new \notin live
    BY <2>4, <2>5, ChainAssumption DEF Snapshots
  <2>8. row'[new] = SnapshotRow(t)
    BY <2>4, <2>5, <2>7
  <2>9. head[l] # NoSnapshot => t.base = head[l]
    BY <2>2, <2>3, <2>4, <2>6 DEF CallOK
  <2> QED BY <2>4, <2>6, <2>7, <2>8, <2>9 DEF SnapshotRow
<1>2. Inv /\ [Next]_vars => [A]_vars
  BY <1>1
<1> QED BY <1>2, InvariantHolds, PTL DEF Spec, HeadsAdvanceFromTheirBase

\* The store implements the abstract history of whole, immutable snapshots.
THEOREM StoreImplementsHistory == Spec => ImplementsHistory
<1> DEFINE content == [o \in Snapshots |-> IF o \in live THEN Effective(row, o) ELSE None]
<1>1. Init => History!HistoryInit
  BY DEF Init, History!HistoryInit, NoSnapshot
<1>2. ASSUME Inv, [Next]_vars
      PROVE  History!HistoryNext \/ UNCHANGED History!historyVars
  <2>1. /\ created \in Nat /\ live \subseteq 1..created /\ live \subseteq Snapshots
        /\ \A s \in live : Effective(row, s) \in FileSets /\ Effective(row, s) # None
    BY <1>2, StoredWellBased, ChainAssumption, ConstantsAssumption
       DEF Inv, StoreOK, TypeOK, Snapshots
  <2>2. History!Stored = live
    BY <2>1 DEF History!Stored
  <2>3. Frame
    BY <1>2, StepInv
  <2>4. ASSUME NEW q \in Publishers, Commit(q)
        PROVE  History!HistoryNext
    <3> DEFINE t == txn[q]
               new == created + 1
    <3>1. Effective(row', new) = t.req.files /\ t.req \in RequestType
      BY <1>2, <2>4, CommitStep DEF Commit, Inv, CallOK
    <3>2. t.req.loc \in Locations /\ t.req.files \in FileSets
      BY <3>1 DEF RequestType
    <3>3. live' = live \cup {new} /\ created' = new /\ new \in Snapshots
      BY <2>1, <2>4, ChainAssumption DEF Commit, Snapshots
    <3>4. content' = [content EXCEPT ![new] = t.req.files]
      BY <2>1, <2>3, <3>1, <3>3 DEF Frame
    <3>5. head' \in {head, [head EXCEPT ![t.req.loc] = new]}
      BY <2>4 DEF Commit
    <3>6. \A s \in live : s < new
      BY <2>1
    <3> HIDE DEF t, new, content
    <3>7. \E l \in Locations, o \in Snapshots, files \in FileSets :
            /\ \A s \in History!Stored : s < o
            /\ content' = [content EXCEPT ![o] = files]
            /\ head' \in {head, [head EXCEPT ![l] = o]}
      BY <2>2, <3>2, <3>3, <3>4, <3>5, <3>6
    <3> USE DEF content
    <3> QED BY <3>7 DEF History!HistoryNext, History!Append
  <2>5. ASSUME PruneApply
        PROVE  History!HistoryNext \/ UNCHANGED History!historyVars
    <3> DEFINE gone == live \cap Doomed
    <3>1. live' = live \ gone /\ head' = head /\ \A l \in Locations : head[l] \notin gone
      BY <2>5 DEF PruneApply, PruneRefused
    <3>2. content' = [o \in Snapshots |-> IF o \in gone THEN None ELSE content[o]]
      BY <2>1, <2>3, <3>1 DEF Frame
    <3>3. CASE gone = {}
      <4>1. content' = content
        BY <3>2, <3>3
      <4> QED BY <3>1, <4>1 DEF History!historyVars
    <3>4. CASE gone # {}
      <4>1. gone \in SUBSET History!Stored
        BY <2>2
      <4> HIDE DEF gone, content
      <4>2. \E g \in SUBSET History!Stored :
              /\ g # {} /\ \A l \in Locations : head[l] \notin g
              /\ content' = [o \in Snapshots |-> IF o \in g THEN None ELSE content[o]]
              /\ UNCHANGED head
        BY <3>1, <3>2, <3>4, <4>1
      <4> USE DEF content
      <4> QED BY <4>2 DEF History!HistoryNext, History!Forget
    <3> QED BY <3>3, <3>4
  <2>6. ASSUME ~PruneApply, \A q \in Publishers : ~Commit(q)
        PROVE  UNCHANGED History!historyVars
    <3>1. UNCHANGED <<live, row, head>>
      BY <1>2, <2>6, PublishersOnlyCommit, PrunerOnlyApplies DEF Next, tables, vars
    <3> QED BY <3>1 DEF History!historyVars
  <2> QED BY <2>4, <2>5, <2>6
<1> QED BY <1>1, <1>2, InvariantHolds, PTL DEF Spec, ImplementsHistory, History!HistorySpec

-----------------------------------------------------------------------------
(* One connection (SQLite): transactions do not overlap.                   *)

\* Two publications are never in their transactions at once.
OneTransaction ==
  \A p, q \in Publishers : InTransaction(p) /\ InTransaction(q) => p = q

\* A prune has no publication beside it, so what it listed is still all there is
\* and what it keeps still follows from what it listed.
PruneAlone ==
  /\ pruner.phase # "idle" => /\ \A q \in Publishers : ~InTransaction(q)
                              /\ pruner.list = SnapshotsOf(pruner.root)
  /\ pruner.phase = "planned" => pruner.kept = Kept(pruner.list, pruner.root, pruner.preserve)

\* The bytes a dirty publication did not find stored it writes itself.
BytesAtHand ==
  \A p \in Publishers :
    txn[p].phase = "written" /\ txn[p].req.dirty => ContentOf(txn[p].req.files) \subseteq blobs \cup txn[p].bytes

SerialInv == Inv /\ OneTransaction /\ PruneAlone /\ BytesAtHand /\ DirtyBytesRetained

\* What a prune keeps whatever depends on it.
KeptFirst(list, root, preserve) ==
  NewestOf(list) \cup {s \in list : preserve /\ row[s].historical}
  \cup {s \in list : \E l \in Locations : RootOf[l] = root /\ head[l] = s}

\* The kept set is closed under the targets of all that survives, and no larger
\* than it has to be (keptSnapshots' loop to a fixpoint).
LEMMA KeptIsLeastClosed ==
  ASSUME NEW list, NEW root, NEW preserve
  PROVE  /\ Kept(list, root, preserve) \subseteq list
         /\ KeptFirst(list, root, preserve) \subseteq Kept(list, root, preserve)
         /\ KeepsTargets(list, Kept(list, root, preserve))
         /\ \A K \in SUBSET list :
              KeptFirst(list, root, preserve) \subseteq K /\ KeepsTargets(list, K)
                => Kept(list, root, preserve) \subseteq K
<1> DEFINE F == KeptFirst(list, root, preserve)
           K0 == {s \in list : \A K \in SUBSET list : (F \subseteq K /\ KeepsTargets(list, K)) => s \in K}
<1>1. Kept(list, root, preserve) = K0
  BY DEF Kept, KeptFirst
<1>2. F \subseteq list
  BY DEF KeptFirst, NewestOf
<1> HIDE DEF F
<1>3. F \subseteq K0
  BY <1>2
<1>4. ASSUME NEW s \in live \ (list \ K0), row[s].dep \in list
      PROVE  row[s].dep \in K0
  <2>1. ASSUME NEW K \in SUBSET list, F \subseteq K, KeepsTargets(list, K)
        PROVE  row[s].dep \in K
    <3>1. s \in live \ (list \ K)
      BY <2>1
    <3> QED BY <1>4, <2>1, <3>1 DEF KeepsTargets
  <2> QED BY <1>4, <2>1
<1>5. KeepsTargets(list, K0)
  <2> HIDE DEF K0
  <2> QED BY <1>4 DEF KeepsTargets
<1> QED BY <1>1, <1>3, <1>5 DEF F

\* With no publication beside it, all that still refers to what a prune deletes is
\* deleted or rewritten with it.
LEMMA LonePlanIsComplete ==
  ASSUME Inv, PruneAlone
  PROVE  PlanIsComplete
<1> SUFFICES ASSUME pruner.phase = "planned"
             PROVE  ~PruneRefused
  BY DEF PlanIsComplete
<1> DEFINE list == SnapshotsOf(pruner.root)
<1>1. /\ pruner.list = list
      /\ pruner.kept = Kept(list, pruner.root, pruner.preserve)
  BY DEF PruneAlone
<1>2. /\ pruner.kept \subseteq list
      /\ KeptFirst(list, pruner.root, pruner.preserve) \subseteq pruner.kept
      /\ KeepsTargets(list, pruner.kept)
  BY <1>1, KeptIsLeastClosed
<1>3. Doomed = list \ pruner.kept
  BY <1>1 DEF Doomed
<1>4. list = {s \in live : RootOf[row[s].loc] = pruner.root}
  BY DEF SnapshotsOf
<1> HIDE DEF list
<1>5. /\ live \subseteq Snapshots /\ NoSnapshot \notin live
      /\ ReferencesResolve
  BY ChainAssumption DEF Inv, StoreOK, TypeOK, Snapshots, NoSnapshot
<1>6. /\ WellBased(row, live)
      /\ \A s \in live : row[s] \in Rows /\ row[s].delta \in Deltas
  BY StoredWellBased DEF Inv, StoreOK
<1>7. ASSUME NEW l \in Locations
      PROVE  head[l] \notin Doomed
  <2> SUFFICES ASSUME head[l] \in list
               PROVE  head[l] \in pruner.kept
    BY <1>3
  <2>1. row[head[l]].loc = l
    BY <1>4, <1>5 DEF ReferencesResolve
  <2>2. head[l] \in KeptFirst(list, pruner.root, pruner.preserve)
    BY <1>4, <2>1 DEF KeptFirst
  <2> QED BY <1>2, <2>2
<1>8. ASSUME NEW s \in live \ Doomed
      PROVE  PrunedRows[s] = IF s \in Rebased THEN RebasedRow(s) ELSE row[s]
  BY <1>5 DEF PrunedRows
<1>9. ASSUME NEW s \in live \ Doomed
      PROVE  PrunedRows[s].base \notin Doomed
  <2>1. CASE s \in Rebased
    BY <1>3, <1>4, <1>5, <1>6, <1>8, <2>1 DEF RebasedRow, Rows
  <2>2. CASE s \notin Rebased
    <3> SUFFICES ASSUME row[s].base \in Doomed
                 PROVE  FALSE
      BY <1>8, <2>2
    <3>1. row[s].base \in list /\ row[s].base # NoSnapshot
      BY <1>3, <1>4, <1>5
    <3>2. s \in list
      BY <1>4, <1>5, <3>1 DEF ReferencesResolve
    <3>3. s \in pruner.kept
      BY <1>3, <3>2
    <3> QED BY <2>2, <3>3 DEF Rebased
  <2> QED BY <2>1, <2>2
<1>10. ASSUME NEW s \in live \ Doomed
       PROVE  row[s].dep \notin Doomed
  <2>1. s \in live \ (list \ pruner.kept)
    BY <1>3
  <2>2. row[s].dep \in list => row[s].dep \in pruner.kept
    BY <1>2, <2>1 DEF KeepsTargets
  <2> QED BY <1>3, <2>2
<1>11. ASSUME NEW s \in live \ Doomed
       PROVE  DocumentsOf(RootOf[row[s].loc], PrunedRows[s].delta) \cap DeadDocuments = {}
  <2> SUFFICES ASSUME NEW p \in Paths, PrunedRows[s].delta[p] \in Contents,
                      RootOf[row[s].loc] = pruner.root
               PROVE  s \in pruner.kept /\ Effective(row, s)[p] = PrunedRows[s].delta[p]
    BY DEF DocumentsOf, DeadDocuments
  <2>1. s \in pruner.kept
    BY <1>3, <1>4
  <2>2. CASE s \in Rebased
    <3>1. PrunedRows[s].delta = Difference(EmptyFiles, Effective(row, s))
      BY <1>6, <1>8, <2>2 DEF RebasedRow, Rows
    <3> QED BY <2>1, <3>1, ChainAssumption DEF Difference, EmptyFiles
  <2>3. CASE s \notin Rebased
    <3>1. PrunedRows[s].delta = row[s].delta
      BY <1>8, <2>3
    <3>2. Effective(row, s)[p] = Decode(row[s].delta[p])
      BY <1>6, <3>1, EffectiveUnfold, ChainAssumption
    <3> QED BY <2>1, <3>1, <3>2, ChainAssumption DEF Decode
  <2> QED BY <2>2, <2>3
<1> QED BY <1>7, <1>9, <1>10, <1>11 DEF PruneRefused

\* A publisher's step ends or restarts its call, or opens or goes on with its
\* transaction, which it opens only when nobody else's is open.
LEMMA SerialCall ==
  ASSUME SerialWriters, Inv, NEW p \in Publishers, Publish(p)
  PROVE  /\ UNCHANGED pruner
         /\ \A q \in Publishers \ {p} : txn'[q] = txn[q]
         /\ InTransaction(p)' /\ ~InTransaction(p) =>
              pruner.phase = "idle" /\ \A q \in Publishers \ {p} : ~InTransaction(q)
         /\ (txn'[p].phase = "written") => Write(p)
<1>0. Idle.phase = "idle"
  BY DEF Idle
<1>1. txn \in [Publishers -> Calls]
  BY DEF Inv, StoreOK, TypeOK
<1>2. CASE Begin(p)
  <2>1. \E u : txn' = [txn EXCEPT ![p] = u] /\ u.phase \in {"idle", "begun"}
    <3>1. CASE Finish(p)
      BY <1>0, <3>1 DEF Finish
    <3>2. CASE ~Finish(p)
      <4> DEFINE u == [txn[p] EXCEPT !.phase = "begun",
                         !.base = IF txn[p].pin # NoSnapshot THEN txn[p].pin ELSE ModuleBase(txn[p].req.loc),
                         !.version = version[txn[p].req.loc],
                         !.registers = primary[RootOf[txn[p].req.loc]] = None]
      <4>1. txn' = [txn EXCEPT ![p] = u]
        BY <1>2, <3>2 DEF Begin
      <4>2. u.phase = "begun"
        BY <1>1 DEF Calls
      <4> HIDE DEF u
      <4> QED BY <4>1, <4>2
    <3> QED BY <3>1, <3>2
  <2>2. /\ pruner.phase = "idle" /\ UNCHANGED pruner
        /\ \A q \in Publishers \ {p} : ~InTransaction(q)
    BY <1>2 DEF Begin, MayBegin
  <2>3. (\A q \in Publishers \ {p} : txn'[q] = txn[q]) /\ txn'[p].phase # "written"
    BY <1>1, <2>1
  <2> QED BY <2>2, <2>3
<1>3. CASE Write(p)
  <2>1. txn[p].phase = "begun" /\ UNCHANGED pruner
    BY <1>3 DEF Write
  <2>2. \E u : txn' = [txn EXCEPT ![p] = u]
    BY <1>3 DEF Write, Finish
  <2>3. \A q \in Publishers \ {p} : txn'[q] = txn[q]
    BY <1>1, <2>2
  <2> QED BY <1>3, <2>1, <2>3 DEF InTransaction
<1>4. ASSUME Finish(p) \/ LoseAllocation(p), UNCHANGED pruner
      PROVE  /\ UNCHANGED pruner
             /\ \A q \in Publishers \ {p} : txn'[q] = txn[q]
             /\ txn'[p].phase \in {"idle", "extracted"}
  <2>1. \E u : txn' = [txn EXCEPT ![p] = u] /\ u.phase \in {"idle", "extracted"}
    <3>1. CASE Finish(p)
      BY <1>0, <3>1 DEF Finish
    <3>2. CASE LoseAllocation(p)
      <4> DEFINE t == txn[p]
                 v == [Idle EXCEPT !.phase = "extracted", !.req = t.req, !.seen = t.seen,
                                   !.pin = t.pin, !.target = t.target,
                                   !.reused = t.reused, !.attempt = t.attempt + 1]
      <4>1. txn' = [txn EXCEPT ![p] = v] \/ txn' = [txn EXCEPT ![p] = Idle]
        BY <3>2 DEF LoseAllocation
      <4>2. v.phase = "extracted"
        BY DEF Idle
      <4> HIDE DEF v
      <4> QED BY <1>0, <4>1, <4>2
    <3> QED BY <1>4, <3>1, <3>2
  <2> QED BY <1>1, <1>4, <2>1
<1>5. ASSUME NEW req \in Requests, NEW pin \in 0..MaxSnapshots,
             NEW known \in 0..MaxSnapshots, Extract(p, req, pin, known)
      PROVE  /\ UNCHANGED pruner
             /\ \A q \in Publishers \ {p} : txn'[q] = txn[q]
             /\ txn'[p].phase \in {"idle", "extracted"}
  <2>1. PICK target, reused :
          txn' = [txn EXCEPT ![p] =
            [Idle EXCEPT !.phase = "extracted", !.req = req, !.seen = known, !.pin = pin,
                         !.target = target, !.attempt = 1, !.reused = reused]]
    BY <1>5 DEF Extract
  <2> QED BY <1>1, <1>5, <2>1 DEF Extract, Idle
<1>6. CASE Commit(p) \/ OrdinalTaken(p) \/ AllocationLost(p) \/ PublicationRefused(p) \/ Abort(p)
  BY <1>4, <1>6 DEF Commit, OrdinalTaken, AllocationLost, PublicationRefused, Abort, InTransaction
<1> QED BY <1>2, <1>3, <1>5, <1>6 DEF Publish, InTransaction

\* What the pruner holds still says what it said.
PlanStays ==
  /\ UNCHANGED pruner
  /\ SnapshotsOf(pruner.root)' = SnapshotsOf(pruner.root)
  /\ Kept(pruner.list, pruner.root, pruner.preserve)' = Kept(pruner.list, pruner.root, pruner.preserve)

\* A step that leaves the tables and the pruner alone does not age a plan.
LEMMA QuietPlan ==
  ASSUME UNCHANGED tables, UNCHANGED pruner
  PROVE  PlanStays
<1>1. SnapshotsOf(pruner.root)' = SnapshotsOf(pruner.root)
  BY DEF SnapshotsOf, tables
<1>2. Kept(pruner.list, pruner.root, pruner.preserve)' = Kept(pruner.list, pruner.root, pruner.preserve)
  BY DEF Kept, NewestOf, KeepsTargets, tables
<1> QED BY <1>1, <1>2 DEF PlanStays

\* One transaction at a time stays one, and a prune alone stays alone.
LEMMA SerialStays ==
  ASSUME SerialWriters, Inv, OneTransaction, PruneAlone, [Next]_vars
  PROVE  OneTransaction' /\ PruneAlone'
<1>1. ASSUME NEW p \in Publishers, Publish(p)
      PROVE  OneTransaction' /\ PruneAlone'
  <2>1. /\ UNCHANGED pruner
        /\ \A q \in Publishers \ {p} : InTransaction(q)' = InTransaction(q)
        /\ InTransaction(p)' /\ ~InTransaction(p) =>
             pruner.phase = "idle" /\ \A q \in Publishers \ {p} : ~InTransaction(q)
    BY <1>1, SerialCall DEF InTransaction
  <2>2. OneTransaction'
    BY <2>1 DEF OneTransaction
  <2>3. CASE pruner.phase = "idle"
    BY <2>1, <2>2, <2>3 DEF PruneAlone
  <2>4. CASE pruner.phase # "idle"
    <3>1. \A q \in Publishers : ~InTransaction(q) /\ ~InTransaction(q)'
      BY <2>1, <2>4 DEF PruneAlone
    <3>2. ~Commit(p)
      BY <3>1 DEF Commit, InTransaction
    <3>3. UNCHANGED tables
      BY <1>1, <3>2, PublishersOnlyCommit
    <3>4. PlanStays
      BY <2>1, <3>3, QuietPlan
    <3> QED BY <2>2, <3>1, <3>4 DEF PruneAlone, PlanStays
  <2> QED BY <2>2, <2>3, <2>4
<1>2. CASE Prune
  <2>1. UNCHANGED txn
    BY <1>2 DEF Prune, PruneList, PrunePlan, PruneApply, PruneEnd
  <2>2. OneTransaction' /\ \A q \in Publishers : InTransaction(q)' = InTransaction(q)
    BY <2>1 DEF OneTransaction, InTransaction
  <2>3. CASE PruneApply \/ PruneEnd
    <3>1. pruner' = NoPrune
      BY <2>3 DEF PruneApply, PruneEnd
    <3>2. pruner'.phase = "idle"
      BY <3>1 DEF NoPrune
    <3> QED BY <2>2, <3>2 DEF PruneAlone
  <2>4. ASSUME NEW root \in Roots, NEW preserve \in BOOLEAN, PruneList(root, preserve)
        PROVE  PruneAlone'
    <3>1. /\ pruner'.phase = "listed" /\ pruner'.root = root /\ pruner'.list = SnapshotsOf(root)
          /\ \A q \in Publishers : ~InTransaction(q)
          /\ UNCHANGED tables
      BY <2>4 DEF PruneList, NoPrune, LeaveTables
    <3>2. SnapshotsOf(pruner.root)' = SnapshotsOf(root)
      BY <3>1 DEF SnapshotsOf, tables
    <3>3. \A q \in Publishers : ~InTransaction(q)'
      BY <2>2, <3>1
    <3>4. pruner'.phase # "planned" /\ pruner'.list = SnapshotsOf(pruner.root)'
      BY <3>1, <3>2
    <3> QED BY <3>3, <3>4 DEF PruneAlone
  <2>5. CASE PrunePlan
    <3> DEFINE K == Kept(pruner.list, pruner.root, pruner.preserve)
    <3>1. /\ pruner' = [pruner EXCEPT !.phase = "planned", !.kept = K]
          /\ pruner.phase = "listed" /\ UNCHANGED tables /\ pruner \in Prunes
      BY <2>5 DEF PrunePlan, LeaveTables, Inv, StoreOK, TypeOK
    <3>2. /\ pruner'.phase = "planned" /\ pruner'.root = pruner.root /\ pruner'.kept = K
          /\ pruner'.preserve = pruner.preserve /\ pruner'.list = pruner.list
      <4> HIDE DEF K
      <4> QED BY <3>1 DEF Prunes
    <3>3. /\ pruner.list = SnapshotsOf(pruner.root)
          /\ \A q \in Publishers : ~InTransaction(q)
      BY <3>1 DEF PruneAlone
    <3>5. Kept(pruner.list, pruner.root, pruner.preserve)' = K
      BY <3>1, <3>2 DEF Kept, NewestOf, KeepsTargets, tables
    <3>6. SnapshotsOf(pruner.root)' = SnapshotsOf(pruner.root)
      BY <3>1, <3>2 DEF SnapshotsOf, tables
    <3> HIDE DEF K
    <3> QED BY <2>2, <3>2, <3>3, <3>5, <3>6 DEF PruneAlone
  <2> QED BY <1>2, <2>2, <2>3, <2>4, <2>5 DEF Prune
<1>3. CASE UNCHANGED vars
  <2>1. UNCHANGED tables /\ UNCHANGED txn /\ UNCHANGED pruner
    BY <1>3 DEF vars, tables
  <2>2. PlanStays
    BY <2>1, QuietPlan
  <2> QED BY <2>1, <2>2 DEF OneTransaction, PruneAlone, InTransaction, PlanStays
<1> QED BY <1>1, <1>2, <1>3 DEF Next

\* A step keeps the bytes of what dirty snapshots serve: a publication brings what it
\* did not find, and a prune deletes no hash that a served document still has.
LEMMA BytesStay ==
  ASSUME SerialWriters, SerialInv, [Next]_vars
  PROVE  BytesAtHand' /\ DirtyBytesRetained'
<1>1. /\ Inv /\ Inv' /\ Frame
      /\ txn \in [Publishers -> Calls] /\ DOMAIN row = Snapshots
      /\ live \subseteq 1..created /\ live \subseteq Snapshots /\ created \in Nat
  BY StepInv, ChainAssumption DEF SerialInv, Inv, StoreOK, TypeOK, Snapshots
<1>2. ASSUME UNCHANGED tables
      PROVE  DirtyBytesRetained'
  BY <1>2 DEF SerialInv, DirtyBytesRetained, tables
<1>3. ASSUME NEW p \in Publishers, Publish(p)
      PROVE  BytesAtHand' /\ DirtyBytesRetained'
  <2>1. \A q \in Publishers \ {p} : txn'[q] = txn[q]
    BY <1>1, <1>3, SerialCall
  <2>2. CASE Commit(p)
    <3> DEFINE new == created + 1
               t == txn[p]
    <3>1. /\ created' = new /\ live' = live \cup {new}
          /\ row' = [row EXCEPT ![new] = SnapshotRow(t)]
          /\ blobs' = blobs \cup t.bytes /\ txn' = [txn EXCEPT ![p] = Idle]
          /\ created < MaxSnapshots /\ t.phase = "written"
      BY <2>2 DEF Commit, Finish
    <3>2. new \in Snapshots /\ new \notin live
      BY <1>1, <3>1, ChainAssumption DEF Snapshots
    <3>3. row'[new] = SnapshotRow(t) /\ \A s \in live : row'[s] = row[s]
      BY <1>1, <3>1, <3>2
    <3>4. Effective(row', new) = t.req.files
      BY <1>1, <2>2, <3>1, CommitStep
    <3>5. ASSUME NEW s \in live, row'[s].dirty
          PROVE  ContentOf(Effective(row', s)) \subseteq blobs'
      <4>1. Effective(row', s) = Effective(row, s)
        BY <1>1, <3>1 DEF Frame
      <4>2. ContentOf(Effective(row, s)) \subseteq blobs
        BY <3>3, <3>5 DEF SerialInv, DirtyBytesRetained
      <4> QED BY <3>1, <4>1, <4>2
    <3>6. row'[new].dirty => ContentOf(Effective(row', new)) \subseteq blobs'
      BY <3>1, <3>3, <3>4 DEF SnapshotRow, SerialInv, BytesAtHand
    <3>7. DirtyBytesRetained'
      BY <3>1, <3>5, <3>6 DEF DirtyBytesRetained
    <3>8. txn'[p].phase = "idle"
      BY <1>1, <3>1 DEF Idle
    <3>9. BytesAtHand'
      BY <2>1, <3>1, <3>8 DEF SerialInv, BytesAtHand
    <3> QED BY <3>7, <3>9
  <2>3. CASE ~Commit(p)
    <3>1. UNCHANGED tables
      BY <1>3, <2>3, PublishersOnlyCommit
    <3>2. ASSUME txn'[p].phase = "written", txn'[p].req.dirty
          PROVE  ContentOf(txn'[p].req.files) \subseteq blobs \cup txn'[p].bytes
      <4>1. Write(p)
        BY <1>1, <1>3, <3>2, SerialCall
      <4> DEFINE t == txn[p]
                 d == Difference(ServedBy(row, t.base), t.req.files)
                 f == DocumentsOf(RootOf[t.req.loc], d) \cap documents
                 b == (IF t.req.dirty THEN ContentOf(t.req.files) ELSE {}) \ blobs
                 u == [t EXCEPT !.phase = "written", !.ordinal = NextOrdinal,
                                !.delta = d, !.found = f, !.bytes = b]
      <4>2. txn' = [txn EXCEPT ![p] = u] \/ Finish(p)
        BY <4>1 DEF Write
      <4>3. txn'[p].phase = "idle" \/ txn'[p] = u
        BY <1>1, <4>2 DEF Finish, Idle
      <4>4. t \in Calls
        BY <1>1
      <4>5. u.req = t.req /\ u.bytes = b
        <5> HIDE DEF d, f, b
        <5> QED BY <4>4 DEF Calls
      <4>6. txn'[p].req = t.req /\ txn'[p].bytes = b
        <5> HIDE DEF u
        <5> QED BY <3>2, <4>3, <4>5
      <4> QED BY <3>2, <4>6
    <3>3. BytesAtHand'
      BY <2>1, <3>1, <3>2 DEF SerialInv, BytesAtHand, tables
    <3> QED BY <1>2, <3>1, <3>3
  <2> QED BY <2>2, <2>3
<1>4. CASE PruneApply
  <2>1. /\ live' = live \ Doomed /\ row' = PrunedRows /\ UNCHANGED txn
        /\ documents' = documents \ DeadDocuments /\ blobs' = blobs \ DeadBlobs
        /\ pruner.phase = "planned"
    BY <1>4 DEF PruneApply
  <2>2. BytesAtHand'
    BY <2>1 DEF SerialInv, PruneAlone, BytesAtHand, InTransaction
  <2>3. ASSUME NEW s \in live', row'[s].dirty
        PROVE  ContentOf(Effective(row', s)) \subseteq blobs'
    <3>1. s \in live /\ s \notin Doomed /\ s \in Snapshots
      BY <1>1, <2>1
    <3>2. row'[s].loc = row[s].loc /\ Effective(row', s) = Effective(row, s)
      BY <1>1, <2>3, <3>1 DEF Frame
    <3>3. row'[s] = (IF s \in Rebased THEN RebasedRow(s) ELSE row[s])
      BY <2>1, <3>1 DEF PrunedRows
    <3>4. row[s] \in Rows
      BY <1>1, <3>1, StoredWellBased DEF Inv, StoreOK
    <3>5. row'[s].dirty = row[s].dirty
      BY <3>3, <3>4 DEF RebasedRow, Rows
    <3>6. ContentOf(Effective(row, s)) \subseteq blobs
      BY <2>3, <3>1, <3>5 DEF SerialInv, DirtyBytesRetained
    <3>7. ServedDocumentsExist'
      BY <1>1, DocumentedServes, PTL DEF Inv, StoreOK
    <3>8. ASSUME NEW q \in Paths, Effective(row, s)[q] # Absent
          PROVE  Effective(row, s)[q] \notin DeadBlobs
      <4>1. <<RootOf[row[s].loc], q, Effective(row, s)[q]>> \in documents'
        BY <2>3, <3>2, <3>7, <3>8 DEF ServedDocumentsExist
      <4> QED BY <2>1, <4>1 DEF DeadBlobs
    <3> QED BY <2>1, <3>2, <3>6, <3>8 DEF ContentOf
  <2> QED BY <2>2, <2>3 DEF DirtyBytesRetained
<1>5. CASE Prune /\ ~PruneApply
  <2>1. UNCHANGED tables /\ UNCHANGED txn
    BY <1>5, PrunerOnlyApplies DEF Prune, PruneList, PrunePlan, PruneEnd
  <2> QED BY <1>2, <2>1 DEF SerialInv, BytesAtHand, tables
<1>6. CASE UNCHANGED vars
  <2>1. UNCHANGED tables /\ UNCHANGED txn
    BY <1>6 DEF vars, tables
  <2> QED BY <1>2, <2>1 DEF SerialInv, BytesAtHand, tables
<1> QED BY <1>3, <1>4, <1>5, <1>6 DEF Next

\* The serial invariant holds from the empty database on.
LEMMA SerialInvariant ==
  ASSUME SerialWriters
  PROVE  Spec => []SerialInv
<1>1. Init => SerialInv
  BY InitInv DEF Init, SerialInv, OneTransaction, PruneAlone, BytesAtHand, DirtyBytesRetained,
                 InTransaction, Idle, NoPrune
<1>2. SerialInv /\ [Next]_vars => SerialInv'
  BY StepInv, SerialStays, BytesStay DEF SerialInv
<1> QED BY <1>1, <1>2, PTL DEF Spec

\* On SQLite a prune is never refused half way: its plan spares the ends of all
\* references that remain.
THEOREM LonePrunesAreNeverRefused ==
  ASSUME SerialWriters
  PROVE  Spec => []PlanIsComplete
<1>1. SerialInv => PlanIsComplete
  BY LonePlanIsComplete DEF SerialInv
<1> QED BY <1>1, SerialInvariant, PTL

\* On SQLite the bytes of every file that a dirty snapshot serves stay stored.
THEOREM DirtyBytesStayRetained ==
  ASSUME SerialWriters
  PROVE  Spec => []DirtyBytesRetained
<1>1. SerialInv => DirtyBytesRetained
  BY DEF SerialInv
<1> QED BY <1>1, SerialInvariant, PTL

\* With fewer snapshots above it, a snapshot that was among the newest still is.
LEMMA NewestStay ==
  ASSUME Inv, NEW list, list \subseteq live, NEW fewer \in SUBSET list
  PROVE  NewestOf(list) \cap fewer \subseteq NewestOf(fewer)
<1>1. IsFiniteSet(list)
  <2>1. IsFiniteSet(1..created)
    BY FS_Interval, ChainAssumption DEF Inv, StoreOK, TypeOK
  <2>2. list \subseteq 1..created
    BY DEF Inv, StoreOK, TypeOK
  <2> QED BY <2>1, <2>2, FS_Subset
<1>2. ASSUME NEW s \in fewer, s \in NewestOf(list)
      PROVE  s \in NewestOf(fewer)
  <2> DEFINE above(S) == {t \in S : row[t].ordinal > row[s].ordinal}
  <2>1. IsFiniteSet(above(list)) /\ above(fewer) \in SUBSET above(list)
    BY <1>1, FS_Subset
  <2>2. /\ Cardinality(above(fewer)) <= Cardinality(above(list))
        /\ Cardinality(above(fewer)) \in Nat /\ Cardinality(above(list)) \in Nat
    <3>1. IsFiniteSet(above(fewer))
      BY <2>1, FS_Subset
    <3> QED BY <2>1, <3>1, FS_Subset, FS_CardinalityType
  <2>3. Cardinality(above(list)) < Keep
    BY <1>2 DEF NewestOf
  <2> HIDE DEF above
  <2>4. Cardinality(above(fewer)) < Keep
    BY <2>2, <2>3, ConstantsAssumption
  <2> USE DEF above
  <2> QED BY <2>4 DEF NewestOf
<1> QED BY <1>2

\* Right after a prune that ran alone, planning it again would keep everything: what
\* was kept first still is, and what depended on the kept set is still there.
LEMMA LonePruneSettles ==
  ASSUME Inv, PruneAlone, PruneApply, NEW root, NEW keeps,
         pruner.root = root, pruner.preserve = keeps
  PROVE  Settled(root, keeps)'
<1> DEFINE list == SnapshotsOf(root)
<1>0. PICK kept : kept = pruner.kept
  OBVIOUS
<1>1. /\ live' = live \ Doomed /\ row' = PrunedRows /\ head' = head
      /\ pruner.phase = "planned"
  BY DEF PruneApply
<1>2. pruner.list = list /\ kept = Kept(list, root, keeps)
  BY <1>0, <1>1 DEF PruneAlone
<1>3. /\ kept \subseteq list
      /\ KeptFirst(list, root, keeps) \subseteq kept
      /\ KeepsTargets(list, kept)
      /\ \A K \in SUBSET list :
           KeptFirst(list, root, keeps) \subseteq K /\ KeepsTargets(list, K) => kept \subseteq K
  BY <1>2, KeptIsLeastClosed
<1>4. Doomed = list \ kept
  BY <1>0, <1>2 DEF Doomed
<1>5. list = {s \in live : RootOf[row[s].loc] = root}
  BY DEF SnapshotsOf
<1>6. ASSUME NEW s \in live'
      PROVE  /\ s \in live /\ row'[s].loc = row[s].loc /\ row'[s].dep = row[s].dep
             /\ row'[s].ordinal = row[s].ordinal /\ row'[s].historical = row[s].historical
  <2>1. s \in live /\ s \in Snapshots /\ s \notin Doomed /\ row[s] \in Rows
    BY <1>1, StoredWellBased DEF Inv, StoreOK
  <2>2. row'[s] = (IF s \in Rebased THEN RebasedRow(s) ELSE row[s])
    BY <1>1, <2>1 DEF PrunedRows
  <2> QED BY <2>1, <2>2 DEF RebasedRow, Rows
<1> HIDE DEF list
<1>7. SnapshotsOf(root)' = kept
  <2>1. {s \in live' : RootOf[row'[s].loc] = root} = {s \in live' : RootOf[row[s].loc] = root}
    BY <1>6
  <2>2. {s \in live' : RootOf[row[s].loc] = root} = kept
    BY <1>1, <1>3, <1>4, <1>5
  <2> QED BY <2>1, <2>2 DEF SnapshotsOf
<1>8. ASSUME NEW K \in SUBSET kept, KeptFirst(kept, root, keeps)' \subseteq K,
             KeepsTargets(kept, K)'
      PROVE  kept \subseteq K
  <2>1. kept \subseteq live' /\ list \subseteq live
    BY <1>1, <1>3, <1>4, <1>5
  <2>2. NewestOf(list) \subseteq K
    <3>1. NewestOf(list) \subseteq kept
      BY <1>3 DEF KeptFirst
    <3>2. NewestOf(list) \subseteq NewestOf(kept)
      BY <1>3, <2>1, <3>1, NewestStay
    <3>3. NewestOf(kept)' = NewestOf(kept)
      <4>1. \A s, t \in kept : row'[t].ordinal > row'[s].ordinal <=> row[t].ordinal > row[s].ordinal
        BY <1>6, <2>1
      <4>2. \A s \in kept : {t \in kept : row'[t].ordinal > row'[s].ordinal}
                             = {t \in kept : row[t].ordinal > row[s].ordinal}
        BY <4>1
      <4> QED BY <4>2 DEF NewestOf
    <3> QED BY <1>8, <3>2, <3>3 DEF KeptFirst
  <2>3. {s \in list : keeps /\ row[s].historical} \subseteq K
    <3>1. {s \in list : keeps /\ row[s].historical} \subseteq kept
      BY <1>3 DEF KeptFirst
    <3> QED BY <1>6, <1>8, <2>1, <3>1 DEF KeptFirst
  <2>4. {s \in list : \E l \in Locations : RootOf[l] = root /\ head[l] = s} \subseteq K
    <3>1. {s \in list : \E l \in Locations : RootOf[l] = root /\ head[l] = s} \subseteq kept
      BY <1>3 DEF KeptFirst
    <3> QED BY <1>1, <1>8, <3>1 DEF KeptFirst
  <2>5. KeptFirst(list, root, keeps) \subseteq K
    BY <2>2, <2>3, <2>4 DEF KeptFirst
  <2>6. ASSUME NEW s \in live \ (list \ K), row[s].dep \in list
        PROVE  row[s].dep \in K
    <3>1. s \in live \ (list \ kept)
      OBVIOUS
    <3>2. s \in live' /\ row'[s].dep = row[s].dep
      BY <1>1, <1>4, <1>6, <3>1
    <3>3. row[s].dep \in kept
      BY <1>3, <2>6, <3>1 DEF KeepsTargets
    <3>4. s \in live' \ (kept \ K)
      BY <1>3, <2>6, <3>2
    <3> QED BY <1>8, <3>2, <3>3, <3>4 DEF KeepsTargets
  <2>7. KeepsTargets(list, K)
    BY <2>6 DEF KeepsTargets
  <2>8. K \in SUBSET list
    BY <1>3
  <2> QED BY <1>3, <2>5, <2>7, <2>8
<1>9. Kept(SnapshotsOf(root), root, keeps)'
        = {s \in kept : \A K \in SUBSET kept :
             (KeptFirst(kept, root, keeps)' \subseteq K /\ KeepsTargets(kept, K)') => s \in K}
  BY <1>7 DEF Kept, KeptFirst, NewestOf, KeepsTargets
<1>10. Kept(SnapshotsOf(root), root, keeps)' = kept
  BY <1>8, <1>9
<1> QED BY <1>7, <1>10 DEF Settled

\* On SQLite a second prune with the same keep deletes nothing.
THEOREM LonePrunesAreIdempotent ==
  ASSUME SerialWriters
  PROVE  Spec => PruneIsIdempotent
<1> DEFINE A == \A root \in Roots, preserve \in BOOLEAN :
                  (epoch' # epoch /\ pruner.root = root /\ pruner.preserve = preserve)
                    => Settled(root, preserve)'
<1>1. ASSUME SerialInv, [Next]_vars
      PROVE  A
  <2> SUFFICES ASSUME NEW root \in Roots, NEW preserve \in BOOLEAN, epoch' # epoch,
                      pruner.root = root, pruner.preserve = preserve
               PROVE  Settled(root, preserve)'
    OBVIOUS
  <2>1. PruneApply
    <3>1. ASSUME NEW q \in Publishers, Publish(q)
          PROVE  UNCHANGED epoch
      BY <3>1, PublishersOnlyCommit DEF Commit, tables
    <3> QED BY <1>1, <3>1, PrunerOnlyApplies DEF Next, vars, tables
  <2> QED BY <1>1, <2>1, LonePruneSettles DEF SerialInv
<1>2. SerialInv /\ [Next]_vars => [A]_vars
  BY <1>1
<1> QED BY <1>2, SerialInvariant, PTL DEF Spec, PruneIsIdempotent
=============================================================================
