------------------------------ MODULE DeltaChain ------------------------------
(***************************************************************************)
(* How a snapshot is stored and read: storage.EffectiveSources,            *)
(* EffectiveDocumentOrdinals and the delta writers.  A snapshot row names  *)
(* its base and holds one delta per path that differs from the base; a     *)
(* reader takes, for each path, the delta of the nearest link of the base  *)
(* chain that has one.                                                     *)
(***************************************************************************)
EXTENDS Naturals

CONSTANTS
  MaxSnapshots,   \* bound: snapshots ever published
  Paths, Contents,
  Absent,         \* the path is not in the file set
  Same,           \* the snapshot has no delta row for the path
  Deleted         \* the delta row is a tombstone

ASSUME ChainAssumption ==
  /\ MaxSnapshots \in Nat
  /\ Absent \notin Contents
  /\ {Same, Deleted} \cap Contents = {}
  /\ Same # Deleted
  /\ Absent \notin {Same, Deleted}

Snapshots == 1..MaxSnapshots
NoSnapshot == 0

\* What a location's worktree (or a producer's document set) holds.
FileSets == [Paths -> Contents \cup {Absent}]
\* One delta row per path, or none.
Deltas == [Paths -> Contents \cup {Same, Deleted}]

\* The base chain of s: the least set that holds s and the base of every member.
\* r is the snapshots table.
Chain(r, s) ==
  {t \in Snapshots : \A C \in SUBSET Snapshots :
     (/\ s \in C
      /\ \A u \in C : r[u].base # NoSnapshot => r[u].base \in C) => t \in C}

\* The links of the chain with a delta for path p.
Naming(r, s, p) == {t \in Chain(r, s) : r[t].delta[p] # Same}
\* The one of them nearest to s: the others are in its own chain.
Nearest(r, naming) == CHOOSE t \in naming : naming \subseteq Chain(r, t)

\* A tombstone drops its path.
Decode(op) == IF op = Deleted THEN Absent ELSE op

Effective(r, s) ==
  [p \in Paths |->
     LET naming == Naming(r, s, p)
     IN IF naming = {} THEN Absent ELSE Decode(r[Nearest(r, naming)].delta[p])]

EmptyFiles == [p \in Paths |-> Absent]
ServedBy(r, s) == IF s = NoSnapshot THEN EmptyFiles ELSE Effective(r, s)

\* Mutant: a path that went leaves no tombstone.
DifferenceNoTombstone(previous, current) ==
  [p \in Paths |-> IF current[p] \in {previous[p], Absent} THEN Same ELSE current[p]]

\* createSourceDeltas and CreateDocumentDeltas: set what changed, delete what went.
Difference(previous, current) ==
  [p \in Paths |-> IF current[p] = previous[p] THEN Same
                   ELSE IF current[p] = Absent THEN Deleted ELSE current[p]]

ContentOf(files) == {files[p] : p \in Paths} \ {Absent}
=============================================================================
