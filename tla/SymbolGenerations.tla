-------------------------- MODULE SymbolGenerations --------------------------
(***************************************************************************)
(* Content generations: how many implementations a symbol has had along a  *)
(* snapshot's base chain.  Every symbol delta carries the count; deltas of *)
(* binaries that did not know it have none, and every process that opens   *)
(* the database read-write fills those in first, snapshot by snapshot,     *)
(* while others publish, prune and open.                                   *)
(*                                                                         *)
(* Paths are symbol handles here, a file set is what a snapshot declares,  *)
(* and a content is a declaration: its signature and its implementation.   *)
(* Snapshots are numbered by their ordinals, in the order of publication.  *)
(***************************************************************************)
EXTENDS DeltaChain, FiniteSets, Sequences

CONSTANTS
  BodyOf,         \* content_fp: a declaration's implementation
  Processes,      \* processes of this version of uir
  MemoSize,       \* generationMemo
  NotFound        \* the chain never named the handle; no implementation

ASSUME GenerationConstants ==
  /\ DOMAIN BodyOf = Contents
  /\ NotFound \notin {BodyOf[c] : c \in Contents}
  /\ MemoSize \in Nat

VARIABLES
  created,  \* snapshots published
  live,     \* snapshots
  row,      \* a snapshot's base, its symbol deltas and their content_generation
  history,  \* what was declared along the chain as published; nobody stores it
  marker,   \* symbol_generation_backfill
  proc

vars == <<created, live, row, history, marker, proc>>

Null == 0
Bodies == {BodyOf[c] : c \in Contents}
\* SymbolGeneration: the newest delta of a handle; a tombstone has no body.
Generation == [found : BOOLEAN, generation : 0..MaxSnapshots, body : Bodies \cup {NotFound}]
Unnamed == [found |-> FALSE, generation |-> 0, body |-> NotFound]
GenerationMaps == [Paths -> Generation]
NoGenerations == [h \in Paths |-> Unnamed]

Rows == [base : 0..MaxSnapshots, delta : Deltas, gen : [Paths -> 0..MaxSnapshots]]
EmptyRow == [base |-> NoSnapshot, delta |-> [h \in Paths |-> Same], gen |-> [h \in Paths |-> Null]]

\* A process: closed, opening the database (from "asked" to "filling"), or open.
\* Opening, it has its copy of the marker, the snapshots it listed with their bases,
\* the base chain's generations of the snapshot at hand, and the ones it keeps.
Phases == {"closed", "asked", "read", "started", "cutting", "filling", "open"}
Closed == [phase |-> "closed", through |-> 0, complete |-> FALSE, bases |-> <<>>,
           prior |-> NoGenerations, memo |-> <<>>]
NoMarker == [exists |-> FALSE, through |-> 0, complete |-> FALSE]

Init ==
  /\ created = 0
  /\ live = {}
  /\ row = [s \in Snapshots |-> EmptyRow]
  /\ history = [s \in Snapshots |-> <<>>]
  /\ marker = NoMarker
  /\ proc = [p \in Processes |-> Closed]

-----------------------------------------------------------------------------
(* Generations along a chain.                                              *)

BodyOfDelta(op) == IF op \in Contents THEN BodyOf[op] ELSE NotFound

\* SymbolGenerations: the newest delta of each handle the chain names, tombstones
\* included.
Generations(s) ==
  IF s = NoSnapshot THEN NoGenerations
  ELSE [h \in Paths |->
          LET naming == Naming(row, s, h)
              t == Nearest(row, naming)
          IN IF naming = {} THEN Unnamed
             ELSE [found |-> TRUE, generation |-> row[t].gen[h],
                   body |-> BodyOfDelta(row[t].delta[h])]]

\* A set starts at 1, keeps the generation when the implementation is the same, and
\* is one more otherwise; a delete carries the generation the symbol ended at.
NextContentGeneration(prior, op) ==
  CASE op = Deleted -> prior.generation
    [] op # Deleted /\ ~prior.found -> 1
    [] op # Deleted /\ prior.found /\ prior.body = BodyOf[op] -> prior.generation
    [] OTHER -> prior.generation + 1

\* The map after a snapshot's deltas: gen are their generations.
Applied(prior, delta, gen) ==
  [h \in Paths |-> IF delta[h] = Same THEN prior[h]
                   ELSE [found |-> TRUE, generation |-> gen[h], body |-> BodyOfDelta(delta[h])]]

Counts(prior, delta) ==
  [h \in Paths |-> IF delta[h] = Same THEN Null ELSE NextContentGeneration(prior[h], delta[h])]

HasNull(s) == \E h \in Paths : row[s].delta[h] # Same /\ row[s].gen[h] = Null

-----------------------------------------------------------------------------
(* Publishing and pruning.                                                 *)

Add(base, declared, gen) ==
  /\ created < MaxSnapshots
  /\ base \in live \cup {NoSnapshot}
  /\ created' = created + 1
  /\ live' = live \cup {created'}
  /\ row' = [row EXCEPT ![created'] =
               [base |-> base, delta |-> Difference(ServedBy(row, base), declared), gen |-> gen]]
  /\ history' = [history EXCEPT ![created'] =
                   Append(IF base = NoSnapshot THEN <<>> ELSE history[base], declared)]
  /\ UNCHANGED <<marker, proc>>

\* An older binary's publication, at any time: the column is left NULL.
OldPublish(base, declared) ==
  Add(base, declared, [h \in Paths |-> Null])

\* deltaRows: a handle whose newest delta has no generation refuses the publication.
Publish(p, base, declared) ==
  LET delta == Difference(ServedBy(row, base), declared)
      prior == Generations(base)
  IN /\ proc[p].phase = "open"
     /\ \A h \in Paths : delta[h] # Same /\ prior[h].found => prior[h].generation # Null
     /\ Add(base, declared, Counts(prior, delta))

\* rebaseSnapshot: a set row for each symbol the snapshot declares, with its
\* generation; the tombstones go.
RebasedRow(s) ==
  [base |-> NoSnapshot, delta |-> Difference(EmptyFiles, Effective(row, s)),
   gen |-> [h \in Paths |-> IF Effective(row, s)[h] = Absent THEN Null
                            ELSE Generations(s)[h].generation]]

\* A prune of any part of the history; the newest snapshot is always kept, so ordinals
\* are never reused.  A symbol of a rebased snapshot that has no generation refuses it.
Prune(p, doomed) ==
  LET rebased == {s \in live \ doomed : row[s].base \in doomed} IN
  /\ proc[p].phase = "open"
  /\ created \notin doomed
  /\ \A s \in rebased, h \in Paths :
       Effective(row, s)[h] # Absent => Generations(s)[h].generation # Null
  /\ live' = live \ doomed
  /\ row' = [s \in Snapshots |-> CASE s \in doomed -> EmptyRow
                                   [] s \in rebased -> RebasedRow(s)
                                   [] OTHER -> row[s]]
  /\ history' = [s \in Snapshots |-> IF s \in doomed THEN <<>> ELSE history[s]]
  /\ UNCHANGED <<created, marker, proc>>

-----------------------------------------------------------------------------
(* Opening the database: cutOverSymbolGenerations.                         *)

Move(p, state) == proc' = [proc EXCEPT ![p] = state]
LeaveTables == UNCHANGED <<created, live, row, history>>

\* The marker is read.
ReadMarker(p) ==
  /\ proc[p].phase = "closed"
  /\ Move(p, [Closed EXCEPT !.phase = "asked", !.through = marker.through,
                            !.complete = marker.complete])
  /\ LeaveTables /\ UNCHANGED marker

\* Mutant: a complete marker ends the cutover, whatever was written since.
NothingToDoByMarker(nulls, complete) == complete

\* There is nothing to do when no row lacks a generation and the marker says so.
NothingToDo(nulls, complete) == nulls = {} /\ complete

\* The lowest row without a generation is looked up: the cutover starts over below it.
\* Nothing to do opens the database.
FindLowest(p) ==
  LET nulls == {s \in live : HasNull(s)}
      lowest == CHOOSE s \in nulls : \A t \in nulls : s <= t
      state == proc[p]
  IN /\ state.phase = "asked"
     /\ Move(p, IF NothingToDo(nulls, state.complete) THEN [Closed EXCEPT !.phase = "open"]
                ELSE [state EXCEPT !.phase = "read", !.complete = nulls = {},
                                   !.through = IF nulls = {} THEN state.through ELSE lowest - 1])
     /\ LeaveTables /\ UNCHANGED marker

\* The marker is saved.
SaveMarker(p) ==
  /\ proc[p].phase = "read"
  /\ marker' = [exists |-> TRUE, through |-> proc[p].through, complete |-> proc[p].complete]
  /\ Move(p, IF proc[p].complete THEN [Closed EXCEPT !.phase = "open"]
             ELSE [proc[p] EXCEPT !.phase = "started"])
  /\ LeaveTables

\* backfillSymbolGenerations lists the snapshots and their bases.
ListSnapshots(p) ==
  /\ proc[p].phase = "started"
  /\ Move(p, [proc[p] EXCEPT !.phase = "cutting", !.bases = [s \in live |-> row[s].base]])
  /\ LeaveTables /\ UNCHANGED marker

\* The listed snapshots still to do.
Remaining(state) == {s \in DOMAIN state.bases : s > state.through}

\* Mutant: the newest comes first.
AtHandNewest(state) == CHOOSE s \in Remaining(state) : \A t \in Remaining(state) : t <= s

\* The one at hand: they are done in the order of ordinals.
AtHand(state) == CHOOSE s \in Remaining(state) : \A t \in Remaining(state) : s <= t

\* Snapshots past s that build on b.
Dependants(state, b, s) == {t \in DOMAIN state.bases : t > s /\ state.bases[t] = b}

\* The base chain's generations are read, unless they are kept.  The base may be
\* gone, or have rows without a generation: then opening fails.
ReadBase(p) ==
  LET state == proc[p]
      base == state.bases[AtHand(state)]
      kept == base \in DOMAIN state.memo
      prior == IF kept THEN state.memo[base] ELSE Generations(base)
      unread == ~kept /\ base # NoSnapshot
  IN /\ state.phase = "cutting"
     /\ Remaining(state) # {}
     /\ Move(p, IF unread /\ (\/ base \notin live
                              \/ \E h \in Paths : prior[h].found /\ prior[h].generation = Null)
                  THEN Closed
                  ELSE [state EXCEPT !.phase = "filling", !.prior = prior])
     /\ LeaveTables /\ UNCHANGED marker

\* Mutant: the kept map of a base that others build on is not cloned.
MemoAfterShared(state, s, next) ==
  LET b == state.bases[s]
      dropped == {k \in {b} : Dependants(state, b, s) = {}}
      old == [k \in DOMAIN state.memo \ dropped |-> IF k = b THEN next ELSE state.memo[k]]
      keeps == Dependants(state, s, s) # {} /\ Cardinality(DOMAIN old) < MemoSize
  IN [k \in DOMAIN old \cup {t \in {s} : keeps} |-> IF k \in DOMAIN old THEN old[k] ELSE next]

\* The maps kept after snapshot s: its base's while others build on it, and its own
\* when one builds on it, as far as there is room.
MemoAfter(state, s, next) ==
  LET b == state.bases[s]
      wanted == b # NoSnapshot /\ Dependants(state, b, s) # {}
      old == {k \in DOMAIN state.memo : k # b \/ wanted}
      added == {k \in {b} : wanted /\ k \notin old /\ Cardinality(old) < MemoSize}
      own == {k \in {s} : Dependants(state, s, s) # {} /\ Cardinality(old \cup added) < MemoSize}
  IN [k \in old \cup added \cup own |->
        CASE k \in old -> state.memo[k]
          [] k \in added -> state.prior
          [] OTHER -> next]

\* Mutant: rows that carry a generation are counted again.
FilledAll(s, prior) == Counts(prior, row[s].delta)

\* Rows that carry a generation keep it.
Filled(s, prior) ==
  [h \in Paths |-> IF row[s].gen[h] # Null THEN row[s].gen[h]
                   ELSE Counts(prior, row[s].delta)[h]]

\* One transaction: the snapshot's deltas without a generation get theirs, and the
\* marker moves on.  A snapshot that was pruned has none.
Fill(p) ==
  LET state == proc[p]
      s == AtHand(state)
      gen == Filled(s, state.prior)
      next == Applied(state.prior, row[s].delta, gen)
  IN /\ state.phase = "filling"
     /\ row' = [row EXCEPT ![s].gen = gen]
     /\ marker' = [marker EXCEPT !.through = s]
     /\ Move(p, [state EXCEPT !.phase = "cutting", !.through = s,
                              !.prior = NoGenerations, !.memo = MemoAfter(state, s, next)])
     /\ UNCHANGED <<created, live, history>>

\* All listed snapshots are done.
Complete(p) ==
  /\ proc[p].phase = "cutting"
  /\ Remaining(proc[p]) = {}
  /\ marker' = [marker EXCEPT !.complete = TRUE]
  /\ Move(p, [Closed EXCEPT !.phase = "open"])
  /\ LeaveTables

\* A process ends, by itself or not; what it had in memory is lost.
Stop(p) ==
  /\ proc[p].phase # "closed"
  /\ Move(p, Closed)
  /\ LeaveTables /\ UNCHANGED marker

-----------------------------------------------------------------------------
Next ==
  \/ \E base \in live \cup {NoSnapshot}, declared \in FileSets :
       \/ OldPublish(base, declared)
       \/ \E p \in Processes : Publish(p, base, declared)
  \/ \E p \in Processes :
       \/ \E doomed \in SUBSET live \ {{}} : Prune(p, doomed)
       \/ ReadMarker(p) \/ FindLowest(p) \/ SaveMarker(p) \/ ListSnapshots(p)
       \/ ReadBase(p) \/ Fill(p) \/ Complete(p) \/ Stop(p)

Spec == Init /\ [][Next]_vars

\* Commands are run again and again, and each of them ends.  They may always be stopped
\* while they open the database, but not always at the same step.
Opens ==
  \A p \in Processes :
    /\ WF_vars(ReadMarker(p)) /\ WF_vars(Stop(p))
    /\ SF_vars(FindLowest(p)) /\ SF_vars(SaveMarker(p)) /\ SF_vars(ListSnapshots(p))
    /\ SF_vars(ReadBase(p)) /\ SF_vars(Fill(p))

FairSpec == Spec /\ Opens

-----------------------------------------------------------------------------
(* Properties.                                                             *)

\* The types; a base is a snapshot that exists, and no more than generationMemo maps
\* are kept.
TypeOK ==
  /\ created \in 0..MaxSnapshots
  /\ live \subseteq 1..created
  /\ row \in [Snapshots -> Rows]
  /\ marker \in [exists : BOOLEAN, through : 0..MaxSnapshots, complete : BOOLEAN]
  /\ \A s \in live : row[s].base \in live \cup {NoSnapshot}
  /\ \A p \in Processes :
       LET state == proc[p] IN
       /\ state.phase \in Phases
       /\ state.through \in 0..MaxSnapshots
       /\ state.prior \in GenerationMaps
       /\ DOMAIN state.bases \subseteq Snapshots
       /\ \A s \in DOMAIN state.memo : state.memo[s] \in GenerationMaps
       /\ Cardinality(DOMAIN state.memo) <= MemoSize

\* Every row that carries a generation carries the one that follows from the base
\* chain it is read with now: NextContentGeneration of the base's newest delta, which
\* carries one too.  A chain that never named the handle is followed by a set.  Holds
\* whoever wrote the row: a publication, a backfill that kept the base's map, a
\* backfill that resumed, or a rebase.
GenerationsFollowTheirBase ==
  \A s \in live, h \in Paths :
    LET op == row[s].delta[h]
        prior == Generations(row[s].base)[h]
    IN op # Same /\ row[s].gen[h] # Null =>
         IF prior.found
           THEN prior.generation # Null /\ row[s].gen[h] = NextContentGeneration(prior, op)
           ELSE op # Deleted

GenerationOf(s, h) == Generations(s)[h].generation
Implementation(s, h, i) ==
  IF i = 0 \/ history[s][i][h] = Absent THEN NotFound ELSE BodyOf[history[s][i][h]]
\* The implementations that h had from the first'th snapshot of the chain on.
Implementations(s, h, first) ==
  Cardinality({i \in first..Len(history[s]) :
    Implementation(s, h, i) \notin {NotFound, Implementation(s, h, i - 1)}})
\* Where h appeared for the last time, when s declares it.
LastAdded(s, h) == CHOOSE i \in 1..Len(history[s]) :
  /\ Implementation(s, h, i - 1) = NotFound
  /\ \A j \in i..Len(history[s]) : Implementation(s, h, j) # NotFound

\* symbol.generation counts the implementations a symbol has had along the chain as it
\* was published, whatever was pruned since and whoever counted: never more, and never
\* fewer than since it was last added.  (A prune may forget what was before that, since
\* rebased snapshots have no tombstones.)
GenerationsCountImplementations ==
  \A s \in live, h \in Paths :
    Effective(row, s)[h] # Absent /\ GenerationOf(s, h) # Null =>
      GenerationOf(s, h) \in
        Implementations(s, h, LastAdded(s, h))..Implementations(s, h, 1)

\* A generation is right both ways: against the chain it is read with and against the
\* history that was published.
GenerationsAreCounts == GenerationsFollowTheirBase /\ GenerationsCountImplementations

\* No snapshot that the marker says is done has a row without a generation, with older
\* binaries publishing at any time and any number of processes opening and stopping.
ThroughIsDone ==
  marker.exists => \A s \in live : s <= marker.through => ~HasNull(s)

\* The cutover's state is of its types and its marker tells the truth.
MarkerIsTrue == TypeOK /\ ThroughIsDone

\* An interrupted cutover resumes: however often it is cut off, and whatever older
\* binaries published after it was complete, in the end every row has its generation.
CutoverResumes == <>[](\A s \in live : ~HasNull(s))

\* A generation a snapshot serves is final: no backfill, however late, and no rebase
\* changes what a query answered.
GenerationsAreFinal ==
  [][\A s \in live \cap live', h \in Paths :
       Effective(row, s)[h] # Absent /\ GenerationOf(s, h) # Null =>
         GenerationOf(s, h)' = GenerationOf(s, h)]_vars
=============================================================================
