----------------------- MODULE SymbolGenerationsProofs -----------------------
(***************************************************************************)
(* What content generations promise, for every set of symbols and          *)
(* contents, any number of snapshots, processes and kept maps.             *)
(***************************************************************************)
EXTENDS SymbolGenerations, DeltaChainProofs, FiniteSetTheorems

-----------------------------------------------------------------------------
(* Chains whose ordinals are the snapshots' numbers.                       *)

\* L is a set of stored snapshots of table r: every base is stored and older.
Based(r, L) ==
  /\ L \subseteq Snapshots
  /\ \A s \in L : r[s].base # NoSnapshot => r[s].base \in L /\ r[s].base < s

\* The table with its ordinals written out.
Numbered(r) == [s \in Snapshots |-> [ordinal |-> s, base |-> r[s].base, delta |-> r[s].delta]]

\* Writing them out changes no chain.
LEMMA NumberedChains ==
  ASSUME NEW r
  PROVE  /\ \A s : Chain(Numbered(r), s) = Chain(r, s)
         /\ \A s, h : Naming(Numbered(r), s, h) = Naming(r, s, h)
         /\ \A s, h : Nearest(Numbered(r), Naming(r, s, h)) = Nearest(r, Naming(r, s, h))
         /\ \A s \in Snapshots : /\ Numbered(r)[s].base = r[s].base
                                 /\ Numbered(r)[s].delta = r[s].delta /\ Numbered(r)[s].ordinal = s
<1> DEFINE n == Numbered(r)
<1>1. \A s \in Snapshots : n[s].base = r[s].base /\ n[s].delta = r[s].delta /\ n[s].ordinal = s
  BY DEF Numbered
<1> HIDE DEF n
<1>2. ASSUME NEW s PROVE Chain(n, s) = Chain(r, s)
  <2>1. ASSUME NEW C \in SUBSET Snapshots
        PROVE  (\A u \in C : n[u].base # NoSnapshot => n[u].base \in C)
                 <=> (\A u \in C : r[u].base # NoSnapshot => r[u].base \in C)
    BY <1>1
  <2> QED
    BY <2>1 DEF Chain
<1>3. ASSUME NEW s, NEW h PROVE Naming(n, s, h) = Naming(r, s, h)
  <2>1. Chain(r, s) \subseteq Snapshots
    BY DEF Chain
  <2> QED
    BY <1>1, <1>2, <2>1 DEF Naming
<1>4. ASSUME NEW s, NEW h PROVE Nearest(n, Naming(r, s, h)) = Nearest(r, Naming(r, s, h))
  BY <1>2 DEF Nearest
<1> QED
  BY <1>1, <1>2, <1>3, <1>4 DEF n

\* With its ordinals written out, the table is the one the chain lemmas are about.
LEMMA NumberedIsBased ==
  ASSUME NEW r, NEW L, Based(r, L)
  PROVE  WellBased(Numbered(r), L) /\ L \subseteq Snapshots /\ \A s \in L : s \in Nat
<1>1. \A s \in L : s \in Snapshots /\ s \in Nat
  BY DEF Based, Snapshots
<1> QED
  BY <1>1, NumberedChains DEF Based, WellBased

\* What holds of a snapshot once it holds of its base holds of all.
LEMMA BaseInduction ==
  ASSUME NEW r, NEW L, Based(r, L), NEW G \in SUBSET L,
         \A s \in L : (r[s].base # NoSnapshot => r[s].base \in G) => s \in G
  PROVE  L \subseteq G
<1>1. WellBased(Numbered(r), L) /\ \A s \in L : Numbered(r)[s].base = r[s].base
  BY NumberedIsBased, NumberedChains
<1> QED
  BY <1>1, ChainInduction

\* The nearest delta of a handle is the snapshot's own or the base's nearest.
LEMMA NearestDelta ==
  ASSUME NEW r, NEW L, Based(r, L), NEW s \in L, NEW h \in Paths
  PROVE  /\ r[s].delta[h] # Same => Naming(r, s, h) # {} /\ Nearest(r, Naming(r, s, h)) = s
         /\ r[s].delta[h] = Same /\ r[s].base = NoSnapshot => Naming(r, s, h) = {}
         /\ r[s].delta[h] = Same /\ r[s].base # NoSnapshot => Naming(r, s, h) = Naming(r, r[s].base, h)
<1>1. WellBased(Numbered(r), L) /\ s \in Snapshots
  BY NumberedIsBased
<1>2. Numbered(r)[s].base = r[s].base /\ Numbered(r)[s].delta = r[s].delta
  BY <1>1, NumberedChains
<1>3. /\ r[s].delta[h] # Same => Nearest(r, Naming(r, s, h)) = s
      /\ r[s].delta[h] = Same => Naming(r, s, h) = (IF r[s].base = NoSnapshot THEN {} ELSE Naming(r, r[s].base, h))
  BY <1>1, <1>2, NumberedChains, NearestUnfold
<1>4. r[s].delta[h] # Same => s \in Naming(r, s, h)
  BY <1>1, ChainSelf DEF Naming
<1> QED
  BY <1>3, <1>4

\* What a snapshot serves is its delta over what its base serves.
LEMMA FilesUnfold ==
  ASSUME NEW r, NEW L, Based(r, L), NEW s \in L, NEW h \in Paths
  PROVE  Effective(r, s)[h] = IF r[s].delta[h] # Same THEN Decode(r[s].delta[h])
                              ELSE ServedBy(r, r[s].base)[h]
<1>1. \A t : Effective(r, t)[h] = IF Naming(r, t, h) = {} THEN Absent
                                  ELSE Decode(r[Nearest(r, Naming(r, t, h))].delta[h])
  BY DEF Effective
<1>2. EmptyFiles[h] = Absent
  BY DEF EmptyFiles
<1> QED
  BY <1>1, <1>2, NearestDelta DEF ServedBy

-----------------------------------------------------------------------------
(* Generations along a chain.                                              *)

\* What a snapshot's own delta says of a handle.
Own(r, s, h) == [found |-> TRUE, generation |-> r[s].gen[h], body |-> BodyOfDelta(r[s].delta[h])]

\* The generation of a handle, from the table r.
GenerationIn(r, s, h) ==
  IF s = NoSnapshot \/ Naming(r, s, h) = {} THEN Unnamed ELSE Own(r, Nearest(r, Naming(r, s, h)), h)

\* SymbolGenerations reads the generations of the stored table.
LEMMA GenerationsAreIn ==
  /\ \A s : \A h \in Paths : Generations(s)[h] = GenerationIn(row, s, h)
  /\ \A s : Generations(s) = [h \in Paths |-> GenerationIn(row, s, h)]
  BY Zenon DEF Generations, GenerationIn, Own, NoGenerations

\* A snapshot's own delta comes first, then its base's generation.
LEMMA GenerationUnfold ==
  ASSUME NEW r, NEW L, Based(r, L), NEW s \in L, NEW h \in Paths
  PROVE  GenerationIn(r, s, h) = IF r[s].delta[h] # Same THEN Own(r, s, h)
                                 ELSE GenerationIn(r, r[s].base, h)
<1>1. s # NoSnapshot
  BY DEF Based, Snapshots, NoSnapshot
<1> QED
  BY <1>1, NearestDelta DEF GenerationIn

BodyOfFile(c) == IF c = Absent THEN NotFound ELSE BodyOf[c]

\* Rows of the types the database gives them; a generation never exceeds the number of
\* snapshots there can have been.
RowsOK(r, L) ==
  \A s \in L : r[s].delta \in Deltas /\ \A h \in Paths : r[s].gen[h] \in 0..s

\* A generation has its type, and the body of what the snapshot serves: none when the
\* handle was deleted or never named.
LEMMA GenerationsAreTyped ==
  ASSUME NEW r, NEW L, Based(r, L), RowsOK(r, L), NEW s \in L \cup {NoSnapshot}, NEW h \in Paths
  PROVE  /\ GenerationIn(r, s, h) \in Generation /\ GenerationIn(r, s, h).generation \in 0..s
         /\ GenerationIn(r, s, h).body = BodyOfFile(ServedBy(r, s)[h])
         /\ ServedBy(r, s)[h] \in Contents \cup {Absent}
         /\ GenerationIn(r, s, h).found \/ GenerationIn(r, s, h) = Unnamed
<1> DEFINE Fine(u) == LET g == GenerationIn(r, u, h) IN
             /\ g \in Generation /\ g.generation \in 0..u
             /\ g.body = BodyOfFile(ServedBy(r, u)[h]) /\ ServedBy(r, u)[h] \in Contents \cup {Absent}
             /\ g.found \/ g = Unnamed
           G == {u \in L : Fine(u)}
<1>1. MaxSnapshots \in Nat /\ \A u \in L : u \in 1..MaxSnapshots
  BY ChainAssumption DEF Based, Snapshots
<1>2. Fine(NoSnapshot)
  <2>1. GenerationIn(r, NoSnapshot, h) = Unnamed /\ ServedBy(r, NoSnapshot)[h] = Absent
    BY DEF GenerationIn, ServedBy, EmptyFiles
  <2>2. Unnamed \in Generation /\ Unnamed.generation = 0 /\ Unnamed.body = NotFound
    BY <1>1 DEF Unnamed, Generation
  <2> QED
    BY <2>1, <2>2 DEF BodyOfFile, NoSnapshot
<1>3. ASSUME NEW u \in L, r[u].base # NoSnapshot => r[u].base \in G
      PROVE  u \in G
  <2>1. u \in 1..MaxSnapshots /\ r[u].delta \in Deltas /\ r[u].gen[h] \in 0..u /\ u # NoSnapshot
    BY <1>1 DEF RowsOK, NoSnapshot
  <2>2. ServedBy(r, u)[h] = IF r[u].delta[h] # Same THEN Decode(r[u].delta[h]) ELSE ServedBy(r, r[u].base)[h]
    BY <2>1, FilesUnfold DEF ServedBy
  <2>3. GenerationIn(r, u, h) = IF r[u].delta[h] # Same THEN Own(r, u, h) ELSE GenerationIn(r, r[u].base, h)
    BY GenerationUnfold
  <2>4. CASE r[u].delta[h] # Same
    <3>1. PICK op \in Contents \cup {Deleted} : op = r[u].delta[h]
      BY <2>1, <2>4 DEF Deltas
    <3>2. PICK n \in 0..MaxSnapshots : n = r[u].gen[h] /\ n \in 0..u
      BY <1>1, <2>1
    <3>3. BodyOfDelta(op) \in Bodies \cup {NotFound} /\ BodyOfDelta(op) = BodyOfFile(Decode(op))
          /\ Decode(op) \in Contents \cup {Absent}
      BY ChainAssumption DEF BodyOfDelta, Bodies, BodyOfFile, Decode
    <3>4. PICK b : b = BodyOfDelta(op)
      OBVIOUS
    <3>5. GenerationIn(r, u, h) = [found |-> TRUE, generation |-> n, body |-> b]
      BY <2>3, <2>4, <3>1, <3>2, <3>4 DEF Own
    <3>6. [found |-> TRUE, generation |-> n, body |-> b] \in Generation
      BY <3>2, <3>3, <3>4 DEF Generation
    <3>7. Fine(u)
      BY <2>2, <2>4, <3>1, <3>2, <3>3, <3>4, <3>5, <3>6
    <3> QED
      BY <3>7
  <2>5. CASE r[u].delta[h] = Same
    <3>1. PICK b : b = r[u].base
      OBVIOUS
    <3>2. b \in 0..u /\ (b = NoSnapshot \/ b \in L)
      <4>1. b = 0 \/ (b \in L /\ b < u)
        BY <3>1 DEF Based, NoSnapshot
      <4> QED
        BY <1>1, <4>1 DEF NoSnapshot
    <3>3. Fine(b)
      <4>1. CASE b = NoSnapshot
        BY <1>2, <4>1
      <4>2. CASE b # NoSnapshot
        BY <1>3, <3>1, <4>2
      <4> QED
        BY <4>1, <4>2
    <3>4. GenerationIn(r, u, h) = GenerationIn(r, b, h) /\ ServedBy(r, u)[h] = ServedBy(r, b)[h]
      BY <2>2, <2>3, <2>5, <3>1
    <3>5. 0..b \subseteq 0..u
      BY <1>1, <2>1, <3>2
    <3> QED
      BY <3>3, <3>4, <3>5
  <2> QED
    BY <2>4, <2>5
<1>4. G \in SUBSET L
  OBVIOUS
<1> HIDE DEF G, Fine
<1>5. L \subseteq G
  BY <1>3, <1>4, BaseInduction
<1>6. Fine(s)
  BY <1>2, <1>5 DEF G
<1> QED
  BY <1>6 DEF Fine

\* What is declared is found.
LEMMA DeclaredIsFound ==
  ASSUME NEW r, NEW L, Based(r, L), RowsOK(r, L), NEW s \in L \cup {NoSnapshot}, NEW h \in Paths,
         ServedBy(r, s)[h] # Absent
  PROVE  GenerationIn(r, s, h).found
<1>1. GenerationIn(r, s, h).body = BodyOf[ServedBy(r, s)[h]] /\ ServedBy(r, s)[h] \in Contents
  BY GenerationsAreTyped DEF BodyOfFile
<1>2. GenerationIn(r, s, h).body # NotFound
  BY <1>1, GenerationConstants
<1> QED
  BY <1>2, GenerationsAreTyped DEF Unnamed

-----------------------------------------------------------------------------
(* Rewritten tables.                                                       *)

\* A row that stays, on a base that stays: it may only gain generations.
StaysOn(r, q, M, s) ==
  /\ q[s].base = r[s].base /\ q[s].delta = r[s].delta
  /\ r[s].base # NoSnapshot => r[s].base \in M
  /\ \A h \in Paths : r[s].delta[h] # Same /\ r[s].gen[h] # Null => q[s].gen[h] = r[s].gen[h]

\* A row that was rebased.
StandsAlone(r, q, s) ==
  /\ q[s].base = NoSnapshot /\ q[s].delta = Difference(EmptyFiles, Effective(r, s))
  /\ \A h \in Paths : Effective(r, s)[h] # Absent => q[s].gen[h] = GenerationIn(r, s, h).generation

\* A snapshot serves what it did, and a generation that was known is the same, or
\* forgotten with the tombstone that carried it.
SameOrForgotten(r, q, s, h) ==
  LET old == GenerationIn(r, s, h)
      new == GenerationIn(q, s, h)
  IN /\ ServedBy(q, s)[h] = ServedBy(r, s)[h]
     /\ new.found => /\ old.found /\ new.body = old.body
                     /\ old.generation # Null => new.generation = old.generation

\* Pruning and filling in change nothing that is served and no generation that is known.
LEMMA RewriteKeeps ==
  ASSUME NEW r, NEW q, NEW L, NEW M, Based(r, L), RowsOK(r, L), Based(q, M), M \subseteq L,
         \A s \in M : StaysOn(r, q, M, s) \/ StandsAlone(r, q, s),
         NEW h \in Paths
  PROVE  \A s \in M \cup {NoSnapshot} : SameOrForgotten(r, q, s, h)
<1> DEFINE G == {s \in M : SameOrForgotten(r, q, s, h)}
<1>1. ~Unnamed.found
  BY DEF Unnamed
<1>2. SameOrForgotten(r, q, NoSnapshot, h)
  BY <1>1 DEF SameOrForgotten, GenerationIn, ServedBy
<1>3. \A s \in L : s # NoSnapshot
  BY DEF Based, Snapshots, NoSnapshot
<1>4. ASSUME NEW s \in M, q[s].base # NoSnapshot => q[s].base \in G
      PROVE  s \in G
  <2>1. /\ ServedBy(r, s)[h] = IF r[s].delta[h] # Same THEN Decode(r[s].delta[h]) ELSE ServedBy(r, r[s].base)[h]
        /\ ServedBy(q, s)[h] = IF q[s].delta[h] # Same THEN Decode(q[s].delta[h]) ELSE ServedBy(q, q[s].base)[h]
    BY <1>3, FilesUnfold DEF ServedBy
  <2>2. /\ GenerationIn(r, s, h) = IF r[s].delta[h] # Same THEN Own(r, s, h) ELSE GenerationIn(r, r[s].base, h)
        /\ GenerationIn(q, s, h) = IF q[s].delta[h] # Same THEN Own(q, s, h) ELSE GenerationIn(q, q[s].base, h)
    BY GenerationUnfold
  <2>3. CASE StandsAlone(r, q, s)
    <3>1. PICK c \in Contents \cup {Absent} : c = ServedBy(r, s)[h]
      BY GenerationsAreTyped
    <3>2. Effective(r, s)[h] = c
      BY <1>3, <3>1 DEF ServedBy
    <3>3. q[s].base = NoSnapshot /\ q[s].delta[h] = IF c = Absent THEN Same ELSE c
      BY <2>3, <3>2 DEF StandsAlone, Difference, EmptyFiles
    <3>4. CASE c = Absent
      <4>1. GenerationIn(q, s, h) = Unnamed /\ ServedBy(q, s)[h] = Absent
        BY <2>1, <2>2, <3>3, <3>4 DEF GenerationIn, ServedBy, EmptyFiles
      <4> QED
        BY <1>1, <3>1, <3>4, <4>1 DEF SameOrForgotten
    <3>5. CASE c # Absent
      <4>1. c \in Contents /\ c # Same /\ c # Deleted /\ q[s].delta[h] = c
        BY <3>3, <3>5, ChainAssumption
      <4>2. ServedBy(q, s)[h] = c
        BY <2>1, <4>1 DEF Decode
      <4>3. /\ GenerationIn(q, s, h) = Own(q, s, h) /\ q[s].gen[h] = GenerationIn(r, s, h).generation
        BY <2>2, <2>3, <3>2, <3>5, <4>1 DEF StandsAlone
      <4>4. GenerationIn(q, s, h).generation = GenerationIn(r, s, h).generation /\ GenerationIn(q, s, h).body = BodyOf[c]
        BY <4>1, <4>3 DEF Own, BodyOfDelta
      <4>5. GenerationIn(r, s, h).body = BodyOf[c] /\ GenerationIn(r, s, h).found
        BY <3>1, <3>5, GenerationsAreTyped, DeclaredIsFound DEF BodyOfFile
      <4> QED
        BY <3>1, <4>2, <4>4, <4>5 DEF SameOrForgotten
    <3> QED
      BY <3>4, <3>5
  <2>4. CASE StaysOn(r, q, M, s)
    <3>1. CASE r[s].delta[h] # Same
      <4>1. GenerationIn(r, s, h) = Own(r, s, h) /\ GenerationIn(q, s, h) = Own(q, s, h)
            /\ ServedBy(q, s)[h] = ServedBy(r, s)[h]
        BY <2>1, <2>2, <2>4, <3>1 DEF StaysOn
      <4>2. /\ Own(r, s, h).found /\ Own(q, s, h).body = Own(r, s, h).body
            /\ Own(r, s, h).generation # Null => Own(q, s, h).generation = Own(r, s, h).generation
        BY <2>4, <3>1 DEF StaysOn, Own
      <4> QED
        BY <4>1, <4>2 DEF SameOrForgotten
    <3>2. CASE r[s].delta[h] = Same
      <4>1. PICK b : b = r[s].base /\ b = q[s].base
        BY <2>4 DEF StaysOn
      <4>2. /\ GenerationIn(r, s, h) = GenerationIn(r, b, h) /\ GenerationIn(q, s, h) = GenerationIn(q, b, h)
            /\ ServedBy(q, s)[h] = ServedBy(q, b)[h] /\ ServedBy(r, s)[h] = ServedBy(r, b)[h]
        BY <2>1, <2>2, <2>4, <3>2, <4>1 DEF StaysOn
      <4>3. SameOrForgotten(r, q, b, h)
        BY <1>2, <1>4, <4>1
      <4> QED
        BY <4>2, <4>3 DEF SameOrForgotten
    <3> QED
      BY <3>1, <3>2
  <2> QED
    BY <2>3, <2>4
<1>5. G \in SUBSET M
  OBVIOUS
<1> HIDE DEF G
<1>6. M \subseteq G
  BY <1>4, <1>5, BaseInduction
<1> QED
  BY <1>2, <1>6 DEF G

-----------------------------------------------------------------------------
(* The inductive invariant.                                                *)

\* GenerationsFollowTheirBase of one row.
Follows(r, s, h) ==
  LET op == r[s].delta[h]
      prior == GenerationIn(r, r[s].base, h)
  IN op # Same /\ r[s].gen[h] # Null =>
       IF prior.found THEN prior.generation # Null /\ r[s].gen[h] = NextContentGeneration(prior, op)
       ELSE op # Deleted

\* A delta of a row: it follows its base, and what it deletes the base serves.
RowHolds(r, s, h) ==
  /\ r[s].delta[h] = Deleted => ServedBy(r, r[s].base)[h] # Absent
  /\ Follows(r, s, h)

\* No row of the snapshot lacks a generation.
Counted(r, s) == \A h \in Paths : r[s].delta[h] # Same => r[s].gen[h] # Null

TableOK(r, L, n) ==
  /\ n \in 0..MaxSnapshots /\ L \subseteq 1..n /\ r \in [Snapshots -> Rows]
  /\ Based(r, L) /\ RowsOK(r, L)
  /\ \A s \in Snapshots \ L : r[s] = EmptyRow
  /\ \A s \in L, h \in Paths : RowHolds(r, s, h)

\* A map read for snapshot b, or kept for it: what it has is a count, and what b's chain
\* still names is as b's chain says.
Knows(r, L, m, b) ==
  /\ m \in GenerationMaps
  /\ \A h \in Paths :
       /\ m[h].generation \in 0..b /\ (m[h].found => m[h].generation # Null)
       /\ b \in L /\ GenerationIn(r, b, h).found =>
            /\ m[h].found /\ m[h].generation = GenerationIn(r, b, h).generation
            /\ m[h].body = GenerationIn(r, b, h).body

\* A list of snapshots: what it leaves out is newer, and a base it has is the stored one
\* unless the snapshot was rebased since, which leaves it nothing to fill in.
Listed(r, L, n, bases) ==
  /\ DOMAIN bases \subseteq 1..n
  /\ \A t \in DOMAIN bases :
       /\ bases[t] \in 0..(t - 1)
       /\ \A s \in L : s <= t => s \in DOMAIN bases
       /\ t \in L /\ r[t].base # bases[t] =>
            r[t].base = NoSnapshot /\ Counted(r, t) /\ \A h \in Paths : r[t].delta[h] # Deleted

DoneThrough(r, L, through) == \A s \in L : s <= through => Counted(r, s)

Beginning == {"read", "started", "cutting", "filling"}

ProcOK(r, L, n, state) ==
  /\ state = [phase |-> state.phase, through |-> state.through, complete |-> state.complete,
              bases |-> state.bases, prior |-> state.prior, memo |-> state.memo]
  /\ state.phase \in Phases /\ state.through \in 0..n /\ state.complete \in BOOLEAN
  /\ state.prior \in GenerationMaps
  /\ state.phase \in Beginning => DoneThrough(r, L, state.through)
  /\ Listed(r, L, n, state.bases)
  /\ DOMAIN state.memo \subseteq 0..n /\ Cardinality(DOMAIN state.memo) <= MemoSize
  /\ \A b \in DOMAIN state.memo : Knows(r, L, state.memo[b], b)
  /\ state.phase = "filling" =>
       Remaining(state) # {} /\ Knows(r, L, state.prior, state.bases[AtHand(state)])

MarkerOK(r, L, n, k) ==
  /\ k \in [exists : BOOLEAN, through : 0..MaxSnapshots, complete : BOOLEAN]
  /\ k.through <= n
  /\ k.exists => DoneThrough(r, L, k.through)

GenInv ==
  /\ TableOK(row, live, created) /\ MarkerOK(row, live, created, marker)
  /\ proc = [p \in Processes |-> proc[p]]
  /\ \A p \in Processes : ProcOK(row, live, created, proc[p])

-----------------------------------------------------------------------------
(* Rewriting keeps the invariant.                                          *)

\* What NextContentGeneration looks at.
LEMMA NextLooksAt ==
  ASSUME NEW a, NEW b, NEW op, a.found, b.found, a.generation = b.generation, a.body = b.body
  PROVE  NextContentGeneration(a, op) = NextContentGeneration(b, op)
  BY DEF NextContentGeneration

\* A row that stays or is rebased still follows its base.
LEMMA RowKeeps ==
  ASSUME NEW r, NEW q, NEW L, NEW M, Based(r, L), RowsOK(r, L), Based(q, M), RowsOK(q, M), M \subseteq L,
         \A s \in M : StaysOn(r, q, M, s) \/ StandsAlone(r, q, s),
         NEW s \in M, NEW h \in Paths,
         RowHolds(r, s, h),
         \/ StandsAlone(r, q, s) \/ r[s].delta[h] = Same \/ q[s].gen[h] = r[s].gen[h] \/ Follows(q, s, h)
  PROVE  RowHolds(q, s, h)
<1> USE DEF RowHolds
<1>1. \A u \in M \cup {NoSnapshot} : SameOrForgotten(r, q, u, h)
  BY RewriteKeeps
<1>2. ~Unnamed.found /\ Effective(r, s)[h] \in Contents \cup {Absent}
  <2>1. s # NoSnapshot
    BY DEF Based, Snapshots, NoSnapshot
  <2> QED
    BY <2>1, GenerationsAreTyped DEF Unnamed, ServedBy
<1>3. CASE StandsAlone(r, q, s)
  <2>1. q[s].base = NoSnapshot /\ q[s].delta[h] # Deleted
    BY <1>2, <1>3, ChainAssumption DEF StandsAlone, Difference, EmptyFiles
  <2>2. GenerationIn(q, q[s].base, h) = Unnamed
    BY <2>1 DEF GenerationIn
  <2> QED
    BY <1>2, <2>1, <2>2 DEF Follows
<1>4. CASE StaysOn(r, q, M, s) /\ ~StandsAlone(r, q, s)
  <2>1. PICK b, op : b = r[s].base /\ b = q[s].base /\ op = r[s].delta[h] /\ op = q[s].delta[h]
    BY <1>4 DEF StaysOn
  <2>2. b \in M \cup {NoSnapshot}
    BY <1>4, <2>1 DEF StaysOn
  <2>3. SameOrForgotten(r, q, b, h)
    BY <1>1, <2>2
  <2>4. op = Deleted => ServedBy(q, b)[h] # Absent
    BY <2>1, <2>3 DEF SameOrForgotten
  <2>5. op = Deleted => GenerationIn(q, b, h).found
    BY <2>2, <2>4, DeclaredIsFound
  <2>6. ASSUME q[s].gen[h] = r[s].gen[h], op # Same, q[s].gen[h] # Null, GenerationIn(q, b, h).found
        PROVE  GenerationIn(q, b, h).generation # Null /\ q[s].gen[h] = NextContentGeneration(GenerationIn(q, b, h), op)
    <3>1. PICK old, new : old = GenerationIn(r, b, h) /\ new = GenerationIn(q, b, h)
      OBVIOUS
    <3>2. new.found /\ old.found /\ new.body = old.body /\ (old.generation # Null => new.generation = old.generation)
      BY <2>3, <2>6, <3>1 DEF SameOrForgotten
    <3>3. old.generation # Null /\ r[s].gen[h] = NextContentGeneration(old, op)
      BY <2>1, <2>6, <3>1, <3>2 DEF Follows
    <3>4. NextContentGeneration(old, op) = NextContentGeneration(new, op)
      BY <3>2, <3>3, NextLooksAt
    <3> QED
      BY <2>6, <3>1, <3>2, <3>3, <3>4
  <2>7. Follows(q, s, h)
    BY <1>4, <2>1, <2>5, <2>6 DEF Follows
  <2> QED
    BY <2>1, <2>4, <2>7
<1> QED
  BY <1>3, <1>4

\* A step of the tables: snapshots stay, are rebased without a null, go, or are new.
Moves(r, L, n, q, M, m) ==
  /\ TableOK(r, L, n) /\ TableOK(q, M, m) /\ n <= m
  /\ \A s \in M : s \in L \/ n < s
  /\ \A s \in M : s \in L => StaysOn(r, q, M, s) \/ (StandsAlone(r, q, s) /\ Counted(q, s))

\* A step of the tables changes nothing that a snapshot that stays serves, and no generation it knows.
LEMMA MovesKeep ==
  ASSUME NEW r, NEW L, NEW n, NEW q, NEW M, NEW m, Moves(r, L, n, q, M, m)
  PROVE  \A h \in Paths, s \in (M \cap L) \cup {NoSnapshot} : SameOrForgotten(r, q, s, h)
<1> DEFINE K == M \cap L
<1>1. Based(r, L) /\ RowsOK(r, L) /\ Based(q, M) /\ K \subseteq L
  BY DEF Moves, TableOK
<1>2. Based(q, K)
  <2>1. ASSUME NEW s \in K, q[s].base # NoSnapshot PROVE q[s].base \in K /\ q[s].base < s
    BY <1>1, <2>1 DEF Moves, StaysOn, StandsAlone, Based
  <2> QED
    BY <1>1, <2>1 DEF Based
<1>3. \A s \in K : StaysOn(r, q, K, s) \/ StandsAlone(r, q, s)
  BY <1>1 DEF Moves, StaysOn, Based
<1> HIDE DEF K
<1>4. \A h \in Paths : \A s \in K \cup {NoSnapshot} : SameOrForgotten(r, q, s, h)
  BY <1>1, <1>2, <1>3, RewriteKeeps
<1> QED
  BY <1>4 DEF K

\* Snapshots that lack no generation never lack one again.
LEMMA CountedStays ==
  ASSUME NEW r, NEW L, NEW n, NEW q, NEW M, NEW m, Moves(r, L, n, q, M, m),
         NEW s \in M \cap L, Counted(r, s)
  PROVE  Counted(q, s)
  BY DEF Moves, Counted, StaysOn

\* What the marker says is done stays done: publications are newer and carry what they can.
LEMMA DoneStays ==
  ASSUME NEW r, NEW L, NEW n, NEW q, NEW M, NEW m, Moves(r, L, n, q, M, m),
         NEW t \in 0..n, DoneThrough(r, L, t)
  PROVE  DoneThrough(q, M, t)
<1> SUFFICES ASSUME NEW s \in M, s <= t PROVE Counted(q, s)
  BY DEF DoneThrough
<1>1. n \in Nat /\ s \in Nat
  BY ChainAssumption DEF Moves, TableOK
<1>2. s \in L
  BY <1>1 DEF Moves
<1> QED
  BY <1>2, CountedStays DEF DoneThrough

\* A map that was read or kept for a snapshot stays right whatever is pruned, filled in or published.
LEMMA KnowsStays ==
  ASSUME NEW r, NEW L, NEW n, NEW q, NEW M, NEW m, Moves(r, L, n, q, M, m),
         NEW b \in 0..n, NEW k, Knows(r, L, k, b)
  PROVE  Knows(q, M, k, b)
<1>1. n \in Nat
  BY ChainAssumption DEF Moves, TableOK
<1>2. b \in M => b \in L
  BY <1>1 DEF Moves
<1>3. ASSUME NEW h \in Paths, b \in M, GenerationIn(q, b, h).found
      PROVE  /\ k[h].found /\ k[h].generation = GenerationIn(q, b, h).generation
             /\ k[h].body = GenerationIn(q, b, h).body
  <2>1. SameOrForgotten(r, q, b, h)
    BY <1>2, <1>3, MovesKeep
  <2> QED
    BY <1>2, <1>3, <2>1 DEF Knows, SameOrForgotten
<1> QED
  BY <1>3 DEF Knows

\* A list of snapshots stays good: a base it has wrong is of a row that lacks no generation.
LEMMA ListedStays ==
  ASSUME NEW r, NEW L, NEW n, NEW q, NEW M, NEW m, Moves(r, L, n, q, M, m),
         NEW bases, Listed(r, L, n, bases)
  PROVE  Listed(q, M, m, bases)
<1>1. n \in Nat /\ m \in Nat /\ n <= m /\ \A s \in M : s \in Nat
  BY ChainAssumption DEF Moves, TableOK
<1>2. ASSUME NEW t \in DOMAIN bases
      PROVE  /\ t \in 1..n /\ t \in 1..m /\ bases[t] \in 0..(t - 1)
             /\ \A s \in M : s <= t => s \in DOMAIN bases
  <2>1. t \in 1..n /\ bases[t] \in 0..(t - 1) /\ \A s \in L : s <= t => s \in DOMAIN bases
    BY DEF Listed
  <2>2. \A s \in M : s <= t => s \in L
    BY <1>1, <2>1 DEF Moves
  <2> QED
    BY <1>1, <2>1, <2>2
<1>3. ASSUME NEW t \in DOMAIN bases, t \in M, q[t].base # bases[t]
      PROVE  q[t].base = NoSnapshot /\ Counted(q, t) /\ \A h \in Paths : q[t].delta[h] # Deleted
  <2>1. t \in L
    BY <1>1, <1>2, <1>3 DEF Moves
  <2>2. CASE StandsAlone(r, q, t) /\ Counted(q, t)
    <3>1. \A h \in Paths : Effective(r, t)[h] \in Contents \cup {Absent}
      <4>1. t # NoSnapshot /\ Based(r, L) /\ RowsOK(r, L)
        BY <1>2 DEF NoSnapshot, Moves, TableOK
      <4> QED
        BY <2>1, <4>1, GenerationsAreTyped DEF ServedBy
    <3> QED
      BY <2>2, <3>1, ChainAssumption DEF StandsAlone, Difference, EmptyFiles
  <2>3. CASE StaysOn(r, q, M, t)
    <3>1. r[t].base # bases[t] /\ r[t].base = q[t].base /\ r[t].delta = q[t].delta
      BY <1>3, <2>3 DEF StaysOn
    <3>2. r[t].base = NoSnapshot /\ Counted(r, t) /\ \A h \in Paths : r[t].delta[h] # Deleted
      BY <2>1, <3>1 DEF Listed
    <3> QED
      BY <1>3, <2>1, <3>1, <3>2, CountedStays
  <2> QED
    BY <1>3, <2>1, <2>2, <2>3 DEF Moves
<1> QED
  BY <1>2, <1>3 DEF Listed

\* The snapshot at hand is the lowest of those still to do.
LEMMA AtHandIsLowest ==
  ASSUME NEW state, NEW n, DOMAIN state.bases \subseteq 1..n, Remaining(state) # {}
  PROVE  AtHand(state) \in Remaining(state) /\ \A t \in Remaining(state) : AtHand(state) <= t
<1>1. Remaining(state) \in SUBSET Nat
  BY DEF Remaining
<1>2. \E s \in Remaining(state) : \A t \in Remaining(state) : s <= t
  BY <1>1, LeastNatural
<1> QED
  BY <1>2 DEF AtHand

\* What a process has in memory stays good whatever the others do to the tables.
LEMMA ProcStays ==
  ASSUME NEW r, NEW L, NEW n, NEW q, NEW M, NEW m, Moves(r, L, n, q, M, m),
         NEW state, ProcOK(r, L, n, state)
  PROVE  ProcOK(q, M, m, state)
<1>1. n \in Nat /\ m \in Nat /\ n <= m /\ 0..n \subseteq 0..m
  BY ChainAssumption DEF Moves, TableOK
<1>2. state.through \in 0..m /\ (state.phase \in Beginning => DoneThrough(q, M, state.through))
  BY <1>1, DoneStays DEF ProcOK
<1>3. Listed(q, M, m, state.bases)
  BY ListedStays DEF ProcOK
<1>4. DOMAIN state.memo \subseteq 0..m /\ \A b \in DOMAIN state.memo : Knows(q, M, state.memo[b], b)
  BY <1>1, KnowsStays DEF ProcOK
<1>5. ASSUME state.phase = "filling" PROVE Knows(q, M, state.prior, state.bases[AtHand(state)])
  <2>1. DOMAIN state.bases \subseteq 1..n /\ Remaining(state) # {}
    BY <1>5 DEF ProcOK, Listed
  <2>2. PICK t : t = AtHand(state)
    OBVIOUS
  <2>3. t \in DOMAIN state.bases
    BY <2>1, <2>2, AtHandIsLowest DEF Remaining
  <2>4. state.bases[t] \in 0..(t - 1) /\ t \in 1..n
    BY <2>1, <2>3 DEF ProcOK, Listed
  <2>5. state.bases[t] \in 0..n
    BY <1>1, <2>4
  <2> QED
    BY <1>5, <2>2, <2>5, KnowsStays DEF ProcOK
<1> QED
  BY <1>2, <1>3, <1>4, <1>5 DEF ProcOK

-----------------------------------------------------------------------------
(* Steps of a process that opens the database.                             *)

\* A process moves and the tables do not.
LEMMA ProcMoves ==
  ASSUME GenInv, NEW p \in Processes, NEW y, Move(p, y), LeaveTables,
         ProcOK(row, live, created, y), MarkerOK(row, live, created, marker')
  PROVE  GenInv'
<1>1. row' = row /\ live' = live /\ created' = created
  BY DEF LeaveTables
<1>2. proc = [q \in Processes |-> proc[q]] /\ proc' = [proc EXCEPT ![p] = y]
  BY DEF GenInv, Move
<1>3. /\ proc' = [q \in Processes |-> proc'[q]]
      /\ \A q \in Processes : proc'[q] = IF q = p THEN y ELSE proc[q]
  BY <1>2
<1>4. \A q \in Processes : ProcOK(row, live, created, proc'[q])
  BY <1>3 DEF GenInv
<1> QED
  BY <1>1, <1>3, <1>4 DEF GenInv

\* Snapshots are published or pruned and no process moves.
LEMMA TablesMove ==
  ASSUME GenInv, Moves(row, live, created, row', live', created'), UNCHANGED <<marker, proc>>
  PROVE  GenInv'
<1>1. TableOK(row', live', created') /\ created \in Nat /\ created' \in Nat /\ created <= created'
  BY ChainAssumption DEF Moves, TableOK
<1>2. \A p \in Processes : ProcOK(row', live', created', proc[p])
  BY ProcStays DEF GenInv
<1>3. MarkerOK(row', live', created', marker)
  <2>1. marker.through \in 0..created
    BY <1>1, ChainAssumption DEF GenInv, MarkerOK
  <2>2. marker.exists => DoneThrough(row', live', marker.through)
    BY <2>1, DoneStays DEF GenInv, MarkerOK
  <2>3. marker.through <= created'
    BY <1>1, <2>1
  <2> QED
    BY <2>2, <2>3 DEF GenInv, MarkerOK
<1> QED
  BY <1>1, <1>2, <1>3 DEF GenInv

\* A closed process holds nothing.
LEMMA ClosedIsOK ==
  ASSUME NEW r, NEW L, NEW n \in Nat
  PROVE  /\ Closed = [phase |-> "closed", through |-> 0, complete |-> FALSE, bases |-> Closed.bases,
                      prior |-> NoGenerations, memo |-> Closed.memo]
         /\ DOMAIN Closed.bases = {} /\ DOMAIN Closed.memo = {} /\ NoGenerations \in GenerationMaps
         /\ ProcOK(r, L, n, Closed)
<1>1. /\ Closed = [phase |-> "closed", through |-> 0, complete |-> FALSE, bases |-> Closed.bases,
                   prior |-> NoGenerations, memo |-> Closed.memo]
      /\ Closed.bases = <<>> /\ Closed.memo = <<>>
  BY DEF Closed
<1>2. DOMAIN Closed.bases = {} /\ DOMAIN Closed.memo = {}
  BY <1>1
<1>3. Cardinality({}) = 0 /\ 0 <= MemoSize
  BY FS_EmptySet, GenerationConstants
<1>4. NoGenerations \in GenerationMaps
  <2>1. Unnamed \in Generation
    BY ChainAssumption DEF Unnamed, Generation
  <2> QED
    BY <2>1 DEF NoGenerations, GenerationMaps
<1>5. /\ Closed.phase = "closed" /\ Closed.through = 0 /\ Closed.complete = FALSE /\ Closed.prior = NoGenerations
  BY <1>1
<1>6. Closed.phase \in Phases /\ Closed.phase \notin Beginning /\ Closed.phase # "filling"
  BY <1>5 DEF Phases, Beginning
<1>7. 0 \in 0..n /\ Listed(r, L, n, Closed.bases)
  BY <1>2 DEF Listed
<1>8. ProcOK(r, L, n, Closed)
  BY <1>1, <1>2, <1>3, <1>4, <1>5, <1>6, <1>7 DEF ProcOK
<1> QED
  BY <1>1, <1>2, <1>4, <1>8

\* A process goes on with what it holds.
LEMMA GoesOn ==
  ASSUME NEW r, NEW L, NEW n \in Nat, NEW state, ProcOK(r, L, n, state),
         NEW phase \in Phases \ {"filling"}, NEW through \in 0..n,
         NEW complete \in BOOLEAN, phase \in Beginning => DoneThrough(r, L, through),
         NEW y, y = [phase |-> phase, through |-> through, complete |-> complete, bases |-> state.bases,
                     prior |-> state.prior, memo |-> state.memo]
  PROVE  ProcOK(r, L, n, y)
<1>1. y.phase = phase /\ y.through = through /\ y.complete = complete /\ y.bases = state.bases
      /\ y.prior = state.prior /\ y.memo = state.memo
  BY Zenon
<1> QED
  BY <1>1 DEF ProcOK

\* What a step finds.
LEMMA WhatIsThere ==
  ASSUME GenInv, NEW p \in Processes
  PROVE  /\ created \in Nat /\ created \in 0..MaxSnapshots /\ live \in SUBSET (1..created) /\ TableOK(row, live, created)
         /\ ProcOK(row, live, created, proc[p]) /\ MarkerOK(row, live, created, marker)
         /\ marker.through \in 0..created /\ marker.complete \in BOOLEAN
         /\ proc[p].through \in 0..created /\ proc[p].complete \in BOOLEAN
<1>1. created \in Nat /\ created \in 0..MaxSnapshots /\ live \in SUBSET (1..created)
  BY ChainAssumption DEF GenInv, TableOK
<1> QED
  BY <1>1, ChainAssumption DEF GenInv, ProcOK, MarkerOK

\* A process that has opened the database holds nothing of the cutover.
LEMMA OpenIsOK ==
  ASSUME NEW r, NEW L, NEW n \in Nat
  PROVE  ProcOK(r, L, n, [Closed EXCEPT !.phase = "open"])
<1>1. PICK y : y = [Closed EXCEPT !.phase = "open"]
  OBVIOUS
<1>2. y = [phase |-> "open", through |-> 0, complete |-> FALSE, bases |-> <<>>,
           prior |-> NoGenerations, memo |-> <<>>]
  BY <1>1 DEF Closed
<1>3. y = [phase |-> y.phase, through |-> y.through, complete |-> y.complete, bases |-> y.bases,
           prior |-> y.prior, memo |-> y.memo]
  BY <1>2
<1>4. y.phase = "open" /\ y.through = 0 /\ y.complete = FALSE /\ y.prior = NoGenerations
      /\ y.bases = <<>> /\ y.memo = <<>>
  BY <1>2
<1>5. y.phase \in Phases /\ y.phase \notin Beginning /\ y.phase # "filling"
  BY <1>4 DEF Phases, Beginning
<1>6. DOMAIN y.bases = {} /\ DOMAIN y.memo = {}
  BY <1>4
<1>7. NoGenerations \in GenerationMaps /\ 0 \in 0..n /\ Cardinality({}) = 0 /\ 0 <= MemoSize
  BY ClosedIsOK, FS_EmptySet, GenerationConstants
<1>8. Listed(r, L, n, y.bases)
  BY <1>6 DEF Listed
<1>9. ProcOK(r, L, n, y)
  BY <1>3, <1>4, <1>5, <1>6, <1>7, <1>8 DEF ProcOK
<1> QED
  BY <1>1, <1>9

\* The marker is read.
LEMMA ReadMarkerInv ==
  ASSUME GenInv, NEW p \in Processes, ReadMarker(p)
  PROVE  GenInv'
<1>1. PICK y : y = [Closed EXCEPT !.phase = "asked", !.through = marker.through, !.complete = marker.complete]
  OBVIOUS
<1>2. Move(p, y) /\ LeaveTables /\ marker' = marker
  BY <1>1 DEF ReadMarker
<1>3. y = [phase |-> "asked", through |-> marker.through, complete |-> marker.complete, bases |-> Closed.bases,
           prior |-> Closed.prior, memo |-> Closed.memo]
  BY <1>1, ClosedIsOK, WhatIsThere
<1>4. ProcOK(row, live, created, y)
  <2>1. "asked" \in Phases \ {"filling"} /\ "asked" \notin Beginning
    BY DEF Phases, Beginning
  <2> QED
    BY <1>3, <2>1, ClosedIsOK, WhatIsThere, GoesOn
<1> QED
  BY <1>2, <1>4, ProcMoves, WhatIsThere

\* The cutover starts over below the lowest row without a generation.
LEMMA FindLowestInv ==
  ASSUME GenInv, NEW p \in Processes, FindLowest(p)
  PROVE  GenInv'
<1> DEFINE nulls == {s \in live : HasNull(s)}
           lowest == CHOOSE s \in nulls : \A t \in nulls : s <= t
           state == proc[p]
<1>1. LeaveTables /\ marker' = marker
  BY DEF FindLowest
<1>2. CASE NothingToDo(nulls, state.complete)
  <2>1. Move(p, [Closed EXCEPT !.phase = "open"])
    BY <1>2 DEF FindLowest
  <2> QED
    BY <1>1, <2>1, OpenIsOK, ProcMoves, WhatIsThere
<1>3. CASE ~NothingToDo(nulls, state.complete)
  <2>1. \A s \in live : Counted(row, s) \/ s \in nulls
    BY DEF HasNull, Counted
  <2>2. nulls \in SUBSET live /\ nulls \in SUBSET Nat
    BY WhatIsThere
  <2>3. nulls # {} => lowest \in nulls /\ \A t \in nulls : lowest <= t
    <3> HIDE DEF nulls
    <3>1. nulls # {} => \E s \in nulls : \A t \in nulls : s <= t
      BY <2>2, LeastNatural
    <3> QED
      BY <3>1
  <2>4. Move(p, [state EXCEPT !.phase = "read", !.complete = nulls = {},
                              !.through = IF nulls = {} THEN state.through ELSE lowest - 1])
    BY <1>3 DEF FindLowest
  <2> HIDE DEF nulls, lowest
  <2>5. PICK through : through = IF nulls = {} THEN state.through ELSE lowest - 1
    OBVIOUS
  <2>6. PICK complete \in BOOLEAN : complete = (nulls = {})
    OBVIOUS
  <2>7. PICK x : x = state
    OBVIOUS
  <2>8. PICK y : y = [x EXCEPT !.phase = "read", !.complete = complete, !.through = through]
    OBVIOUS
  <2>9. Move(p, y)
    BY <2>4, <2>5, <2>6, <2>7, <2>8
  <2>10. y = [phase |-> "read", through |-> through, complete |-> complete, bases |-> x.bases,
              prior |-> x.prior, memo |-> x.memo]
    <3>1. x = [phase |-> x.phase, through |-> x.through, complete |-> x.complete, bases |-> x.bases,
               prior |-> x.prior, memo |-> x.memo]
      BY <2>7, WhatIsThere DEF ProcOK
    <3> QED
      BY <2>8, <3>1
  <2>11. through \in 0..created
    <3>1. nulls # {} => lowest \in 1..created
      BY <2>2, <2>3, WhatIsThere
    <3> QED
      BY <2>5, <3>1, WhatIsThere
  <2>12. DoneThrough(row, live, through)
    <3> SUFFICES ASSUME NEW s \in live, s <= through, s \in nulls PROVE FALSE
      BY <2>1 DEF DoneThrough
    <3>1. lowest <= s /\ s \in Nat /\ lowest \in Nat /\ through = lowest - 1
      BY <2>2, <2>3, <2>5
    <3> QED
      BY <3>1
  <2>13. "read" \in Phases \ {"filling"}
    BY DEF Phases
  <2>14. ProcOK(row, live, created, y)
    BY <2>7, <2>10, <2>11, <2>12, <2>13, WhatIsThere, GoesOn
  <2> QED
    BY <1>1, <2>9, <2>14, ProcMoves, WhatIsThere
<1> QED
  BY <1>2, <1>3

\* The marker is saved; what it says was true when it was looked up and still is.
LEMMA SaveMarkerInv ==
  ASSUME GenInv, NEW p \in Processes, SaveMarker(p)
  PROVE  GenInv'
<1> DEFINE state == proc[p]
<1>1. /\ LeaveTables /\ state.phase = "read"
      /\ marker' = [exists |-> TRUE, through |-> state.through, complete |-> state.complete]
  BY DEF SaveMarker
<1>2. DoneThrough(row, live, state.through)
  BY <1>1, WhatIsThere DEF ProcOK, Beginning
<1>3. MarkerOK(row, live, created, marker')
  <2>1. state.through \in 0..MaxSnapshots /\ state.through <= created /\ state.complete \in BOOLEAN
    BY WhatIsThere, ChainAssumption
  <2> QED
    BY <1>1, <1>2, <2>1 DEF MarkerOK
<1>4. CASE state.complete
  <2>1. Move(p, [Closed EXCEPT !.phase = "open"])
    BY <1>4 DEF SaveMarker
  <2> QED
    BY <1>1, <1>3, <2>1, OpenIsOK, ProcMoves, WhatIsThere
<1>5. CASE ~state.complete
  <2>1. PICK x : x = state
    OBVIOUS
  <2>2. PICK y : y = [x EXCEPT !.phase = "started"]
    OBVIOUS
  <2>3. Move(p, y)
    BY <1>5, <2>1, <2>2 DEF SaveMarker
  <2>4. y = [phase |-> "started", through |-> x.through, complete |-> x.complete, bases |-> x.bases,
             prior |-> x.prior, memo |-> x.memo]
    <3>1. x = [phase |-> x.phase, through |-> x.through, complete |-> x.complete, bases |-> x.bases,
               prior |-> x.prior, memo |-> x.memo]
      BY <2>1, WhatIsThere DEF ProcOK
    <3> QED
      BY <2>2, <3>1
  <2>5. "started" \in Phases \ {"filling"}
    BY DEF Phases
  <2>6. ProcOK(row, live, created, y)
    BY <1>2, <2>1, <2>4, <2>5, WhatIsThere, GoesOn
  <2> QED
    BY <1>1, <1>3, <2>3, <2>6, ProcMoves
<1> QED
  BY <1>4, <1>5

\* The snapshots and their bases are listed.
LEMMA ListSnapshotsInv ==
  ASSUME GenInv, NEW p \in Processes, ListSnapshots(p)
  PROVE  GenInv'
<1>0. PICK state : state = proc[p] /\ ProcOK(row, live, created, state)
  BY WhatIsThere
<1>1. PICK bases : bases = [s \in live |-> row[s].base]
  OBVIOUS
<1>2. PICK y : y = [state EXCEPT !.phase = "cutting", !.bases = bases]
  OBVIOUS
<1>3. Move(p, y) /\ LeaveTables /\ marker' = marker /\ state.phase = "started"
  BY <1>0, <1>1, <1>2 DEF ListSnapshots
<1>4. y = [phase |-> "cutting", through |-> state.through, complete |-> state.complete, bases |-> bases,
           prior |-> state.prior, memo |-> state.memo]
  <2>1. state = [phase |-> state.phase, through |-> state.through, complete |-> state.complete,
                 bases |-> state.bases, prior |-> state.prior, memo |-> state.memo]
    BY <1>0 DEF ProcOK
  <2> QED
    BY <1>2, <2>1
<1>5. y.phase = "cutting" /\ y.through = state.through /\ y.complete = state.complete /\ y.bases = bases
      /\ y.prior = state.prior /\ y.memo = state.memo
  BY <1>4
<1>6. Listed(row, live, created, bases)
  <2>1. DOMAIN bases = live /\ \A t \in live : bases[t] = row[t].base
    BY <1>1
  <2>2. ASSUME NEW t \in live PROVE row[t].base \in 0..(t - 1)
    <3>1. t \in 1..created /\ created \in Nat /\ row[t].base \in 0..MaxSnapshots /\ MaxSnapshots \in Nat
      <4>1. t \in Snapshots
        BY WhatIsThere DEF TableOK, Based
      <4> QED
        BY <4>1, WhatIsThere, ChainAssumption DEF TableOK, Rows
    <3>2. row[t].base # 0 => row[t].base < t
      BY WhatIsThere DEF TableOK, Based, NoSnapshot
    <3> QED
      BY <3>1, <3>2
  <2> QED
    BY <2>1, <2>2, WhatIsThere DEF Listed
<1>7. DoneThrough(row, live, state.through)
  BY <1>0, <1>3, WhatIsThere DEF ProcOK, Beginning
<1>8. "cutting" \in Phases /\ "cutting" # "filling"
  BY DEF Phases
<1>9. ProcOK(row, live, created, y)
  BY <1>0, <1>4, <1>5, <1>6, <1>7, <1>8 DEF ProcOK
<1> QED
  BY <1>3, <1>9, ProcMoves, WhatIsThere

\* The marker is set complete, and says no more than before of what is done.
LEMMA CompleteInv ==
  ASSUME GenInv, NEW p \in Processes, Complete(p)
  PROVE  GenInv'
<1>1. /\ Move(p, [Closed EXCEPT !.phase = "open"]) /\ LeaveTables
      /\ marker' = [marker EXCEPT !.complete = TRUE]
  BY DEF Complete
<1>2. MarkerOK(row, live, created, marker')
  BY <1>1, WhatIsThere DEF MarkerOK
<1> QED
  BY <1>1, <1>2, OpenIsOK, ProcMoves, WhatIsThere

\* A process that ends loses what it had in memory.
LEMMA StopInv ==
  ASSUME GenInv, NEW p \in Processes, Stop(p)
  PROVE  GenInv'
  BY ClosedIsOK, ProcMoves, WhatIsThere DEF Stop

\* The base's generations as they are read: counts, or opening fails.
LEMMA ReadIsKnown ==
  ASSUME GenInv, NEW b \in live \cup {NoSnapshot}, NEW m, m = Generations(b),
         \A h \in Paths : m[h].found => m[h].generation # Null
  PROVE  Knows(row, live, m, b)
<1>1. Based(row, live) /\ RowsOK(row, live)
  BY DEF GenInv, TableOK
<1>2. m = [h \in Paths |-> GenerationIn(row, b, h)]
  BY GenerationsAreIn
<1>3. ASSUME NEW h \in Paths
      PROVE  /\ m[h] = GenerationIn(row, b, h) /\ m[h] \in Generation /\ m[h].generation \in 0..b
  BY <1>1, <1>2, GenerationsAreTyped
<1>4. m \in GenerationMaps
  BY <1>2, <1>3 DEF GenerationMaps
<1> QED
  BY <1>3, <1>4 DEF Knows

\* The base chain's generations are read, taken from those kept, or opening fails.
LEMMA ReadBaseInv ==
  ASSUME GenInv, NEW p \in Processes, ReadBase(p)
  PROVE  GenInv'
<1>1. PICK x : x = proc[p] /\ ProcOK(row, live, created, x)
  BY WhatIsThere
<1>2. PICK base : base = x.bases[AtHand(x)]
  OBVIOUS
<1>3. PICK prior : prior = IF base \in DOMAIN x.memo THEN x.memo[base] ELSE Generations(base)
  OBVIOUS
<1>4. PICK y : y = [x EXCEPT !.phase = "filling", !.prior = prior]
  OBVIOUS
<1> DEFINE fails == /\ base \notin DOMAIN x.memo /\ base # NoSnapshot
                    /\ \/ base \notin live
                       \/ \E h \in Paths : prior[h].found /\ prior[h].generation = Null
<1>5. /\ x.phase = "cutting" /\ Remaining(x) # {} /\ LeaveTables /\ marker' = marker
      /\ Move(p, IF fails THEN Closed ELSE y)
  BY <1>1, <1>2, <1>3, <1>4, Zenon DEF ReadBase
<1>6. CASE fails
  BY <1>5, <1>6, ClosedIsOK, ProcMoves, WhatIsThere
<1>7. CASE ~fails
  <2>1. Knows(row, live, prior, base)
    <3>1. CASE base \in DOMAIN x.memo
      BY <1>1, <1>3, <3>1 DEF ProcOK
    <3>2. CASE base \notin DOMAIN x.memo /\ base = NoSnapshot
      <4>1. prior = Generations(base) /\ prior = NoGenerations /\ ~Unnamed.found
        BY <1>3, <3>2 DEF Generations, Unnamed
      <4>2. \A h \in Paths : ~prior[h].found
        BY <4>1 DEF NoGenerations
      <4> QED
        BY <3>2, <4>1, <4>2, ReadIsKnown
    <3>3. CASE base \notin DOMAIN x.memo /\ base # NoSnapshot
      BY <1>3, <1>7, <3>3, ReadIsKnown
    <3> QED
      BY <3>1, <3>2, <3>3
  <2>2. x = [phase |-> x.phase, through |-> x.through, complete |-> x.complete, bases |-> x.bases,
             prior |-> x.prior, memo |-> x.memo]
    BY <1>1 DEF ProcOK
  <2>3. y = [phase |-> "filling", through |-> x.through, complete |-> x.complete, bases |-> x.bases,
             prior |-> prior, memo |-> x.memo]
    BY <1>4, <2>2
  <2>4. y.phase = "filling" /\ y.through = x.through /\ y.complete = x.complete /\ y.bases = x.bases
        /\ y.prior = prior /\ y.memo = x.memo
    BY <2>3
  <2>5. Remaining(y) = Remaining(x) /\ AtHand(y) = AtHand(x)
    <3>1. Remaining(y) = Remaining(x)
      BY <2>4 DEF Remaining
    <3> QED
      BY <3>1 DEF AtHand
  <2>6. "filling" \in Phases /\ "cutting" \in Beginning /\ prior \in GenerationMaps
    BY <2>1 DEF Phases, Beginning, Knows
  <2>7. ProcOK(row, live, created, y)
    BY <1>1, <1>2, <1>5, <2>1, <2>3, <2>4, <2>5, <2>6 DEF ProcOK
  <2> QED
    BY <1>5, <1>7, <2>7, ProcMoves, WhatIsThere
<1> QED
  BY <1>6, <1>7

\* What a process is about to fill in: the lowest snapshot left, from its base's counts.
LEMMA FillsLowest ==
  ASSUME GenInv, NEW x, ProcOK(row, live, created, x), x.phase = "filling", NEW s, s = AtHand(x),
         NEW b, b = x.bases[s]
  PROVE  /\ s \in 1..created /\ s \in Snapshots /\ s \in DOMAIN x.bases /\ b \in 0..(s - 1)
         /\ Knows(row, live, x.prior, b)
         /\ \A t \in live : t < s => t <= x.through
         /\ s \in live => row[s].base = b \/ Counted(row, s)
         /\ s \in live => row[s].base \in {b, NoSnapshot}
<1>1. created \in 0..MaxSnapshots /\ MaxSnapshots \in Nat /\ live \subseteq 1..created
  BY ChainAssumption DEF GenInv, TableOK
<1>2. Remaining(x) # {} /\ Listed(row, live, created, x.bases) /\ Knows(row, live, x.prior, b) /\ x.through \in 0..created
  BY DEF ProcOK
<1>3. DOMAIN x.bases \subseteq 1..created
  BY <1>2 DEF Listed
<1>4. s \in Remaining(x) /\ \A t \in Remaining(x) : s <= t
  BY <1>2, <1>3, AtHandIsLowest
<1>5. s \in DOMAIN x.bases /\ s \in 1..created /\ s \in Snapshots
  BY <1>1, <1>3, <1>4 DEF Remaining, Snapshots
<1>6. /\ b \in 0..(s - 1) /\ (s \in live => row[s].base = b \/ Counted(row, s))
      /\ s \in live => row[s].base \in {b, NoSnapshot}
  BY <1>2, <1>5 DEF Listed
<1>7. ASSUME NEW t \in live, t < s PROVE t <= x.through
  <2>1. t \in DOMAIN x.bases /\ t \in Nat /\ s \in Nat
    BY <1>1, <1>2, <1>5, <1>7 DEF Listed
  <2>2. t \notin Remaining(x)
    BY <1>4, <1>7, <2>1
  <2> QED
    BY <1>1, <1>2, <2>1, <2>2 DEF Remaining
<1> QED
  BY <1>2, <1>5, <1>6, <1>7

\* The filled generations: at most the snapshot's number, the old ones kept, none
\* left out.
LEMMA FilledIsCounted ==
  ASSUME GenInv, NEW s \in Snapshots, NEW b \in 0..(s - 1), NEW m, Knows(row, live, m, b),
         s \in live => row[s].base = b \/ Counted(row, s), NEW gen, gen = Filled(s, m)
  PROVE  /\ gen = [h \in Paths |-> gen[h]] /\ \A h \in Paths : gen[h] \in 0..s
         /\ \A h \in Paths : row[s].gen[h] # Null => gen[h] = row[s].gen[h]
         /\ \A h \in Paths : row[s].gen[h] = Null /\ row[s].delta[h] # Same =>
              gen[h] = NextContentGeneration(m[h], row[s].delta[h])
         /\ s \in live => \A h \in Paths : row[s].delta[h] # Same => gen[h] # Null
         /\ s \notin live => gen = [h \in Paths |-> Null]
<1>1. Based(row, live) /\ RowsOK(row, live) /\ s \in Nat /\ MaxSnapshots \in Nat /\ row[s] \in Rows
  BY ChainAssumption DEF GenInv, TableOK, Snapshots
<1>2. ASSUME NEW h \in Paths
      PROVE  gen[h] = IF row[s].gen[h] # Null THEN row[s].gen[h]
                      ELSE IF row[s].delta[h] = Same THEN Null ELSE NextContentGeneration(m[h], row[s].delta[h])
  BY DEF Filled, Counts
<1>3. ASSUME s \notin live PROVE \A h \in Paths : row[s].delta[h] = Same /\ row[s].gen[h] = Null
  BY <1>3 DEF GenInv, TableOK, EmptyRow
<1>4. ASSUME NEW h \in Paths PROVE row[s].gen[h] \in 0..s
  BY <1>1, <1>3 DEF RowsOK, Null
<1>5. ASSUME NEW h \in Paths, NEW op
      PROVE  /\ NextContentGeneration(m[h], op) \in 0..s
             /\ op # Deleted \/ m[h].found => NextContentGeneration(m[h], op) # Null
  <2>1. PICK k, g : k = m[h] /\ g = k.generation
    OBVIOUS
  <2>2. g \in 0..b /\ (k.found => g # 0) /\ b \in 0..(s - 1)
    BY <2>1 DEF Knows, Null
  <2>3. g \in 0..s /\ 1 \in 0..s /\ g + 1 \in 0..s /\ g + 1 # 0
    BY <1>1, <2>2
  <2> QED
    BY <2>1, <2>2, <2>3 DEF NextContentGeneration, Null
<1>6. ASSUME NEW h \in Paths, s \in live, row[s].gen[h] = Null, row[s].delta[h] = Deleted PROVE m[h].found
  <2>1. row[s].base = b
    BY <1>6, ChainAssumption DEF Counted
  <2>2. ServedBy(row, b)[h] # Absent
    BY <1>6, <2>1 DEF GenInv, TableOK, RowHolds
  <2>3. b \in live
    BY <1>6, <2>1, <2>2 DEF GenInv, TableOK, Based, ServedBy, EmptyFiles
  <2>4. GenerationIn(row, b, h).found
    BY <1>1, <2>2, <2>3, DeclaredIsFound
  <2> QED
    BY <2>3, <2>4 DEF Knows
<1>7. gen = [h \in Paths |-> gen[h]]
  BY DEF Filled
<1>8. \A h \in Paths : gen[h] \in 0..s
  BY <1>1, <1>2, <1>4, <1>5 DEF Null
<1>9. ASSUME s \in live, NEW h \in Paths, row[s].delta[h] # Same PROVE gen[h] # Null
  BY <1>2, <1>5, <1>6, <1>9, ZenonT(40)
<1>10. ASSUME s \notin live PROVE gen = [h \in Paths |-> Null]
  BY <1>2, <1>3, <1>7, <1>10
<1> QED
  BY <1>2, <1>7, <1>8, <1>9, <1>10

\* The table with one snapshot's generations filled in.
WithFilled(s, gen) == [row EXCEPT ![s].gen = gen]

\* Filling is a step of the tables that leaves the snapshot without a null.
LEMMA FillMoves ==
  ASSUME GenInv, NEW s \in Snapshots, NEW b \in 0..(s - 1), NEW m, Knows(row, live, m, b),
         s \in live => row[s].base = b \/ Counted(row, s), NEW gen, gen = Filled(s, m),
         NEW q, q = WithFilled(s, gen)
  PROVE  /\ Moves(row, live, created, q, live, created)
         /\ s \in live => Counted(q, s)
         /\ q[s].delta = row[s].delta /\ q[s].base = row[s].base /\ q[s].gen = gen
<1>1. /\ TableOK(row, live, created) /\ Based(row, live) /\ RowsOK(row, live) /\ row \in [Snapshots -> Rows]
      /\ live \subseteq Snapshots /\ created \in Nat
  BY ChainAssumption DEF GenInv, TableOK, Based
<1>2. /\ gen = [h \in Paths |-> gen[h]] /\ \A h \in Paths : gen[h] \in 0..s
      /\ \A h \in Paths : row[s].gen[h] # Null => gen[h] = row[s].gen[h]
      /\ \A h \in Paths : row[s].gen[h] = Null /\ row[s].delta[h] # Same =>
           gen[h] = NextContentGeneration(m[h], row[s].delta[h])
      /\ s \in live => \A h \in Paths : row[s].delta[h] # Same => gen[h] # Null
      /\ s \notin live => gen = [h \in Paths |-> Null]
  BY FilledIsCounted
<1>3. gen \in [Paths -> 0..MaxSnapshots]
  <2>1. 0..s \subseteq 0..MaxSnapshots
    BY ChainAssumption DEF Snapshots
  <2> QED
    BY <1>2, <2>1
<1>4. PICK rs : rs = row[s] /\ rs \in Rows
  BY <1>1
<1>5. PICK z : z = [rs EXCEPT !.gen = gen]
  OBVIOUS
<1>6. z \in Rows /\ z.base = rs.base /\ z.delta = rs.delta /\ z.gen = gen
  BY <1>3, <1>4, <1>5 DEF Rows
<1>7. q = [row EXCEPT ![s] = z]
  BY <1>4, <1>5 DEF WithFilled
<1>8. q \in [Snapshots -> Rows] /\ \A t \in Snapshots : q[t] = IF t = s THEN z ELSE row[t]
  BY <1>1, <1>6, <1>7
<1>9. \A t \in Snapshots : q[t].base = row[t].base /\ q[t].delta = row[t].delta
  BY <1>4, <1>6, <1>8
<1>10. \A t \in Snapshots, h \in Paths : row[t].gen[h] # Null => q[t].gen[h] = row[t].gen[h]
  BY <1>2, <1>4, <1>6, <1>8
<1>11. Based(q, live) /\ RowsOK(q, live)
  <2>1. Based(q, live)
    BY <1>1, <1>9 DEF Based
  <2>2. RowsOK(q, live)
    BY <1>1, <1>2, <1>6, <1>8, <1>9 DEF RowsOK
  <2> QED
    BY <2>1, <2>2
<1>12. \A t \in Snapshots \ live : q[t] = EmptyRow
  <2>1. ASSUME s \notin live PROVE z = EmptyRow
    <3>1. rs = [base |-> NoSnapshot, delta |-> [h \in Paths |-> Same], gen |-> [h \in Paths |-> Null]]
      BY <1>4, <2>1 DEF GenInv, TableOK, EmptyRow
    <3> QED
      BY <1>2, <1>5, <2>1, <3>1 DEF EmptyRow
  <2> QED
    BY <1>8, <2>1 DEF GenInv, TableOK
<1>13. \A t \in live : StaysOn(row, q, live, t)
  BY <1>1, <1>9, <1>10 DEF StaysOn, Based
<1>14. \A h \in Paths, t \in live \cup {NoSnapshot} : SameOrForgotten(row, q, t, h)
  BY <1>1, <1>11, <1>13, RewriteKeeps
<1>15. ASSUME NEW h \in Paths, s \in live, row[s].gen[h] = Null, row[s].delta[h] # Same
       PROVE  Follows(q, s, h)
  <2>1. PICK op : op = row[s].delta[h] /\ op = q[s].delta[h]
    BY <1>9
  <2>2. row[s].base = b /\ q[s].base = b /\ (b = NoSnapshot \/ b \in live)
    BY <1>1, <1>9, <1>15 DEF Counted, Based
  <2>3. SameOrForgotten(row, q, b, h) /\ q[s].gen[h] = NextContentGeneration(m[h], op)
    <3>1. SameOrForgotten(row, q, b, h)
      BY <1>14, <2>2
    <3>2. q[s].gen = gen
      BY <1>6, <1>8
    <3> QED
      BY <1>2, <1>15, <2>1, <3>1, <3>2
  <2>4. ASSUME GenerationIn(q, b, h).found
        PROVE  /\ GenerationIn(q, b, h).generation # Null
               /\ NextContentGeneration(m[h], op) = NextContentGeneration(GenerationIn(q, b, h), op)
    <3>1. PICK old, new, k : old = GenerationIn(row, b, h) /\ new = GenerationIn(q, b, h) /\ k = m[h]
      OBVIOUS
    <3>2. new.found /\ old.found /\ new.body = old.body /\ (old.generation # Null => new.generation = old.generation)
      BY <2>3, <2>4, <3>1 DEF SameOrForgotten
    <3>3. b \in live
      <4>1. b = NoSnapshot => ~GenerationIn(row, b, h).found
        BY DEF GenerationIn, Unnamed
      <4> QED
        BY <2>2, <3>1, <3>2, <4>1
    <3>4. k.found /\ k.generation # Null /\ k.generation = old.generation /\ k.body = old.body
      BY <3>1, <3>2, <3>3 DEF Knows
    <3>5. NextContentGeneration(k, op) = NextContentGeneration(new, op) /\ new.generation # Null
      BY <3>2, <3>4, NextLooksAt
    <3> QED
      BY <3>1, <3>5
  <2>5. op = Deleted => GenerationIn(q, b, h).found
    <3>1. op = Deleted => ServedBy(row, b)[h] # Absent
      BY <1>15, <2>1, <2>2 DEF GenInv, TableOK, RowHolds
    <3>2. op = Deleted => ServedBy(q, b)[h] # Absent
      BY <2>3, <3>1 DEF SameOrForgotten
    <3> QED
      BY <1>11, <2>2, <3>2, DeclaredIsFound
  <2> QED
    BY <2>1, <2>2, <2>3, <2>4, <2>5 DEF Follows
<1>16. ASSUME NEW t \in live, NEW h \in Paths
       PROVE  RowHolds(q, t, h)
  <2>1. RowHolds(row, t, h)
    BY DEF GenInv, TableOK
  <2>2. row[t].delta[h] = Same \/ q[t].gen[h] = row[t].gen[h] \/ Follows(q, t, h)
    <3>1. CASE row[t].gen[h] # Null
      BY <1>1, <1>10, <3>1
    <3>2. CASE t # s
      BY <1>1, <1>8, <3>2
    <3>3. CASE t = s /\ row[t].gen[h] = Null
      BY <1>15, <3>3
    <3> QED
      BY <3>1, <3>2, <3>3
  <2>3. \A u \in live : StaysOn(row, q, live, u) \/ StandsAlone(row, q, u)
    BY <1>13
  <2>4. \/ StandsAlone(row, q, t) \/ row[t].delta[h] = Same \/ q[t].gen[h] = row[t].gen[h] \/ Follows(q, t, h)
    BY <2>2
  <2>5. live \subseteq live
    OBVIOUS
  <2> QED
    BY <1>1, <1>11, <2>1, <2>3, <2>4, <2>5, RowKeeps
<1>17. TableOK(q, live, created)
  <2>1. created \in 0..MaxSnapshots /\ live \subseteq 1..created
    BY <1>1 DEF TableOK
  <2> QED
    BY <1>8, <1>11, <1>12, <1>16, <2>1 DEF TableOK
<1>18. Moves(row, live, created, q, live, created)
  <2>1. created <= created
    BY <1>1
  <2>2. \A t \in live : t \in live => StaysOn(row, q, live, t) \/ (StandsAlone(row, q, t) /\ Counted(q, t))
    BY <1>13
  <2>3. TableOK(row, live, created) /\ TableOK(q, live, created) /\ \A t \in live : t \in live \/ created < t
    BY <1>1, <1>17
  <2> QED
    BY <2>1, <2>2, <2>3, Zenon DEF Moves
<1> QED
  BY <1>2, <1>6, <1>8, <1>9, <1>18 DEF Counted

\* The base's map with the snapshot's own deltas over it is the snapshot's map.
LEMMA NextIsKnown ==
  ASSUME GenInv, NEW s \in Snapshots, NEW b \in 0..(s - 1), NEW m, Knows(row, live, m, b),
         s \in live => row[s].base = b \/ Counted(row, s), s \in live => row[s].base \in {b, NoSnapshot},
         NEW gen, gen = Filled(s, m), NEW q, q = WithFilled(s, gen),
         NEW next, next = Applied(m, row[s].delta, gen)
  PROVE  Knows(q, live, next, s)
<1>1. /\ TableOK(q, live, created) /\ Moves(row, live, created, q, live, created)
      /\ q[s].delta = row[s].delta /\ q[s].base = row[s].base /\ q[s].gen = gen
  <2>1. /\ Moves(row, live, created, q, live, created)
        /\ q[s].delta = row[s].delta /\ q[s].base = row[s].base /\ q[s].gen = gen
    BY FillMoves
  <2> QED
    BY <2>1 DEF Moves
<1>2. /\ \A h \in Paths : gen[h] \in 0..s
      /\ s \in live => \A h \in Paths : row[s].delta[h] # Same => gen[h] # Null
  BY FilledIsCounted
<1>3. row[s].delta \in Deltas /\ (s \notin live => \A h \in Paths : row[s].delta[h] = Same)
  BY DEF GenInv, TableOK, Rows, EmptyRow
<1>4. s \in Nat /\ created \in Nat /\ MaxSnapshots \in Nat /\ 0..s \subseteq 0..MaxSnapshots
  BY ChainAssumption DEF GenInv, TableOK, Snapshots
<1>5. b \in 0..created => Knows(q, live, m, b)
  BY <1>1, KnowsStays
<1>6. ASSUME NEW h \in Paths, row[s].delta[h] # Same
      PROVE  /\ next[h] \in Generation /\ next[h].generation \in 0..s /\ next[h].generation # Null
             /\ next[h] = [found |-> TRUE, generation |-> gen[h], body |-> BodyOfDelta(row[s].delta[h])]
  <2>1. PICK g : g = gen[h] /\ g \in 0..s /\ g \in 0..MaxSnapshots /\ g # Null
    BY <1>2, <1>3, <1>4, <1>6
  <2>2. PICK op : op = row[s].delta[h] /\ op \in Contents \cup {Deleted}
    BY <1>3, <1>6 DEF Deltas
  <2>3. PICK c : c = BodyOfDelta(op) /\ c \in Bodies \cup {NotFound}
    BY <2>2 DEF BodyOfDelta, Bodies
  <2>4. next[h] = [found |-> TRUE, generation |-> g, body |-> c]
    BY <1>6, <2>1, <2>2, <2>3 DEF Applied
  <2>5. [found |-> TRUE, generation |-> g, body |-> c] \in Generation
    BY <2>1, <2>3 DEF Generation
  <2> QED
    BY <2>1, <2>2, <2>3, <2>4, <2>5
<1>7. ASSUME NEW h \in Paths, row[s].delta[h] = Same
      PROVE  next[h] = m[h] /\ m[h] \in Generation /\ m[h].generation \in 0..s /\ (m[h].found => m[h].generation # Null)
  <2>1. next[h] = m[h]
    BY <1>7 DEF Applied
  <2>2. m[h] \in Generation /\ m[h].generation \in 0..b /\ (m[h].found => m[h].generation # Null)
    BY DEF Knows, GenerationMaps
  <2>3. 0..b \subseteq 0..s
    BY <1>4
  <2> QED
    BY <2>1, <2>2, <2>3
<1>8. next \in GenerationMaps
  BY <1>6, <1>7 DEF Applied, GenerationMaps
<1>9. ASSUME NEW h \in Paths, s \in live, GenerationIn(q, s, h).found
      PROVE  /\ next[h].found /\ next[h].generation = GenerationIn(q, s, h).generation
             /\ next[h].body = GenerationIn(q, s, h).body
  <2>1. GenerationIn(q, s, h) = IF row[s].delta[h] # Same THEN Own(q, s, h) ELSE GenerationIn(q, row[s].base, h)
    <3>1. Based(q, live)
      BY <1>1 DEF TableOK
    <3>2. GenerationIn(q, s, h) = IF q[s].delta[h] # Same THEN Own(q, s, h) ELSE GenerationIn(q, q[s].base, h)
      BY <1>9, <3>1, GenerationUnfold
    <3> QED
      BY <1>1, <3>2
  <2>2. CASE row[s].delta[h] # Same
    BY <1>1, <1>6, <2>1, <2>2 DEF Own
  <2>3. CASE row[s].delta[h] = Same
    <3>1. GenerationIn(q, row[s].base, h).found
      BY <1>9, <2>1, <2>3
    <3>2. row[s].base # NoSnapshot
      BY <3>1 DEF GenerationIn, Unnamed
    <3>3. row[s].base = b /\ b \in live
      BY <1>9, <3>2 DEF GenInv, TableOK, Based
    <3>4. Knows(q, live, m, b)
      <4>1. b \in 1..created
        BY <3>3 DEF GenInv, TableOK
      <4> QED
        BY <1>5, <4>1
    <3> QED
      BY <1>7, <2>1, <2>3, <3>1, <3>3, <3>4 DEF Knows
  <2> QED
    BY <2>2, <2>3
<1> QED
  BY <1>6, <1>7, <1>8, <1>9 DEF Knows

\* The maps that are kept fit, and are of the snapshots they are kept for.
LEMMA MemoIsKnown ==
  ASSUME NEW r, NEW L, NEW n \in Nat, NEW x, ProcOK(r, L, n, x), NEW s \in 1..n, NEW b \in 0..(s - 1),
         b = x.bases[s], Knows(r, L, x.prior, b), NEW next, Knows(r, L, next, s),
         NEW memo, memo = MemoAfter(x, s, next)
  PROVE  /\ DOMAIN memo \subseteq 0..n /\ Cardinality(DOMAIN memo) <= MemoSize
         /\ \A k \in DOMAIN memo : Knows(r, L, memo[k], k)
<1> DEFINE wanted == b # NoSnapshot /\ Dependants(x, b, s) # {}
           old == {k \in DOMAIN x.memo : k # b \/ wanted}
           added == {k \in {b} : wanted /\ k \notin old /\ Cardinality(old) < MemoSize}
           own == {k \in {s} : Dependants(x, s, s) # {} /\ Cardinality(old \cup added) < MemoSize}
<1>1. memo = [k \in old \cup added \cup own |-> CASE k \in old -> x.memo[k]
                                                  [] k \in added -> x.prior
                                                  [] OTHER -> next]
  BY Zenon DEF MemoAfter
<1>2. old \in SUBSET (DOMAIN x.memo) /\ added \in SUBSET {b} /\ own \in SUBSET {s}
  OBVIOUS
<1>3. /\ added # {} => Cardinality(old) < MemoSize /\ b \notin old /\ added = {b}
      /\ own # {} => Cardinality(old \cup added) < MemoSize /\ own = {s}
  OBVIOUS
<1> HIDE DEF wanted, old, added, own
<1>4. /\ DOMAIN x.memo \subseteq 0..n /\ Cardinality(DOMAIN x.memo) <= MemoSize
      /\ \A k \in DOMAIN x.memo : Knows(r, L, x.memo[k], k)
  BY DEF ProcOK
<1>5. MemoSize \in Nat /\ IsFiniteSet(0..n)
  BY GenerationConstants, FS_Interval
<1>6. IsFiniteSet(DOMAIN x.memo)
  BY <1>4, <1>5, FS_Subset
<1>7. IsFiniteSet(old) /\ Cardinality(old) \in Nat /\ Cardinality(old) <= MemoSize
  <2>1. IsFiniteSet(old) /\ Cardinality(old) <= Cardinality(DOMAIN x.memo)
    BY <1>2, <1>6, FS_Subset
  <2>2. Cardinality(old) \in Nat /\ Cardinality(DOMAIN x.memo) \in Nat
    BY <1>6, <2>1, FS_CardinalityType
  <2> QED
    BY <1>4, <1>5, <2>1, <2>2
<1>8. IsFiniteSet(old \cup added) /\ Cardinality(old \cup added) \in Nat /\ Cardinality(old \cup added) <= MemoSize
  <2>1. CASE added = {}
    <3>1. old \cup added = old
      BY <2>1
    <3> QED
      BY <1>7, <3>1
  <2>2. CASE added # {}
    <3>1. /\ IsFiniteSet(old \cup {b})
          /\ Cardinality(old \cup {b}) = IF b \in old THEN Cardinality(old) ELSE Cardinality(old) + 1
      BY <1>7, FS_AddElement
    <3>2. added = {b} /\ Cardinality(old \cup {b}) = Cardinality(old) + 1 /\ Cardinality(old) < MemoSize
      BY <1>3, <2>2, <3>1
    <3> QED
      BY <1>5, <1>7, <3>1, <3>2
  <2> QED
    BY <2>1, <2>2
<1>9. Cardinality(old \cup added \cup own) <= MemoSize
  <2>1. CASE own = {}
    <3>1. old \cup added \cup own = old \cup added
      BY <2>1
    <3> QED
      BY <1>8, <3>1
  <2>2. CASE own # {}
    <3>1. PICK u : u = old \cup added
      OBVIOUS
    <3>2. Cardinality(u \cup {s}) = IF s \in u THEN Cardinality(u) ELSE Cardinality(u) + 1
      BY <1>8, <3>1, FS_AddElement
    <3>3. own = {s} /\ Cardinality(u) < MemoSize /\ Cardinality(u) \in Nat
      BY <1>3, <1>8, <2>2, <3>1
    <3> QED
      BY <1>5, <3>1, <3>2, <3>3
  <2> QED
    BY <2>1, <2>2
<1>10. DOMAIN memo = old \cup added \cup own
  BY <1>1
<1>11. DOMAIN memo \subseteq 0..n
  <2>1. b \in 0..n /\ s \in 0..n
    OBVIOUS
  <2> QED
    BY <1>2, <1>4, <1>10, <2>1
<1>12. ASSUME NEW k \in DOMAIN memo PROVE Knows(r, L, memo[k], k)
  <2>1. CASE k \in old
    <3>1. memo[k] = x.memo[k]
      BY <1>1, <1>2, <1>3, <1>10, <2>1
    <3> QED
      BY <1>2, <1>4, <2>1, <3>1
  <2>2. CASE k \notin old /\ k \in added
    <3>1. memo[k] = x.prior /\ k = b
      BY <1>1, <1>2, <1>10, <2>2
    <3> QED
      BY <3>1
  <2>3. CASE k \notin old /\ k \notin added
    <3>1. memo[k] = next /\ k = s
      BY <1>1, <1>2, <1>10, <2>3
    <3> QED
      BY <3>1
  <2> QED
    BY <2>1, <2>2, <2>3
<1> QED
  BY <1>9, <1>10, <1>11, <1>12

\* A snapshot's generations are filled in and the marker moves on (one transaction of backfillSymbolGenerations).
LEMMA FillInv ==
  ASSUME GenInv, NEW p \in Processes, Fill(p)
  PROVE  GenInv'
<1>1. PICK x : x = proc[p] /\ ProcOK(row, live, created, x)
  BY WhatIsThere
<1>2. PICK s, b, m : s = AtHand(x) /\ b = x.bases[s] /\ m = x.prior
  OBVIOUS
<1>3. PICK gen : gen = Filled(s, m)
  OBVIOUS
<1>4. PICK q, next : q = WithFilled(s, gen) /\ next = Applied(m, row[s].delta, gen)
  OBVIOUS
<1>5. PICK memo : memo = MemoAfter(x, s, next)
  OBVIOUS
<1>6. PICK y : y = [x EXCEPT !.phase = "cutting", !.through = s, !.prior = NoGenerations, !.memo = memo]
  OBVIOUS
<1>7. /\ x.phase = "filling" /\ row' = q /\ marker' = [marker EXCEPT !.through = s] /\ Move(p, y)
      /\ created' = created /\ live' = live
  BY <1>1, <1>2, <1>3, <1>4, <1>5, <1>6, Zenon DEF Fill, WithFilled
<1>8. /\ s \in 1..created /\ s \in Snapshots /\ s \in DOMAIN x.bases /\ b \in 0..(s - 1)
      /\ Knows(row, live, m, b)
      /\ \A t \in live : t < s => t <= x.through
      /\ s \in live => row[s].base = b \/ Counted(row, s)
      /\ s \in live => row[s].base \in {b, NoSnapshot}
  BY <1>1, <1>2, <1>7, FillsLowest
<1>9. Moves(row, live, created, q, live, created) /\ (s \in live => Counted(q, s))
  BY <1>3, <1>4, <1>8, FillMoves
<1>10. Knows(q, live, next, s)
  BY <1>3, <1>4, <1>8, NextIsKnown
<1>11. ProcOK(q, live, created, x) /\ created \in Nat
  BY <1>1, <1>9, ProcStays, WhatIsThere
<1>12. b \in 0..created
  BY <1>8, <1>11
<1>13. Knows(q, live, m, b)
  BY <1>8, <1>9, <1>12, KnowsStays
<1>14. /\ DOMAIN memo \subseteq 0..created /\ Cardinality(DOMAIN memo) <= MemoSize
       /\ \A k \in DOMAIN memo : Knows(q, live, memo[k], k)
  BY <1>2, <1>5, <1>8, <1>10, <1>11, <1>13, MemoIsKnown
<1>15. y = [phase |-> "cutting", through |-> s, complete |-> x.complete, bases |-> x.bases,
            prior |-> NoGenerations, memo |-> memo]
  <2>1. x = [phase |-> x.phase, through |-> x.through, complete |-> x.complete, bases |-> x.bases,
             prior |-> x.prior, memo |-> x.memo]
    BY <1>1 DEF ProcOK
  <2> QED
    BY <1>6, <2>1
<1>16. y.phase = "cutting" /\ y.through = s /\ y.complete = x.complete /\ y.bases = x.bases
       /\ y.prior = NoGenerations /\ y.memo = memo
  BY <1>15
<1>17. DoneThrough(q, live, s)
  <2>1. DoneThrough(row, live, x.through)
    BY <1>1, <1>7 DEF ProcOK, Beginning
  <2>2. ASSUME NEW t \in live, t <= s PROVE Counted(q, t)
    <3>1. t \in Nat /\ s \in Nat
      BY <1>8, <1>11, WhatIsThere
    <3>2. CASE t = s
      BY <1>9, <3>2
    <3>3. CASE t # s
      <4>1. t < s /\ t <= x.through
        BY <1>8, <2>2, <3>1, <3>3
      <4>2. Counted(row, t) /\ t \in live \cap live
        BY <2>1, <4>1 DEF DoneThrough
      <4> QED
        BY <1>9, <4>2, CountedStays
    <3> QED
      BY <3>2, <3>3
  <2> QED
    BY <2>2 DEF DoneThrough
<1>18. ProcOK(q, live, created, y)
  <2>1. "cutting" \in Phases /\ "cutting" # "filling" /\ NoGenerations \in GenerationMaps
    BY ClosedIsOK DEF Phases
  <2>2. s \in 0..created
    BY <1>8, <1>11
  <2> QED
    BY <1>11, <1>14, <1>15, <1>16, <1>17, <2>1, <2>2 DEF ProcOK
<1>19. MarkerOK(q, live, created, marker')
  <2>1. s \in 0..MaxSnapshots /\ s <= created
    BY <1>8, <1>11, ChainAssumption DEF Snapshots
  <2>2. marker \in [exists : BOOLEAN, through : 0..MaxSnapshots, complete : BOOLEAN]
    BY DEF GenInv, MarkerOK
  <2>3. marker' \in [exists : BOOLEAN, through : 0..MaxSnapshots, complete : BOOLEAN] /\ marker'.through = s
    BY <1>7, <2>1, <2>2
  <2> QED
    BY <1>17, <2>1, <2>3 DEF MarkerOK
<1>20. /\ proc' = [u \in Processes |-> proc'[u]]
       /\ \A u \in Processes : proc'[u] = IF u = p THEN y ELSE proc[u]
  <2>1. proc = [u \in Processes |-> proc[u]] /\ proc' = [proc EXCEPT ![p] = y]
    BY <1>7 DEF GenInv, Move
  <2> QED
    BY <2>1
<1>21. ASSUME NEW u \in Processes PROVE ProcOK(q, live, created, proc'[u])
  <2>1. CASE u = p
    BY <1>18, <1>20, <2>1
  <2>2. CASE u # p
    <3>1. ProcOK(row, live, created, proc[u]) /\ proc'[u] = proc[u]
      BY <1>20, <2>2, WhatIsThere
    <3> QED
      BY <1>9, <3>1, ProcStays
  <2> QED
    BY <2>1, <2>2
<1>22. TableOK(q, live, created)
  BY <1>9 DEF Moves
<1> QED
  BY <1>7, <1>19, <1>20, <1>21, <1>22 DEF GenInv

-----------------------------------------------------------------------------
(* Publishing and pruning.                                                 *)

\* What is served has the types of a file set, and so have the changes of a file set.
LEMMA ServedIsTyped ==
  ASSUME GenInv, NEW b \in live \cup {NoSnapshot}, NEW files \in FileSets
  PROVE  /\ \A h \in Paths : ServedBy(row, b)[h] \in Contents \cup {Absent}
         /\ Difference(ServedBy(row, b), files) \in Deltas
         /\ \A h \in Paths : Difference(ServedBy(row, b), files)[h] = Deleted => ServedBy(row, b)[h] # Absent
<1>1. Based(row, live) /\ RowsOK(row, live)
  BY DEF GenInv, TableOK
<1>2. \A h \in Paths : ServedBy(row, b)[h] \in Contents \cup {Absent}
  BY <1>1, GenerationsAreTyped
<1>3. \A h \in Paths : files[h] \in Contents \cup {Absent}
  BY DEF FileSets
<1> QED
  BY <1>2, <1>3, ChainAssumption DEF Difference, Deltas

\* A publication of generations that follow the base's, or of none.
LEMMA AddMoves ==
  ASSUME GenInv, NEW base \in live \cup {NoSnapshot}, NEW declared \in FileSets, NEW gen, Add(base, declared, gen),
         gen = [h \in Paths |-> gen[h]], \A h \in Paths : gen[h] \in 0..(created + 1),
         NEW delta, delta = Difference(ServedBy(row, base), declared),
         \A h \in Paths : delta[h] # Same /\ gen[h] # Null /\ GenerationIn(row, base, h).found =>
           /\ GenerationIn(row, base, h).generation # Null
           /\ gen[h] = NextContentGeneration(GenerationIn(row, base, h), delta[h])
  PROVE  Moves(row, live, created, row', live', created')
<1>1. /\ TableOK(row, live, created) /\ Based(row, live) /\ RowsOK(row, live) /\ row \in [Snapshots -> Rows]
      /\ live \subseteq Snapshots /\ live \subseteq 1..created /\ created \in Nat /\ MaxSnapshots \in Nat
  BY ChainAssumption DEF GenInv, TableOK, Based
<1>2. PICK c, q, M, z : /\ c = created + 1 /\ q = row' /\ M = live \cup {c}
                        /\ z = [base |-> base, delta |-> delta, gen |-> gen]
  OBVIOUS
<1>3. created' = c /\ live' = M /\ q = [row EXCEPT ![c] = z] /\ created < MaxSnapshots
  BY <1>2 DEF Add
<1>4. /\ c \in 1..MaxSnapshots /\ c \in Snapshots /\ c \notin live /\ c \in 0..MaxSnapshots /\ M \subseteq 1..c
      /\ created <= c /\ created < c /\ 0..c \subseteq 0..MaxSnapshots
  BY <1>1, <1>2, <1>3 DEF Snapshots
<1>5. /\ q \in [Snapshots -> Rows] /\ q[c].base = base /\ q[c].delta = delta /\ q[c].gen = gen
      /\ \A s \in Snapshots : s # c => q[s] = row[s]
  <2>1. delta \in Deltas
    BY ServedIsTyped
  <2>2. base \in 0..MaxSnapshots
    BY <1>1, <1>3 DEF NoSnapshot
  <2>3. gen \in [Paths -> 0..MaxSnapshots]
    BY <1>2, <1>4
  <2>4. z \in Rows /\ z.base = base /\ z.delta = delta /\ z.gen = gen
    BY <1>2, <2>1, <2>2, <2>3 DEF Rows
  <2> QED
    BY <1>1, <1>3, <1>4, <2>4
<1>6. \A s \in live : q[s] = row[s] /\ s \in Snapshots /\ s # c
  BY <1>1, <1>4, <1>5
<1>7. Based(q, live) /\ RowsOK(q, live)
  BY <1>1, <1>6 DEF Based, RowsOK
<1>8. Based(q, M) /\ RowsOK(q, M)
  <2>1. ASSUME NEW s \in M, q[s].base # NoSnapshot PROVE q[s].base \in M /\ q[s].base < s
    <3>1. CASE s = c
      <4>1. base \in live /\ base < c
        BY <1>1, <1>2, <1>5, <2>1, <3>1
      <4> QED
        BY <1>2, <1>5, <3>1, <4>1
    <3>2. CASE s # c
      BY <1>2, <1>7, <2>1, <3>2 DEF Based
    <3> QED
      BY <3>1, <3>2
  <2>2. M \subseteq Snapshots
    BY <1>1, <1>2, <1>4
  <2>3. ASSUME NEW s \in M PROVE q[s].delta \in Deltas /\ \A h \in Paths : q[s].gen[h] \in 0..s
    <3>1. CASE s = c
      BY <1>2, <1>5, <3>1, ServedIsTyped
    <3>2. CASE s # c
      BY <1>2, <1>7, <3>2 DEF RowsOK
    <3> QED
      BY <3>1, <3>2
  <2> QED
    BY <2>1, <2>2, <2>3 DEF Based, RowsOK
<1>9. \A s \in Snapshots \ M : q[s] = EmptyRow
  BY <1>1, <1>2, <1>5 DEF TableOK
<1>10. \A s \in live : StaysOn(row, q, live, s)
  BY <1>1, <1>6 DEF StaysOn, Based
<1>11. \A s \in live : StaysOn(row, q, live, s) \/ StandsAlone(row, q, s)
  BY <1>10
<1>12. \A h \in Paths, s \in live \cup {NoSnapshot} : SameOrForgotten(row, q, s, h)
  BY <1>1, <1>7, <1>11, RewriteKeeps
<1>13. ASSUME NEW s \in live, NEW h \in Paths PROVE RowHolds(q, s, h)
  <2>1. RowHolds(row, s, h) /\ live \subseteq live
    BY <1>1 DEF TableOK
  <2>2. \/ StandsAlone(row, q, s) \/ row[s].delta[h] = Same \/ q[s].gen[h] = row[s].gen[h] \/ Follows(q, s, h)
    BY <1>6
  <2> QED
    BY <1>1, <1>7, <1>11, <2>1, <2>2, RowKeeps
<1>14. ASSUME NEW h \in Paths PROVE RowHolds(q, c, h)
  <2>1. PICK op, g : op = delta[h] /\ g = gen[h]
    OBVIOUS
  <2>2. q[c].delta[h] = op /\ q[c].gen[h] = g /\ q[c].base = base
    BY <1>5, <2>1
  <2>3. SameOrForgotten(row, q, base, h)
    BY <1>12
  <2>4. op = Deleted => ServedBy(q, base)[h] # Absent
    <3>1. op = Deleted => ServedBy(row, base)[h] # Absent
      BY <2>1, ServedIsTyped
    <3> QED
      BY <2>3, <3>1 DEF SameOrForgotten
  <2>5. op = Deleted => GenerationIn(q, base, h).found
    BY <1>7, <2>4, DeclaredIsFound
  <2>6. ASSUME op # Same, g # Null, GenerationIn(q, base, h).found
        PROVE  GenerationIn(q, base, h).generation # Null /\ g = NextContentGeneration(GenerationIn(q, base, h), op)
    <3>1. PICK old, new : old = GenerationIn(row, base, h) /\ new = GenerationIn(q, base, h)
      OBVIOUS
    <3>2. new.found /\ old.found /\ new.body = old.body /\ (old.generation # Null => new.generation = old.generation)
      BY <2>3, <2>6, <3>1 DEF SameOrForgotten
    <3>3. old.generation # Null /\ g = NextContentGeneration(old, op)
      BY <2>1, <2>6, <3>1, <3>2
    <3>4. NextContentGeneration(old, op) = NextContentGeneration(new, op)
      BY <3>2, <3>3, NextLooksAt
    <3> QED
      BY <3>1, <3>2, <3>3, <3>4
  <2> QED
    BY <2>2, <2>4, <2>5, <2>6 DEF RowHolds, Follows
<1>15. TableOK(q, M, c)
  <2>1. \A s \in M, h \in Paths : RowHolds(q, s, h)
    BY <1>2, <1>13, <1>14
  <2> QED
    BY <1>4, <1>5, <1>8, <1>9, <2>1 DEF TableOK
<1>16. Moves(row, live, created, q, M, c)
  <2>1. \A s \in M : s \in live \/ created < s
    BY <1>2, <1>4
  <2>2. \A s \in M : s \in live => StaysOn(row, q, M, s)
    BY <1>2, <1>10 DEF StaysOn
  <2>3. \A s \in M : s \in live => StaysOn(row, q, M, s) \/ (StandsAlone(row, q, s) /\ Counted(q, s))
    BY <2>2
  <2> QED
    BY <1>1, <1>4, <1>15, <2>1, <2>3, Zenon DEF Moves
<1> QED
  BY <1>2, <1>3, <1>16

\* An older binary's publication is a step of the tables.
LEMMA OldPublishMoves ==
  ASSUME GenInv, NEW base \in live \cup {NoSnapshot}, NEW declared \in FileSets, OldPublish(base, declared)
  PROVE  Moves(row, live, created, row', live', created')
<1>1. PICK gen : gen = [h \in Paths |-> Null]
  OBVIOUS
<1>2. PICK delta : delta = Difference(ServedBy(row, base), declared)
  OBVIOUS
<1>3. Add(base, declared, gen)
  BY <1>1 DEF OldPublish
<1>4. gen = [h \in Paths |-> gen[h]] /\ \A h \in Paths : gen[h] = Null /\ gen[h] \in 0..(created + 1)
  <2>1. created \in Nat
    BY ChainAssumption DEF GenInv, TableOK
  <2> QED
    BY <1>1, <2>1 DEF Null
<1>5. \A h \in Paths : delta[h] # Same /\ gen[h] # Null /\ GenerationIn(row, base, h).found =>
           /\ GenerationIn(row, base, h).generation # Null
           /\ gen[h] = NextContentGeneration(GenerationIn(row, base, h), delta[h])
  BY <1>4
<1> QED
  BY <1>2, <1>3, <1>4, <1>5, AddMoves

\* A publication with generations is a step of the tables.
LEMMA PublishMoves ==
  ASSUME GenInv, NEW base \in live \cup {NoSnapshot}, NEW declared \in FileSets,
         NEW p \in Processes, Publish(p, base, declared)
  PROVE  Moves(row, live, created, row', live', created')
<1>1. PICK prior, delta : prior = Generations(base) /\ delta = Difference(ServedBy(row, base), declared)
  OBVIOUS
<1>2. PICK gen : gen = Counts(prior, delta)
  OBVIOUS
<1>3. /\ \A h \in Paths : delta[h] # Same /\ prior[h].found => prior[h].generation # Null
      /\ Add(base, declared, gen)
  BY <1>1, <1>2, Zenon DEF Publish
<1>4. /\ created \in Nat /\ live \subseteq 1..created /\ Based(row, live) /\ RowsOK(row, live)
  BY WhatIsThere DEF TableOK
<1>5. \A h \in Paths : prior[h] = GenerationIn(row, base, h)
  BY <1>1, GenerationsAreIn
<1>6. /\ gen = [h \in Paths |-> gen[h]]
      /\ \A h \in Paths : gen[h] = IF delta[h] = Same THEN Null ELSE NextContentGeneration(prior[h], delta[h])
  BY <1>2 DEF Counts
<1>7. ASSUME NEW h \in Paths PROVE gen[h] \in 0..(created + 1)
  <2>1. PICK k, g, op : k = prior[h] /\ g = k.generation /\ op = delta[h]
    OBVIOUS
  <2>2. g \in 0..base
    <3>1. GenerationIn(row, base, h).generation \in 0..base
      BY <1>4, GenerationsAreTyped
    <3> QED
      BY <1>5, <2>1, <3>1
  <2>3. base \in 0..created
    BY <1>4 DEF NoSnapshot
  <2>4. g \in 0..(created + 1) /\ g + 1 \in 0..(created + 1) /\ 1 \in 0..(created + 1) /\ 0 \in 0..(created + 1)
    BY <1>4, <2>2, <2>3
  <2>5. gen[h] \in {0, 1, g, g + 1}
    BY <1>6, <2>1 DEF NextContentGeneration, Null
  <2> QED
    BY <2>4, <2>5
<1>8. \A h \in Paths : delta[h] # Same /\ gen[h] # Null /\ GenerationIn(row, base, h).found =>
           /\ GenerationIn(row, base, h).generation # Null
           /\ gen[h] = NextContentGeneration(GenerationIn(row, base, h), delta[h])
  BY <1>3, <1>5, <1>6
<1> QED
  BY <1>1, <1>3, <1>6, <1>7, <1>8, AddMoves

\* A prune is a step of the tables: what it rebases lacks no generation.
LEMMA PruneMoves ==
  ASSUME GenInv, NEW p \in Processes, NEW doomed \in SUBSET live, Prune(p, doomed)
  PROVE  Moves(row, live, created, row', live', created')
<1>1. PICK rebased : rebased = {s \in live \ doomed : row[s].base \in doomed}
  OBVIOUS
<1>2. PICK q, M : q = row' /\ M = live \ doomed
  OBVIOUS
<1>3. /\ \A s \in rebased, h \in Paths : Effective(row, s)[h] # Absent => Generations(s)[h].generation # Null
      /\ live' = M /\ created' = created
      /\ q = [s \in Snapshots |-> CASE s \in doomed -> EmptyRow [] s \in rebased -> RebasedRow(s) [] OTHER -> row[s]]
  BY <1>1, <1>2, Zenon DEF Prune
<1>4. /\ TableOK(row, live, created) /\ Based(row, live) /\ RowsOK(row, live) /\ row \in [Snapshots -> Rows]
      /\ live \subseteq Snapshots /\ live \subseteq 1..created /\ created \in Nat /\ MaxSnapshots \in Nat
      /\ \A s \in live : 0..s \subseteq 0..MaxSnapshots
  BY ChainAssumption DEF GenInv, TableOK, Based
<1>5. M \subseteq live /\ rebased \subseteq M /\ doomed \subseteq live /\ \A s \in M : s \notin doomed
  BY <1>1, <1>2
<1>6. /\ \A s \in Snapshots : s \in doomed => q[s] = EmptyRow
      /\ \A s \in Snapshots : s \in rebased => q[s] = RebasedRow(s)
      /\ \A s \in Snapshots : s \notin doomed /\ s \notin rebased => q[s] = row[s]
  BY <1>3, <1>5
<1>7. ASSUME NEW s \in rebased
      PROVE  /\ StandsAlone(row, q, s) /\ Counted(q, s) /\ q[s] \in Rows
             /\ q[s].base = NoSnapshot /\ q[s].delta \in Deltas /\ \A h \in Paths : q[s].gen[h] \in 0..s
  <2>1. s \in live /\ s \in Snapshots /\ s # NoSnapshot
    BY <1>4, <1>5 DEF Snapshots, NoSnapshot
  <2>2. q[s].base = NoSnapshot /\ q[s].delta = Difference(EmptyFiles, Effective(row, s))
        /\ q[s].gen = [h \in Paths |-> IF Effective(row, s)[h] = Absent THEN Null ELSE Generations(s)[h].generation]
        /\ q[s] = [base |-> q[s].base, delta |-> q[s].delta, gen |-> q[s].gen]
    <3>1. PICK d, g : /\ d = Difference(EmptyFiles, Effective(row, s))
                      /\ g = [h \in Paths |-> IF Effective(row, s)[h] = Absent THEN Null ELSE Generations(s)[h].generation]
      OBVIOUS
    <3>2. q[s] = [base |-> NoSnapshot, delta |-> d, gen |-> g]
      BY <1>6, <2>1, <3>1, Zenon DEF RebasedRow
    <3>3. q[s].base = NoSnapshot /\ q[s].delta = d /\ q[s].gen = g
      BY <3>2
    <3> QED
      BY <3>1, <3>2, <3>3, Zenon
  <2>3. \A h \in Paths : Effective(row, s)[h] \in Contents \cup {Absent}
    BY <1>4, <2>1, GenerationsAreTyped DEF ServedBy
  <2>4. \A h \in Paths : /\ GenerationIn(row, s, h).generation \in 0..s
                         /\ Generations(s)[h].generation = GenerationIn(row, s, h).generation
    BY <1>4, <2>1, GenerationsAreTyped, GenerationsAreIn
  <2>5. \A h \in Paths : q[s].gen[h] \in 0..s
    BY <1>4, <2>1, <2>2, <2>4 DEF Null
  <2>6. q[s].delta \in Deltas
    BY <2>2, <2>3, ChainAssumption DEF Difference, EmptyFiles, Deltas
  <2>7. q[s] \in Rows
    <3>1. q[s].gen \in [Paths -> 0..MaxSnapshots]
      <4>1. \A h \in Paths : q[s].gen[h] \in 0..MaxSnapshots
        BY <1>4, <2>1, <2>5
      <4> QED
        BY <2>2, <4>1
    <3>2. q[s].base \in 0..MaxSnapshots
      BY <1>4, <2>2 DEF NoSnapshot
    <3>3. PICK u, v, w : u = q[s].base /\ v = q[s].delta /\ w = q[s].gen
      OBVIOUS
    <3> QED
      BY <2>2, <2>6, <3>1, <3>2, <3>3 DEF Rows
  <2>8. StandsAlone(row, q, s)
    BY <2>2, <2>4 DEF StandsAlone
  <2>9. Counted(q, s)
    <3>1. ASSUME NEW h \in Paths, q[s].delta[h] # Same PROVE q[s].gen[h] # Null
      <4>1. Effective(row, s)[h] # Absent
        BY <2>2, <3>1 DEF Difference, EmptyFiles
      <4> QED
        BY <1>3, <2>2, <4>1
    <3> QED
      BY <3>1 DEF Counted
  <2> QED
    BY <2>2, <2>5, <2>6, <2>7, <2>8, <2>9
<1>8. ASSUME NEW s \in M, s \notin rebased
      PROVE  q[s] = row[s] /\ StaysOn(row, q, M, s)
  <2>1. s \in live /\ s \in Snapshots /\ q[s] = row[s]
    BY <1>4, <1>5, <1>6, <1>8
  <2>2. row[s].base # NoSnapshot => row[s].base \in M
    BY <1>1, <1>2, <1>4, <1>8, <2>1 DEF Based
  <2> QED
    BY <2>1, <2>2 DEF StaysOn
<1>9. Based(q, M) /\ RowsOK(q, M)
  <2>1. ASSUME NEW s \in M, q[s].base # NoSnapshot PROVE q[s].base \in M /\ q[s].base < s
    <3>1. s \notin rebased
      BY <1>7, <2>1
    <3> QED
      BY <1>4, <1>5, <1>8, <2>1, <3>1 DEF StaysOn, Based
  <2>2. ASSUME NEW s \in M PROVE q[s].delta \in Deltas /\ \A h \in Paths : q[s].gen[h] \in 0..s
    <3>1. CASE s \in rebased
      BY <1>7, <3>1
    <3>2. CASE s \notin rebased
      BY <1>4, <1>5, <1>8, <3>2 DEF RowsOK
    <3> QED
      BY <3>1, <3>2
  <2> QED
    BY <1>4, <1>5, <2>1, <2>2 DEF Based, RowsOK
<1>10. /\ q \in [Snapshots -> Rows] /\ \A s \in Snapshots \ M : q[s] = EmptyRow
  <2>1. EmptyRow \in Rows
    <3>1. [h \in Paths |-> Same] \in Deltas /\ [h \in Paths |-> Null] \in [Paths -> 0..MaxSnapshots]
          /\ NoSnapshot \in 0..MaxSnapshots
      BY <1>4 DEF Deltas, Null, NoSnapshot
    <3> QED
      BY <3>1 DEF EmptyRow, Rows
  <2>2. ASSUME NEW s \in Snapshots PROVE q[s] \in Rows
    <3>1. CASE s \in doomed
      BY <1>6, <2>1, <3>1
    <3>2. CASE s \in rebased
      BY <1>7, <3>2
    <3>3. CASE s \notin doomed /\ s \notin rebased
      BY <1>4, <1>6, <3>3
    <3> QED
      BY <3>1, <3>2, <3>3
  <2>3. ASSUME NEW s \in Snapshots \ M PROVE q[s] = EmptyRow
    <3>1. CASE s \in doomed
      BY <1>6, <3>1
    <3>2. CASE s \notin doomed
      BY <1>2, <1>4, <1>5, <1>6, <3>2 DEF TableOK
    <3> QED
      BY <3>1, <3>2
  <2>4. q = [s \in Snapshots |-> q[s]]
    BY <1>3
  <2> QED
    BY <2>2, <2>3, <2>4
<1>11. \A s \in M : StaysOn(row, q, M, s) \/ StandsAlone(row, q, s)
  BY <1>7, <1>8
<1>12. ASSUME NEW s \in M, NEW h \in Paths PROVE RowHolds(q, s, h)
  <2>1. RowHolds(row, s, h)
    BY <1>4, <1>5 DEF TableOK
  <2>2. \/ StandsAlone(row, q, s) \/ row[s].delta[h] = Same \/ q[s].gen[h] = row[s].gen[h] \/ Follows(q, s, h)
    BY <1>7, <1>8
  <2> QED
    BY <1>4, <1>5, <1>9, <1>11, <2>1, <2>2, RowKeeps
<1>13. TableOK(q, M, created)
  <2>1. created \in 0..MaxSnapshots /\ M \subseteq 1..created
    BY <1>4, <1>5 DEF TableOK
  <2> QED
    BY <1>9, <1>10, <1>12, <2>1 DEF TableOK
<1>14. Moves(row, live, created, q, M, created)
  <2>1. \A s \in M : s \in live \/ created < s
    BY <1>5
  <2>2. \A s \in M : s \in live => StaysOn(row, q, M, s) \/ (StandsAlone(row, q, s) /\ Counted(q, s))
    BY <1>7, <1>8
  <2>3. created <= created
    BY <1>4
  <2> QED
    BY <1>4, <1>13, <2>1, <2>2, <2>3, Zenon DEF Moves
<1> QED
  BY <1>2, <1>3, <1>14

-----------------------------------------------------------------------------
(* The theorems.                                                           *)

\* What the database is created with.
LEMMA GenInitInv == Init => GenInv
<1> SUFFICES ASSUME Init PROVE GenInv
  OBVIOUS
<1>1. MaxSnapshots \in Nat /\ created = 0 /\ live = {} /\ proc = [p \in Processes |-> Closed]
  BY ChainAssumption DEF Init
<1>2. TableOK(row, live, created)
  <2>1. EmptyRow \in Rows
    <3>1. [h \in Paths |-> Same] \in Deltas /\ [h \in Paths |-> Null] \in [Paths -> 0..MaxSnapshots]
          /\ NoSnapshot \in 0..MaxSnapshots
      BY <1>1 DEF Deltas, Null, NoSnapshot
    <3> QED
      BY <3>1 DEF EmptyRow, Rows
  <2>2. row \in [Snapshots -> Rows] /\ \A s \in Snapshots \ live : row[s] = EmptyRow
    BY <2>1 DEF Init
  <2>3. Based(row, live) /\ RowsOK(row, live)
    BY <1>1 DEF Based, RowsOK
  <2> QED
    BY <1>1, <2>2, <2>3 DEF TableOK
<1>3. MarkerOK(row, live, created, marker)
  <2>1. marker = NoMarker
    BY DEF Init
  <2>2. NoMarker.exists = FALSE /\ NoMarker.through = 0
        /\ NoMarker \in [exists : BOOLEAN, through : 0..MaxSnapshots, complete : BOOLEAN]
    BY <1>1 DEF NoMarker
  <2> QED
    BY <1>1, <2>1, <2>2 DEF MarkerOK
<1>4. \A p \in Processes : ProcOK(row, live, created, proc[p])
  BY <1>1, ClosedIsOK
<1>5. proc = [p \in Processes |-> proc[p]]
  BY <1>1
<1> QED
  BY <1>2, <1>3, <1>4, <1>5 DEF GenInv

\* The tables stay where they are, or move.
LEMMA NothingMoves ==
  ASSUME GenInv, row' = row, live' = live, created' = created
  PROVE  Moves(row, live, created, row', live', created')
<1>1. TableOK(row, live, created) /\ created \in Nat
  BY ChainAssumption DEF GenInv, TableOK
<1>2. \A s \in live : s \in live => StaysOn(row, row, live, s)
  BY <1>1 DEF TableOK, Based, StaysOn
<1>3. \A s \in live : s \in live => StaysOn(row, row, live, s) \/ (StandsAlone(row, row, s) /\ Counted(row, s))
  BY <1>2
<1>4. created <= created /\ \A s \in live : s \in live \/ created < s
  BY <1>1
<1>5. Moves(row, live, created, row, live, created)
  BY <1>1, <1>3, <1>4, Zenon DEF Moves
<1> QED
  BY <1>5

\* Filling in is a step of the tables.
LEMMA FillTablesMove ==
  ASSUME GenInv, NEW p \in Processes, Fill(p)
  PROVE  Moves(row, live, created, row', live', created')
<1>1. PICK x : x = proc[p] /\ ProcOK(row, live, created, x)
  BY WhatIsThere
<1>2. PICK s, b, m : s = AtHand(x) /\ b = x.bases[s] /\ m = x.prior
  OBVIOUS
<1>3. PICK gen : gen = Filled(s, m)
  OBVIOUS
<1>4. PICK q : q = WithFilled(s, gen)
  OBVIOUS
<1>5. x.phase = "filling" /\ row' = q /\ created' = created /\ live' = live
  BY <1>1, <1>2, <1>3, <1>4, Zenon DEF Fill, WithFilled
<1>6. /\ s \in Snapshots /\ b \in 0..(s - 1) /\ Knows(row, live, m, b)
      /\ s \in live => row[s].base = b \/ Counted(row, s)
  BY <1>1, <1>2, <1>5, FillsLowest
<1>7. Moves(row, live, created, q, live, created)
  BY <1>3, <1>4, <1>6, FillMoves
<1> QED
  BY <1>5, <1>7

\* Every step keeps the invariant, and moves the tables or leaves them.
LEMMA GenStepInv ==
  ASSUME GenInv, [Next]_vars
  PROVE  GenInv' /\ Moves(row, live, created, row', live', created')
<1>1. CASE UNCHANGED vars
  <2>1. Moves(row, live, created, row', live', created')
    BY <1>1, NothingMoves DEF vars
  <2> QED
    BY <1>1, <2>1, TablesMove DEF vars
<1>2. ASSUME NEW base \in live \cup {NoSnapshot}, NEW declared \in FileSets,
             OldPublish(base, declared) \/ \E p \in Processes : Publish(p, base, declared)
      PROVE  GenInv' /\ Moves(row, live, created, row', live', created')
  <2>1. Moves(row, live, created, row', live', created')
    BY <1>2, OldPublishMoves, PublishMoves
  <2>2. UNCHANGED <<marker, proc>>
    BY <1>2 DEF OldPublish, Publish, Add
  <2> QED
    BY <2>1, <2>2, TablesMove
<1>3. ASSUME NEW p \in Processes, NEW doomed \in SUBSET live, Prune(p, doomed)
      PROVE  GenInv' /\ Moves(row, live, created, row', live', created')
  <2>1. Moves(row, live, created, row', live', created')
    BY <1>3, PruneMoves
  <2>2. UNCHANGED <<marker, proc>>
    BY <1>3 DEF Prune
  <2> QED
    BY <2>1, <2>2, TablesMove
<1>4. ASSUME NEW p \in Processes,
             \/ ReadMarker(p) \/ FindLowest(p) \/ SaveMarker(p) \/ ListSnapshots(p)
             \/ ReadBase(p) \/ Complete(p) \/ Stop(p)
      PROVE  GenInv' /\ Moves(row, live, created, row', live', created')
  <2>1. GenInv'
    BY <1>4, ReadMarkerInv, FindLowestInv, SaveMarkerInv, ListSnapshotsInv, ReadBaseInv, CompleteInv, StopInv
  <2>2. LeaveTables
    BY <1>4 DEF ReadMarker, FindLowest, SaveMarker, ListSnapshots, ReadBase, Complete, Stop
  <2> QED
    BY <2>1, <2>2, NothingMoves DEF LeaveTables
<1>5. ASSUME NEW p \in Processes, Fill(p)
      PROVE  GenInv' /\ Moves(row, live, created, row', live', created')
  BY <1>5, FillInv, FillTablesMove
<1> QED
  BY <1>1, <1>2, <1>3, <1>4, <1>5, Zenon DEF Next

\* Whatever is published, pruned, opened, stopped and filled in, by any number of
\* processes: rows follow their bases, and what a process has in memory is what the chain
\* it read says, or names a handle the chain forgot.
THEOREM GenerationsInvariant == Spec => []GenInv
<1>1. Init => GenInv
  BY GenInitInv
<1>2. GenInv /\ [Next]_vars => GenInv'
  BY GenStepInv
<1> QED
  BY <1>1, <1>2, PTL DEF Spec

\* symbol_generation_backfill tells the truth: no snapshot it says is done has a delta
\* without a generation; the cutover's state has its types, and keeps no more maps than
\* generationMemo.
THEOREM MarkerStaysTrue == Spec => []MarkerIsTrue
<1>1. GenInv => MarkerIsTrue
  <2> SUFFICES ASSUME GenInv PROVE MarkerIsTrue
    OBVIOUS
  <2>1. created \in 0..MaxSnapshots /\ live \subseteq 1..created /\ row \in [Snapshots -> Rows]
    BY DEF GenInv, TableOK
  <2>2. marker \in [exists : BOOLEAN, through : 0..MaxSnapshots, complete : BOOLEAN]
    BY DEF GenInv, MarkerOK
  <2>3. \A s \in live : row[s].base \in live \cup {NoSnapshot}
    BY DEF GenInv, TableOK, Based
  <2>4. ASSUME NEW p \in Processes
        PROVE  LET state == proc[p] IN
               /\ state.phase \in Phases
               /\ state.through \in 0..MaxSnapshots
               /\ state.prior \in GenerationMaps
               /\ DOMAIN state.bases \subseteq Snapshots
               /\ \A s \in DOMAIN state.memo : state.memo[s] \in GenerationMaps
               /\ Cardinality(DOMAIN state.memo) <= MemoSize
    <3>1. PICK x : x = proc[p] /\ ProcOK(row, live, created, x)
      BY WhatIsThere
    <3>2. x.phase \in Phases /\ x.prior \in GenerationMaps /\ Cardinality(DOMAIN x.memo) <= MemoSize
      BY <3>1 DEF ProcOK
    <3>3. x.through \in 0..created /\ DOMAIN x.bases \subseteq 1..created
      BY <3>1 DEF ProcOK, Listed
    <3>4. 0..created \subseteq 0..MaxSnapshots /\ 1..created \subseteq Snapshots
      BY <2>1, ChainAssumption DEF Snapshots
    <3>5. \A s \in DOMAIN x.memo : x.memo[s] \in GenerationMaps
      BY <3>1 DEF ProcOK, Knows
    <3> QED
      BY <3>1, <3>2, <3>3, <3>4, <3>5
  <2>5. TypeOK
    BY <2>1, <2>2, <2>3, <2>4, Zenon DEF TypeOK
  <2>6. ThroughIsDone
    BY DEF GenInv, MarkerOK, DoneThrough, Counted, ThroughIsDone, HasNull
  <2> QED
    BY <2>5, <2>6 DEF MarkerIsTrue
<1> QED
  BY <1>1, GenerationsInvariant, PTL

\* Every generation in the database is the one that follows from the base chain its row
\* is read with now, whoever wrote it and whatever was pruned since.
THEOREM GenerationsKeepFollowing == Spec => []GenerationsFollowTheirBase
<1>1. GenInv => GenerationsFollowTheirBase
  <2> SUFFICES ASSUME GenInv PROVE GenerationsFollowTheirBase
    OBVIOUS
  <2>1. ASSUME NEW s \in live, NEW h \in Paths
        PROVE  /\ Generations(row[s].base)[h] = GenerationIn(row, row[s].base, h)
               /\ Follows(row, s, h)
    BY GenerationsAreIn DEF GenInv, TableOK, RowHolds
  <2> QED
    BY <2>1 DEF GenerationsFollowTheirBase, Follows
<1> QED
  BY <1>1, GenerationsInvariant, PTL

\* What a step may never do: change a generation that a query has answered.
THEOREM GenerationsStayFinal == Spec => GenerationsAreFinal
<1> DEFINE Final == \A s \in live \cap live', h \in Paths :
                      Effective(row, s)[h] # Absent /\ GenerationOf(s, h) # Null =>
                        GenerationOf(s, h)' = GenerationOf(s, h)
<1>1. GenInv /\ [Next]_vars => Final
  <2> SUFFICES ASSUME GenInv, [Next]_vars,
                      NEW s \in live \cap live', NEW h \in Paths,
                      Effective(row, s)[h] # Absent, GenerationOf(s, h) # Null
               PROVE  GenerationOf(s, h)' = GenerationOf(s, h)
    OBVIOUS
  <2>1. PICK q, M, m : q = row' /\ M = live' /\ m = created'
    OBVIOUS
  <2>2. Moves(row, live, created, q, M, m)
    BY <2>1, GenStepInv
  <2>3. Based(row, live) /\ RowsOK(row, live) /\ Based(q, M) /\ RowsOK(q, M)
    BY <2>2 DEF Moves, TableOK
  <2>4. s \in live /\ s \in M /\ s # NoSnapshot
    BY <2>1, <2>3 DEF Based, Snapshots, NoSnapshot
  <2>5. SameOrForgotten(row, q, s, h)
    BY <2>2, <2>4, MovesKeep
  <2>6. ServedBy(q, s)[h] # Absent
    BY <2>4, <2>5 DEF SameOrForgotten, ServedBy
  <2>7. GenerationIn(q, s, h).found
    BY <2>3, <2>4, <2>6, DeclaredIsFound
  <2>8. GenerationOf(s, h) = GenerationIn(row, s, h).generation
    BY GenerationsAreIn DEF GenerationOf
  <2>9. GenerationOf(s, h)' = GenerationIn(q, s, h).generation
    <3>1. \A t : \A k \in Paths : Generations(t)'[k] = GenerationIn(row', t, k)
      BY Zenon DEF Generations, GenerationIn, Own, NoGenerations
    <3> QED
      BY <2>1, <3>1 DEF GenerationOf
  <2> QED
    BY <2>5, <2>7, <2>8, <2>9 DEF SameOrForgotten
<1> QED
  BY <1>1, GenerationsInvariant, PTL DEF Spec, GenerationsAreFinal

-----------------------------------------------------------------------------
(* Generations count implementations: the second inductive invariant.      *)

\* The implementation of h after the i'th of a chain's publications, those from the
\* first'th on that brought one, and where h appeared for the last time.
ImplementationAt(seq, h, i) == IF i = 0 \/ seq[i][h] = Absent THEN NotFound ELSE BodyOf[seq[i][h]]
Brought(seq, h, first) ==
  {i \in first..Len(seq) : ImplementationAt(seq, h, i) \notin {NotFound, ImplementationAt(seq, h, i - 1)}}
CountFrom(seq, h, first) == Cardinality(Brought(seq, h, first))
AddedAt(seq, h, i) ==
  /\ i \in 1..Len(seq) /\ ImplementationAt(seq, h, i - 1) = NotFound
  /\ \A j \in i..Len(seq) : ImplementationAt(seq, h, j) # NotFound

\* A generation that counts: at most all implementations, at least those since h was added.
Bounded(seq, h, g) ==
  /\ g \in Nat /\ g <= CountFrom(seq, h, 1)
  /\ \A i \in 1..Len(seq) : AddedAt(seq, h, i) => CountFrom(seq, h, i) <= g

\* A snapshot was published on its base, whose history it continues; one that has no base
\* and a history was rebased, and lacks no generation.
HistoryOf(r, hist, s) ==
  \E past \in Seq(FileSets), declared \in FileSets :
    /\ hist[s] = Append(past, declared)
    /\ \A h \in Paths : declared[h] = ServedBy(r, s)[h]
    /\ r[s].base # NoSnapshot => past = hist[r[s].base]
    /\ r[s].base = NoSnapshot => past = <<>> \/ Counted(r, s)

\* What is served was added, and a stored generation counts.
CountsIn(r, hist, s, h) ==
  /\ ServedBy(r, s)[h] # Absent => \E i \in 1..Len(hist[s]) : AddedAt(hist[s], h, i)
  /\ r[s].delta[h] # Same /\ r[s].gen[h] # Null => Bounded(hist[s], h, r[s].gen[h])

HistoryOK(r, L, hist) ==
  /\ hist \in [Snapshots -> Seq(FileSets)]
  /\ \A s \in L : HistoryOf(r, hist, s) /\ \A h \in Paths : CountsIn(r, hist, s, h)

\* The listed snapshots' counts, those that are gone included: C is what no table stores.
\* A map read for a snapshot, or kept for it, counts no more than it had.
Ceiling(L, hist, state, C) ==
  /\ \A t \in DOMAIN state.bases :
       /\ t \in L => \A h \in Paths : C[t][h] = CountFrom(hist[t], h, 1)
       /\ state.bases[t] # NoSnapshot =>
            state.bases[t] \in DOMAIN state.bases /\ \A h \in Paths : C[state.bases[t]][h] <= C[t][h]
  /\ \A b \in DOMAIN state.memo \ {NoSnapshot} :
       b \in DOMAIN state.bases /\ \A h \in Paths : state.memo[b][h].generation <= C[b][h]
  /\ state.phase = "filling" =>
       LET b == state.bases[AtHand(state)]
       IN b # NoSnapshot => \A h \in Paths : state.prior[h].generation <= C[b][h]

Cutting == {"cutting", "filling"}
Remembers(L, hist, state) ==
  /\ state.phase \notin Cutting => DOMAIN state.memo = {}
  /\ state.phase \in Cutting => \E C \in [DOMAIN state.bases -> [Paths -> Nat]] : Ceiling(L, hist, state, C)

CountInv ==
  /\ GenInv /\ HistoryOK(row, live, history)
  /\ \A p \in Processes : Remembers(live, history, proc[p])


-----------------------------------------------------------------------------
(* A history that grows.                                                   *)

\* One publication more.
Grown(past, declared, n, seq) ==
  /\ past \in Seq(FileSets) /\ declared \in FileSets /\ n \in Nat /\ n = Len(past)
  /\ seq = Append(past, declared)

\* What was before stays.
LEMMA HistoryGrows ==
  ASSUME NEW past, NEW declared, NEW n, NEW seq, Grown(past, declared, n, seq)
  PROVE  /\ n \in Nat /\ past \in Seq(FileSets) /\ seq \in Seq(FileSets) /\ Len(seq) = n + 1 /\ Len(past) = n
         /\ \A h, i : i \in 0..n => ImplementationAt(seq, h, i) = ImplementationAt(past, h, i)
         /\ \A h : ImplementationAt(seq, h, n + 1) = BodyOfFile(declared[h])
<1>1. n \in Nat /\ past \in Seq(FileSets) /\ seq \in Seq(FileSets) /\ Len(seq) = n + 1 /\ Len(past) = n
  BY DEF Grown
<1>2. seq[n + 1] = declared /\ n + 1 # 0
  BY <1>1 DEF Grown
<1>3. ASSUME NEW i \in 1..n PROVE seq[i] = past[i]
  BY <1>1, <1>3 DEF Grown
<1>4. ASSUME NEW h, NEW i \in 0..n PROVE ImplementationAt(seq, h, i) = ImplementationAt(past, h, i)
  <2>1. CASE i = 0
    BY <2>1 DEF ImplementationAt
  <2>2. CASE i # 0
    <3>1. i \in 1..n
      BY <1>1, <2>2
    <3> QED
      BY <1>3, <3>1 DEF ImplementationAt
  <2> QED
    BY <2>1, <2>2
<1>5. ASSUME NEW h PROVE ImplementationAt(seq, h, n + 1) = BodyOfFile(declared[h])
  BY <1>2 DEF ImplementationAt, BodyOfFile
<1> QED
  BY <1>1, <1>4, <1>5

\* Counts are numbers.
LEMMA CountsAreNumbers ==
  ASSUME NEW seq \in Seq(FileSets), NEW h, NEW first \in Nat \ {0}
  PROVE  IsFiniteSet(Brought(seq, h, first)) /\ CountFrom(seq, h, first) \in Nat
<1>1. PICK n \in Nat : n = Len(seq)
  OBVIOUS
<1>2. IsFiniteSet(first..n)
  BY <1>1, FS_Interval
<1>3. Brought(seq, h, first) \subseteq first..n
  BY <1>1 DEF Brought
<1> QED
  BY <1>2, <1>3, FS_Subset, FS_CardinalityType DEF CountFrom

\* One more is counted when the implementation is a new one.
LEMMA CountGrows ==
  ASSUME NEW past, NEW declared, NEW n, NEW seq, Grown(past, declared, n, seq), NEW h, NEW first \in 1..(n + 1)
  PROVE  /\ CountFrom(past, h, first) \in Nat
         /\ CountFrom(seq, h, first) =
              CountFrom(past, h, first)
              + (IF BodyOfFile(declared[h]) \in {NotFound, ImplementationAt(past, h, n)} THEN 0 ELSE 1)
         /\ first = n + 1 => CountFrom(past, h, first) = 0
<1>1. /\ n \in Nat /\ past \in Seq(FileSets) /\ Len(seq) = n + 1 /\ Len(past) = n
      /\ \A i : i \in 0..n => ImplementationAt(seq, h, i) = ImplementationAt(past, h, i)
      /\ ImplementationAt(seq, h, n + 1) = BodyOfFile(declared[h])
  BY HistoryGrows
<1>2. PICK B, body, last : /\ B = Brought(past, h, first) /\ body = BodyOfFile(declared[h])
                           /\ last = ImplementationAt(past, h, n)
  OBVIOUS
<1>3. first \in Nat \ {0} /\ IsFiniteSet(B) /\ Cardinality(B) \in Nat /\ Cardinality(B) = CountFrom(past, h, first)
  <2>1. first \in Nat \ {0}
    BY <1>1
  <2>2. IsFiniteSet(Brought(past, h, first)) /\ CountFrom(past, h, first) \in Nat
    BY <1>1, <2>1, CountsAreNumbers
  <2> QED
    BY <1>2, <2>1, <2>2 DEF CountFrom
<1>4. ASSUME NEW i
      PROVE  i \in Brought(seq, h, first) <=> i \in B \/ (i = n + 1 /\ body \notin {NotFound, last})
  <2>1. CASE i \in first..n
    <3>1. i \in 0..n /\ i - 1 \in 0..n /\ i \in first..(n + 1) /\ i # n + 1
      BY <1>1, <1>3, <2>1
    <3>2. /\ ImplementationAt(seq, h, i) = ImplementationAt(past, h, i)
          /\ ImplementationAt(seq, h, i - 1) = ImplementationAt(past, h, i - 1)
      BY <1>1, <3>1
    <3> QED
      BY <1>1, <1>2, <2>1, <3>1, <3>2 DEF Brought
  <2>2. CASE i = n + 1
    <3>1. i - 1 = n /\ n \in 0..n /\ i \in first..(n + 1) /\ i \notin first..n
      BY <1>1, <1>3, <2>2
    <3>2. ImplementationAt(seq, h, i) = body /\ ImplementationAt(seq, h, i - 1) = last
      BY <1>1, <1>2, <2>2, <3>1
    <3> QED
      BY <1>1, <1>2, <2>2, <3>1, <3>2 DEF Brought
  <2>3. CASE i \notin first..(n + 1)
    <3>1. i \notin first..n /\ i # n + 1
      BY <1>1, <1>3, <2>3
    <3> QED
      BY <1>1, <1>2, <2>3, <3>1 DEF Brought
  <2>4. i \in first..(n + 1) => i \in first..n \/ i = n + 1
    BY <1>1, <1>3
  <2> QED
    BY <2>1, <2>2, <2>3, <2>4
<1>5. n + 1 \notin B
  BY <1>1, <1>2, <1>3 DEF Brought
<1>6. ASSUME body \in {NotFound, last} PROVE CountFrom(seq, h, first) = Cardinality(B)
  <2>1. Brought(seq, h, first) = B
    BY <1>4, <1>6
  <2> QED
    BY <2>1 DEF CountFrom
<1>7. ASSUME body \notin {NotFound, last} PROVE CountFrom(seq, h, first) = Cardinality(B) + 1
  <2>1. Brought(seq, h, first) = B \cup {n + 1}
    BY <1>4, <1>7
  <2>2. Cardinality(B \cup {n + 1}) = Cardinality(B) + 1
    BY <1>3, <1>5, FS_AddElement
  <2> QED
    BY <2>1, <2>2 DEF CountFrom
<1>8. ASSUME first = n + 1 PROVE CountFrom(past, h, first) = 0
  <2>1. B = {}
    BY <1>1, <1>2, <1>8 DEF Brought
  <2> QED
    BY <1>3, <2>1, FS_EmptySet
<1>9. CountFrom(seq, h, first) = CountFrom(past, h, first) + (IF body \in {NotFound, last} THEN 0 ELSE 1)
  <2>1. PICK k \in Nat : k = Cardinality(B) /\ k = CountFrom(past, h, first)
    BY <1>3
  <2>2. k + 0 = k
    OBVIOUS
  <2> QED
    BY <1>6, <1>7, <2>1, <2>2
<1> QED
  BY <1>2, <1>3, <1>8, <1>9

\* When it was added last: before, and it is still there, or now.
LEMMA AddedGrows ==
  ASSUME NEW past, NEW declared, NEW n, NEW seq, Grown(past, declared, n, seq), NEW h, NEW i
  PROVE  AddedAt(seq, h, i) <=>
           /\ BodyOfFile(declared[h]) # NotFound
           /\ \/ i \in 1..n /\ AddedAt(past, h, i)
              \/ i = n + 1 /\ ImplementationAt(past, h, n) = NotFound
<1>1. /\ n \in Nat /\ Len(seq) = n + 1 /\ Len(past) = n
      /\ \A j : j \in 0..n => ImplementationAt(seq, h, j) = ImplementationAt(past, h, j)
      /\ ImplementationAt(seq, h, n + 1) = BodyOfFile(declared[h])
  BY HistoryGrows
<1>2. CASE i \in 1..n
  <2>1. i - 1 \in 0..n /\ i \in 1..(n + 1) /\ i # n + 1 /\ n + 1 \in i..(n + 1)
    BY <1>1, <1>2
  <2>2. \A j \in i..(n + 1) : j = n + 1 \/ (j \in i..n /\ j \in 0..n)
    BY <1>1, <1>2
  <2>3. \A j \in i..n : j \in i..(n + 1) /\ j \in 0..n
    BY <1>1, <1>2
  <2>4. (\A j \in i..(n + 1) : ImplementationAt(seq, h, j) # NotFound)
          <=> /\ BodyOfFile(declared[h]) # NotFound
              /\ \A j \in i..n : ImplementationAt(past, h, j) # NotFound
    BY <1>1, <2>1, <2>2, <2>3
  <2> QED
    BY <1>1, <1>2, <2>1, <2>4 DEF AddedAt
<1>3. CASE i = n + 1
  <2>1. i - 1 = n /\ n \in 0..n /\ i \in 1..(n + 1) /\ i \notin 1..n /\ i..(n + 1) = {n + 1}
    BY <1>1, <1>3
  <2>2. ImplementationAt(seq, h, i - 1) = ImplementationAt(past, h, n)
    BY <1>1, <2>1
  <2> QED
    BY <1>1, <1>3, <2>1, <2>2 DEF AddedAt
<1>4. CASE i \notin 1..(n + 1)
  <2>1. i \notin 1..n /\ i # n + 1
    BY <1>1, <1>4
  <2> QED
    BY <1>1, <1>4, <2>1 DEF AddedAt
<1>5. i \in 1..(n + 1) => i \in 1..n \/ i = n + 1
  BY <1>1
<1> QED
  BY <1>2, <1>3, <1>4, <1>5

\* A generation still counts when the implementation stays, when it was the last one of a
\* symbol that goes, when it grows with a new implementation, and when it starts anywhere
\* from 1 for a symbol that comes back.
LEMMA BoundedGrows ==
  ASSUME NEW past, NEW declared, NEW n, NEW seq, Grown(past, declared, n, seq), NEW h, NEW g,
         NEW body, body = BodyOfFile(declared[h]), NEW last, last = ImplementationAt(past, h, n)
  PROVE  /\ body = last /\ Bounded(past, h, g) => Bounded(seq, h, g)
         /\ body = NotFound /\ g \in 0..CountFrom(past, h, 1) => Bounded(seq, h, g)
         /\ body \notin {NotFound, last} /\ Bounded(past, h, g) => Bounded(seq, h, g + 1)
         /\ body # NotFound /\ last = NotFound /\ g \in 1..(CountFrom(past, h, 1) + 1) => Bounded(seq, h, g)
<1>1. n \in Nat /\ Len(seq) = n + 1 /\ Len(past) = n
  BY HistoryGrows
<1>2. ASSUME NEW first \in 1..(n + 1)
      PROVE  /\ CountFrom(past, h, first) \in Nat
             /\ CountFrom(seq, h, first) =
                  CountFrom(past, h, first) + (IF body \in {NotFound, last} THEN 0 ELSE 1)
             /\ first = n + 1 => CountFrom(past, h, first) = 0
  BY CountGrows
<1>3. ASSUME NEW i, AddedAt(seq, h, i)
      PROVE  /\ body # NotFound
             /\ (i \in 1..n /\ AddedAt(past, h, i)) \/ (i = n + 1 /\ last = NotFound)
  BY <1>3, AddedGrows
<1>4. 1 \in 1..(n + 1) /\ n + 1 \in 1..(n + 1) /\ 1..n \subseteq 1..(n + 1)
  BY <1>1
<1>5. PICK total \in Nat : total = CountFrom(past, h, 1)
  BY <1>2, <1>4
<1>6. ASSUME body = last, Bounded(past, h, g) PROVE Bounded(seq, h, g)
  <2>1. g \in Nat /\ g <= CountFrom(seq, h, 1)
    BY <1>2, <1>4, <1>6 DEF Bounded
  <2>2. ASSUME NEW i, AddedAt(seq, h, i) PROVE CountFrom(seq, h, i) <= g
    <3>1. i \in 1..n /\ AddedAt(past, h, i)
      BY <1>3, <1>6, <2>2
    <3>2. CountFrom(past, h, i) <= g
      BY <1>1, <1>6, <3>1 DEF Bounded
    <3>3. CountFrom(seq, h, i) = CountFrom(past, h, i) /\ CountFrom(past, h, i) \in Nat
      BY <1>2, <1>4, <1>6, <3>1
    <3> QED
      BY <3>2, <3>3
  <2> QED
    BY <2>1, <2>2 DEF Bounded
<1>7. ASSUME body = NotFound, g \in 0..CountFrom(past, h, 1) PROVE Bounded(seq, h, g)
  <2>1. g \in Nat /\ g <= CountFrom(seq, h, 1)
    BY <1>2, <1>4, <1>5, <1>7
  <2> QED
    BY <1>3, <1>7, <2>1 DEF Bounded
<1>8. ASSUME body \notin {NotFound, last}, Bounded(past, h, g) PROVE Bounded(seq, h, g + 1)
  <2>1. g \in Nat /\ g + 1 \in Nat /\ g + 1 <= CountFrom(seq, h, 1)
    BY <1>2, <1>4, <1>5, <1>8 DEF Bounded
  <2>2. ASSUME NEW i, AddedAt(seq, h, i) PROVE CountFrom(seq, h, i) <= g + 1
    <3>1. CASE i \in 1..n /\ AddedAt(past, h, i)
      <4>1. CountFrom(past, h, i) <= g
        BY <1>1, <1>8, <3>1 DEF Bounded
      <4>2. CountFrom(seq, h, i) = CountFrom(past, h, i) + 1 /\ CountFrom(past, h, i) \in Nat
        BY <1>2, <1>4, <1>8, <3>1
      <4> QED
        BY <2>1, <4>1, <4>2
    <3>2. CASE i = n + 1
      <4>1. CountFrom(seq, h, i) = 0 + 1
        BY <1>2, <1>4, <1>8, <3>2
      <4> QED
        BY <2>1, <4>1
    <3> QED
      BY <1>3, <2>2, <3>1, <3>2
  <2> QED
    BY <2>1, <2>2 DEF Bounded
<1>9. ASSUME body # NotFound, last = NotFound, g \in 1..(CountFrom(past, h, 1) + 1) PROVE Bounded(seq, h, g)
  <2>1. g \in Nat /\ 1 <= g /\ g <= CountFrom(seq, h, 1)
    BY <1>2, <1>4, <1>5, <1>9
  <2>2. ASSUME NEW i, AddedAt(seq, h, i) PROVE CountFrom(seq, h, i) <= g
    <3>1. ASSUME i \in 1..n PROVE ~AddedAt(past, h, i)
      <4>1. n \in i..n
        BY <1>1, <3>1
      <4> QED
        BY <1>1, <1>9, <4>1 DEF AddedAt
    <3>2. i = n + 1
      BY <1>3, <2>2, <3>1
    <3>3. CountFrom(seq, h, i) = 0 + 1
      BY <1>2, <1>4, <1>9, <3>2
    <3> QED
      BY <2>1, <3>3
  <2> QED
    BY <2>1, <2>2 DEF Bounded
<1> QED
  BY <1>6, <1>7, <1>8, <1>9

-----------------------------------------------------------------------------
(* Generations that count.                                                 *)

\* A snapshot's history ends with what it serves.
LEMMA LastIsServed ==
  ASSUME NEW r, NEW hist, NEW s, HistoryOf(r, hist, s), NEW h \in Paths
  PROVE  /\ hist[s] \in Seq(FileSets) /\ Len(hist[s]) \in Nat
         /\ ImplementationAt(hist[s], h, Len(hist[s])) = BodyOfFile(ServedBy(r, s)[h])
<1>1. PICK past \in Seq(FileSets), declared \in FileSets :
        hist[s] = Append(past, declared) /\ declared[h] = ServedBy(r, s)[h]
  BY DEF HistoryOf
<1>2. PICK n \in Nat : n = Len(past)
  OBVIOUS
<1>3. PICK seq : seq = hist[s]
  OBVIOUS
<1>4. Grown(past, declared, n, seq)
  BY <1>1, <1>2, <1>3 DEF Grown
<1>5. seq \in Seq(FileSets) /\ Len(seq) = n + 1 /\ ImplementationAt(seq, h, n + 1) = BodyOfFile(declared[h])
  BY <1>4, HistoryGrows
<1> QED
  BY <1>1, <1>2, <1>3, <1>5

\* A snapshot's history is its base's and one more; one that has no base and a generation
\* to fill in has no other.
LEMMA HistoryIsGrown ==
  ASSUME NEW r, NEW hist, NEW s, HistoryOf(r, hist, s)
  PROVE  \E past, declared, n :
           /\ Grown(past, declared, n, hist[s]) /\ \A h \in Paths : declared[h] = ServedBy(r, s)[h]
           /\ r[s].base # NoSnapshot => past = hist[r[s].base]
           /\ r[s].base = NoSnapshot => past = <<>> \/ Counted(r, s)
<1>1. PICK past \in Seq(FileSets), declared \in FileSets :
        /\ hist[s] = Append(past, declared) /\ \A h \in Paths : declared[h] = ServedBy(r, s)[h]
        /\ r[s].base # NoSnapshot => past = hist[r[s].base]
        /\ r[s].base = NoSnapshot => past = <<>> \/ Counted(r, s)
  BY DEF HistoryOf
<1>2. PICK n \in Nat : n = Len(past)
  OBVIOUS
<1>3. Grown(past, declared, n, hist[s])
  BY <1>1, <1>2 DEF Grown
<1> QED
  BY <1>1, <1>3

\* A generation that is known counts: the snapshot's own, and the one it has from its base.
LEMMA KnownCounts ==
  ASSUME NEW r, NEW L, NEW hist, Based(r, L), HistoryOK(r, L, hist), NEW h \in Paths
  PROVE  \A s \in L : GenerationIn(r, s, h).found /\ GenerationIn(r, s, h).generation # Null =>
           Bounded(hist[s], h, GenerationIn(r, s, h).generation)
<1> DEFINE Fine(s) == GenerationIn(r, s, h).found /\ GenerationIn(r, s, h).generation # Null =>
                        Bounded(hist[s], h, GenerationIn(r, s, h).generation)
           G == {s \in L : Fine(s)}
<1>1. ASSUME NEW s \in L, r[s].base # NoSnapshot => r[s].base \in G
      PROVE  s \in G
  <2>1. GenerationIn(r, s, h) = IF r[s].delta[h] # Same THEN Own(r, s, h) ELSE GenerationIn(r, r[s].base, h)
    BY GenerationUnfold
  <2>2. HistoryOf(r, hist, s) /\ CountsIn(r, hist, s, h)
    BY DEF HistoryOK
  <2>3. CASE r[s].delta[h] # Same
    BY <2>1, <2>2, <2>3 DEF CountsIn, Own
  <2>4. CASE r[s].delta[h] = Same
    <3>1. PICK b : b = r[s].base
      OBVIOUS
    <3>2. GenerationIn(r, s, h) = GenerationIn(r, b, h)
      BY <2>1, <2>4, <3>1
    <3>3. CASE b = NoSnapshot
      <4>1. ~GenerationIn(r, b, h).found
        BY <3>3 DEF GenerationIn, Unnamed
      <4> QED
        BY <3>2, <4>1
    <3>4. CASE b # NoSnapshot
      <4>1. b \in L /\ Fine(b)
        BY <1>1, <3>1, <3>4
      <4>2. PICK past, declared, n : /\ Grown(past, declared, n, hist[s])
                                     /\ declared[h] = ServedBy(r, s)[h] /\ past = hist[b]
        BY <2>2, <3>1, <3>4, HistoryIsGrown
      <4>3. ServedBy(r, s)[h] = ServedBy(r, b)[h]
        <5>1. s # NoSnapshot
          BY DEF Based, Snapshots, NoSnapshot
        <5>2. Effective(r, s)[h] = ServedBy(r, b)[h]
          BY <2>4, <3>1, FilesUnfold
        <5> QED
          BY <5>1, <5>2 DEF ServedBy
      <4>4. ImplementationAt(past, h, n) = BodyOfFile(declared[h])
        <5>1. HistoryOf(r, hist, b)
          BY <4>1 DEF HistoryOK
        <5>2. ImplementationAt(hist[b], h, Len(hist[b])) = BodyOfFile(ServedBy(r, b)[h])
          BY <5>1, LastIsServed
        <5>3. n = Len(past)
          BY <4>2 DEF Grown
        <5> QED
          BY <4>2, <4>3, <5>2, <5>3
      <4>5. PICK g : g = GenerationIn(r, b, h).generation
        OBVIOUS
      <4>6. ASSUME Bounded(past, h, g) PROVE Bounded(hist[s], h, g)
        BY <4>2, <4>4, <4>6, BoundedGrows
      <4> QED
        BY <3>2, <4>1, <4>2, <4>5, <4>6
    <3> QED
      BY <3>3, <3>4
  <2> QED
    BY <2>3, <2>4
<1>2. G \in SUBSET L
  OBVIOUS
<1> HIDE DEF G, Fine
<1>3. L \subseteq G
  BY <1>1, <1>2, BaseInduction
<1>4. \A s \in L : Fine(s)
  BY <1>3 DEF G
<1> QED
  BY <1>4 DEF Fine

\* What a delta's generation is counted on: past is the base's history and last the
\* implementation it ends with; k is what is known of the handle, the base chain's newest
\* delta while it names the handle, and an older one or none when it does not.
KnownOf(past, h, last, k) ==
  /\ k.generation \in 0..CountFrom(past, h, 1) /\ (k.found => k.generation # Null)
  /\ \/ k.found /\ k.body = last /\ Bounded(past, h, k.generation)
     \/ last = NotFound

\* The generation that follows counts.
LEMMA NextCounts ==
  ASSUME NEW past, NEW declared, NEW n, NEW seq, Grown(past, declared, n, seq), NEW h, NEW k,
         KnownOf(past, h, ImplementationAt(past, h, n), k), NEW op \in Contents \cup {Deleted},
         declared[h] = Decode(op)
  PROVE  Bounded(seq, h, NextContentGeneration(k, op))
<1>1. PICK g, body, last : g = k.generation /\ body = BodyOfFile(declared[h]) /\ last = ImplementationAt(past, h, n)
  OBVIOUS
<1>2. PICK total \in Nat : total = CountFrom(past, h, 1)
  <2>1. past \in Seq(FileSets) /\ 1 \in Nat \ {0}
    BY DEF Grown
  <2> QED
    BY <2>1, CountsAreNumbers
<1>3. g \in 0..total /\ (k.found => g # 0) /\ KnownOf(past, h, last, k)
  BY <1>1, <1>2 DEF KnownOf, Null
<1>4. /\ body = last /\ Bounded(past, h, g) => Bounded(seq, h, g)
      /\ body = NotFound /\ g \in 0..CountFrom(past, h, 1) => Bounded(seq, h, g)
      /\ body \notin {NotFound, last} /\ Bounded(past, h, g) => Bounded(seq, h, g + 1)
  BY <1>1, BoundedGrows
<1>5. CASE op = Deleted
  <2>1. body = NotFound /\ NextContentGeneration(k, op) = g
    BY <1>1, <1>5 DEF BodyOfFile, Decode, NextContentGeneration
  <2> QED
    BY <1>2, <1>3, <1>4, <2>1
<1>6. CASE op # Deleted
  <2>1. op \in Contents /\ body = BodyOf[op] /\ body # NotFound
    <3>1. op \in Contents /\ declared[h] = op /\ op # Absent
      BY <1>6, ChainAssumption DEF Decode
    <3> QED
      BY <1>1, <3>1, GenerationConstants DEF BodyOfFile
  <2>2. CASE k.found /\ k.body = last /\ Bounded(past, h, k.generation)
    <3>1. CASE body = last
      <4>1. NextContentGeneration(k, op) = g
        BY <1>1, <1>6, <2>1, <2>2, <3>1 DEF NextContentGeneration
      <4> QED
        BY <1>1, <1>4, <2>2, <3>1, <4>1
    <3>2. CASE body # last
      <4>1. NextContentGeneration(k, op) = g + 1
        BY <1>1, <1>6, <2>1, <2>2, <3>2 DEF NextContentGeneration
      <4> QED
        BY <1>1, <1>4, <2>1, <2>2, <3>2, <4>1
    <3> QED
      BY <3>1, <3>2
  <2>3. CASE last = NotFound
    <3>1. PICK next : next = NextContentGeneration(k, op)
      OBVIOUS
    <3>2. next = 1 \/ (k.found /\ next = g) \/ (k.found /\ next = g + 1)
      BY <1>1, <1>6, <3>1 DEF NextContentGeneration
    <3>3. next \in 1..(total + 1)
      BY <1>2, <1>3, <3>2
    <3> QED
      BY <1>1, <1>2, <2>1, <2>3, <3>1, <3>3, BoundedGrows
  <2> QED
    BY <1>3, <2>2, <2>3 DEF KnownOf
<1> QED
  BY <1>5, <1>6

-----------------------------------------------------------------------------
(* Steps of the tables.                                                    *)

\* A snapshot that stays keeps its history and what was counted, when what was filled in
\* counts as well.
LEMMA HistoryStays ==
  ASSUME NEW r, NEW L, NEW n, NEW q, NEW M, NEW m, Moves(r, L, n, q, M, m),
         NEW hist, HistoryOK(r, L, hist), NEW kept, \A s \in M \cap L : kept[s] = hist[s],
         \A s \in M \cap L, h \in Paths :
           StaysOn(r, q, M, s) /\ r[s].delta[h] # Same /\ r[s].gen[h] = Null /\ q[s].gen[h] # Null =>
             Bounded(hist[s], h, q[s].gen[h]),
         NEW s \in M \cap L
  PROVE  HistoryOf(q, kept, s) /\ \A h \in Paths : CountsIn(q, kept, s, h)
<1>1. Based(r, L) /\ RowsOK(r, L) /\ Based(q, M) /\ RowsOK(q, M) /\ s # NoSnapshot
  BY DEF Moves, TableOK, Based, Snapshots, NoSnapshot
<1>2. \A h \in Paths : ServedBy(q, s)[h] = ServedBy(r, s)[h]
  BY MovesKeep DEF SameOrForgotten
<1>3. PICK seq : seq = hist[s] /\ seq = kept[s]
  OBVIOUS
<1>4. StaysOn(r, q, M, s) \/ (StandsAlone(r, q, s) /\ Counted(q, s))
  BY DEF Moves
<1>5. HistoryOf(q, kept, s)
  <2>1. PICK past \in Seq(FileSets), declared \in FileSets :
          /\ seq = Append(past, declared) /\ \A h \in Paths : declared[h] = ServedBy(r, s)[h]
          /\ r[s].base # NoSnapshot => past = hist[r[s].base]
          /\ r[s].base = NoSnapshot => past = <<>> \/ Counted(r, s)
    BY <1>3 DEF HistoryOK, HistoryOf
  <2>2. \A h \in Paths : declared[h] = ServedBy(q, s)[h]
    BY <1>2, <2>1
  <2>3. CASE StaysOn(r, q, M, s)
    <3>1. q[s].base = r[s].base
      BY <2>3 DEF StaysOn
    <3>2. ASSUME r[s].base # NoSnapshot PROVE past = kept[q[s].base]
      <4>1. r[s].base \in M \cap L
        BY <1>1, <2>3, <3>2 DEF StaysOn, Based
      <4> QED
        BY <2>1, <3>1, <3>2, <4>1
    <3>3. Counted(r, s) => Counted(q, s)
      BY CountedStays
    <3> QED
      BY <1>3, <2>1, <2>2, <3>1, <3>2, <3>3 DEF HistoryOf
  <2>4. CASE StandsAlone(r, q, s) /\ Counted(q, s)
    <3>1. q[s].base = NoSnapshot
      BY <2>4 DEF StandsAlone
    <3> QED
      BY <1>3, <2>1, <2>2, <2>4, <3>1 DEF HistoryOf
  <2> QED
    BY <1>4, <2>3, <2>4
<1>6. ASSUME NEW h \in Paths PROVE CountsIn(q, kept, s, h)
  <2>1. CountsIn(r, hist, s, h)
    BY DEF HistoryOK
  <2>2. ServedBy(q, s)[h] # Absent => \E i \in 1..Len(seq) : AddedAt(seq, h, i)
    BY <1>2, <1>3, <2>1 DEF CountsIn
  <2>3. ASSUME q[s].delta[h] # Same, q[s].gen[h] # Null PROVE Bounded(seq, h, q[s].gen[h])
    <3>1. CASE StaysOn(r, q, M, s)
      <4>1. r[s].delta[h] # Same
        BY <2>3, <3>1 DEF StaysOn
      <4>2. CASE r[s].gen[h] = Null
        BY <1>3, <2>3, <3>1, <4>1, <4>2
      <4>3. CASE r[s].gen[h] # Null
        <5>1. q[s].gen[h] = r[s].gen[h]
          BY <3>1, <4>1, <4>3 DEF StaysOn
        <5> QED
          BY <1>3, <2>1, <4>1, <4>3, <5>1 DEF CountsIn
      <4> QED
        BY <4>2, <4>3
    <3>2. CASE StandsAlone(r, q, s) /\ Counted(q, s)
      <4>1. Effective(r, s)[h] # Absent
        BY <2>3, <3>2 DEF StandsAlone, Difference, EmptyFiles
      <4>2. q[s].gen[h] = GenerationIn(r, s, h).generation
        BY <3>2, <4>1 DEF StandsAlone
      <4>3. GenerationIn(r, s, h).found
        BY <1>1, <4>1, DeclaredIsFound DEF ServedBy
      <4> QED
        BY <1>1, <1>3, <2>3, <4>2, <4>3, KnownCounts
    <3> QED
      BY <1>4, <3>1, <3>2
  <2> QED
    BY <1>3, <2>2, <2>3 DEF CountsIn
<1> QED
  BY <1>5, <1>6

\* What a process remembers counts whatever the others do to the tables.
LEMMA RemembersStays ==
  ASSUME NEW r, NEW L, NEW n, NEW q, NEW M, NEW m, Moves(r, L, n, q, M, m),
         NEW hist, NEW kept, \A s \in M \cap L : kept[s] = hist[s],
         NEW state, ProcOK(r, L, n, state), Remembers(L, hist, state)
  PROVE  Remembers(M, kept, state)
<1>1. DOMAIN state.bases \subseteq 1..n /\ n \in Nat
  BY ChainAssumption DEF ProcOK, Listed, Moves, TableOK
<1>2. \A t \in DOMAIN state.bases : t \in M => t \in L /\ kept[t] = hist[t]
  <2>1. ASSUME NEW t \in DOMAIN state.bases, t \in M PROVE t \in L
    <3>1. t \in 1..n
      BY <1>1
    <3>2. ~(n < t)
      BY <1>1, <3>1
    <3> QED
      BY <2>1, <3>2 DEF Moves
  <2> QED
    BY <2>1
<1>3. ASSUME NEW C, Ceiling(L, hist, state, C) PROVE Ceiling(M, kept, state, C)
  BY <1>2, <1>3 DEF Ceiling
<1>4. state.phase \in Cutting => \E C \in [DOMAIN state.bases -> [Paths -> Nat]] : Ceiling(M, kept, state, C)
  BY <1>3 DEF Remembers
<1> QED
  BY <1>4 DEF Remembers

\* A snapshot is published: what it serves was added, and its generations count.
LEMMA PublicationCounts ==
  ASSUME CountInv, NEW base \in live \cup {NoSnapshot}, NEW declared \in FileSets, NEW gen, Add(base, declared, gen),
         Moves(row, live, created, row', live', created'),
         NEW delta, delta = Difference(ServedBy(row, base), declared),
         NEW past, past = IF base = NoSnapshot THEN <<>> ELSE history[base],
         \A h \in Paths : delta[h] # Same /\ gen[h] # Null => Bounded(Append(past, declared), h, gen[h])
  PROVE  HistoryOK(row', live', history') /\ \A s \in live' \cap live : history'[s] = history[s]
<1>1. /\ created \in Nat /\ MaxSnapshots \in Nat /\ live \subseteq 1..created
      /\ row \in [Snapshots -> Rows] /\ GenInv /\ HistoryOK(row, live, history)
  BY ChainAssumption DEF CountInv, GenInv, TableOK
<1>2. PICK c, q, M, hist, z, seq : /\ c = created + 1 /\ q = row' /\ M = live \cup {c} /\ hist = history'
                                   /\ z = [base |-> base, delta |-> delta, gen |-> gen]
                                   /\ seq = Append(past, declared)
  OBVIOUS
<1>3. /\ created' = c /\ live' = M /\ q = [row EXCEPT ![c] = z] /\ created < MaxSnapshots
      /\ hist = [history EXCEPT ![c] = seq]
  BY <1>2, Zenon DEF Add
<1>4. c \in Snapshots /\ c \notin live /\ c # NoSnapshot /\ live \subseteq Snapshots
  BY <1>1, <1>2, <1>3 DEF Snapshots, NoSnapshot
<1>5. Moves(row, live, created, q, M, c) /\ Based(q, M) /\ RowsOK(q, M)
  <2>1. Moves(row, live, created, q, M, c)
    BY <1>2, <1>3
  <2> QED
    BY <2>1 DEF Moves, TableOK
<1>6. history \in [Snapshots -> Seq(FileSets)]
  BY <1>1 DEF HistoryOK
<1>7. past \in Seq(FileSets)
  <2>1. <<>> \in Seq(FileSets)
    OBVIOUS
  <2>2. base # NoSnapshot => base \in Snapshots
    BY <1>4
  <2> QED
    BY <1>6, <2>1, <2>2
<1>8. PICK n \in Nat : n = Len(past)
  BY <1>7
<1>9. Grown(past, declared, n, seq) /\ seq \in Seq(FileSets)
  BY <1>2, <1>7, <1>8 DEF Grown
<1>10. /\ hist \in [Snapshots -> Seq(FileSets)] /\ hist[c] = seq
       /\ \A s \in Snapshots : s # c => hist[s] = history[s] /\ q[s] = row[s]
  BY <1>1, <1>3, <1>4, <1>6, <1>9
<1>11. \A s \in M \cap live : hist[s] = history[s] /\ q[s] = row[s] /\ s \in live
  BY <1>4, <1>10
<1>12. q[c].base = base /\ q[c].delta = delta /\ q[c].gen = gen
  BY <1>1, <1>2, <1>3, <1>4
<1>13. ASSUME NEW h \in Paths
       PROVE  /\ declared[h] = ServedBy(q, c)[h]
              /\ ImplementationAt(past, h, n) = BodyOfFile(ServedBy(row, base)[h])
  <2>1. ServedBy(q, c)[h] = IF delta[h] # Same THEN Decode(delta[h]) ELSE ServedBy(q, base)[h]
    <3>1. c \in M
      BY <1>2
    <3>2. Effective(q, c)[h] = IF q[c].delta[h] # Same THEN Decode(q[c].delta[h]) ELSE ServedBy(q, q[c].base)[h]
      BY <1>5, <3>1, FilesUnfold
    <3> QED
      BY <1>4, <1>12, <3>2 DEF ServedBy
  <2>2. ServedBy(q, base)[h] = ServedBy(row, base)[h]
    <3>1. base \in (M \cap live) \cup {NoSnapshot}
      BY <1>2
    <3> QED
      BY <1>5, <3>1, MovesKeep DEF SameOrForgotten
  <2>3. PICK old, new : old = ServedBy(row, base)[h] /\ new = declared[h]
    OBVIOUS
  <2>4. delta[h] = (IF new = old THEN Same ELSE IF new = Absent THEN Deleted ELSE new)
    BY <2>3 DEF Difference
  <2>5. new \in Contents \cup {Absent}
    BY <2>3 DEF FileSets
  <2>6. declared[h] = ServedBy(q, c)[h]
    BY <2>1, <2>2, <2>3, <2>4, <2>5, ChainAssumption DEF Decode
  <2>7. CASE base = NoSnapshot
    <3>1. past = <<>>
      BY <2>7
    <3>2. n = 0 /\ old = Absent
      BY <1>8, <2>3, <2>7, <3>1 DEF ServedBy, EmptyFiles
    <3> QED
      BY <2>3, <2>6, <3>2 DEF ImplementationAt, BodyOfFile
  <2>8. CASE base # NoSnapshot
    <3>1. HistoryOf(row, history, base) /\ past = history[base]
      BY <1>1, <2>8 DEF HistoryOK
    <3> QED
      BY <1>8, <2>6, <3>1, LastIsServed
  <2> QED
    BY <2>7, <2>6, <2>8
<1>14. HistoryOf(q, hist, c)
  <2>1. base # NoSnapshot => past = hist[base]
    BY <1>4, <1>10
  <2>2. hist[c] = Append(past, declared) /\ \A h \in Paths : declared[h] = ServedBy(q, c)[h]
    BY <1>2, <1>10, <1>13
  <2>3. q[c].base = base /\ (base = NoSnapshot => past = <<>>)
    BY <1>12
  <2> QED
    BY ONLY <1>7, <2>1, <2>2, <2>3, declared \in FileSets DEF HistoryOf
<1>15. ASSUME NEW h \in Paths PROVE CountsIn(q, hist, c, h)
  <2>1. ASSUME ServedBy(q, c)[h] # Absent PROVE \E i \in 1..Len(seq) : AddedAt(seq, h, i)
    <3>1. BodyOfFile(declared[h]) # NotFound
      <4>1. declared[h] \in Contents
        BY <1>13, <2>1 DEF FileSets
      <4> QED
        BY <2>1, <1>13, <4>1, GenerationConstants DEF BodyOfFile
    <3>2. Len(seq) = n + 1
      BY <1>9, HistoryGrows
    <3>3. CASE ImplementationAt(past, h, n) = NotFound
      <4>1. AddedAt(seq, h, n + 1)
        BY <1>9, <3>1, <3>3, AddedGrows
      <4>2. n + 1 \in 1..(n + 1)
        BY <1>8
      <4> QED
        BY <3>2, <4>1, <4>2
    <3>4. CASE ImplementationAt(past, h, n) # NotFound
      <4>1. ServedBy(row, base)[h] # Absent
        BY <1>13, <3>4 DEF BodyOfFile
      <4>2. base \in live /\ past = history[base]
        BY <4>1 DEF ServedBy, EmptyFiles
      <4>3. PICK i \in 1..n : AddedAt(past, h, i)
        BY <1>1, <1>8, <4>1, <4>2 DEF HistoryOK, CountsIn
      <4>4. AddedAt(seq, h, i) /\ i \in 1..(n + 1)
        <5>1. i \in 1..(n + 1)
          BY <1>8
        <5> QED
          BY <1>9, <3>1, <4>3, <5>1, AddedGrows
      <4> QED
        BY <3>2, <4>4
    <3> QED
      BY <3>3, <3>4
  <2> QED
    BY <1>2, <1>10, <1>12, <2>1 DEF CountsIn
<1>16. ASSUME NEW s \in M \cap live PROVE HistoryOf(q, hist, s) /\ \A h \in Paths : CountsIn(q, hist, s, h)
  <2>1. \A t \in M \cap live, h \in Paths :
           StaysOn(row, q, M, t) /\ row[t].delta[h] # Same /\ row[t].gen[h] = Null /\ q[t].gen[h] # Null =>
             Bounded(history[t], h, q[t].gen[h])
    BY <1>11
  <2>2. \A t \in M \cap live : hist[t] = history[t]
    BY <1>11
  <2> QED
    BY <1>1, <1>5, <2>1, <2>2, HistoryStays
<1>17. HistoryOK(q, M, hist)
  <2>1. \A s \in M : s = c \/ s \in M \cap live
    BY <1>2
  <2> QED
    BY <1>10, <1>14, <1>15, <1>16, <2>1 DEF HistoryOK
<1> QED
  BY <1>2, <1>3, <1>11, <1>17

\* What SymbolGenerations reads of a base is known of it, unless a generation is missing.
LEMMA ReadCounts ==
  ASSUME NEW r, NEW L, NEW hist, Based(r, L), RowsOK(r, L), HistoryOK(r, L, hist), NEW b \in L \cup {NoSnapshot},
         NEW past, past = IF b = NoSnapshot THEN <<>> ELSE hist[b], NEW n, n = Len(past),
         NEW h \in Paths, NEW k,
         \/ k = GenerationIn(r, b, h)
         \/ /\ k.generation \in 0..CountFrom(past, h, 1)
            /\ GenerationIn(r, b, h).found => /\ k.found /\ k.generation = GenerationIn(r, b, h).generation
                                              /\ k.body = GenerationIn(r, b, h).body,
         k.found => k.generation # Null
  PROVE  KnownOf(past, h, ImplementationAt(past, h, n), k)
<1>1. PICK g : g = GenerationIn(r, b, h)
  OBVIOUS
<1>2. g.body = BodyOfFile(ServedBy(r, b)[h]) /\ (g.found \/ g = Unnamed)
  BY <1>1, GenerationsAreTyped
<1>3. past \in Seq(FileSets)
  <2>1. <<>> \in Seq(FileSets) /\ L \subseteq Snapshots
    BY DEF Based
  <2> QED
    BY <2>1 DEF HistoryOK
<1>4. ImplementationAt(past, h, n) = g.body
  <2>1. CASE b = NoSnapshot
    <3>1. n = 0
      BY <2>1
    <3>2. g.body = NotFound
      BY <1>2, <2>1 DEF BodyOfFile, ServedBy, EmptyFiles
    <3> QED
      BY <3>1, <3>2 DEF ImplementationAt
  <2>2. CASE b # NoSnapshot
    <3>1. HistoryOf(r, hist, b) /\ past = hist[b]
      BY <2>2 DEF HistoryOK
    <3> QED
      BY <1>2, <3>1, LastIsServed
  <2> QED
    BY <2>1, <2>2
<1>5. PICK total \in Nat : total = CountFrom(past, h, 1)
  <2>1. 1 \in Nat \ {0}
    OBVIOUS
  <2> QED
    BY <1>3, <2>1, CountsAreNumbers
<1>6. CASE ~g.found
  <2>1. ImplementationAt(past, h, n) = NotFound
    BY <1>2, <1>4, <1>6 DEF Unnamed
  <2>2. k.generation \in 0..CountFrom(past, h, 1)
    <3>1. 0 \in 0..total
      OBVIOUS
    <3> QED
      BY <1>1, <1>2, <1>5, <1>6, <3>1 DEF Unnamed
  <2> QED
    BY <2>1, <2>2 DEF KnownOf
<1>7. CASE g.found
  <2>1. k.found /\ k.generation = g.generation /\ k.body = g.body /\ k.generation # Null
    BY <1>1, <1>7
  <2>2. b \in L /\ past = hist[b]
    BY <1>1, <1>7 DEF GenerationIn, Unnamed
  <2>3. Bounded(past, h, g.generation)
    BY <1>1, <1>7, <2>1, <2>2, KnownCounts
  <2>4. k.generation \in 0..CountFrom(past, h, 1)
    <3>1. PICK e : e = g.generation
      OBVIOUS
    <3>2. e \in Nat /\ e <= total
      BY <1>5, <2>3, <3>1 DEF Bounded
    <3>3. e \in 0..total
      BY <3>2
    <3> QED
      BY <1>5, <2>1, <3>1, <3>3
  <2> QED
    BY <1>4, <2>1, <2>3, <2>4 DEF KnownOf
<1> QED
  BY <1>6, <1>7

\* A publication's own generations count (Publish), or there are none (OldPublish).
LEMMA PublishCounts ==
  ASSUME CountInv, NEW base \in live \cup {NoSnapshot}, NEW declared \in FileSets,
         OldPublish(base, declared) \/ \E p \in Processes : Publish(p, base, declared)
  PROVE  HistoryOK(row', live', history') /\ \A s \in live' \cap live : history'[s] = history[s]
<1>1. /\ GenInv /\ HistoryOK(row, live, history) /\ Based(row, live) /\ RowsOK(row, live)
      /\ Moves(row, live, created, row', live', created')
  BY OldPublishMoves, PublishMoves DEF CountInv, GenInv, TableOK
<1>2. PICK prior, delta : prior = Generations(base) /\ delta = Difference(ServedBy(row, base), declared)
  OBVIOUS
<1>3. PICK past : past = IF base = NoSnapshot THEN <<>> ELSE history[base]
  OBVIOUS
<1>4. CASE OldPublish(base, declared)
  <2>1. PICK gen : gen = [h \in Paths |-> Null]
    OBVIOUS
  <2>2. Add(base, declared, gen)
    BY <1>4, <2>1 DEF OldPublish
  <2>3. \A h \in Paths : delta[h] # Same /\ gen[h] # Null => Bounded(Append(past, declared), h, gen[h])
    BY <2>1
  <2> QED
    BY <1>1, <1>2, <1>3, <2>2, <2>3, PublicationCounts
<1>5. ASSUME NEW p \in Processes, Publish(p, base, declared)
      PROVE  HistoryOK(row', live', history') /\ \A s \in live' \cap live : history'[s] = history[s]
  <2>1. PICK gen : gen = Counts(prior, delta)
    OBVIOUS
  <2>2. /\ \A h \in Paths : delta[h] # Same /\ prior[h].found => prior[h].generation # Null
        /\ Add(base, declared, gen)
    BY <1>2, <1>5, <2>1, Zenon DEF Publish
  <2>3. past \in Seq(FileSets)
    <3>1. <<>> \in Seq(FileSets) /\ live \subseteq Snapshots
      BY <1>1 DEF Based
    <3> QED
      BY <1>1, <1>3, <3>1 DEF HistoryOK
  <2>4. PICK n \in Nat : n = Len(past)
    BY <2>3
  <2>5. Grown(past, declared, n, Append(past, declared))
    BY <2>3, <2>4 DEF Grown
  <2>6. ASSUME NEW h \in Paths, delta[h] # Same PROVE Bounded(Append(past, declared), h, gen[h])
    <3>1. PICK k, op : k = prior[h] /\ op = delta[h]
      OBVIOUS
    <3>2. k = GenerationIn(row, base, h) /\ (k.found => k.generation # Null)
      BY <1>2, <2>2, <2>6, <3>1, GenerationsAreIn
    <3>3. KnownOf(past, h, ImplementationAt(past, h, n), k)
      BY <1>1, <1>3, <2>4, <3>2, ReadCounts
    <3>4. op \in Contents \cup {Deleted} /\ declared[h] = Decode(op)
      <4>1. PICK old, new : old = ServedBy(row, base)[h] /\ new = declared[h]
        OBVIOUS
      <4>2. op = (IF new = old THEN Same ELSE IF new = Absent THEN Deleted ELSE new) /\ op # Same
        BY <1>2, <2>6, <3>1, <4>1 DEF Difference
      <4>3. new \in Contents \cup {Absent}
        BY <4>1 DEF FileSets
      <4> QED
        BY <4>1, <4>2, <4>3, ChainAssumption DEF Decode
    <3>5. gen[h] = NextContentGeneration(k, op)
      BY <2>1, <2>6, <3>1 DEF Counts
    <3> QED
      BY <2>5, <3>3, <3>4, <3>5, NextCounts
  <2> QED
    BY <1>1, <1>2, <1>3, <2>2, <2>6, PublicationCounts
<1> QED
  BY <1>4, <1>5

\* A prune leaves what it keeps as it was counted.
LEMMA PruneCounts ==
  ASSUME CountInv, NEW p \in Processes, NEW doomed \in SUBSET live, Prune(p, doomed)
  PROVE  HistoryOK(row', live', history') /\ \A s \in live' \cap live : history'[s] = history[s]
<1>1. /\ HistoryOK(row, live, history) /\ Moves(row, live, created, row', live', created')
      /\ live \subseteq Snapshots /\ GenInv
  BY PruneMoves DEF CountInv, GenInv, TableOK, Based
<1>2. PICK q, M, m, hist : q = row' /\ M = live' /\ m = created' /\ hist = history'
  OBVIOUS
<1>3. Moves(row, live, created, q, M, m) /\ M = live \ doomed
      /\ hist = [s \in Snapshots |-> IF s \in doomed THEN <<>> ELSE history[s]]
  BY <1>1, <1>2, Zenon DEF Prune
<1>4. hist \in [Snapshots -> Seq(FileSets)] /\ \A s \in M \cap live : hist[s] = history[s]
  <2>1. <<>> \in Seq(FileSets) /\ history \in [Snapshots -> Seq(FileSets)]
    BY <1>1 DEF HistoryOK
  <2> QED
    BY <1>1, <1>3, <2>1
<1>5. PICK rebased : rebased = {s \in live \ doomed : row[s].base \in doomed}
  OBVIOUS
<1>6. q = [s \in Snapshots |-> CASE s \in doomed -> EmptyRow
                                 [] s \in rebased -> RebasedRow(s)
                                 [] OTHER -> row[s]]
  BY <1>2, <1>5, Zenon DEF Prune
<1>7. ASSUME NEW s \in M \cap live, NEW h \in Paths,
             StaysOn(row, q, M, s), row[s].delta[h] # Same, row[s].gen[h] = Null, q[s].gen[h] # Null
      PROVE  FALSE
  <2>1. s \in Snapshots /\ s \notin doomed
    BY <1>1, <1>3
  <2>2. CASE s \in rebased
    <3>1. row[s].base \in doomed /\ row[s].base # NoSnapshot
      BY <1>1, <1>5, <2>2 DEF Snapshots, NoSnapshot
    <3>2. row[s].base \in M
      BY <1>7, <3>1 DEF StaysOn
    <3> QED
      BY <1>3, <3>1, <3>2
  <2>3. CASE s \notin rebased
    <3>1. q[s] = row[s]
      BY <1>6, <2>1, <2>3
    <3> QED
      BY <1>7, <3>1
  <2> QED
    BY <2>2, <2>3
<1>8. \A s \in M \cap live, h \in Paths :
         StaysOn(row, q, M, s) /\ row[s].delta[h] # Same /\ row[s].gen[h] = Null /\ q[s].gen[h] # Null =>
           Bounded(history[s], h, q[s].gen[h])
  BY <1>7
<1>9. ASSUME NEW s \in M \cap live PROVE HistoryOf(q, hist, s) /\ \A h \in Paths : CountsIn(q, hist, s, h)
  <2>1. \A t \in M \cap live : hist[t] = history[t]
    BY <1>4
  <2>2. Moves(row, live, created, q, M, m) /\ HistoryOK(row, live, history)
    BY <1>1, <1>3
  <2> QED
    BY ONLY <1>8, <2>1, <2>2, s \in M \cap live, HistoryStays
<1>10. HistoryOK(q, M, hist)
  <2>1. \A s \in M : s \in M \cap live
    BY <1>3
  <2> QED
    BY <1>4, <1>9, <2>1 DEF HistoryOK
<1> QED
  BY <1>2, <1>4, <1>10

\* What is filled in counts, and so does the map that may be kept of it.
LEMMA FillCounts ==
  ASSUME CountInv, NEW p \in Processes, NEW x, x = proc[p], x.phase = "filling",
         NEW s, s = AtHand(x), NEW b, b = x.bases[s], NEW gen, gen = Filled(s, x.prior),
         NEW q, q = WithFilled(s, gen), NEW C, Ceiling(live, history, x, C),
         C \in [DOMAIN x.bases -> [Paths -> Nat]], NEW next, next = Applied(x.prior, row[s].delta, gen)
  PROVE  HistoryOK(q, live, history) /\ \A h \in Paths : next[h].generation <= C[s][h]
<1>1. /\ GenInv /\ HistoryOK(row, live, history) /\ Based(row, live) /\ RowsOK(row, live)
      /\ ProcOK(row, live, created, x) /\ TableOK(row, live, created)
  BY WhatIsThere DEF CountInv, GenInv, TableOK
<1>2. PICK m : m = x.prior
  OBVIOUS
<1>3. /\ s \in 1..created /\ s \in Snapshots /\ s \in DOMAIN x.bases /\ b \in 0..(s - 1)
      /\ Knows(row, live, m, b)
      /\ s \in live => row[s].base = b \/ Counted(row, s)
  BY <1>1, <1>2, FillsLowest
<1>4. Moves(row, live, created, q, live, created) /\ q[s].delta = row[s].delta /\ q[s].gen = gen
  BY <1>1, <1>2, <1>3, FillMoves
<1>5. /\ \A h \in Paths : row[s].gen[h] = Null /\ row[s].delta[h] # Same =>
              gen[h] = NextContentGeneration(m[h], row[s].delta[h])
      /\ s \in live => \A h \in Paths : row[s].delta[h] # Same => gen[h] # Null
  BY <1>1, <1>2, <1>3, FilledIsCounted
<1>6. \A t \in Snapshots : t # s => q[t] = row[t]
  BY <1>1 DEF WithFilled, TableOK
<1>7. ASSUME NEW h \in Paths
      PROVE  /\ b = NoSnapshot => m[h].generation = 0 /\ ~m[h].found
             /\ b # NoSnapshot => b \in DOMAIN x.bases /\ m[h].generation <= C[b][h] /\ C[b][h] <= C[s][h]
             /\ b # NoSnapshot /\ b \in live => C[b][h] = CountFrom(history[b], h, 1)
             /\ s \in live => C[s][h] = CountFrom(history[s], h, 1)
  <2>1. b = NoSnapshot => m[h].generation = 0 /\ ~m[h].found
    BY <1>3 DEF Knows, NoSnapshot, Null
  <2> QED
    BY <1>2, <1>3, <2>1 DEF Ceiling
<1>8. ASSUME NEW h \in Paths, s \in live, row[s].delta[h] # Same, row[s].gen[h] = Null
      PROVE  Bounded(history[s], h, gen[h])
  <2>1. row[s].base = b /\ b \in live \cup {NoSnapshot} /\ ~Counted(row, s)
    BY <1>1, <1>3, <1>8 DEF Counted, Based
  <2>2. PICK past, declared, n : /\ Grown(past, declared, n, history[s]) /\ declared[h] = ServedBy(row, s)[h]
                                 /\ b # NoSnapshot => past = history[b]
                                 /\ b = NoSnapshot => past = <<>>
    <3>1. HistoryOf(row, history, s)
      BY <1>1, <1>8 DEF HistoryOK
    <3> QED
      BY <2>1, <3>1, HistoryIsGrown
  <2>3. past = (IF b = NoSnapshot THEN <<>> ELSE history[b]) /\ n = Len(past) /\ past \in Seq(FileSets)
    BY <2>2 DEF Grown
  <2>4. PICK k, op : k = m[h] /\ op = row[s].delta[h]
    OBVIOUS
  <2>5. PICK total \in Nat : total = CountFrom(past, h, 1)
    <3>1. 1 \in Nat \ {0}
      OBVIOUS
    <3> QED
      BY <2>3, <3>1, CountsAreNumbers
  <2>6. k.generation \in 0..total
    <3>1. PICK g : g = k.generation
      OBVIOUS
    <3>2. g \in 0..b
      BY <1>3, <2>4, <3>1 DEF Knows
    <3>3. g <= total
      <4>1. CASE b = NoSnapshot
        BY <1>7, <2>4, <3>1, <4>1
      <4>2. CASE b # NoSnapshot
        BY <1>7, <2>1, <2>3, <2>4, <2>5, <3>1, <4>2
      <4> QED
        BY <4>1, <4>2
    <3> QED
      BY <3>1, <3>2, <3>3
  <2>7. /\ k.found => k.generation # Null
        /\ GenerationIn(row, b, h).found => /\ k.found /\ k.generation = GenerationIn(row, b, h).generation
                                            /\ k.body = GenerationIn(row, b, h).body
    <3>1. b = NoSnapshot => ~GenerationIn(row, b, h).found
      BY DEF GenerationIn, Unnamed
    <3> QED
      BY <1>3, <2>1, <2>4, <3>1 DEF Knows
  <2>8. KnownOf(past, h, ImplementationAt(past, h, n), k)
    BY <1>1, <2>1, <2>3, <2>5, <2>6, <2>7, ReadCounts
  <2>9. op \in Contents \cup {Deleted} /\ declared[h] = Decode(op)
    <3>1. op \in Contents \cup {Deleted}
      BY <1>1, <1>8, <2>4 DEF RowsOK, Deltas
    <3>2. s # NoSnapshot /\ Effective(row, s)[h] = Decode(op)
      BY <1>1, <1>3, <1>8, <2>4, FilesUnfold DEF NoSnapshot
    <3> QED
      BY <2>2, <3>1, <3>2 DEF ServedBy
  <2>10. gen[h] = NextContentGeneration(k, op)
    BY <1>5, <1>8, <2>4
  <2> QED
    BY <2>2, <2>8, <2>9, <2>10, NextCounts
<1>9. HistoryOK(q, live, history)
  <2>1. ASSUME NEW t \in live \cap live, NEW h \in Paths,
               StaysOn(row, q, live, t), row[t].delta[h] # Same, row[t].gen[h] = Null, q[t].gen[h] # Null
        PROVE  Bounded(history[t], h, q[t].gen[h])
    <3>1. t \in Snapshots
      BY <1>1 DEF Based
    <3>2. t = s
      BY <1>6, <2>1, <3>1
    <3> QED
      BY <1>4, <1>8, <2>1, <3>2
  <2>2. \A t \in live \cap live : HistoryOf(q, history, t) /\ \A h \in Paths : CountsIn(q, history, t, h)
    BY <1>1, <1>4, <2>1, HistoryStays
  <2> QED
    BY <1>1, <2>2 DEF HistoryOK
<1>10. ASSUME NEW h \in Paths PROVE next[h].generation <= C[s][h]
  <2>1. C[s][h] \in Nat
    BY <1>3
  <2>2. CASE row[s].delta[h] = Same
    <3>1. next[h] = m[h]
      BY <1>2, <2>2 DEF Applied
    <3>2. CASE b = NoSnapshot
      BY <1>7, <2>1, <3>1, <3>2
    <3>3. CASE b # NoSnapshot
      <4>1. PICK g : g = m[h].generation /\ g \in 0..b
        BY <1>3 DEF Knows
      <4>2. b \in DOMAIN x.bases /\ g <= C[b][h] /\ C[b][h] <= C[s][h]
        BY <1>7, <3>3, <4>1
      <4>3. C[b][h] \in Nat
        BY <4>2
      <4> QED
        BY <1>3, <2>1, <3>1, <4>1, <4>2, <4>3
    <3> QED
      BY <3>2, <3>3
  <2>3. CASE row[s].delta[h] # Same
    <3>1. s \in live
      BY <1>1, <1>3, <2>3 DEF TableOK, EmptyRow
    <3>2. next[h].generation = gen[h]
      BY <2>3 DEF Applied
    <3>3. Bounded(history[s], h, gen[h])
      BY <1>4, <1>5, <1>9, <2>3, <3>1 DEF HistoryOK, CountsIn
    <3> QED
      BY <1>7, <3>1, <3>2, <3>3 DEF Bounded
  <2> QED
    BY <2>2, <2>3
<1> QED
  BY <1>9, <1>10

-----------------------------------------------------------------------------
(* What a process remembers while it opens the database.                   *)

\* Before and after, it remembers nothing.
LEMMA BeginsWithNothing ==
  ASSUME CountInv, NEW p \in Processes,
         ReadMarker(p) \/ FindLowest(p) \/ SaveMarker(p) \/ Complete(p) \/ Stop(p)
  PROVE  \E y : Move(p, y) /\ Remembers(live, history, y)
<1>1. \A y : y.phase \notin Cutting /\ DOMAIN y.memo = {} => Remembers(live, history, y)
  BY DEF Remembers
<1>2. Closed.phase = "closed" /\ DOMAIN Closed.memo = {} /\ "closed" \notin Cutting
  BY ClosedIsOK DEF Closed, Cutting
<1>3. PICK x : x = proc[p] /\ ProcOK(row, live, created, x) /\ Remembers(live, history, x)
  BY WhatIsThere DEF CountInv
<1>4. x = [phase |-> x.phase, through |-> x.through, complete |-> x.complete,
           bases |-> x.bases, prior |-> x.prior, memo |-> x.memo]
  BY <1>3 DEF ProcOK
<1>5. PICK opened : opened = [Closed EXCEPT !.phase = "open"]
  OBVIOUS
<1>6. Remembers(live, history, opened) /\ Remembers(live, history, Closed)
  <2>1. opened.phase = "open" /\ opened.memo = Closed.memo /\ "open" \notin Cutting
    BY <1>5 DEF Closed, Cutting
  <2> QED
    BY <1>1, <1>2, <2>1
<1>7. CASE ReadMarker(p)
  <2>1. PICK y : y = [Closed EXCEPT !.phase = "asked", !.through = marker.through, !.complete = marker.complete]
    OBVIOUS
  <2>2. Move(p, y)
    BY <1>7, <2>1 DEF ReadMarker
  <2>3. y.phase = "asked" /\ y.memo = Closed.memo /\ "asked" \notin Cutting
    BY <2>1 DEF Closed, Cutting
  <2> QED
    BY <1>1, <1>2, <2>2, <2>3
<1>8. CASE FindLowest(p)
  <2>1. PICK nulls : nulls = {s \in live : HasNull(s)}
    OBVIOUS
  <2>2. PICK lowest : lowest = CHOOSE s \in nulls : \A t \in nulls : s <= t
    OBVIOUS
  <2>3. PICK through : through = IF nulls = {} THEN x.through ELSE lowest - 1
    OBVIOUS
  <2>4. PICK y : y = [x EXCEPT !.phase = "read", !.complete = nulls = {}, !.through = through]
    OBVIOUS
  <2>5. x.phase = "asked" /\ Move(p, IF NothingToDo(nulls, x.complete) THEN opened ELSE y)
    BY <1>3, <1>5, <1>8, <2>1, <2>2, <2>3, <2>4, Zenon DEF FindLowest
  <2>6. y.phase = "read" /\ y.memo = x.memo
    <3>1. PICK complete : complete = (nulls = {})
      OBVIOUS
    <3>2. y = [x EXCEPT !.phase = "read", !.complete = complete, !.through = through]
      BY <2>4, <3>1
    <3> QED
      BY <1>4, <3>2
  <2>7. Remembers(live, history, y)
    BY <1>1, <1>3, <2>5, <2>6 DEF Remembers, Cutting
  <2> QED
    BY <1>6, <2>5, <2>7
<1>9. CASE SaveMarker(p)
  <2>1. PICK y : y = [x EXCEPT !.phase = "started"]
    OBVIOUS
  <2>2. x.phase = "read" /\ Move(p, IF x.complete THEN opened ELSE y)
    BY <1>3, <1>5, <1>9, <2>1, Zenon DEF SaveMarker
  <2>3. y.phase = "started" /\ y.memo = x.memo
    BY <1>4, <2>1
  <2>4. Remembers(live, history, y)
    BY <1>1, <1>3, <2>2, <2>3 DEF Remembers, Cutting
  <2> QED
    BY <1>6, <2>2, <2>4
<1>10. CASE Complete(p)
  BY <1>5, <1>6, <1>10 DEF Complete
<1>11. CASE Stop(p)
  BY <1>6, <1>11 DEF Stop
<1> QED
  BY <1>7, <1>8, <1>9, <1>10, <1>11

\* The snapshots are listed: each has its count, and a base no more than what builds on it.
LEMMA ListRemembers ==
  ASSUME CountInv, NEW p \in Processes, ListSnapshots(p)
  PROVE  \E y : Move(p, y) /\ Remembers(live, history, y)
<1>1. PICK x : x = proc[p] /\ ProcOK(row, live, created, x) /\ Remembers(live, history, x)
  BY WhatIsThere DEF CountInv
<1>2. PICK bases : bases = [s \in live |-> row[s].base]
  OBVIOUS
<1>3. PICK y : y = [x EXCEPT !.phase = "cutting", !.bases = bases]
  OBVIOUS
<1>4. Move(p, y) /\ x.phase = "started"
  BY <1>1, <1>2, <1>3 DEF ListSnapshots
<1>5. y.phase = "cutting" /\ y.bases = bases /\ y.memo = x.memo
  <2>1. x = [phase |-> x.phase, through |-> x.through, complete |-> x.complete, bases |-> x.bases,
             prior |-> x.prior, memo |-> x.memo]
    BY <1>1 DEF ProcOK
  <2> QED
    BY <1>3, <2>1
<1>6. DOMAIN y.memo = {} /\ "cutting" \in Cutting /\ "cutting" # "filling"
  BY <1>1, <1>4, <1>5 DEF Remembers, Cutting
<1>7. PICK C : C = [t \in live |-> [h \in Paths |-> CountFrom(history[t], h, 1)]]
  OBVIOUS
<1>8. HistoryOK(row, live, history) /\ live \subseteq Snapshots /\ Based(row, live)
  BY DEF CountInv, GenInv, TableOK, Based
<1>9. \A t \in live, h \in Paths : CountFrom(history[t], h, 1) \in Nat
  <2>1. \A t \in live : history[t] \in Seq(FileSets)
    BY <1>8 DEF HistoryOK
  <2>2. 1 \in Nat \ {0}
    OBVIOUS
  <2> QED
    BY <2>1, <2>2, CountsAreNumbers
<1>10. C \in [DOMAIN y.bases -> [Paths -> Nat]] /\ DOMAIN y.bases = live
  BY <1>2, <1>5, <1>7, <1>9
<1>11. ASSUME NEW t \in live, NEW h \in Paths, row[t].base # NoSnapshot
       PROVE  row[t].base \in live /\ CountFrom(history[row[t].base], h, 1) <= CountFrom(history[t], h, 1)
  <2>1. PICK past, declared, n : Grown(past, declared, n, history[t]) /\ past = history[row[t].base]
    <3>1. HistoryOf(row, history, t)
      BY <1>8 DEF HistoryOK
    <3> QED
      BY <1>11, <3>1, HistoryIsGrown
  <2>2. 1 \in 1..(n + 1)
    BY <2>1 DEF Grown
  <2>3. CountFrom(history[t], h, 1) =
          CountFrom(past, h, 1) + (IF BodyOfFile(declared[h]) \in {NotFound, ImplementationAt(past, h, n)} THEN 0 ELSE 1)
    BY <2>1, <2>2, CountGrows
  <2>4. PICK k \in Nat : k = CountFrom(past, h, 1)
    BY <2>1, <2>2, CountGrows
  <2>5. row[t].base \in live
    BY <1>8, <1>11 DEF Based
  <2> QED
    BY <2>1, <2>3, <2>4, <2>5
<1>12. Ceiling(live, history, y, C)
  <2>1. ASSUME NEW t \in DOMAIN y.bases
        PROVE  /\ \A h \in Paths : C[t][h] = CountFrom(history[t], h, 1)
               /\ y.bases[t] # NoSnapshot =>
                    y.bases[t] \in DOMAIN y.bases /\ \A h \in Paths : C[y.bases[t]][h] <= C[t][h]
    <3>1. t \in live /\ y.bases[t] = row[t].base /\ \A u \in live, h \in Paths : C[u][h] = CountFrom(history[u], h, 1)
      BY <1>2, <1>5, <1>7, <1>10
    <3>2. row[t].base # NoSnapshot => row[t].base \in live
      BY <1>8, <3>1 DEF Based
    <3> QED
      BY <1>10, <1>11, <3>1, <3>2
  <2> QED
    BY <1>5, <1>6, <2>1 DEF Ceiling
<1>13. Remembers(live, history, y)
  BY <1>5, <1>6, <1>10, <1>12 DEF Remembers
<1> QED
  BY <1>4, <1>13

\* A base's generations are read: no more than its count.
LEMMA ReadRemembers ==
  ASSUME CountInv, NEW p \in Processes, ReadBase(p)
  PROVE  \E y : Move(p, y) /\ Remembers(live, history, y)
<1>1. PICK x : x = proc[p] /\ ProcOK(row, live, created, x) /\ Remembers(live, history, x)
  BY WhatIsThere DEF CountInv
<1>2. PICK base : base = x.bases[AtHand(x)]
  OBVIOUS
<1>3. PICK prior : prior = IF base \in DOMAIN x.memo THEN x.memo[base] ELSE Generations(base)
  OBVIOUS
<1>4. PICK y : y = [x EXCEPT !.phase = "filling", !.prior = prior]
  OBVIOUS
<1> DEFINE fails == /\ base \notin DOMAIN x.memo /\ base # NoSnapshot
                    /\ \/ base \notin live
                       \/ \E h \in Paths : prior[h].found /\ prior[h].generation = Null
<1>5. x.phase = "cutting" /\ Remaining(x) # {} /\ Move(p, IF fails THEN Closed ELSE y)
  BY <1>1, <1>2, <1>3, <1>4, Zenon DEF ReadBase
<1>6. CASE fails
  <2>1. Closed.phase = "closed" /\ DOMAIN Closed.memo = {} /\ "closed" \notin Cutting
    BY ClosedIsOK DEF Closed, Cutting
  <2>2. Remembers(live, history, Closed)
    BY <2>1 DEF Remembers
  <2> QED
    BY <1>5, <1>6, <2>2
<1>7. CASE ~fails
  <2>1. /\ GenInv /\ HistoryOK(row, live, history) /\ Based(row, live) /\ RowsOK(row, live)
    BY DEF CountInv, GenInv, TableOK
  <2>2. y.phase = "filling" /\ y.bases = x.bases /\ y.prior = prior /\ y.memo = x.memo
    <3>1. x = [phase |-> x.phase, through |-> x.through, complete |-> x.complete, bases |-> x.bases,
               prior |-> x.prior, memo |-> x.memo]
      BY <1>1 DEF ProcOK
    <3>2. y = [phase |-> "filling", through |-> x.through, complete |-> x.complete, bases |-> x.bases,
               prior |-> prior, memo |-> x.memo]
      BY <1>4, <3>1
    <3> QED
      BY <3>2
  <2>3. AtHand(y) = AtHand(x)
    <3>1. Remaining(y) = Remaining(x)
      <4>1. y.through = x.through
        <5>1. x = [phase |-> x.phase, through |-> x.through, complete |-> x.complete, bases |-> x.bases,
                   prior |-> x.prior, memo |-> x.memo]
          BY <1>1 DEF ProcOK
        <5> QED
          BY <1>4, <5>1
      <4> QED
        BY <2>2, <4>1 DEF Remaining
    <3> QED
      BY <3>1 DEF AtHand
  <2>4. PICK C \in [DOMAIN x.bases -> [Paths -> Nat]] : Ceiling(live, history, x, C)
    BY <1>1, <1>5 DEF Remembers, Cutting
  <2>5. AtHand(x) \in DOMAIN x.bases
    BY <1>1, <1>5, AtHandIsLowest DEF ProcOK, Listed, Remaining
  <2>6. base # NoSnapshot => base \in DOMAIN x.bases
    BY <1>2, <2>4, <2>5 DEF Ceiling
  <2>7. ASSUME NEW h \in Paths, base # NoSnapshot PROVE prior[h].generation <= C[base][h]
    <3>1. CASE base \in DOMAIN x.memo
      BY <1>3, <2>4, <2>7, <3>1 DEF Ceiling
    <3>2. CASE base \notin DOMAIN x.memo
      <4>1. base \in live /\ prior[h] = GenerationIn(row, base, h) /\ (prior[h].found => prior[h].generation # Null)
        BY <1>3, <1>7, <2>7, <3>2, GenerationsAreIn
      <4>2. C[base][h] = CountFrom(history[base], h, 1) /\ C[base][h] \in Nat
        BY <2>4, <2>6, <2>7, <4>1 DEF Ceiling
      <4>3. CASE prior[h].found
        <5>1. Bounded(history[base], h, prior[h].generation)
          BY <2>1, <4>1, <4>3, KnownCounts
        <5> QED
          BY <4>2, <5>1 DEF Bounded
      <4>4. CASE ~prior[h].found
        <5>1. prior[h].generation = 0
          BY <2>1, <4>1, <4>4, GenerationsAreTyped DEF Unnamed
        <5> QED
          BY <4>2, <5>1
      <4> QED
        BY <4>3, <4>4
    <3> QED
      BY <3>1, <3>2
  <2>8. Ceiling(live, history, y, C)
    BY <1>2, <2>2, <2>3, <2>4, <2>7 DEF Ceiling
  <2>9. Remembers(live, history, y)
    <3>1. "filling" \in Cutting
      BY DEF Cutting
    <3> QED
      BY <2>2, <2>4, <2>8, <3>1 DEF Remembers
  <2> QED
    BY <1>5, <1>7, <2>9
<1> QED
  BY <1>6, <1>7

\* A map that is kept was kept before, or is the base's, or the snapshot's own.
LEMMA MemoIsKept ==
  ASSUME NEW x, NEW s, NEW b, b = x.bases[s], NEW next, NEW memo, memo = MemoAfter(x, s, next),
         NEW u \in DOMAIN memo
  PROVE  \/ u \in DOMAIN x.memo /\ memo[u] = x.memo[u]
         \/ u = b /\ b # NoSnapshot /\ memo[u] = x.prior
         \/ u = s /\ memo[u] = next
<1> DEFINE wanted == b # NoSnapshot /\ Dependants(x, b, s) # {}
           old == {k \in DOMAIN x.memo : k # b \/ wanted}
           added == {k \in {b} : wanted /\ k \notin old /\ Cardinality(old) < MemoSize}
           own == {k \in {s} : Dependants(x, s, s) # {} /\ Cardinality(old \cup added) < MemoSize}
<1>1. memo = [k \in old \cup added \cup own |-> CASE k \in old -> x.memo[k]
                                                  [] k \in added -> x.prior
                                                  [] OTHER -> next]
  BY ZenonT(40) DEF MemoAfter
<1>2. old \subseteq DOMAIN x.memo /\ own \subseteq {s} /\ \A k \in added : k = b /\ b # NoSnapshot
  OBVIOUS
<1> HIDE DEF wanted, old, added, own
<1>3. u \in old \cup added \cup own
  BY <1>1
<1>4. CASE u \in old
  BY <1>1, <1>2, <1>4
<1>5. CASE u \notin old /\ u \in added
  BY <1>1, <1>2, <1>3, <1>5
<1>6. CASE u \notin old /\ u \notin added
  BY <1>1, <1>2, <1>3, <1>6
<1> QED
  BY <1>4, <1>5, <1>6

\* The maps kept after a snapshot count no more than the snapshots had.
LEMMA FillRemembers ==
  ASSUME NEW L, NEW hist, NEW x, x.phase = "filling", NEW C, Ceiling(L, hist, x, C),
         C \in [DOMAIN x.bases -> [Paths -> Nat]],
         NEW s, s = AtHand(x), s \in DOMAIN x.bases, NEW b, b = x.bases[s],
         NEW next, \A h \in Paths : next[h].generation <= C[s][h],
         NEW memo, memo = MemoAfter(x, s, next),
         NEW y, y.phase = "cutting", y.bases = x.bases, y.memo = memo
  PROVE  Remembers(L, hist, y)
<1>1. ASSUME NEW k \in DOMAIN memo \ {NoSnapshot}
      PROVE  k \in DOMAIN x.bases /\ \A h \in Paths : memo[k][h].generation <= C[k][h]
  <2>1. CASE k \in DOMAIN x.memo /\ memo[k] = x.memo[k]
    BY <2>1 DEF Ceiling
  <2>2. CASE k = b /\ b # NoSnapshot /\ memo[k] = x.prior
    BY <2>2 DEF Ceiling
  <2>3. CASE k = s /\ memo[k] = next
    BY <2>3
  <2> QED
    BY <2>1, <2>2, <2>3, MemoIsKept
<1>2. Ceiling(L, hist, y, C)
  <2>1. y.phase # "filling"
    OBVIOUS
  <2> QED
    BY <1>1, <2>1 DEF Ceiling
<1>3. y.phase \in Cutting /\ C \in [DOMAIN y.bases -> [Paths -> Nat]]
  BY DEF Cutting
<1> QED
  BY <1>2, <1>3 DEF Remembers

-----------------------------------------------------------------------------
(* Every generation is a count.                                            *)

\* A process moves and the tables do not.
LEMMA ProcessCounts ==
  ASSUME CountInv, GenInv', NEW p \in Processes, LeaveTables, \E y : Move(p, y) /\ Remembers(live, history, y)
  PROVE  CountInv'
<1>1. PICK y : proc' = [proc EXCEPT ![p] = y] /\ Remembers(live, history, y)
  BY DEF Move
<1>2. row' = row /\ live' = live /\ history' = history
  BY DEF LeaveTables
<1>3. \A u \in Processes : proc'[u] = IF u = p THEN y ELSE proc[u]
  <2>1. proc = [u \in Processes |-> proc[u]]
    BY DEF CountInv, GenInv
  <2> QED
    BY <1>1, <2>1
<1>4. \A u \in Processes : Remembers(live, history, proc'[u])
  BY <1>1, <1>3 DEF CountInv
<1> QED
  BY <1>2, <1>4 DEF CountInv

\* The tables move and no process does.
LEMMA TablesCount ==
  ASSUME CountInv, GenInv', Moves(row, live, created, row', live', created'), HistoryOK(row', live', history'),
         \A s \in live' \cap live : history'[s] = history[s], proc' = proc
  PROVE  CountInv'
<1>1. ASSUME NEW u \in Processes PROVE Remembers(live', history', proc[u])
  <2>1. PICK x : x = proc[u] /\ ProcOK(row, live, created, x) /\ Remembers(live, history, x)
    BY WhatIsThere DEF CountInv
  <2>2. PICK q, M, m, kept : q = row' /\ M = live' /\ m = created' /\ kept = history'
    OBVIOUS
  <2>3. Moves(row, live, created, q, M, m) /\ \A s \in M \cap live : kept[s] = history[s]
    BY <2>2
  <2>4. Remembers(M, kept, x)
    BY <2>1, <2>3, RemembersStays
  <2> QED
    BY <2>1, <2>2, <2>4
<1> QED
  BY <1>1 DEF CountInv

\* A snapshot is filled in, and its map may be kept.
LEMMA FillKeepsCounts ==
  ASSUME CountInv, GenInv', NEW p \in Processes, Fill(p)
  PROVE  CountInv'
<1>1. PICK x : x = proc[p] /\ ProcOK(row, live, created, x) /\ Remembers(live, history, x)
  BY WhatIsThere DEF CountInv
<1>2. PICK s, b, m : s = AtHand(x) /\ b = x.bases[s] /\ m = x.prior
  OBVIOUS
<1>3. PICK gen : gen = Filled(s, m)
  OBVIOUS
<1>4. PICK q, next : q = WithFilled(s, gen) /\ next = Applied(m, row[s].delta, gen)
  OBVIOUS
<1>5. PICK memo : memo = MemoAfter(x, s, next)
  OBVIOUS
<1>6. PICK y : y = [x EXCEPT !.phase = "cutting", !.through = s, !.prior = NoGenerations, !.memo = memo]
  OBVIOUS
<1>7. /\ x.phase = "filling" /\ row' = q /\ Move(p, y)
      /\ created' = created /\ live' = live /\ history' = history
  BY <1>1, <1>2, <1>3, <1>4, <1>5, <1>6, Zenon DEF Fill, WithFilled
<1>8. PICK C \in [DOMAIN x.bases -> [Paths -> Nat]] : Ceiling(live, history, x, C)
  BY <1>1, <1>7 DEF Remembers, Cutting
<1>9. HistoryOK(q, live, history) /\ \A h \in Paths : next[h].generation <= C[s][h]
  BY <1>1, <1>2, <1>3, <1>4, <1>7, <1>8, FillCounts
<1>10. y.phase = "cutting" /\ y.bases = x.bases /\ y.memo = memo
  <2>1. x = [phase |-> x.phase, through |-> x.through, complete |-> x.complete, bases |-> x.bases,
             prior |-> x.prior, memo |-> x.memo]
    BY <1>1 DEF ProcOK
  <2> QED
    BY <1>6, <2>1
<1>11. s \in DOMAIN x.bases
  <2>1. GenInv
    BY DEF CountInv
  <2> QED
    BY <1>1, <1>2, <1>7, <2>1, FillsLowest
<1>12. Remembers(live, history, y)
  BY <1>2, <1>5, <1>7, <1>8, <1>9, <1>10, <1>11, FillRemembers
<1>13. ASSUME NEW u \in Processes PROVE Remembers(live, history, proc'[u])
  <2>1. proc = [v \in Processes |-> proc[v]] /\ proc' = [proc EXCEPT ![p] = y]
    BY <1>7 DEF CountInv, GenInv, Move
  <2>2. proc'[u] = IF u = p THEN y ELSE proc[u]
    BY <2>1
  <2> QED
    BY <1>12, <2>2 DEF CountInv
<1> QED
  BY <1>7, <1>9, <1>13 DEF CountInv

\* What the database is created with.
LEMMA CountInitInv == Init => CountInv
<1> SUFFICES ASSUME Init PROVE CountInv
  OBVIOUS
<1>1. GenInv
  BY GenInitInv
<1>2. HistoryOK(row, live, history)
  <2>1. <<>> \in Seq(FileSets)
    OBVIOUS
  <2> QED
    BY <2>1 DEF Init, HistoryOK
<1>3. ASSUME NEW u \in Processes PROVE Remembers(live, history, proc[u])
  <2>1. proc[u] = Closed
    BY DEF Init
  <2>2. Closed.phase = "closed" /\ DOMAIN Closed.memo = {} /\ "closed" \notin Cutting
    BY ClosedIsOK DEF Closed, Cutting
  <2> QED
    BY <2>1, <2>2 DEF Remembers
<1> QED
  BY <1>1, <1>2, <1>3 DEF CountInv

\* Every step keeps what was counted.
LEMMA CountStepInv ==
  ASSUME CountInv, [Next]_vars
  PROVE  CountInv'
<1>1. GenInv /\ GenInv' /\ Moves(row, live, created, row', live', created')
  <2>1. GenInv
    BY DEF CountInv
  <2> QED
    BY <2>1, GenStepInv
<1>2. CASE UNCHANGED vars
  BY <1>2 DEF vars, CountInv, GenInv, HistoryOK, HistoryOf, CountsIn
<1>3. ASSUME NEW base \in live \cup {NoSnapshot}, NEW declared \in FileSets,
             OldPublish(base, declared) \/ \E p \in Processes : Publish(p, base, declared)
      PROVE  CountInv'
  <2>1. HistoryOK(row', live', history') /\ \A s \in live' \cap live : history'[s] = history[s]
    BY <1>3, PublishCounts
  <2>2. proc' = proc
    BY <1>3 DEF OldPublish, Publish, Add
  <2> QED
    BY <1>1, <2>1, <2>2, TablesCount
<1>4. ASSUME NEW p \in Processes, NEW doomed \in SUBSET live, Prune(p, doomed)
      PROVE  CountInv'
  <2>1. HistoryOK(row', live', history') /\ \A s \in live' \cap live : history'[s] = history[s]
    BY <1>4, PruneCounts
  <2>2. proc' = proc
    BY <1>4 DEF Prune
  <2> QED
    BY <1>1, <2>1, <2>2, TablesCount
<1>5. ASSUME NEW p \in Processes,
             \/ ReadMarker(p) \/ FindLowest(p) \/ SaveMarker(p) \/ ListSnapshots(p)
             \/ ReadBase(p) \/ Complete(p) \/ Stop(p)
      PROVE  CountInv'
  <2>1. LeaveTables
    BY <1>5 DEF ReadMarker, FindLowest, SaveMarker, ListSnapshots, ReadBase, Complete, Stop
  <2>2. \E y : Move(p, y) /\ Remembers(live, history, y)
    BY <1>5, BeginsWithNothing, ListRemembers, ReadRemembers
  <2> QED
    BY <1>1, <2>1, <2>2, ProcessCounts
<1>6. ASSUME NEW p \in Processes, Fill(p) PROVE CountInv'
  BY <1>1, <1>6, FillKeepsCounts
<1> QED
  BY <1>2, <1>3, <1>4, <1>5, <1>6, Zenon DEF Next

\* symbol.generation is what it says it is, in every database: the one that follows from
\* the base chain its row is read with, and a count of the implementations the symbol has
\* had along the chain as it was published, no more than all of them and no fewer than
\* since it was last added; whoever counted, and whatever was pruned since.
THEOREM GenerationsStayCounts == Spec => []GenerationsAreCounts
<1>1. CountInv => GenerationsCountImplementations
  <2> SUFFICES ASSUME CountInv, NEW s \in live, NEW h \in Paths,
                      Effective(row, s)[h] # Absent, GenerationOf(s, h) # Null
               PROVE  GenerationOf(s, h) \in
                        Implementations(s, h, LastAdded(s, h))..Implementations(s, h, 1)
    BY DEF GenerationsCountImplementations
  <2>1. HistoryOK(row, live, history) /\ Based(row, live) /\ RowsOK(row, live) /\ s # NoSnapshot
    BY DEF CountInv, GenInv, TableOK, Based, Snapshots, NoSnapshot
  <2>2. PICK seq, g : seq = history[s] /\ g = GenerationOf(s, h)
    OBVIOUS
  <2>3. \A i : Implementation(s, h, i) = ImplementationAt(seq, h, i)
    BY <2>2 DEF Implementation, ImplementationAt
  <2>4. \A first : Implementations(s, h, first) = CountFrom(seq, h, first)
    BY <2>2, <2>3 DEF Implementations, CountFrom, Brought
  <2>5. g = GenerationIn(row, s, h).generation /\ GenerationIn(row, s, h).found
    BY <2>1, <2>2, GenerationsAreIn, DeclaredIsFound DEF GenerationOf, ServedBy
  <2>6. Bounded(seq, h, g)
    BY <2>1, <2>2, <2>5, KnownCounts
  <2>7. \E i \in 1..Len(seq) : AddedAt(seq, h, i)
    BY <2>1, <2>2 DEF HistoryOK, CountsIn, ServedBy
  <2>8. PICK last : last = LastAdded(s, h)
    OBVIOUS
  <2>9. last \in 1..Len(seq) /\ AddedAt(seq, h, last)
    <3>1. LastAdded(s, h) = CHOOSE i \in 1..Len(seq) : AddedAt(seq, h, i)
      BY <2>2, <2>3 DEF LastAdded, AddedAt
    <3> QED
      BY <2>7, <2>8, <3>1
  <2>10. g \in Nat /\ CountFrom(seq, h, last) <= g /\ g <= CountFrom(seq, h, 1)
    BY <2>6, <2>9 DEF Bounded
  <2>11. CountFrom(seq, h, last) \in Nat /\ CountFrom(seq, h, 1) \in Nat
    <3>1. seq \in Seq(FileSets) /\ 1 \in Nat \ {0} /\ last \in Nat \ {0}
      BY <2>1, <2>2, <2>9 DEF HistoryOK, Based
    <3> QED
      BY <3>1, CountsAreNumbers
  <2>12. g \in CountFrom(seq, h, last)..CountFrom(seq, h, 1)
    BY <2>10, <2>11
  <2> QED
    BY <2>2, <2>4, <2>8, <2>12
<1>2. Spec => []CountInv
  <2>1. CountInv /\ [Next]_vars => CountInv'
    BY CountStepInv
  <2> QED
    BY CountInitInv, <2>1, PTL DEF Spec
<1>3. Spec => []GenerationsFollowTheirBase
  BY GenerationsKeepFollowing
<1>4. GenerationsFollowTheirBase /\ GenerationsCountImplementations => GenerationsAreCounts
  BY DEF GenerationsAreCounts
<1> QED
  BY <1>1, <1>2, <1>3, <1>4, PTL

=============================================================================
