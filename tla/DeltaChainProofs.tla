--------------------------- MODULE DeltaChainProofs ---------------------------
(***************************************************************************)
(* Facts about base chains and the files read through them, for every      *)
(* snapshots table whose bases are stored and have lower ordinals.         *)
(***************************************************************************)
EXTENDS DeltaChain, WellFoundedInduction, TLAPS

\* L is a set of stored snapshots of table r: every base is stored and older.
WellBased(r, L) ==
  /\ L \subseteq Snapshots
  /\ \A s \in L :
       /\ r[s].ordinal \in Nat
       /\ r[s].base # NoSnapshot =>
            r[s].base \in L /\ r[r[s].base].ordinal < r[s].ordinal

\* A non-empty set of naturals has a least element (minimal-counterexample
\* arguments over ordinals rest on it).
LEMMA LeastNatural ==
  ASSUME NEW T \in SUBSET Nat, T # {}
  PROVE  \E x \in T : \A y \in T : x <= y
<1>1. \E x \in T : \A y \in T : ~ (<<y, x>> \in OpToRel(<, Nat))
  BY NatLessThanWellFounded, WFMin
<1>2. PICK x \in T : \A y \in T : ~ (<<y, x>> \in OpToRel(<, Nat))
  BY <1>1
<1>3. \A y \in T : ~ (y < x)
  BY <1>2 DEF OpToRel
<1> QED BY <1>3

\* A snapshot is the first link of its own chain.
LEMMA ChainSelf ==
  ASSUME NEW r, NEW s \in Snapshots
  PROVE  s \in Chain(r, s)
BY DEF Chain

\* A chain holds the base of every link.
LEMMA ChainClosed ==
  ASSUME NEW r, NEW s \in Snapshots, NEW t \in Chain(r, s),
         r[t].base # NoSnapshot, r[t].base \in Snapshots
  PROVE  r[t].base \in Chain(r, s)
BY DEF Chain

\* A chain is contained in every set of snapshots that holds its first link and
\* is closed under base.
LEMMA ChainLeast ==
  ASSUME NEW r, NEW s \in Snapshots, NEW C \in SUBSET Snapshots, s \in C,
         \A u \in C : r[u].base # NoSnapshot => r[u].base \in C
  PROVE  Chain(r, s) \subseteq C
BY DEF Chain

\* The chain of a stored snapshot stays among stored snapshots.
LEMMA ChainStored ==
  ASSUME NEW r, NEW L, WellBased(r, L), NEW s \in L
  PROVE  Chain(r, s) \subseteq L
BY ChainLeast DEF WellBased

\* A chain is its first link followed by the chain of its base.
LEMMA ChainUnfold ==
  ASSUME NEW r, NEW L, WellBased(r, L), NEW s \in L
  PROVE  Chain(r, s) = {s} \cup (IF r[s].base = NoSnapshot THEN {} ELSE Chain(r, r[s].base))
<1> DEFINE b == r[s].base
           C == {s} \cup (IF b = NoSnapshot THEN {} ELSE Chain(r, b))
<1>1. s \in Snapshots /\ (b # NoSnapshot => b \in L /\ b \in Snapshots)
  BY DEF WellBased
<1>2. C \subseteq Chain(r, s)
  <2>1. s \in Chain(r, s)
    BY <1>1, ChainSelf
  <2>2. CASE b = NoSnapshot
    BY <2>1, <2>2
  <2>3. CASE b # NoSnapshot
    <3>1. Chain(r, s) \in SUBSET Snapshots
      BY DEF Chain
    <3>2. \A u \in Chain(r, s) : r[u].base # NoSnapshot => r[u].base \in Chain(r, s)
      BY <1>1, ChainStored, ChainClosed DEF WellBased
    <3>3. b \in Chain(r, s)
      BY <3>2, <2>1, <2>3
    <3>4. Chain(r, b) \subseteq Chain(r, s)
      BY <3>1, <3>2, <3>3, <1>1, <2>3, ChainLeast
    <3> QED BY <3>4, <2>1
  <2> QED BY <2>2, <2>3
<1>3. Chain(r, s) \subseteq C
  <2>1. C \in SUBSET Snapshots
    BY <1>1 DEF Chain
  <2>2. \A u \in C : r[u].base # NoSnapshot => r[u].base \in C
    <3> SUFFICES ASSUME NEW u \in C, r[u].base # NoSnapshot
                 PROVE  r[u].base \in C
      OBVIOUS
    <3>1. CASE u = s
      BY <3>1, <1>1, ChainSelf
    <3>2. CASE u # s
      <4>1. b # NoSnapshot /\ u \in Chain(r, b)
        BY <3>2
      <4>2. u \in L
        BY <4>1, <1>1, ChainStored
      <4>3. r[u].base \in Snapshots
        BY <4>2 DEF WellBased
      <4>4. r[u].base \in Chain(r, b)
        BY <4>1, <4>3, <1>1, ChainClosed
      <4> QED BY <4>1, <4>4
    <3> QED BY <3>1, <3>2
  <2>3. s \in C
    OBVIOUS
  <2> HIDE DEF C
  <2> QED BY <2>1, <2>2, <2>3, <1>1, ChainLeast
<1> QED BY <1>2, <1>3

\* Every link after the first has a lower ordinal.
LEMMA ChainDescends ==
  ASSUME NEW r, NEW L, WellBased(r, L), NEW s \in L, NEW t \in Chain(r, s)
  PROVE  t = s \/ r[t].ordinal < r[s].ordinal
<1> DEFINE C == {u \in L : u = s \/ r[u].ordinal < r[s].ordinal}
<1>1. C \in SUBSET Snapshots /\ s \in C
  BY DEF WellBased
<1>2. \A u \in C : r[u].base # NoSnapshot => r[u].base \in C
  BY DEF WellBased
<1>3. s \in Snapshots
  BY DEF WellBased
<1> HIDE DEF C
<1>4. Chain(r, s) \subseteq C
  BY <1>1, <1>2, <1>3, ChainLeast
<1> QED BY <1>4 DEF C

\* The chain of a link is part of the chain.
LEMMA ChainNested ==
  ASSUME NEW r, NEW L, WellBased(r, L), NEW s \in L, NEW t \in Chain(r, s)
  PROVE  Chain(r, t) \subseteq Chain(r, s)
<1>1. t \in L /\ t \in Snapshots /\ s \in Snapshots
  BY ChainStored DEF WellBased
<1>2. Chain(r, s) \in SUBSET Snapshots
  BY DEF Chain
<1>3. \A u \in Chain(r, s) : r[u].base # NoSnapshot => r[u].base \in Chain(r, s)
  BY <1>1, ChainStored, ChainClosed DEF WellBased
<1> QED BY <1>1, <1>2, <1>3, ChainLeast

\* Of two links, one is in the chain of the other.
LEMMA ChainLinear ==
  ASSUME NEW r, NEW L, WellBased(r, L), NEW s \in L,
         NEW t \in Chain(r, s), NEW u \in Chain(r, s)
  PROVE  u \in Chain(r, t) \/ t \in Chain(r, u)
<1> DEFINE C == {v \in L : v \in Chain(r, t) \/ t \in Chain(r, v)}
<1>1. t \in L /\ t \in Snapshots /\ s \in Snapshots
  BY ChainStored DEF WellBased
<1>2. C \in SUBSET Snapshots /\ s \in C
  BY DEF WellBased
<1>3. ASSUME NEW v \in C, r[v].base # NoSnapshot
      PROVE  r[v].base \in C
  <2>1. v \in L /\ r[v].base \in L /\ r[v].base \in Snapshots
    BY <1>3 DEF WellBased
  <2>2. CASE v \in Chain(r, t)
    <3>1. r[v].base \in Chain(r, t)
      BY <2>1, <2>2, <1>1, <1>3, ChainClosed
    <3> QED BY <3>1, <2>1
  <2>3. CASE t \in Chain(r, v)
    <3>1. t = v \/ t \in Chain(r, r[v].base)
      BY <2>1, <2>3, <1>3, ChainUnfold
    <3>2. CASE t = v
      <4>1. r[v].base \in Chain(r, t)
        BY <3>2, <2>1, <1>1, <1>3, ChainSelf, ChainClosed
      <4> QED BY <4>1, <2>1
    <3>3. CASE t \in Chain(r, r[v].base)
      BY <3>3, <2>1
    <3> QED BY <3>1, <3>2, <3>3
  <2> QED BY <2>2, <2>3
<1> HIDE DEF C
<1>4. Chain(r, s) \subseteq C
  BY <1>1, <1>2, <1>3, ChainLeast
<1> QED BY <1>4 DEF C

\* What the nearest delta of a path is: the snapshot's own when it has one, and
\* otherwise its base's nearest.
LEMMA NearestUnfold ==
  ASSUME NEW r, NEW L, WellBased(r, L), NEW s \in L, NEW p \in Paths
  PROVE  /\ r[s].delta[p] # Same => Nearest(r, Naming(r, s, p)) = s
         /\ r[s].delta[p] = Same =>
              Naming(r, s, p) = (IF r[s].base = NoSnapshot THEN {}
                                 ELSE Naming(r, r[s].base, p))
<1>1. s \in Snapshots
  BY DEF WellBased
<1>2. ASSUME r[s].delta[p] # Same
      PROVE  Nearest(r, Naming(r, s, p)) = s
  <2> DEFINE N == Naming(r, s, p)
  <2>1. s \in N
    BY <1>1, <1>2, ChainSelf DEF Naming
  <2>2. N \subseteq Chain(r, s)
    BY DEF Naming
  <2>3. ASSUME NEW t \in N, N \subseteq Chain(r, t)
        PROVE  t = s
    <3>1. s \in Chain(r, t) /\ t \in Chain(r, s)
      BY <2>1, <2>2, <2>3
    <3>2. t \in L
      BY <3>1, ChainStored
    <3>3. s = t \/ r[s].ordinal < r[t].ordinal
      BY <3>1, <3>2, ChainDescends
    <3>4. t = s \/ r[t].ordinal < r[s].ordinal
      BY <3>1, ChainDescends
    <3> QED BY <3>2, <3>3, <3>4 DEF WellBased
  <2> HIDE DEF N
  <2>4. (CHOOSE t \in N : N \subseteq Chain(r, t)) = s
    BY <2>1, <2>2, <2>3
  <2> QED BY <2>4 DEF Nearest, N
<1>3. ASSUME r[s].delta[p] = Same
      PROVE  Naming(r, s, p) = (IF r[s].base = NoSnapshot THEN {}
                                ELSE Naming(r, r[s].base, p))
  BY <1>3, ChainUnfold DEF Naming
<1> QED BY <1>2, <1>3

\* What a snapshot serves for a path: its own delta, else what its base serves,
\* else nothing.  This is the recursion the base-chain query resolves.
THEOREM EffectiveUnfold ==
  ASSUME NEW r, NEW L, WellBased(r, L), NEW s \in L, NEW p \in Paths
  PROVE  Effective(r, s)[p] =
           IF r[s].delta[p] # Same THEN Decode(r[s].delta[p])
           ELSE ServedBy(r, r[s].base)[p]
<1>1. CASE r[s].delta[p] # Same
  <2>1. Nearest(r, Naming(r, s, p)) = s
    BY <1>1, NearestUnfold
  <2>2. s \in Naming(r, s, p)
    BY <1>1, ChainSelf DEF Naming, WellBased
  <2> QED BY <1>1, <2>1, <2>2 DEF Effective
<1>2. CASE r[s].delta[p] = Same /\ r[s].base = NoSnapshot
  <2>1. Naming(r, s, p) = {}
    BY <1>2, NearestUnfold
  <2> QED BY <1>2, <2>1 DEF Effective, ServedBy, EmptyFiles
<1>3. CASE r[s].delta[p] = Same /\ r[s].base # NoSnapshot
  <2>1. Naming(r, s, p) = Naming(r, r[s].base, p)
    BY <1>3, NearestUnfold
  <2> QED BY <1>3, <2>1 DEF Effective, ServedBy
<1> QED BY <1>1, <1>2, <1>3

\* Induction along base chains: a set that holds every stored snapshot without a
\* base, and every stored snapshot whose base it holds, holds all of them.
LEMMA ChainInduction ==
  ASSUME NEW r, NEW L, WellBased(r, L), NEW G \in SUBSET L,
         \A s \in L : (r[s].base # NoSnapshot => r[s].base \in G) => s \in G
  PROVE  L \subseteq G
<1> SUFFICES ASSUME L \ G # {} PROVE FALSE
  OBVIOUS
<1> DEFINE T == {r[s].ordinal : s \in L \ G}
<1>1. T \in SUBSET Nat /\ T # {}
  BY DEF WellBased
<1>2. PICK n \in T : \A m \in T : n <= m
  <2> HIDE DEF T
  <2> QED BY <1>1, LeastNatural
<1>3. PICK s \in L \ G : r[s].ordinal = n
  BY <1>2
<1>4. r[s].base # NoSnapshot /\ r[s].base \in L \ G
  BY <1>3 DEF WellBased
<1>5. r[r[s].base].ordinal \in T /\ r[r[s].base].ordinal < n
  BY <1>3, <1>4 DEF WellBased
<1>6. r[r[s].base].ordinal \in Nat /\ n \in Nat
  BY <1>1, <1>5
<1> HIDE DEF T
<1>7. n <= r[r[s].base].ordinal
  BY <1>2, <1>5
<1> QED BY <1>5, <1>6, <1>7

\* Reading a stored snapshot yields a file set.
THEOREM EffectiveType ==
  ASSUME NEW r, NEW L, WellBased(r, L), \A s \in L : r[s].delta \in Deltas
  PROVE  \A s \in L : Effective(r, s) \in FileSets
<1> DEFINE G == {s \in L : Effective(r, s) \in FileSets}
<1>1. ASSUME NEW s \in L, r[s].base # NoSnapshot => r[s].base \in G
      PROVE  s \in G
  <2>1. ASSUME NEW p \in Paths
        PROVE  Effective(r, s)[p] \in Contents \cup {Absent}
    <3>1. ServedBy(r, r[s].base)[p] \in Contents \cup {Absent}
      BY <1>1 DEF ServedBy, EmptyFiles, FileSets
    <3>2. r[s].delta[p] \in Contents \cup {Same, Deleted}
      BY DEF Deltas
    <3> QED BY <3>1, <3>2, EffectiveUnfold DEF Decode
  <2>2. Effective(r, s) = [p \in Paths |-> Effective(r, s)[p]]
    BY DEF Effective
  <2> QED BY <2>1, <2>2 DEF FileSets
<1>2. G \in SUBSET L
  OBVIOUS
<1> HIDE DEF G
<1>3. L \subseteq G
  BY <1>1, <1>2, ChainInduction
<1> QED BY <1>3 DEF G

\* A delta written against a base gives back the files it was computed from.
THEOREM DifferenceServes ==
  ASSUME NEW r, NEW L, WellBased(r, L), NEW s \in L, NEW files \in FileSets,
         r[s].delta = Difference(ServedBy(r, r[s].base), files)
  PROVE  Effective(r, s) = files
<1>1. ASSUME NEW p \in Paths
      PROVE  Effective(r, s)[p] = files[p]
  <2>1. files[p] \in Contents \cup {Absent}
    BY DEF FileSets
  <2>2. r[s].delta[p] = IF files[p] = ServedBy(r, r[s].base)[p] THEN Same
                        ELSE IF files[p] = Absent THEN Deleted ELSE files[p]
    BY DEF Difference
  <2> QED BY <2>1, <2>2, EffectiveUnfold, ChainAssumption DEF Decode
<1>2. Effective(r, s) = [p \in Paths |-> Effective(r, s)[p]] /\ files = [p \in Paths |-> files[p]]
  BY DEF Effective, FileSets
<1> QED BY <1>1, <1>2

\* q rewrites table r on the snapshots M that stay: each keeps its row's base and
\* delta, with the base staying too, or stands alone with everything it served.
Rewrites(r, q, M) ==
  \A s \in M :
    \/ /\ q[s].base = r[s].base /\ q[s].delta = r[s].delta
       /\ r[s].base # NoSnapshot => r[s].base \in M
    \/ /\ q[s].base = NoSnapshot
       /\ q[s].delta = Difference(EmptyFiles, Effective(r, s))

\* Rewriting rows so leaves what every remaining snapshot serves alone.  This is
\* the argument for both a prune, which rebases, and a publication, which adds.
THEOREM RewritePreserves ==
  ASSUME NEW r, NEW q, NEW L, NEW M, WellBased(r, L), WellBased(q, M), M \subseteq L,
         \A s \in L : r[s].delta \in Deltas, Rewrites(r, q, M)
  PROVE  \A s \in M : Effective(q, s) = Effective(r, s)
<1> DEFINE G == {s \in M : Effective(q, s) = Effective(r, s)}
<1>1. ASSUME NEW s \in M, q[s].base # NoSnapshot => q[s].base \in G
      PROVE  s \in G
  <2>0. s \in L /\ Effective(r, s) \in FileSets
    BY EffectiveType
  <2>1. CASE /\ q[s].base = NoSnapshot
             /\ q[s].delta = Difference(EmptyFiles, Effective(r, s))
    <3>1. q[s].delta = Difference(ServedBy(q, q[s].base), Effective(r, s))
      BY <2>1 DEF ServedBy
    <3> QED BY <2>0, <3>1, DifferenceServes
  <2>2. CASE q[s].base = r[s].base /\ q[s].delta = r[s].delta
    <3>1. ServedBy(q, q[s].base) = ServedBy(r, r[s].base)
      BY <1>1, <2>2 DEF ServedBy
    <3>2. \A p \in Paths : Effective(q, s)[p] = Effective(r, s)[p]
      BY <2>0, <2>2, <3>1, EffectiveUnfold
    <3>3. /\ Effective(q, s) = [p \in Paths |-> Effective(q, s)[p]]
          /\ Effective(r, s) = [p \in Paths |-> Effective(r, s)[p]]
      BY DEF Effective
    <3> QED BY <3>2, <3>3
  <2> QED BY <2>1, <2>2 DEF Rewrites
<1>2. G \in SUBSET M
  OBVIOUS
<1> HIDE DEF G
<1>3. M \subseteq G
  BY <1>1, <1>2, ChainInduction
<1> QED BY <1>3 DEF G
=============================================================================
