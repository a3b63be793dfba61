------------------------ MODULE DependencyGraphProofs ------------------------
(***************************************************************************)
(* Dependencies that form cycles are published whole: resolving versions   *)
(* (VersionGraph) and indexing local modules (CycleGroups), for every      *)
(* graph of requirements and every number of runs, tags, edits and prunes. *)
(* Both rest on the same facts about graphs: what is reached from a node,  *)
(* and an order of the strongly connected components.                      *)
(***************************************************************************)
EXTENDS VersionGraph, CycleGroups, FiniteSetTheorems, WellFoundedInduction, TLAPS

-----------------------------------------------------------------------------
(* Naturals.                                                               *)

\* A non-empty set of naturals has a least element.
LEMMA LeastNatural ==
  ASSUME NEW T \in SUBSET Nat, T # {}
  PROVE  \E x \in T : \A y \in T : x <= y
<1>1. \E x \in T : \A y \in T : ~ (<<y, x>> \in OpToRel(<, Nat))
  BY NatLessThanWellFounded, WFMin
<1>2. PICK x \in T : \A y \in T : ~ (<<y, x>> \in OpToRel(<, Nat))
  BY <1>1
<1>3. \A y \in T : ~ (y < x)
  BY <1>2 DEF OpToRel
<1> QED
  BY <1>3

\* A set of naturals that holds 0 and the successor of each of its elements is all of them.
LEMMA NaturalInduction ==
  ASSUME NEW T \in SUBSET Nat, 0 \in T, \A n \in T : n + 1 \in T
  PROVE  T = Nat
<1> SUFFICES ASSUME Nat \ T # {} PROVE FALSE
  OBVIOUS
<1>1. PICK x \in Nat \ T : \A y \in Nat \ T : x <= y
  BY LeastNatural
<1>2. x # 0 /\ x - 1 \in Nat /\ x - 1 \notin Nat \ T
  BY <1>1
<1>3. x - 1 + 1 = x
  BY <1>1
<1> QED
  BY <1>1, <1>2, <1>3

-----------------------------------------------------------------------------
(* What is reached from a set of nodes, E[x] being the successors of x.    *)

\* The sets reached in 0, 1, ... N steps.
IsWalk(w, E, S, N) ==
  /\ w \in [0..N -> SUBSET (DOMAIN E)]
  /\ w[0] = S
  /\ \A n \in 1..N : w[n] = w[n - 1] \cup UNION {E[x] : x \in w[n - 1]}

\* R is what S reaches: the least set that holds S and the successors of its elements.
IsReach(R, E, S) ==
  /\ R \in SUBSET (DOMAIN E) /\ S \subseteq R
  /\ \A x \in R : E[x] \subseteq R
  /\ \A C \in SUBSET (DOMAIN E) : (S \subseteq C /\ \A x \in C : E[x] \subseteq C) => R \subseteq C

\* Successors are nodes.
IsGraph(E) == \A x \in DOMAIN E : E[x] \subseteq DOMAIN E

\* The sets reached step by step exist, so a recursive definition of them has a value.
LEMMA WalkExists ==
  ASSUME NEW E, IsGraph(E), NEW S \in SUBSET DOMAIN E, NEW N \in Nat
  PROVE  \E w : IsWalk(w, E, S, N)
<1> USE DEF IsGraph
<1> DEFINE T == {n \in Nat : \E w : IsWalk(w, E, S, n)}
<1>1. 0 \in T
  <2>1. IsWalk([n \in 0..0 |-> S], E, S, 0)
    BY DEF IsWalk
  <2> QED
    BY <2>1
<1>2. ASSUME NEW n \in T
      PROVE  n + 1 \in T
  <2>1. PICK w : IsWalk(w, E, S, n)
    OBVIOUS
  <2> DEFINE more == w[n] \cup UNION {E[x] : x \in w[n]}
             v == [k \in 0..(n + 1) |-> IF k = n + 1 THEN more ELSE w[k]]
  <2>2. more \in SUBSET DOMAIN E
    BY <2>1 DEF IsWalk
  <2> HIDE DEF more
  <2>3. v \in [0..(n + 1) -> SUBSET DOMAIN E] /\ v[0] = S
    BY <2>1, <2>2 DEF IsWalk
  <2>4. ASSUME NEW k \in 1..(n + 1)
        PROVE  v[k] = v[k - 1] \cup UNION {E[x] : x \in v[k - 1]}
    <3>1. CASE k = n + 1
      <4>1. v[k] = more /\ v[k - 1] = w[n]
        BY <3>1
      <4> QED
        BY <4>1 DEF more
    <3>2. CASE k # n + 1
      <4>1. v[k] = w[k] /\ v[k - 1] = w[k - 1] /\ k \in 1..n
        BY <3>2
      <4> HIDE DEF v
      <4> QED
        BY <4>1, <2>1 DEF IsWalk
    <3> QED
      BY <3>1, <3>2
  <2>5. IsWalk(v, E, S, n + 1)
    <3> HIDE DEF v
    <3> QED
      BY <2>3, <2>4 DEF IsWalk
  <2> QED
    BY <2>5
<1>3. T = Nat
  <2> HIDE DEF T
  <2>1. T \in SUBSET Nat
    BY DEF T
  <2> QED
    BY <1>1, <1>2, <2>1, NaturalInduction
<1> QED
  BY <1>3

\* What satisfies the recursive equation while it stays among the nodes is a walk.
LEMMA WalkIs ==
  ASSUME NEW E, IsGraph(E), NEW S \in SUBSET DOMAIN E, NEW N \in Nat,
         NEW w, w = [n \in 0..N |-> w[n]], w[0] = S,
         \A n \in 1..N : w[n - 1] \subseteq DOMAIN E => w[n] = w[n - 1] \cup UNION {E[x] : x \in w[n - 1]}
  PROVE  IsWalk(w, E, S, N)
<1> USE DEF IsGraph
<1> DEFINE T == {n \in Nat : n <= N => w[n] \subseteq DOMAIN E}
<1>1. 0 \in T
  OBVIOUS
<1>2. ASSUME NEW n \in T
      PROVE  n + 1 \in T
  <2> SUFFICES ASSUME n + 1 <= N
               PROVE  w[n + 1] \subseteq DOMAIN E
    OBVIOUS
  <2>1. n + 1 \in 1..N /\ (n + 1) - 1 = n /\ w[n] \subseteq DOMAIN E
    OBVIOUS
  <2>2. w[n + 1] = w[n] \cup UNION {E[x] : x \in w[n]}
    BY <2>1
  <2>3. UNION {E[x] : x \in w[n]} \subseteq DOMAIN E
    BY <2>1
  <2> HIDE DEF T
  <2> QED
    BY <2>1, <2>2, <2>3, Zenon
<1>3. T = Nat
  <2> HIDE DEF T
  <2>1. T \in SUBSET Nat
    BY DEF T
  <2> QED
    BY <1>1, <1>2, <2>1, NaturalInduction
<1>4. \A n \in 0..N : w[n] \in SUBSET DOMAIN E
  BY <1>3
<1>5. w \in [0..N -> SUBSET DOMAIN E]
  BY <1>4
<1>6. \A n \in 1..N : n - 1 \in 0..N
  OBVIOUS
<1> HIDE DEF T
<1>7. \A n \in 1..N : w[n] = w[n - 1] \cup UNION {E[x] : x \in w[n - 1]}
  BY <1>4, <1>6
<1> QED
  BY <1>5, <1>7 DEF IsWalk

\* Every step keeps what the earlier ones reached.
LEMMA WalkGrows ==
  ASSUME NEW E, NEW S, NEW N \in Nat, NEW w, IsWalk(w, E, S, N), NEW n \in 0..N, NEW k \in 0..n
  PROVE  w[k] \subseteq w[n]
<1> DEFINE T == {i \in Nat : i \in k..N => w[k] \subseteq w[i]}
<1>1. 0 \in T
  BY DEF IsWalk
<1>2. ASSUME NEW i \in T
      PROVE  i + 1 \in T
  <2>1. CASE i + 1 \in k..N /\ i + 1 # k
    <3>1. i \in k..N /\ i + 1 \in 1..N /\ (i + 1) - 1 = i
      BY <2>1
    <3>2. w[i + 1] = w[i] \cup UNION {E[x] : x \in w[i]}
      BY <3>1 DEF IsWalk
    <3> QED
      BY <3>1, <3>2
  <2>2. CASE ~(i + 1 \in k..N /\ i + 1 # k)
    BY <2>2
  <2> QED
    BY <2>1, <2>2
<1>3. T = Nat
  <2> HIDE DEF T
  <2>1. T \in SUBSET Nat
    BY DEF T
  <2> QED
    BY <1>1, <1>2, <2>1, NaturalInduction
<1>4. n \in T /\ n \in k..N
  BY <1>3
<1> QED
  BY <1>4

\* A walk stays in every set that holds its start and the successors of its elements.
LEMMA WalkLeast ==
  ASSUME NEW E, NEW S, NEW N \in Nat, NEW w, IsWalk(w, E, S, N), NEW n \in 0..N,
         NEW C, S \subseteq C, \A x \in C : E[x] \subseteq C
  PROVE  w[n] \subseteq C
<1> DEFINE T == {i \in Nat : i <= N => w[i] \subseteq C}
<1>1. 0 \in T
  BY DEF IsWalk
<1>2. ASSUME NEW i \in T
      PROVE  i + 1 \in T
  <2> SUFFICES ASSUME i + 1 <= N
               PROVE  w[i + 1] \subseteq C
    OBVIOUS
  <2>1. w[i] \subseteq C /\ i + 1 \in 1..N /\ (i + 1) - 1 = i
    OBVIOUS
  <2>2. w[i + 1] = w[i] \cup UNION {E[x] : x \in w[i]}
    BY <2>1 DEF IsWalk
  <2> QED
    BY <2>1, <2>2
<1>3. T = Nat
  <2> HIDE DEF T
  <2>1. T \in SUBSET Nat
    BY DEF T
  <2> QED
    BY <1>1, <1>2, <2>1, NaturalInduction
<1>4. n \in T
  BY <1>3
<1> QED
  BY <1>4

\* As many steps as there are nodes reach all that can be reached: until then every step that
\* is not the last adds a node.
LEMMA WalkReaches ==
  ASSUME NEW E, IsGraph(E), NEW S, NEW N \in Nat, NEW w, IsWalk(w, E, S, N),
         NEW B, IsFiniteSet(B), Cardinality(B) <= N, w[N] \subseteq B
  PROVE  IsReach(w[N], E, S)
<1>1. \A n \in 0..N : w[n] \in SUBSET DOMAIN E /\ w[n] \subseteq w[N] /\ S \subseteq w[n]
  <2> TAKE n \in 0..N
  <2>1. N \in 0..N /\ n \in 0..N /\ 0 \in 0..n /\ w[0] = S
    BY DEF IsWalk
  <2>2. w[n] \subseteq w[N] /\ w[0] \subseteq w[n]
    BY <2>1, WalkGrows
  <2> QED
    BY <2>1, <2>2 DEF IsWalk
<1>2. N \in 0..N /\ 0 \in 0..N
  OBVIOUS
<1>3. \A x \in w[N] : E[x] \subseteq w[N]
  <2> SUFFICES ASSUME ~ \A x \in w[N] : E[x] \subseteq w[N]
               PROVE  FALSE
    OBVIOUS
  <2>1. \A n \in 0..N : ~ \A x \in w[n] : E[x] \subseteq w[n]
    <3> SUFFICES ASSUME NEW n \in 0..N, \A x \in w[n] : E[x] \subseteq w[n]
                 PROVE  FALSE
      OBVIOUS
    <3>1. S \subseteq w[n] /\ w[n] \subseteq w[N]
      BY <1>1
    <3>2. w[N] \subseteq w[n]
      BY <3>1, <1>2, WalkLeast
    <3>3. w[n] = w[N]
      BY <3>1, <3>2
    <3> QED
      BY <3>3
  <2>2. \A n \in 0..N : IsFiniteSet(w[n]) /\ Cardinality(w[n]) \in Nat /\ Cardinality(w[n]) <= Cardinality(B)
    <3> TAKE n \in 0..N
    <3>1. w[n] \in SUBSET B
      BY <1>1
    <3> QED
      BY <3>1, FS_Subset, FS_CardinalityType
  <2> DEFINE T == {n \in Nat : n <= N => Cardinality(w[n]) >= n + 1}
  <2>3. 0 \in T
    <3>1. w[0] # {}
      BY <2>1, <1>2
    <3>2. Cardinality(w[0]) # 0
      BY <3>1, <2>2, <1>2, FS_EmptySet
    <3>3. Cardinality(w[0]) \in Nat
      BY <2>2, <1>2
    <3> QED
      BY <3>2, <3>3
  <2>4. ASSUME NEW n \in T
        PROVE  n + 1 \in T
    <3> SUFFICES ASSUME n + 1 <= N
                 PROVE  Cardinality(w[n + 1]) >= n + 2
      OBVIOUS
    <3>1. n \in 0..N /\ n + 1 \in 0..N /\ n + 1 \in 1..N /\ (n + 1) - 1 = n /\ Cardinality(w[n]) >= n + 1
      OBVIOUS
    <3>2. w[n + 1] = w[n] \cup UNION {E[x] : x \in w[n]}
      BY <3>1 DEF IsWalk
    <3>3. w[n] # w[n + 1]
      BY <3>1, <3>2, <2>1
    <3>4. w[n] \in SUBSET w[n + 1]
      BY <3>2
    <3>5. Cardinality(w[n]) <= Cardinality(w[n + 1]) /\ Cardinality(w[n + 1]) # Cardinality(w[n])
      <4>1. IsFiniteSet(w[n + 1])
        BY <3>1, <2>2
      <4> QED
        BY <4>1, <3>3, <3>4, FS_Subset
    <3>6. Cardinality(w[n]) \in Nat /\ Cardinality(w[n + 1]) \in Nat
      BY <3>1, <2>2
    <3> QED
      BY <3>1, <3>5, <3>6
  <2>5. T = Nat
    <3> HIDE DEF T
    <3>1. T \in SUBSET Nat
      BY DEF T
    <3> QED
      BY <2>3, <2>4, <3>1, NaturalInduction
  <2>6. Cardinality(w[N]) >= N + 1
    BY <2>5
  <2>7. Cardinality(w[N]) \in Nat /\ Cardinality(w[N]) <= Cardinality(B) /\ Cardinality(B) \in Nat
    BY <2>2, <1>2, FS_CardinalityType
  <2> HIDE DEF T
  <2> QED
    BY <2>6, <2>7
<1>4. ASSUME NEW C \in SUBSET DOMAIN E, S \subseteq C, \A x \in C : E[x] \subseteq C
      PROVE  w[N] \subseteq C
  BY <1>4, <1>2, WalkLeast
<1> QED
  BY <1>1, <1>2, <1>3, <1>4 DEF IsReach

-----------------------------------------------------------------------------
(* An order of the strongly connected components.                          *)

\* A finite set has an arrangement by a number of each element.
LEMMA Arranged ==
  ASSUME NEW T, IsFiniteSet(T), NEW K \in [T -> Nat]
  PROVE  \E s \in [1..Cardinality(T) -> T] :
           /\ \A t \in T : \E i \in 1..Cardinality(T) : s[i] = t
           /\ \A i, j \in 1..Cardinality(T) : i < j => K[s[i]] <= K[s[j]]
<1> DEFINE Good(s, U, n) == /\ s \in [1..n -> U]
                            /\ \A t \in U : \E i \in 1..n : s[i] = t
                            /\ \A i, j \in 1..n : i < j => K[s[i]] <= K[s[j]]
           A == {n \in Nat : \A U \in SUBSET T : Cardinality(U) = n => \E s : Good(s, U, n)}
<1>1. 0 \in A
  <2>1. ASSUME NEW U \in SUBSET T, Cardinality(U) = 0
        PROVE  Good(<<>>, U, 0)
    <3>1. U = {}
      BY <2>1, FS_Subset, FS_EmptySet
    <3> QED
      BY <3>1
  <2> QED
    BY <2>1
<1>2. ASSUME NEW n \in A
      PROVE  n + 1 \in A
  <2>0. n \in Nat /\ n + 1 \in Nat /\ \A U \in SUBSET T : Cardinality(U) = n => \E s : Good(s, U, n)
    OBVIOUS
  <2> SUFFICES ASSUME NEW U \in SUBSET T, Cardinality(U) = n + 1
               PROVE  \E s : Good(s, U, n + 1)
    <3> HIDE DEF Good
    <3> QED
      BY <2>0, Zenon
  <2>1. IsFiniteSet(U) /\ U # {}
    BY FS_Subset, FS_EmptySet
  <2>2. PICK x \in U : \A u \in U : K[x] <= K[u]
    <3>1. {K[u] : u \in U} \in SUBSET Nat /\ {K[u] : u \in U} # {}
      BY <2>1
    <3>2. PICK k \in {K[u] : u \in U} : \A y \in {K[u] : u \in U} : k <= y
      BY <3>1, LeastNatural
    <3> QED
      BY <3>2
  <2>3. U \ {x} \in SUBSET T /\ Cardinality(U \ {x}) = n
    <3>1. Cardinality(U \ {x}) = Cardinality(U) - 1
      BY <2>1, <2>2, FS_RemoveElement
    <3> QED
      BY <3>1
  <2>4. PICK s : Good(s, U \ {x}, n)
    BY <2>3
  <2> DEFINE z == [i \in 1..(n + 1) |-> IF i = 1 THEN x ELSE s[i - 1]]
  <2>5. z[1] = x /\ \A i \in 2..(n + 1) : i - 1 \in 1..n /\ z[i] = s[i - 1] /\ z[i] \in U
    <3>1. \A i \in 1..n : s[i] \in U
      BY <2>4
    <3> QED
      BY <3>1
  <2>6. z \in [1..(n + 1) -> U]
    <3>1. ASSUME NEW i \in 1..(n + 1)
          PROVE  z[i] \in U
      <4>1. i = 1 \/ i \in 2..(n + 1)
        BY <2>0
      <4> HIDE DEF z
      <4> QED
        BY <4>1, <2>5
    <3> QED
      BY <3>1
  <2> HIDE DEF z, A
  <2>7. ASSUME NEW t \in U
        PROVE  \E i \in 1..(n + 1) : z[i] = t
    <3>1. CASE t = x
      <4>1. 1 \in 1..(n + 1)
        BY <2>0
      <4> QED
        BY <3>1, <4>1, <2>5
    <3>2. CASE t # x
      <4>1. PICK i \in 1..n : s[i] = t
        BY <3>2, <2>4
      <4>2. i + 1 \in 2..(n + 1) /\ (i + 1) - 1 = i
        BY DEF A
      <4>3. z[i + 1] = t
        BY <4>1, <4>2, <2>5
      <4> QED
        BY <4>2, <4>3 DEF A
    <3> QED
      BY <3>1, <3>2
  <2>8. ASSUME NEW i \in 1..(n + 1), NEW j \in 1..(n + 1), i < j
        PROVE  K[z[i]] <= K[z[j]]
    <3>1. j \in 2..(n + 1) /\ z[j] = s[j - 1] /\ z[j] \in U /\ j - 1 \in 1..n
      BY <2>8, <2>5 DEF A
    <3>2. CASE i = 1
      BY <3>1, <3>2, <2>5, <2>2
    <3>3. CASE i # 1
      <4>1. i \in 2..(n + 1) /\ z[i] = s[i - 1] /\ i - 1 \in 1..n /\ i - 1 < j - 1
        BY <3>3, <2>8, <2>5 DEF A
      <4> QED
        BY <4>1, <3>1, <2>4
    <3> QED
      BY <3>2, <3>3
  <2>9. Good(z, U, n + 1)
    BY <2>6, <2>7, <2>8
  <2> QED
    BY <2>9
<1>3. A = Nat
  <2> HIDE DEF A
  <2>1. A \in SUBSET Nat
    BY DEF A
  <2> QED
    BY <1>1, <1>2, <2>1, NaturalInduction
<1>4. Cardinality(T) \in A
  BY <1>3, FS_CardinalityType
<1> QED
  BY <1>4

\* What a node reaches holds the node and what each of the nodes it reaches reaches.
IsReachability(R, V) ==
  /\ R \in [V -> SUBSET V]
  /\ \A v \in V : v \in R[v]
  /\ \A v \in V : \A w \in R[v] : R[w] \subseteq R[v]

ComponentOf(R, v) == {w \in R[v] : v \in R[w]}
ComponentsOf(R, V) == {ComponentOf(R, v) : v \in V}

\* The components of a finite graph have an order in which none reaches a later one: they are
\* arranged by how many nodes they reach.
LEMMA ComponentOrder ==
  ASSUME NEW V, IsFiniteSet(V), NEW R, IsReachability(R, V)
  PROVE  \E s \in [1..Cardinality(ComponentsOf(R, V)) -> ComponentsOf(R, V)] :
           /\ \A g \in ComponentsOf(R, V) : \E i \in DOMAIN s : s[i] = g
           /\ \A i, j \in DOMAIN s : i < j => \A v \in s[i], w \in s[j] : w \notin R[v]
<1> DEFINE C == ComponentsOf(R, V)
           N == Cardinality(C)
           K == [g \in C |-> Cardinality(R[CHOOSE v \in g : TRUE])]
<1>1. IsFiniteSet(C)
  <2> DEFINE c == [v \in V |-> ComponentOf(R, v)]
  <2>1. c \in Surjection(V, C)
    BY DEF ComponentsOf, Surjection
  <2> QED
    BY <2>1, FS_Surjection
<1>2. \A v \in V : R[v] \in SUBSET V /\ v \in ComponentOf(R, v) /\ ComponentOf(R, v) \subseteq V
  BY DEF IsReachability, ComponentOf
<1>3. \A g \in C : \A v \in g : v \in V /\ ComponentOf(R, v) = g
  <2> SUFFICES ASSUME NEW u \in V, NEW v \in ComponentOf(R, u)
               PROVE  v \in V /\ ComponentOf(R, v) = ComponentOf(R, u)
    BY DEF ComponentsOf
  <2>1. v \in V /\ v \in R[u] /\ u \in R[v]
    BY <1>2 DEF ComponentOf
  <2>2. R[u] = R[v]
    BY <2>1 DEF IsReachability
  <2>3. \A w \in R[u] : w \in V /\ (u \in R[w] <=> v \in R[w])
    BY <2>1, <2>2 DEF IsReachability
  <2> QED
    BY <2>1, <2>2, <2>3 DEF ComponentOf
<1>4. \A g \in C : \A v, w \in g : R[v] = R[w]
  <2> TAKE g \in C
  <2> TAKE v, w \in g
  <2>1. v \in V /\ w \in V /\ w \in ComponentOf(R, v)
    BY <1>2, <1>3
  <2>2. w \in R[v] /\ v \in R[w]
    BY <2>1 DEF ComponentOf
  <2> QED
    BY <2>1, <2>2 DEF IsReachability
<1>5. \A g \in C : \A v \in g : K[g] = Cardinality(R[v])
  <2> TAKE g \in C
  <2> TAKE v \in g
  <2>1. (CHOOSE u \in g : TRUE) \in g
    OBVIOUS
  <2>2. R[CHOOSE u \in g : TRUE] = R[v]
    BY <2>1, <1>4
  <2> QED
    BY <2>2
<1>6. \A v \in V : IsFiniteSet(R[v]) /\ Cardinality(R[v]) \in Nat
  BY <1>2, FS_Subset, FS_CardinalityType
<1>7. \A g \in C : \E v \in V : v \in g
  BY <1>2 DEF ComponentsOf
<1>8. K \in [C -> Nat]
  <2>1. \A g \in C : K[g] \in Nat
    BY <1>5, <1>6, <1>7
  <2>2. K = [g \in C |-> K[g]]
    OBVIOUS
  <2> HIDE DEF K
  <2> QED
    BY <2>1, <2>2
<1> HIDE DEF K, C
<1>9. PICK s \in [1..N -> C] : /\ \A t \in C : \E i \in 1..N : s[i] = t
                               /\ \A i, j \in 1..N : i < j => K[s[i]] <= K[s[j]]
  BY <1>1, <1>8, Arranged
<1>10. \A i, j \in 1..N : s[i] = s[j] => i = j
  <2>1. N \in Nat
    BY <1>1, FS_CardinalityType
  <2>2. s \in Surjection(1..N, C)
    BY <1>9 DEF Surjection
  <2>3. IsFiniteSet(1..N) /\ Cardinality(1..N) = N
    BY <2>1, FS_Interval
  <2>4. s \in Injection(1..N, C)
    BY <2>2, <2>3, FS_SurjSameCardinalityImpliesInj
  <2> QED
    BY <2>4 DEF Injection, IsInjective
<1>11. ASSUME NEW i \in 1..N, NEW j \in 1..N, i < j, NEW v \in s[i], NEW w \in s[j]
       PROVE  w \notin R[v]
  <2> SUFFICES ASSUME w \in R[v]
               PROVE  FALSE
    OBVIOUS
  <2>1. s[i] \in C /\ s[j] \in C /\ v \in V /\ w \in V
    BY <1>9, <1>3
  <2>2. R[w] \in SUBSET R[v]
    BY <2>1 DEF IsReachability
  <2>3. Cardinality(R[v]) <= Cardinality(R[w])
    BY <1>11, <1>9, <1>5, <2>1
  <2>4. Cardinality(R[w]) <= Cardinality(R[v]) /\ (Cardinality(R[v]) = Cardinality(R[w]) => R[v] = R[w])
    BY <2>1, <2>2, <1>6, FS_Subset
  <2>5. R[v] = R[w]
    BY <2>1, <2>3, <2>4, <1>6
  <2>6. v \in ComponentOf(R, w)
    BY <2>1, <2>5 DEF IsReachability, ComponentOf
  <2>7. ComponentOf(R, v) = s[i] /\ ComponentOf(R, w) = s[j]
    BY <2>1, <1>3
  <2>8. s[i] = s[j]
    BY <2>1, <2>6, <2>7, <1>3
  <2> QED
    BY <2>8, <1>10, <1>11
<1>12. DOMAIN s = 1..N
  BY <1>9
<1> QED
  BY <1>9, <1>11, <1>12 DEF C

-----------------------------------------------------------------------------
(* The inductive invariant of VersionGraph.                                *)

VersionRows ==
  [version : VersionNames, commit : {1, 2}, edges : UNION {[vs -> Nat] : vs \in SUBSET VersionNames},
   settled : BOOLEAN, kept : BOOLEAN]
ResolverPlaces == {"idle", "expand", "group", "extract", "publish", "done", "failed"}
Resolvers(n) ==
  [pc : ResolverPlaces, queue : Seq(VersionNames), nodes : Seq([version : VersionNames, commit : {1, 2}]),
   groups : Seq(SUBSET VersionNames), ids : {<<>>}, settled : UNION {[vs -> BOOLEAN] : vs \in SUBSET VersionNames},
   memo : [VersionNames -> -1..n], tags : [VersionNames -> -1..2]]

\* Every variable holds what it may hold, and a tag names a commit whose requirements are known.
VersionTypes ==
  /\ tags \in [VersionNames -> 0..2]
  /\ versions \in Seq(VersionRows)
  /\ resolver \in [VersionRuns -> Resolvers(Len(versions))]

TagsName(t) == \A v \in VersionNames : t[v] > 0 => <<v, t[v]>> \in DOMAIN Requires

\* A row links what its commit requires, each edge to a row of that version, and a row that
\* is stored links stored rows only.
RowLinks(vs, s) ==
  /\ <<vs[s].version, vs[s].commit>> \in DOMAIN Requires
  /\ DOMAIN vs[s].edges = Requires[<<vs[s].version, vs[s].commit>>]
  /\ \A w \in DOMAIN vs[s].edges : vs[s].edges[w] # Unavailable =>
       /\ vs[s].edges[w] \in DOMAIN vs /\ vs[vs[s].edges[w]].version = w
       /\ vs[s].kept => vs[vs[s].edges[w]].kept

\* What a run remembers of a version: it looked at its tag; a snapshot is of that version and,
\* if the tag was there, of the commit it named, with no target only where no tag was.
RemembersVersion(vs, me, v) ==
  /\ me.memo[v] # Unknown => me.tags[v] # Unknown
  /\ me.memo[v] = Unavailable => me.tags[v] = 0
  /\ me.memo[v] > 0 =>
       /\ vs[me.memo[v]].version = v
       /\ me.tags[v] > 0 =>
            /\ vs[me.memo[v]].commit = me.tags[v]
            /\ \A w \in DOMAIN vs[me.memo[v]].edges : vs[me.memo[v]].edges[w] = Unavailable => me.tags[w] = 0

IsNode(me, v) == \E i \in DOMAIN me.nodes : me.nodes[i].version = v
Needs(me, v) == Requires[<<v, me.tags[v]>>]

\* A node is of the commit its tag named, and what it requires is a node, resolved or about to
\* be looked at.
NodesAreRead(me) ==
  \A i \in DOMAIN me.nodes : me.nodes[i].commit = me.tags[me.nodes[i].version]
NodesAreClosed(me) ==
  \A v \in VersionNames : IsNode(me, v) =>
    \A w \in Needs(me, v) : \/ IsNode(me, w) \/ me.memo[w] # Unknown
                            \/ me.pc = "expand" /\ \E i \in DOMAIN me.queue : me.queue[i] = w

\* The components that are left hold every node not resolved yet; none requires a later one, and
\* all members of one with several require a member.
GroupsAreLeft(me) ==
  me.pc \in {"group", "extract", "publish"} =>
    /\ \A i \in DOMAIN me.groups : me.groups[i] # {} /\ \A v \in me.groups[i] : IsNode(me, v)
    /\ \A i \in DOMAIN me.groups : \A v \in me.groups[i] : me.groups[i] = {v} \/ Needs(me, v) \cap me.groups[i] # {}
    /\ \A i, j \in DOMAIN me.groups : i < j => \A v \in me.groups[i] : Needs(me, v) \cap me.groups[j] = {}
    /\ \A v \in VersionNames : IsNode(me, v) => me.memo[v] # Unknown \/ \E i \in DOMAIN me.groups : v \in me.groups[i]
    /\ me.pc \in {"extract", "publish"} => me.groups # <<>>
    /\ me.pc = "publish" => DOMAIN me.settled = Head(me.groups)

RunResolves(vs, me) ==
  /\ TagsName(me.tags)
  /\ \A v \in VersionNames : RemembersVersion(vs, me, v)
  /\ NodesAreRead(me) /\ NodesAreClosed(me) /\ GroupsAreLeft(me)

VersionInv ==
  /\ VersionTypes /\ TagsName(tags)
  /\ \A s \in DOMAIN versions : RowLinks(versions, s)
  /\ \A r \in VersionRuns : RunResolves(versions, resolver[r])

-----------------------------------------------------------------------------
(* What the operators of VersionGraph give.                                *)

\* A non-empty set of snapshot numbers has a newest.
LEMMA NewestOf ==
  ASSUME NEW n \in Nat, NEW S \in SUBSET (1..n), S # {}
  PROVE  Max(S) \in S
<1> DEFINE D == {k \in Nat : n - k \in S}
<1>1. D \in SUBSET Nat /\ D # {}
  <2>1. PICK t \in S : TRUE
    OBVIOUS
  <2>2. n - t \in Nat /\ n - (n - t) = t
    BY <2>1
  <2> QED
    BY <2>1, <2>2
<1>2. PICK d \in D : \A k \in D : d <= k
  <2> HIDE DEF D
  <2> QED
    BY <1>1, LeastNatural
<1>3. ASSUME NEW t \in S
      PROVE  n - d >= t
  <2>1. n - t \in D /\ t \in Int /\ d \in Int
    OBVIOUS
  <2>2. d <= n - t
    BY <1>2, <2>1
  <2> QED
    BY <2>1, <2>2
<1>4. \E m \in S : \A t \in S : m >= t
  BY <1>3
<1> QED
  BY <1>4 DEF Max

\* A stored version is a stored snapshot of the version.
LEMMA StoredVersionIs ==
  ASSUME VersionTypes, NEW v
  PROVE  StoredVersion(v) = 0 \/ StoredVersion(v) \in SnapshotsOf(v)
<1> DEFINE S == {s \in SnapshotsOf(v) : versions[s].settled}
<1>1. Len(versions) \in Nat /\ SnapshotsOf(v) \in SUBSET (1..Len(versions)) /\ S \in SUBSET (1..Len(versions))
  BY DEF SnapshotsOf, Stored, VersionTypes
<1>2. S # {} => Max(S) \in S
  BY <1>1, NewestOf
<1>3. SnapshotsOf(v) # {} => Max(SnapshotsOf(v)) \in SnapshotsOf(v)
  BY <1>1, NewestOf
<1>4. StoredVersion(v) = IF S # {} THEN Max(S) ELSE IF SnapshotsOf(v) # {} THEN Max(SnapshotsOf(v)) ELSE 0
  BY DEF StoredVersion
<1>5. S \subseteq SnapshotsOf(v)
  OBVIOUS
<1> HIDE DEF S
<1> QED
  BY <1>2, <1>3, <1>4, <1>5

LEMMA SnapshotsAre ==
  ASSUME VersionTypes, NEW v, NEW s \in SnapshotsOf(v)
  PROVE  s \in DOMAIN versions /\ s \in 1..Len(versions) /\ versions[s].version = v /\ versions[s].kept
BY DEF SnapshotsOf, Stored, VersionTypes

\* The closure of a snapshot holds it.
LEMMA ClosureHolds ==
  ASSUME VersionTypes, \A t \in DOMAIN versions : RowLinks(versions, t), NEW s \in DOMAIN versions
  PROVE  s \in Closure(s)
<1> DEFINE N == Len(versions)
           E == [t \in DOMAIN versions |-> Range(versions[t].edges) \ {Unavailable}]
           reach[n \in 0..N] ==
             IF n = 0 THEN {s}
             ELSE reach[n - 1] \cup UNION {Range(versions[t].edges) \ {Unavailable} : t \in reach[n - 1]}
<1>1. Closure(s) = reach[N]
  BY DEF Closure
<1>2. IsGraph(E) /\ N \in Nat /\ {s} \in SUBSET DOMAIN E
  <2>1. \A t \in DOMAIN versions : Range(versions[t].edges) \ {Unavailable} \subseteq DOMAIN versions
    <3> SUFFICES ASSUME NEW t \in DOMAIN versions, NEW w \in DOMAIN versions[t].edges,
                        versions[t].edges[w] # Unavailable
                 PROVE  versions[t].edges[w] \in DOMAIN versions
      BY Zenon DEF Range
    <3>1. RowLinks(versions, t)
      OBVIOUS
    <3> QED
      BY <3>1, Zenon DEF RowLinks
  <2>2. DOMAIN E = DOMAIN versions /\ \A t \in DOMAIN E : E[t] = Range(versions[t].edges) \ {Unavailable}
    OBVIOUS
  <2>3. IsGraph(E)
    <3> HIDE DEF E
    <3> QED
      BY <2>1, <2>2 DEF IsGraph
  <2> QED
    BY <2>3 DEF VersionTypes
<1>3. PICK w : IsWalk(w, E, {s}, N)
  <2> HIDE DEF E, N
  <2> QED
    BY <1>2, WalkExists
<1>4. \A n \in 1..N : UNION {E[t] : t \in w[n - 1]} = UNION {Range(versions[t].edges) \ {Unavailable} : t \in w[n - 1]}
  <2> TAKE n \in 1..N
  <2>1. n - 1 \in 0..N
    BY <1>2
  <2>2. w[n - 1] \subseteq DOMAIN E
    <3> HIDE DEF E
    <3> QED
      BY <2>1, <1>3 DEF IsWalk
  <2>3. w[n - 1] \subseteq DOMAIN versions
    BY <2>2
  <2>4. \A t \in w[n - 1] : E[t] = Range(versions[t].edges) \ {Unavailable}
    BY <2>3
  <2> HIDE DEF E
  <2> QED
    BY <2>4, Zenon
<1>5. w = [n \in 0..N |-> IF n = 0 THEN {s} ELSE w[n - 1] \cup UNION {Range(versions[t].edges) \ {Unavailable} : t \in w[n - 1]}]
  <2>1. w = [n \in 0..N |-> w[n]]
    BY <1>3 DEF IsWalk
  <2>2. \A n \in 0..N : n # 0 => n \in 1..N
    BY <1>2
  <2>3. \A n \in 0..N : w[n] = IF n = 0 THEN {s} ELSE w[n - 1] \cup UNION {Range(versions[t].edges) \ {Unavailable} : t \in w[n - 1]}
    <3> HIDE DEF E
    <3> QED
      BY <1>3, <1>4, <2>2 DEF IsWalk
  <2> HIDE DEF E
  <2> QED
    BY <2>1, <2>3, Zenon
<1>6. reach = [n \in 0..N |-> IF n = 0 THEN {s} ELSE reach[n - 1] \cup UNION {Range(versions[t].edges) \ {Unavailable} : t \in reach[n - 1]}]
  BY <1>5
<1> HIDE DEF reach, E
<1> DEFINE T == {n \in Nat : n <= N => s \in reach[n]}
<1>7. 0 \in T
  BY <1>2, <1>6
<1>8. ASSUME NEW n \in T
      PROVE  n + 1 \in T
  <2> SUFFICES ASSUME n + 1 <= N
               PROVE  s \in reach[n + 1]
    OBVIOUS
  <2>1. n \in 0..N /\ n + 1 \in 0..N /\ n + 1 # 0 /\ (n + 1) - 1 = n /\ s \in reach[n]
    BY <1>2
  <2>2. reach[n + 1] = reach[n] \cup UNION {Range(versions[t].edges) \ {Unavailable} : t \in reach[n]}
    BY <2>1, <1>6
  <2> QED
    BY <2>1, <2>2
<1>9. T = Nat
  <2> HIDE DEF T
  <2>1. T \in SUBSET Nat
    BY DEF T
  <2> QED
    BY <1>7, <1>8, <2>1, NaturalInduction
<1> QED
  BY <1>1, <1>2, <1>9

\* The commit a node is of is the one its tag named when the run looked.
LEMMA NodeIs ==
  ASSUME VersionTypes, NEW r \in VersionRuns, NodesAreRead(resolver[r]), TagsName(resolver[r].tags),
         NEW v, Node(r, v)
  PROVE  /\ v \in VersionNames /\ IsNode(resolver[r], v)
         /\ CommitOf(r, v) = resolver[r].tags[v] /\ CommitOf(r, v) \in {1, 2}
         /\ <<v, resolver[r].tags[v]>> \in DOMAIN Requires
         /\ RequiresOf(r, v) = Needs(resolver[r], v) /\ Needs(resolver[r], v) \subseteq VersionNames
<1>1. resolver[r].nodes \in Seq([version : VersionNames, commit : {1, 2}])
  BY DEF VersionTypes, Resolvers
<1>2. PICK ns \in Seq([version : VersionNames, commit : {1, 2}]) : ns = resolver[r].nodes
  BY <1>1
<1>3. \E n \in Range(ns) : n.version = v
  BY <1>2 DEF Node, Range
<1>4. (CHOOSE n \in Range(ns) : n.version = v) \in Range(ns) /\ (CHOOSE n \in Range(ns) : n.version = v).version = v
  BY <1>3
<1>5. PICK i \in DOMAIN ns : (CHOOSE n \in Range(ns) : n.version = v) = ns[i]
  BY <1>4 DEF Range
<1>6. ns[i].version = v /\ ns[i].version \in VersionNames /\ ns[i].commit \in {1, 2}
  <2> DEFINE R == [version : VersionNames, commit : {1, 2}]
  <2>1. ns \in Seq(R) /\ i \in DOMAIN ns
    BY <1>5
  <2>2. ns[i] \in R
    <3> HIDE DEF R
    <3> QED
      BY <2>1
  <2> QED
    BY <1>4, <1>5, <2>2
<1>7. CommitOf(r, v) = ns[i].commit
  BY <1>2, <1>5 DEF CommitOf
<1>8. ns[i].commit = resolver[r].tags[v]
  BY <1>2, <1>6 DEF NodesAreRead
<1>9. IsNode(resolver[r], v)
  BY <1>2, <1>6 DEF IsNode
<1>10. <<v, resolver[r].tags[v]>> \in DOMAIN Requires
  <2>1. resolver[r].tags[v] > 0
    BY <1>6, <1>8
  <2> QED
    BY <2>1, <1>6 DEF TagsName
<1> QED
  BY <1>6, <1>7, <1>8, <1>9, <1>10, VersionConstants DEF RequiresOf, Needs

\* Versions have an order, and it lists each of them.
LEMMA AscendingIs ==
  ASSUME NEW vs \in SUBSET VersionNames
  PROVE  /\ IsFiniteSet(vs) /\ Cardinality(vs) \in Nat
         /\ Ascending(vs) \in [1..Cardinality(vs) -> vs]
         /\ \A v \in vs : \E i \in 1..Cardinality(vs) : Ascending(vs)[i] = v
<1> DEFINE K == [v \in vs |-> v]
           N == Cardinality(vs)
<1>1. IsFiniteSet(vs) /\ N \in Nat /\ vs \subseteq Nat
  BY VersionConstants, FS_Subset, FS_CardinalityType
<1>2. K \in [vs -> Nat] /\ \A v \in vs : K[v] = v
  BY <1>1
<1>3. PICK s \in [1..N -> vs] : /\ \A v \in vs : \E i \in 1..N : s[i] = v
                                /\ \A i, j \in 1..N : i < j => K[s[i]] <= K[s[j]]
  <2> HIDE DEF K
  <2> QED
    BY <1>1, <1>2, Arranged
<1>4. \A q \in [1..N -> vs] : (\A v \in vs : \E i \in 1..N : q[i] = v) <=> q \in Injection(1..N, vs)
  <2> TAKE q \in [1..N -> vs]
  <2>1. IsFiniteSet(1..N) /\ Cardinality(1..N) = N
    BY <1>1, FS_Interval
  <2>2. q \in Surjection(1..N, vs) => q \in Injection(1..N, vs)
    BY <2>1, FS_SurjSameCardinalityImpliesInj
  <2>3. q \in Injection(1..N, vs) => q \in Surjection(1..N, vs)
    BY <2>1, <1>1, FS_Injection
  <2> QED
    BY <2>2, <2>3 DEF Surjection
<1>5. \A i, j \in DOMAIN s : i < j => s[i] < s[j]
  <2> SUFFICES ASSUME NEW i \in 1..N, NEW j \in 1..N, i < j
               PROVE  s[i] < s[j]
    OBVIOUS
  <2>1. s[i] \in Nat /\ s[j] \in Nat /\ s[i] <= s[j]
    BY <1>1, <1>2, <1>3
  <2>2. s[i] # s[j]
    <3>1. s \in Injection(1..N, vs)
      BY <1>3, <1>4
    <3>2. \A a, b \in 1..N : s[a] = s[b] => a = b
      BY <3>1 DEF Injection, IsInjective
    <3>3. i # j
      BY <1>1
    <3> QED
      BY <3>2, <3>3
  <2> QED
    BY <2>1, <2>2
<1>6. \E q \in [1..N -> vs] : \A i, j \in DOMAIN q : i < j => q[i] < q[j]
  BY <1>5
<1>7. PICK q \in [1..N -> vs] : q = Ascending(vs) /\ \A i, j \in DOMAIN q : i < j => q[i] < q[j]
  BY <1>6 DEF Ascending
<1>8. q \in Injection(1..N, vs)
  <2>1. \A i \in 1..N : q[i] \in Nat
    BY <1>1
  <2>2. \A i, j \in 1..N : q[i] = q[j] => i = j
    <3> TAKE i, j \in 1..N
    <3>1. i < j => q[i] < q[j]
      BY <1>7
    <3>2. j < i => q[j] < q[i]
      BY <1>7
    <3> QED
      BY <3>1, <3>2, <2>1, <1>1
  <2> QED
    BY <2>2 DEF Injection, IsInjective
<1> QED
  BY <1>1, <1>4, <1>7, <1>8

\* The versions a run collected.
NodesOf(me) == {v \in VersionNames : IsNode(me, v)}

LEMMA AmongIs ==
  ASSUME VersionTypes, NEW r \in VersionRuns
  PROVE  /\ {n.version : n \in Range(resolver[r].nodes)} = NodesOf(resolver[r])
         /\ IsFiniteSet(NodesOf(resolver[r])) /\ Cardinality(NodesOf(resolver[r])) \in Nat
<1> DEFINE R == [version : VersionNames, commit : {1, 2}]
<1>1. resolver[r].nodes \in Seq(R)
  BY DEF VersionTypes, Resolvers
<1>2. PICK ns \in Seq(R) : ns = resolver[r].nodes
  BY <1>1
<1>3. \A i \in DOMAIN ns : ns[i] \in R
  <2> HIDE DEF R
  <2> QED
    BY <1>2
<1>4. \A i \in DOMAIN ns : ns[i].version \in VersionNames
  BY <1>3
<1>5. {n.version : n \in Range(ns)} = {v \in VersionNames : \E i \in DOMAIN ns : ns[i].version = v}
  BY <1>4, Zenon DEF Range
<1>6. NodesOf(resolver[r]) = {v \in VersionNames : \E i \in DOMAIN ns : ns[i].version = v}
  BY <1>2, Zenon DEF NodesOf, IsNode
<1>7. NodesOf(resolver[r]) \in SUBSET VersionNames
  BY DEF NodesOf
<1> QED
  BY <1>2, <1>5, <1>6, <1>7, VersionConstants, FS_Subset, FS_CardinalityType

\* Who requires whom among the versions a run collected.
NodeGraph(me) == [v \in NodesOf(me) |-> Needs(me, v) \cap NodesOf(me)]

\* What the model computes as reached is what is reached.
LEMMA ReachesIs ==
  ASSUME VersionTypes, NEW r \in VersionRuns, NodesAreRead(resolver[r]), TagsName(resolver[r].tags),
         NEW v \in NodesOf(resolver[r])
  PROVE  IsReach(Reaches(r, v), NodeGraph(resolver[r]), {v})
<1> DEFINE A == {n.version : n \in Range(resolver[r].nodes)}
           N == Cardinality(A)
           reach[n \in 0..N] ==
             IF n = 0 THEN {v} ELSE reach[n - 1] \cup UNION {RequiresOf(r, w) \cap A : w \in reach[n - 1]}
<1>1. Reaches(r, v) = reach[N]
  BY Zenon DEF Reaches
<1>2. A = NodesOf(resolver[r]) /\ IsFiniteSet(A) /\ N \in Nat
  BY AmongIs
<1> HIDE DEF A, N
<1>3. PICK E : E = NodeGraph(resolver[r])
  OBVIOUS
<1>4. DOMAIN E = A /\ \A w \in A : E[w] = RequiresOf(r, w) \cap A
  <2>1. E = [w \in A |-> Needs(resolver[r], w) \cap A]
    BY <1>2, <1>3 DEF NodeGraph
  <2>2. ASSUME NEW w \in A
        PROVE  RequiresOf(r, w) = Needs(resolver[r], w)
    <3>1. Node(r, w)
      BY <1>2 DEF NodesOf, Node, IsNode
    <3> QED
      BY <3>1, NodeIs
  <2> QED
    BY <2>1, <2>2
<1>5. IsGraph(E) /\ {v} \in SUBSET DOMAIN E
  BY <1>2, <1>4 DEF IsGraph
<1>6. PICK w : IsWalk(w, E, {v}, N)
  BY <1>2, <1>5, WalkExists
<1>7. \A n \in 1..N : UNION {E[x] : x \in w[n - 1]} = UNION {RequiresOf(r, x) \cap A : x \in w[n - 1]}
  <2> TAKE n \in 1..N
  <2>1. n - 1 \in 0..N
    BY <1>2
  <2>2. w[n - 1] \subseteq A
    BY <2>1, <1>4, <1>6 DEF IsWalk
  <2>3. \A x \in w[n - 1] : E[x] = RequiresOf(r, x) \cap A
    BY <2>2, <1>4
  <2> QED
    BY <2>3, Zenon
<1>8. w = [n \in 0..N |-> IF n = 0 THEN {v} ELSE w[n - 1] \cup UNION {RequiresOf(r, x) \cap A : x \in w[n - 1]}]
  <2>1. w = [n \in 0..N |-> w[n]]
    BY <1>6 DEF IsWalk
  <2>2. \A n \in 0..N : n # 0 => n \in 1..N
    BY <1>2
  <2>3. \A n \in 0..N : w[n] = IF n = 0 THEN {v} ELSE w[n - 1] \cup UNION {RequiresOf(r, x) \cap A : x \in w[n - 1]}
    BY <1>6, <1>7, <2>2 DEF IsWalk
  <2> QED
    BY <2>1, <2>3, Zenon
<1>9. reach = [n \in 0..N |-> IF n = 0 THEN {v} ELSE reach[n - 1] \cup UNION {RequiresOf(r, x) \cap A : x \in reach[n - 1]}]
  BY <1>8
<1> HIDE DEF reach
<1>10. reach = [n \in 0..N |-> reach[n]] /\ reach[0] = {v}
  BY <1>2, <1>9
<1>11. ASSUME NEW n \in 1..N, reach[n - 1] \subseteq DOMAIN E
       PROVE  reach[n] = reach[n - 1] \cup UNION {E[x] : x \in reach[n - 1]}
  <2>1. n \in 0..N /\ n # 0
    BY <1>2
  <2>2. reach[n] = reach[n - 1] \cup UNION {RequiresOf(r, x) \cap A : x \in reach[n - 1]}
    BY <1>9, <2>1
  <2>3. \A x \in reach[n - 1] : E[x] = RequiresOf(r, x) \cap A
    BY <1>4, <1>11
  <2>4. UNION {E[x] : x \in reach[n - 1]} = UNION {RequiresOf(r, x) \cap A : x \in reach[n - 1]}
    BY <2>3, Zenon
  <2> QED
    BY <2>2, <2>4
<1>12. IsWalk(reach, E, {v}, N)
  BY <1>2, <1>5, <1>10, <1>11, WalkIs
<1>13. reach[N] \subseteq A
  BY <1>2, <1>4, <1>12 DEF IsWalk
<1>14. N <= N /\ Cardinality(A) <= N
  BY <1>2 DEF N
<1>15. IsReach(reach[N], E, {v})
  BY <1>2, <1>5, <1>12, <1>13, <1>14, WalkReaches
<1> QED
  BY <1>1, <1>3, <1>15

LEMMA ReachesAreReachability ==
  ASSUME VersionTypes, NEW r \in VersionRuns, NodesAreRead(resolver[r]), TagsName(resolver[r].tags)
  PROVE  IsReachability([v \in NodesOf(resolver[r]) |-> Reaches(r, v)], NodesOf(resolver[r]))
<1> DEFINE A == NodesOf(resolver[r])
           E == NodeGraph(resolver[r])
           R == [v \in A |-> Reaches(r, v)]
<1>1. \A v \in A : R[v] = Reaches(r, v)
  OBVIOUS
<1>2. R = [v \in A |-> R[v]]
  OBVIOUS
<1>3. \A v \in A : IsReach(R[v], E, {v})
  BY <1>1, ReachesIs
<1>4. DOMAIN E = A
  BY DEF NodeGraph
<1> HIDE DEF A, E, R
<1>5. \A v \in A : R[v] \in SUBSET A /\ v \in R[v] /\ \A x \in R[v] : E[x] \subseteq R[v]
  BY <1>3, <1>4 DEF IsReach
<1>6. ASSUME NEW v \in A, NEW w \in R[v]
      PROVE  R[w] \subseteq R[v]
  <2>1. w \in A /\ {w} \subseteq R[v] /\ R[v] \in SUBSET DOMAIN E
    BY <1>4, <1>5
  <2> QED
    BY <1>3, <1>5, <2>1 DEF IsReach
<1>7. R \in [A -> SUBSET A]
  BY <1>2, <1>5
<1>8. IsReachability(R, A)
  BY <1>5, <1>6, <1>7 DEF IsReachability
<1> QED
  BY <1>8 DEF A, R

\* dependencyComponents: the components hold every collected version, and none requires a
\* later one.
IsComponents(me, gs) ==
  /\ gs \in Seq(SUBSET VersionNames)
  /\ \A i \in DOMAIN gs : gs[i] # {} /\ \A v \in gs[i] : IsNode(me, v)
  /\ \A i \in DOMAIN gs : \A v \in gs[i] : gs[i] = {v} \/ Needs(me, v) \cap gs[i] # {}
  /\ \A i, j \in DOMAIN gs : i < j => \A v \in gs[i] : Needs(me, v) \cap gs[j] = {}
  /\ \A v \in VersionNames : IsNode(me, v) => \E i \in DOMAIN gs : v \in gs[i]

LEMMA ComponentsAre ==
  ASSUME VersionTypes, NEW r \in VersionRuns, NodesAreRead(resolver[r]), TagsName(resolver[r].tags)
  PROVE  IsComponents(resolver[r], Components(r))
<1> DEFINE among == {n.version : n \in Range(resolver[r].nodes)}
           group(v) == {w \in Reaches(r, v) : v \in Reaches(r, w)}
           groups == {group(v) : v \in among}
           before(g, h) == \E v \in h : g \subseteq Reaches(r, v)
           R == [v \in NodesOf(resolver[r]) |-> Reaches(r, v)]
<1>1. Components(r) = CHOOSE s \in [1..Cardinality(groups) -> groups] :
                        Range(s) = groups /\ \A i, j \in DOMAIN s : i < j => ~before(s[j], s[i])
  BY Zenon DEF Components
<1>2. PICK A : A = NodesOf(resolver[r])
  OBVIOUS
<1>3. among = A /\ IsFiniteSet(A) /\ A \subseteq VersionNames
  BY <1>2, AmongIs DEF NodesOf
<1>4. IsReachability(R, A)
  BY <1>2, ReachesAreReachability
<1>5. \A v \in A : R[v] = Reaches(r, v) /\ R[v] \subseteq A
  BY <1>2, <1>4 DEF IsReachability
<1>6. groups = ComponentsOf(R, A)
  <2>1. \A v \in A : group(v) = ComponentOf(R, v)
    <3> HIDE DEF R
    <3> SUFFICES ASSUME NEW v \in A
                 PROVE  \A w : w \in group(v) <=> w \in ComponentOf(R, v)
      OBVIOUS
    <3> QED
      BY <1>5 DEF ComponentOf
  <2> HIDE DEF R, group
  <2> QED
    BY <2>1, <1>3, Zenon DEF ComponentsOf
<1>7. \A g \in groups : g # {} /\ g \subseteq A
  <2> HIDE DEF R, among, group, groups
  <2>1. \A v \in A : v \in ComponentOf(R, v) /\ ComponentOf(R, v) \subseteq A
    BY <1>4, <1>5 DEF ComponentOf, IsReachability
  <2> QED
    BY <1>6, <2>1 DEF ComponentsOf
<1>8. \A g \in groups, h \in groups : ~before(g, h) <=> \A v \in h, w \in g : w \notin R[v]
  <2> SUFFICES ASSUME NEW g \in groups, NEW h \in groups, NEW v \in h
               PROVE  g \subseteq Reaches(r, v) <=> \E w \in g : w \in R[v]
    BY Zenon
  <2>1. PICK x \in A : g = ComponentOf(R, x)
    BY <1>6 DEF ComponentsOf
  <2>2. v \in A /\ R[v] = Reaches(r, v) /\ g # {}
    BY <1>5, <1>7
  <2>3. ASSUME NEW w \in g, w \in R[v]
        PROVE  g \subseteq R[v]
    <3> HIDE DEF R, groups
    <3>1. w \in A /\ x \in R[w] /\ R[w] \subseteq R[v] /\ R[x] \subseteq R[w] /\ g \subseteq R[x]
      BY <1>4, <1>5, <2>1, <2>2, <2>3 DEF ComponentOf, IsReachability
    <3> QED
      BY <3>1
  <2> HIDE DEF R
  <2> QED
    BY <2>2, <2>3
<1>9. PICK N \in Nat : N = Cardinality(groups) /\ IsFiniteSet(groups)
  <2> DEFINE c == [v \in A |-> ComponentOf(R, v)]
  <2>1. c \in Surjection(A, groups)
    BY <1>6 DEF ComponentsOf, Surjection
  <2>2. IsFiniteSet(groups)
    <3> HIDE DEF c, groups
    <3> QED
      BY <1>3, <2>1, FS_Surjection
  <2> QED
    BY <2>2, FS_CardinalityType
<1>10. \E s \in [1..N -> groups] : Range(s) = groups /\ \A i, j \in DOMAIN s : i < j => ~before(s[j], s[i])
  <2>1. PICK s \in [1..N -> groups] :
           /\ \A g \in groups : \E i \in DOMAIN s : s[i] = g
           /\ \A i, j \in DOMAIN s : i < j => \A v \in s[i], w \in s[j] : w \notin R[v]
    <3> HIDE DEF R, groups
    <3> QED
      BY <1>3, <1>4, <1>6, <1>9, ComponentOrder
  <2> HIDE DEF groups, before, R
  <2>2. Range(s) = groups
    BY <2>1 DEF Range
  <2>3. \A i, j \in DOMAIN s : i < j => ~before(s[j], s[i])
    BY <2>1, <1>8
  <2> QED
    BY <2>2, <2>3
<1>11. PICK q \in [1..N -> groups] : /\ q = Components(r) /\ Range(q) = groups
                                     /\ \A i, j \in DOMAIN q : i < j => ~before(q[j], q[i])
  <2> HIDE DEF groups, before
  <2> QED
    BY <1>1, <1>9, <1>10, Zenon
<1> HIDE DEF groups, before, R
<1>12. \A i \in DOMAIN q : q[i] \in groups
  BY <1>11
<1>13. q \in Seq(SUBSET VersionNames)
  BY <1>3, <1>7, <1>9, <1>11
<1>14. \A i \in DOMAIN q : q[i] # {} /\ \A v \in q[i] : IsNode(resolver[r], v)
  BY <1>2, <1>7, <1>12 DEF NodesOf
<1>15. ASSUME NEW i \in DOMAIN q, NEW j \in DOMAIN q, i < j, NEW v \in q[i]
       PROVE  Needs(resolver[r], v) \cap q[j] = {}
  <2>1. v \in A /\ q[j] \subseteq A /\ \A w \in q[j] : w \notin R[v]
    BY <1>7, <1>8, <1>11, <1>12, <1>15
  <2>2. IsReach(R[v], NodeGraph(resolver[r]), {v})
    BY <1>2, <1>5, <2>1, ReachesIs
  <2>3. Needs(resolver[r], v) \cap A \subseteq R[v]
    BY <1>2, <2>1, <2>2 DEF IsReach, NodeGraph
  <2> QED
    BY <2>1, <2>3
<1>16. ASSUME NEW v \in VersionNames, IsNode(resolver[r], v)
       PROVE  \E i \in DOMAIN q : v \in q[i]
  <2>1. v \in A
    BY <1>2, <1>16 DEF NodesOf
  <2>2. PICK g \in groups : v \in g
    <3>1. v \in ComponentOf(R, v) /\ ComponentOf(R, v) \in groups
      BY <1>4, <1>6, <2>1 DEF ComponentsOf, ComponentOf, IsReachability
    <3> QED
      BY <3>1
  <2> QED
    BY <1>11, <2>2 DEF Range
<1>17. ASSUME NEW i \in DOMAIN q, NEW v \in q[i]
       PROVE  q[i] = {v} \/ Needs(resolver[r], v) \cap q[i] # {}
  <2> SUFFICES ASSUME Needs(resolver[r], v) \cap q[i] = {}
               PROVE  q[i] \subseteq {v}
    OBVIOUS
  <2>1. PICK g : g = q[i]
    OBVIOUS
  <2>2. g \in groups /\ v \in g /\ g \subseteq A /\ v \in A
    BY <1>7, <1>12, <2>1
  <2>3. \A u, w \in g : w \in R[u]
    <3>1. PICK x \in A : g = ComponentOf(R, x)
      BY <1>6, <2>2 DEF ComponentsOf
    <3> TAKE u, w \in g
    <3>2. u \in A /\ w \in A /\ x \in R[u] /\ w \in R[x]
      BY <2>2, <3>1 DEF ComponentOf
    <3> QED
      BY <1>4, <3>2 DEF IsReachability
  <2>4. \A x \in A : \A y \in A : (y \in g /\ y \in R[x] /\ x \in R[v]) => x \in g
    <3> SUFFICES ASSUME NEW x \in A, NEW y \in A, y \in g, y \in R[x], x \in R[v]
                 PROVE  x \in g
      OBVIOUS
    <3>1. v \in R[y]
      BY <2>2, <2>3
    <3>2. v \in R[x]
      BY <1>4, <3>1 DEF IsReachability
    <3>3. PICK z \in A : g = ComponentOf(R, z)
      BY <1>6, <2>2 DEF ComponentsOf
    <3>4. v \in R[z] /\ z \in R[v]
      BY <2>2, <3>3 DEF ComponentOf
    <3>5. x \in R[z] /\ z \in R[x]
      BY <1>4, <2>2, <3>2, <3>4 DEF IsReachability
    <3> QED
      BY <3>3, <3>5 DEF ComponentOf
  <2>5. PICK E : E = NodeGraph(resolver[r])
    OBVIOUS
  <2>6. DOMAIN E = A /\ \A x \in A : E[x] = Needs(resolver[r], x) \cap A
    BY <1>2, <2>5 DEF NodeGraph
  <2>7. \A x \in A : IsReach(R[x], E, {x})
    BY <1>2, <1>5, <2>5, ReachesIs
  <2>8. PICK C : C = {v} \cup (R[v] \ g)
    OBVIOUS
  <2>9. C \in SUBSET DOMAIN E /\ {v} \subseteq C
    BY <1>5, <2>2, <2>6, <2>8
  <2>10. ASSUME NEW x \in C
         PROVE  E[x] \subseteq C
    <3>1. CASE x = v
      <4>1. E[v] \subseteq R[v] /\ E[v] \cap g = {}
        BY <2>1, <2>2, <2>6, <2>7 DEF IsReach
      <4> QED
        BY <3>1, <4>1, <2>8
    <3>2. CASE x # v
      <4>1. x \in R[v] /\ x \notin g /\ x \in A
        BY <3>2, <2>8, <2>2, <1>5
      <4>2. E[x] \subseteq R[v] /\ E[x] \subseteq R[x] /\ E[x] \subseteq A
        BY <4>1, <2>2, <2>6, <2>7 DEF IsReach
      <4>3. E[x] \cap g = {}
        BY <4>1, <4>2, <2>4
      <4> QED
        BY <4>2, <4>3, <2>8
    <3> QED
      BY <3>1, <3>2
  <2>11. R[v] \subseteq C
    BY <2>2, <2>7, <2>9, <2>10 DEF IsReach
  <2> QED
    BY <2>1, <2>2, <2>3, <2>8, <2>11
<1>18. IsComponents(resolver[r], q)
  BY <1>13, <1>14, <1>15, <1>16, <1>17 DEF IsComponents
<1> QED
  BY <1>11, <1>18

-----------------------------------------------------------------------------
(* VersionInv is preserved.                                                *)

LEMMA RowIs ==
  ASSUME VersionTypes, NEW s \in DOMAIN versions
  PROVE  /\ versions[s] \in VersionRows
         /\ versions[s].version \in VersionNames /\ versions[s].commit \in {1, 2}
         /\ versions[s].settled \in BOOLEAN /\ versions[s].kept \in BOOLEAN
         /\ DOMAIN versions[s].edges \subseteq VersionNames
         /\ \A w \in DOMAIN versions[s].edges : versions[s].edges[w] \in Nat
<1> DEFINE F == UNION {[vs -> Nat] : vs \in SUBSET VersionNames}
<1>1. versions[s] \in VersionRows
  <2>1. versions \in Seq(VersionRows)
    BY DEF VersionTypes
  <2> HIDE DEF F
  <2> QED
    BY <2>1
<1>2. \A f \in F : DOMAIN f \subseteq VersionNames /\ \A w \in DOMAIN f : f[w] \in Nat
  OBVIOUS
<1>3. versions[s].edges \in F
  BY <1>1 DEF VersionRows
<1>4. /\ versions[s].version \in VersionNames /\ versions[s].commit \in {1, 2}
      /\ versions[s].settled \in BOOLEAN /\ versions[s].kept \in BOOLEAN
  BY <1>1 DEF VersionRows
<1> HIDE DEF F
<1> QED
  BY <1>1, <1>2, <1>3, <1>4

LEMMA ResolverIs ==
  ASSUME NEW n \in Nat, NEW me \in Resolvers(n)
  PROVE  /\ me.pc \in ResolverPlaces /\ me.queue \in Seq(VersionNames) /\ me.groups \in Seq(SUBSET VersionNames)
         /\ me.nodes \in Seq([version : VersionNames, commit : {1, 2}])
         /\ me.ids = <<>> /\ me.settled \in UNION {[vs -> BOOLEAN] : vs \in SUBSET VersionNames}
         /\ me.memo \in [VersionNames -> -1..n] /\ me.tags \in [VersionNames -> -1..2]
         /\ DOMAIN me = {"pc", "queue", "nodes", "groups", "ids", "settled", "memo", "tags"}
BY DEF Resolvers

\* A tag once looked up is never looked up again.
KeepsTags(me, y) == \A u \in VersionNames : me.tags[u] # Unknown => y.tags[u] = me.tags[u]

LEMMA LookIs ==
  ASSUME VersionTypes, TagsName(tags), NEW r \in VersionRuns, TagsName(resolver[r].tags), NEW vs
  PROVE  /\ Look(r, vs) \in [VersionNames -> -1..2] /\ TagsName(Look(r, vs))
         /\ \A u \in VersionNames : resolver[r].tags[u] # Unknown => Look(r, vs)[u] = resolver[r].tags[u]
         /\ \A u \in VersionNames : TagSeen(r, u) \in 0..2 /\ (u \in vs => Look(r, vs)[u] = TagSeen(r, u))
         /\ \A u \in VersionNames : TagSeen(r, u) > 0 => <<u, TagSeen(r, u)>> \in DOMAIN Requires
<1>1. PICK t \in [VersionNames -> -1..2] : t = resolver[r].tags
  BY DEF VersionTypes, Resolvers
<1>2. tags \in [VersionNames -> 0..2]
  BY DEF VersionTypes
<1>3. \A u \in VersionNames : TagSeen(r, u) = IF t[u] = -1 THEN tags[u] ELSE t[u]
  BY <1>1 DEF TagSeen, Unknown
<1>4. \A u \in VersionNames : TagSeen(r, u) \in 0..2
  BY <1>1, <1>2, <1>3
<1>5. Look(r, vs) = [u \in VersionNames |-> IF u \in vs THEN TagSeen(r, u) ELSE t[u]]
  BY <1>1 DEF Look
<1>6. \A u \in VersionNames : TagSeen(r, u) > 0 => <<u, TagSeen(r, u)>> \in DOMAIN Requires
  BY <1>1, <1>2, <1>3 DEF TagsName
<1>7. PICK l : l = Look(r, vs)
  OBVIOUS
<1>8. l \in [VersionNames -> -1..2] /\ \A u \in VersionNames : l[u] = IF u \in vs THEN TagSeen(r, u) ELSE t[u]
  BY <1>1, <1>4, <1>5, <1>7
<1>9. TagsName(l)
  BY <1>1, <1>6, <1>8 DEF TagsName
<1>10. \A u \in VersionNames : t[u] # Unknown => l[u] = t[u]
  BY <1>1, <1>3, <1>8 DEF Unknown
<1> QED
  BY <1>1, <1>4, <1>6, <1>7, <1>8, <1>9, <1>10

LEMMA RememberedStays ==
  ASSUME VersionTypes, NEW me \in Resolvers(Len(versions)), NEW v \in VersionNames, RemembersVersion(versions, me, v),
         NEW y, KeepsTags(me, y), y.memo[v] = me.memo[v]
  PROVE  RemembersVersion(versions, y, v)
<1>1. Len(versions) \in Nat /\ DOMAIN versions = 1..Len(versions)
  BY DEF VersionTypes
<1>2. me.memo \in [VersionNames -> -1..Len(versions)] /\ me.tags \in [VersionNames -> -1..2]
  BY <1>1, ResolverIs
<1>3. me.memo[v] > 0 => me.memo[v] \in DOMAIN versions
  BY <1>1, <1>2
<1>4. me.memo[v] > 0 => DOMAIN versions[me.memo[v]].edges \subseteq VersionNames
  BY <1>3, RowIs
<1>5. me.memo[v] > 0 => me.memo[v] # Unknown
  BY <1>2 DEF Unknown
<1>6. me.tags[v] # Unknown => y.tags[v] = me.tags[v]
  BY DEF KeepsTags
<1>7. ASSUME me.memo[v] # Unknown
      PROVE  y.tags[v] = me.tags[v] /\ y.tags[v] # Unknown
  BY <1>6, <1>7 DEF RemembersVersion
<1>8. me.memo[v] = Unavailable => y.tags[v] = 0
  BY <1>7 DEF RemembersVersion, Unknown, Unavailable
<1>9. ASSUME me.memo[v] > 0
      PROVE  /\ versions[me.memo[v]].version = v
             /\ y.tags[v] > 0 =>
                  /\ versions[me.memo[v]].commit = y.tags[v]
                  /\ \A w \in DOMAIN versions[me.memo[v]].edges :
                       versions[me.memo[v]].edges[w] = Unavailable => y.tags[w] = 0
  <2>1. y.tags[v] = me.tags[v]
    BY <1>5, <1>7, <1>9
  <2>2. \A w \in VersionNames : me.tags[w] = 0 => y.tags[w] = 0
    BY DEF KeepsTags, Unknown
  <2> QED
    BY <1>4, <1>9, <2>1, <2>2 DEF RemembersVersion
<1> QED
  BY <1>7, <1>8, <1>9 DEF RemembersVersion

LEMMA NodesStay ==
  ASSUME NEW n \in Nat, NEW me \in Resolvers(n), NodesAreRead(me), NEW y, y.nodes = me.nodes, KeepsTags(me, y)
  PROVE  /\ NodesAreRead(y)
         /\ \A v : IsNode(y, v) <=> IsNode(me, v)
         /\ \A v : IsNode(me, v) => v \in VersionNames /\ me.tags[v] \in {1, 2} /\ Needs(y, v) = Needs(me, v)
<1> DEFINE R == [version : VersionNames, commit : {1, 2}]
<1>1. PICK ns \in Seq(R) : ns = me.nodes
  BY ResolverIs
<1>2. \A i \in DOMAIN ns : ns[i] \in R
  <2> HIDE DEF R
  <2> QED
    BY <1>1
<1>3. \A i \in DOMAIN ns : ns[i].version \in VersionNames /\ ns[i].commit \in {1, 2}
  BY <1>2
<1>4. \A i \in DOMAIN ns : ns[i].commit = me.tags[ns[i].version]
  BY <1>1 DEF NodesAreRead
<1>5. \A i \in DOMAIN ns : y.tags[ns[i].version] = me.tags[ns[i].version]
  BY <1>3, <1>4 DEF KeepsTags, Unknown
<1>6. NodesAreRead(y)
  BY <1>1, <1>4, <1>5 DEF NodesAreRead
<1>7. \A v : IsNode(y, v) <=> IsNode(me, v)
  BY DEF IsNode
<1>8. ASSUME NEW v, IsNode(me, v)
      PROVE  v \in VersionNames /\ me.tags[v] \in {1, 2} /\ Needs(y, v) = Needs(me, v)
  <2>1. PICK i \in DOMAIN ns : ns[i].version = v
    BY <1>1, <1>8 DEF IsNode
  <2> QED
    BY <2>1, <1>3, <1>4, <1>5 DEF Needs
<1> QED
  BY <1>6, <1>7, <1>8

\* A step of one run that publishes nothing.
LEMMA RunSteps ==
  ASSUME VersionInv, UNCHANGED <<tags, versions>>, NEW r \in VersionRuns, NEW y,
         resolver' = [resolver EXCEPT ![r] = y], y \in Resolvers(Len(versions)), RunResolves(versions, y)
  PROVE  VersionInv'
<1>1. resolver \in [VersionRuns -> Resolvers(Len(versions))]
  BY DEF VersionInv, VersionTypes
<1>2. resolver' \in [VersionRuns -> Resolvers(Len(versions))]
  BY <1>1
<1>3. VersionTypes'
  BY <1>2 DEF VersionInv, VersionTypes
<1>4. TagsName(tags)' /\ \A s \in DOMAIN versions' : RowLinks(versions', s)
  BY DEF VersionInv
<1>5. \A q \in VersionRuns : RunResolves(versions', resolver'[q])
  BY <1>1 DEF VersionInv
<1> QED
  BY <1>3, <1>4, <1>5 DEF VersionInv

LEMMA RunIs ==
  ASSUME VersionInv, NEW r \in VersionRuns
  PROVE  /\ Len(versions) \in Nat /\ DOMAIN versions = 1..Len(versions)
         /\ resolver[r] \in Resolvers(Len(versions)) /\ RunResolves(versions, resolver[r])
BY DEF VersionInv, VersionTypes

\* A run that looks up more tags, and collects no more, still has read what it collected.
LEMMA RunStays ==
  ASSUME VersionInv, NEW me \in Resolvers(Len(versions)), RunResolves(versions, me),
         NEW y, y.nodes = me.nodes, KeepsTags(me, y)
  PROVE  /\ NodesAreRead(y)
         /\ \A v : IsNode(y, v) <=> IsNode(me, v)
         /\ \A v : IsNode(me, v) => v \in VersionNames /\ me.tags[v] \in {1, 2} /\ Needs(y, v) = Needs(me, v)
         /\ \A v \in VersionNames : y.memo[v] = me.memo[v] => RemembersVersion(versions, y, v)
<1>1. VersionTypes /\ Len(versions) \in Nat
  BY DEF VersionInv, VersionTypes
<1>2. NodesAreRead(me) /\ \A v \in VersionNames : RemembersVersion(versions, me, v)
  BY DEF RunResolves
<1>3. \A v \in VersionNames : y.memo[v] = me.memo[v] => RemembersVersion(versions, y, v)
  BY <1>1, <1>2, RememberedStays
<1> QED
  BY <1>1, <1>2, <1>3, NodesStay

LEMMA ResolveKeeps ==
  ASSUME VersionInv, NEW r \in VersionRuns, Resolve(r)
  PROVE  VersionInv'
<1>1. PICK n \in Nat : n = Len(versions)
  BY RunIs
<1>2. PICK me \in Resolvers(n) : me = resolver[r] /\ RunResolves(versions, me)
  BY <1>1, RunIs
<1>3. PICK y : y = [me EXCEPT !.pc = "expand", !.queue = Wanted[r]]
  OBVIOUS
<1>4. resolver' = [resolver EXCEPT ![r] = y] /\ UNCHANGED <<tags, versions>> /\ me.pc = "idle"
  BY <1>2, <1>3 DEF Resolve
<1>5. y \in Resolvers(n)
  BY <1>3, VersionConstants DEF Resolvers, ResolverPlaces
<1>6. /\ y.pc = "expand" /\ y.nodes = me.nodes /\ y.memo = me.memo /\ y.tags = me.tags
  BY <1>3, ResolverIs
<1>7. KeepsTags(me, y)
  BY <1>6 DEF KeepsTags
<1>8. /\ NodesAreRead(y)
      /\ \A v : IsNode(y, v) <=> IsNode(me, v)
      /\ \A v : IsNode(me, v) => v \in VersionNames /\ me.tags[v] \in {1, 2} /\ Needs(y, v) = Needs(me, v)
      /\ \A v \in VersionNames : y.memo[v] = me.memo[v] => RemembersVersion(versions, y, v)
  BY <1>1, <1>2, <1>6, <1>7, RunStays
<1>9. NodesAreClosed(y)
  BY <1>2, <1>4, <1>6, <1>8 DEF RunResolves, NodesAreClosed
<1>10. GroupsAreLeft(y)
  BY <1>6 DEF GroupsAreLeft
<1>11. RunResolves(versions, y)
  BY <1>2, <1>6, <1>8, <1>9, <1>10 DEF RunResolves
<1> QED
  BY <1>1, <1>4, <1>5, <1>11, RunSteps

LEMMA FinishKeeps ==
  ASSUME VersionInv, NEW r \in VersionRuns, Finish(r)
  PROVE  VersionInv'
<1>1. PICK n \in Nat : n = Len(versions)
  BY RunIs
<1>2. PICK me \in Resolvers(n) : me = resolver[r] /\ RunResolves(versions, me)
  BY <1>1, RunIs
<1>3. PICK y : y = [me EXCEPT !.pc = "done"]
  OBVIOUS
<1>4. resolver' = [resolver EXCEPT ![r] = y] /\ UNCHANGED <<tags, versions>> /\ me.pc = "group"
  BY <1>2, <1>3 DEF Finish
<1>5. y \in Resolvers(n)
  BY <1>3 DEF Resolvers, ResolverPlaces
<1>6. y.pc = "done" /\ y.nodes = me.nodes /\ y.memo = me.memo /\ y.tags = me.tags
  BY <1>3, ResolverIs
<1>7. KeepsTags(me, y)
  BY <1>6 DEF KeepsTags
<1>8. /\ NodesAreRead(y)
      /\ \A v : IsNode(y, v) <=> IsNode(me, v)
      /\ \A v : IsNode(me, v) => v \in VersionNames /\ me.tags[v] \in {1, 2} /\ Needs(y, v) = Needs(me, v)
      /\ \A v \in VersionNames : y.memo[v] = me.memo[v] => RemembersVersion(versions, y, v)
  BY <1>1, <1>2, <1>6, <1>7, RunStays
<1>9. NodesAreClosed(y)
  BY <1>2, <1>4, <1>6, <1>8 DEF RunResolves, NodesAreClosed
<1>10. GroupsAreLeft(y)
  BY <1>6 DEF GroupsAreLeft
<1>11. RunResolves(versions, y)
  BY <1>2, <1>6, <1>8, <1>9, <1>10 DEF RunResolves
<1> QED
  BY <1>1, <1>4, <1>5, <1>11, RunSteps

LEMMA DiscoveredKeeps ==
  ASSUME VersionInv, NEW r \in VersionRuns, Discovered(r)
  PROVE  VersionInv'
<1>1. PICK n \in Nat : n = Len(versions)
  BY RunIs
<1>2. PICK me \in Resolvers(n) : me = resolver[r] /\ RunResolves(versions, me)
  BY <1>1, RunIs
<1>3. PICK gs : gs = Components(r)
  OBVIOUS
<1>4. IsComponents(me, gs)
  BY <1>2, <1>3, ComponentsAre DEF VersionInv, RunResolves
<1>5. PICK y : y = [me EXCEPT !.pc = "group", !.groups = gs]
  OBVIOUS
<1>6. resolver' = [resolver EXCEPT ![r] = y] /\ UNCHANGED <<tags, versions>> /\ me.pc = "expand" /\ me.queue = <<>>
  BY <1>2, <1>3, <1>5 DEF Discovered
<1>7. y \in Resolvers(n)
  BY <1>4, <1>5 DEF Resolvers, ResolverPlaces, IsComponents
<1>8. y.pc = "group" /\ y.groups = gs /\ y.nodes = me.nodes /\ y.memo = me.memo /\ y.tags = me.tags
  BY <1>5, ResolverIs
<1>9. KeepsTags(me, y)
  BY <1>8 DEF KeepsTags
<1>10. /\ NodesAreRead(y)
       /\ \A v : IsNode(y, v) <=> IsNode(me, v)
       /\ \A v : IsNode(me, v) => v \in VersionNames /\ me.tags[v] \in {1, 2} /\ Needs(y, v) = Needs(me, v)
       /\ \A v \in VersionNames : y.memo[v] = me.memo[v] => RemembersVersion(versions, y, v)
  BY <1>1, <1>2, <1>8, <1>9, RunStays
<1>11. NodesAreClosed(y)
  BY <1>2, <1>6, <1>8, <1>10 DEF RunResolves, NodesAreClosed
<1>12. GroupsAreLeft(y)
  <2>1. \A i \in DOMAIN gs : \A v \in gs[i] : Needs(y, v) = Needs(me, v) /\ IsNode(y, v)
    BY <1>4, <1>10 DEF IsComponents
  <2> QED
    BY <1>4, <1>8, <1>10, <2>1 DEF GroupsAreLeft, IsComponents
<1>13. RunResolves(versions, y)
  BY <1>2, <1>8, <1>10, <1>11, <1>12 DEF RunResolves
<1> QED
  BY <1>1, <1>6, <1>7, <1>13, RunSteps

LEMMA TailIs ==
  ASSUME NEW S, NEW q \in Seq(S), q # <<>>
  PROVE  Tail(q) \in Seq(S) /\ Head(q) \in S
OBVIOUS

LEMMA TailHolds ==
  ASSUME NEW S, NEW q \in Seq(S), q # <<>>, NEW at \in DOMAIN q, q[at] # Head(q)
  PROVE  \E i \in DOMAIN Tail(q) : Tail(q)[i] = q[at]
<1>1. at - 1 \in DOMAIN Tail(q) /\ Tail(q)[at - 1] = q[at]
  OBVIOUS
<1> QED
  BY <1>1

\* expandVersionedNode of a version that is resolved or collected.
LEMMA ExpandSkips ==
  ASSUME VersionInv, NEW r \in VersionRuns, resolver[r].pc = "expand", resolver[r].queue # <<>>,
         Node(r, Head(resolver[r].queue)) \/ resolver[r].memo[Head(resolver[r].queue)] # Unknown,
         resolver' = [resolver EXCEPT ![r].queue = Tail(resolver[r].queue)], UNCHANGED <<tags, versions>>
  PROVE  VersionInv'
<1>1. PICK n \in Nat : n = Len(versions)
  BY RunIs
<1>2. PICK me \in Resolvers(n) : me = resolver[r] /\ RunResolves(versions, me)
  BY <1>1, RunIs
<1>3. PICK q \in Seq(VersionNames) : q = me.queue /\ q # <<>>
  BY <1>2, ResolverIs
<1>4. PICK y : y = [me EXCEPT !.queue = Tail(q)]
  OBVIOUS
<1>5. resolver' = [resolver EXCEPT ![r] = y]
  BY <1>2, <1>3, <1>4
<1>6. y \in Resolvers(n)
  <2>1. Tail(q) \in Seq(VersionNames)
    BY <1>3, TailIs
  <2> QED
    BY <1>4, <2>1 DEF Resolvers
<1>7. y.pc = "expand" /\ y.queue = Tail(q) /\ y.nodes = me.nodes /\ y.memo = me.memo /\ y.tags = me.tags
  BY <1>2, <1>4, ResolverIs
<1>8. KeepsTags(me, y)
  BY <1>7 DEF KeepsTags
<1>9. /\ NodesAreRead(y)
      /\ \A v : IsNode(y, v) <=> IsNode(me, v)
      /\ \A v : IsNode(me, v) => v \in VersionNames /\ me.tags[v] \in {1, 2} /\ Needs(y, v) = Needs(me, v)
      /\ \A v \in VersionNames : y.memo[v] = me.memo[v] => RemembersVersion(versions, y, v)
  BY <1>1, <1>2, <1>7, <1>8, RunStays
<1>10. NodesAreClosed(y)
  <2> SUFFICES ASSUME NEW v \in VersionNames, IsNode(me, v), NEW w \in Needs(me, v), ~IsNode(me, w), me.memo[w] = Unknown
               PROVE  \E i \in DOMAIN Tail(q) : Tail(q)[i] = w
    BY <1>7, <1>9 DEF NodesAreClosed
  <2>1. PICK at \in DOMAIN q : q[at] = w
    BY <1>2, <1>3 DEF RunResolves, NodesAreClosed
  <2>2. IsNode(me, Head(q)) \/ me.memo[Head(q)] # Unknown
    BY <1>2, <1>3 DEF Node, IsNode
  <2>3. q[at] # Head(q)
    BY <2>1, <2>2
  <2> QED
    BY <1>3, <2>1, <2>3, TailHolds
<1>11. GroupsAreLeft(y)
  BY <1>7 DEF GroupsAreLeft
<1>12. RunResolves(versions, y)
  BY <1>2, <1>7, <1>9, <1>10, <1>11 DEF RunResolves
<1> QED
  BY <1>1, <1>5, <1>6, <1>12, RunSteps

\* expandVersionedNode of a version it takes from the store, or finds nowhere.
LEMMA ExpandRemembers ==
  ASSUME VersionInv, NEW r \in VersionRuns, resolver[r].pc = "expand", resolver[r].queue # <<>>,
         NEW v, v = Head(resolver[r].queue), NEW s, NEW read, v \in read,
         (s = 0 /\ TagSeen(r, v) = 0) \/ s \in SnapshotsOf(v), TagSeen(r, v) \in {0, versions[s].commit},
         s # 0 /\ TagSeen(r, v) # 0 =>
            \A w \in DOMAIN versions[s].edges : versions[s].edges[w] = Unavailable => TagSeen(r, w) = 0 /\ w \in read,
         resolver' = [resolver EXCEPT ![r].queue = Tail(resolver[r].queue), ![r].memo[v] = s, ![r].tags = Look(r, read)],
         UNCHANGED <<tags, versions>>
  PROVE  VersionInv'
<1>1. PICK n \in Nat : n = Len(versions) /\ DOMAIN versions = 1..n
  BY RunIs
<1>2. PICK me \in Resolvers(n) : me = resolver[r] /\ RunResolves(versions, me)
  BY <1>1, RunIs
<1>3. PICK q \in Seq(VersionNames) : q = me.queue /\ q # <<>>
  BY <1>2, ResolverIs
<1>4. PICK m \in [VersionNames -> -1..n] : m = me.memo
  BY ResolverIs
<1>5. v = Head(q) /\ v \in VersionNames
  BY <1>2, <1>3
<1>6. PICK l : l = Look(r, read)
  OBVIOUS
<1>7. VersionTypes /\ TagsName(tags) /\ TagsName(resolver[r].tags)
  BY <1>2 DEF VersionInv, RunResolves
<1>8. /\ l \in [VersionNames -> -1..2] /\ TagsName(l)
      /\ \A u \in VersionNames : me.tags[u] # Unknown => l[u] = me.tags[u]
      /\ \A u \in VersionNames : TagSeen(r, u) \in 0..2 /\ (u \in read => l[u] = TagSeen(r, u))
  BY <1>2, <1>6, <1>7, LookIs
<1>9. s \in 0..n
  BY <1>1, <1>7, SnapshotsAre
<1>10. PICK y : y = [me EXCEPT !.queue = Tail(q), !.memo[v] = s, !.tags = l]
  OBVIOUS
<1>11. resolver' = [resolver EXCEPT ![r] = y]
  BY <1>2, <1>3, <1>6, <1>10
<1>12. Tail(q) \in Seq(VersionNames) /\ [m EXCEPT ![v] = s] \in [VersionNames -> -1..n]
  <2>1. Tail(q) \in Seq(VersionNames)
    BY <1>3, TailIs
  <2>2. s \in -1..n
    BY <1>9
  <2> QED
    BY <1>4, <2>1, <2>2
<1>13. y \in Resolvers(n)
  BY <1>4, <1>8, <1>10, <1>12 DEF Resolvers
<1>14. y.pc = "expand" /\ y.queue = Tail(q) /\ y.nodes = me.nodes /\ y.memo = [m EXCEPT ![v] = s] /\ y.tags = l
  BY <1>2, <1>4, <1>10, ResolverIs
<1>15. KeepsTags(me, y)
  BY <1>8, <1>14 DEF KeepsTags
<1>16. /\ NodesAreRead(y)
       /\ \A u : IsNode(y, u) <=> IsNode(me, u)
       /\ \A u : IsNode(me, u) => u \in VersionNames /\ me.tags[u] \in {1, 2} /\ Needs(y, u) = Needs(me, u)
       /\ \A u \in VersionNames : y.memo[u] = me.memo[u] => RemembersVersion(versions, y, u)
  <2>1. me \in Resolvers(Len(versions)) /\ y.nodes = me.nodes
    BY <1>1, <1>14
  <2> QED
    BY <1>2, <1>15, <2>1, RunStays, Zenon
<1>17. \A u \in VersionNames : y.memo[u] = IF u = v THEN s ELSE me.memo[u]
  BY <1>4, <1>14
<1>18. RemembersVersion(versions, y, v)
  <2>1. y.memo[v] = s /\ y.tags[v] = TagSeen(r, v) /\ y.tags[v] \in 0..2
    BY <1>5, <1>8, <1>14, <1>17
  <2>2. s # 0 => versions[s].version = v /\ s \in DOMAIN versions
    BY <1>7, SnapshotsAre
  <2>3. s # 0 => DOMAIN versions[s].edges \subseteq VersionNames
    BY <1>7, <2>2, RowIs
  <2>4. ASSUME s # 0, y.tags[v] > 0
        PROVE  versions[s].commit = y.tags[v]
    BY <2>1, <2>4
  <2>5. ASSUME s # 0, y.tags[v] > 0, NEW w \in DOMAIN versions[s].edges, versions[s].edges[w] = Unavailable
        PROVE  y.tags[w] = 0
    <3>1. w \in VersionNames /\ w \in read /\ TagSeen(r, w) = 0
      BY <2>1, <2>3, <2>5
    <3> QED
      BY <3>1, <1>8, <1>14
  <2>6. s > 0 => s # 0
    BY <1>9
  <2>7. s = Unavailable => y.tags[v] = 0
    BY <2>1, <1>7, SnapshotsAre, <1>1 DEF Unavailable
  <2>8. y.tags[v] # Unknown
    BY <2>1 DEF Unknown
  <2> QED
    BY <2>1, <2>2, <2>4, <2>5, <2>6, <2>7, <2>8 DEF RemembersVersion
<1>19. NodesAreClosed(y)
  <2>1. s # Unknown
    BY <1>9 DEF Unknown
  <2> SUFFICES ASSUME NEW u \in VersionNames, IsNode(me, u), NEW w \in Needs(me, u), ~IsNode(me, w), y.memo[w] = Unknown
               PROVE  \E i \in DOMAIN Tail(q) : Tail(q)[i] = w
    BY <1>14, <1>16 DEF NodesAreClosed
  <2>2. w # v
    BY <1>5, <1>17, <2>1
  <2>3. me.memo[w] = Unknown
    BY <2>2, <1>4, <1>14
  <2>4. PICK at \in DOMAIN q : q[at] = w
    BY <1>2, <1>3, <2>3 DEF RunResolves, NodesAreClosed
  <2>5. q[at] # Head(q)
    BY <1>5, <2>2, <2>4
  <2> QED
    BY <1>3, <2>4, <2>5, TailHolds
<1>20. GroupsAreLeft(y)
  BY <1>14 DEF GroupsAreLeft
<1>21. RunResolves(versions, y)
  <2>1. \A u \in VersionNames : RemembersVersion(versions, y, u)
    BY <1>16, <1>17, <1>18
  <2> QED
    BY <2>1, <1>8, <1>14, <1>16, <1>19, <1>20 DEF RunResolves
<1> QED
  BY <1>1, <1>11, <1>13, <1>21, RunSteps

LEMMA AppendHolds ==
  ASSUME NEW S, NEW q \in Seq(S), NEW x \in S, NEW m, m = Append(q, x)
  PROVE  /\ m \in Seq(S) /\ \E i \in DOMAIN m : m[i] = x
         /\ \A i \in DOMAIN q : i \in DOMAIN m /\ m[i] = q[i]
         /\ \A i \in DOMAIN m : (i \in DOMAIN q /\ m[i] = q[i]) \/ m[i] = x
<1>1. Len(m) \in DOMAIN m /\ m[Len(m)] = x /\ m \in Seq(S)
  OBVIOUS
<1>2. /\ \A i \in DOMAIN q : i \in DOMAIN m /\ m[i] = q[i]
      /\ \A i \in DOMAIN m : (i \in DOMAIN q /\ m[i] = q[i]) \/ m[i] = x
  OBVIOUS
<1> QED
  BY <1>1, <1>2

LEMMA ListIs ==
  ASSUME NEW S, NEW c \in Nat, NEW f \in [1..c -> S]
  PROVE  f \in Seq(S) /\ DOMAIN f = 1..c /\ Len(f) = c
OBVIOUS

\* expandVersionedNode of a version to check out.
LEMMA ExpandCollects ==
  ASSUME VersionInv, NEW r \in VersionRuns, resolver[r].pc = "expand", resolver[r].queue # <<>>,
         NEW v, v = Head(resolver[r].queue), NEW read, v \in read,
         NEW commit, commit = TagSeen(r, v), commit # 0,
         resolver' = [resolver EXCEPT ![r].tags = Look(r, read),
                        ![r].nodes = Append(resolver[r].nodes, [version |-> v, commit |-> commit]),
                        ![r].queue = Tail(resolver[r].queue) \o Ascending(Requires[<<v, commit>>])],
         UNCHANGED <<tags, versions>>
  PROVE  VersionInv'
<1> DEFINE R == [version : VersionNames, commit : {1, 2}]
<1>1. PICK n \in Nat : n = Len(versions)
  BY RunIs
<1>2. PICK me \in Resolvers(n) : me = resolver[r] /\ RunResolves(versions, me)
  BY <1>1, RunIs
<1>3. PICK q \in Seq(VersionNames) : q = me.queue /\ q # <<>>
  BY <1>2, ResolverIs
<1>4. PICK ns \in Seq(R) : ns = me.nodes
  BY ResolverIs
<1>5. v = Head(q) /\ v \in VersionNames /\ Tail(q) \in Seq(VersionNames)
  BY <1>2, <1>3, TailIs
<1>6. PICK l : l = Look(r, read)
  OBVIOUS
<1>7. VersionTypes /\ TagsName(tags) /\ TagsName(resolver[r].tags)
  BY <1>2 DEF VersionInv, RunResolves
<1>8. /\ l \in [VersionNames -> -1..2] /\ TagsName(l)
      /\ \A u \in VersionNames : me.tags[u] # Unknown => l[u] = me.tags[u]
      /\ \A u \in VersionNames : TagSeen(r, u) \in 0..2 /\ (u \in read => l[u] = TagSeen(r, u))
      /\ \A u \in VersionNames : TagSeen(r, u) > 0 => <<u, TagSeen(r, u)>> \in DOMAIN Requires
  BY <1>2, <1>6, <1>7, LookIs
<1>9. commit \in {1, 2} /\ l[v] = commit /\ <<v, commit>> \in DOMAIN Requires
  BY <1>5, <1>8
<1>10. PICK as : as = Ascending(Requires[<<v, commit>>])
  OBVIOUS
<1>11. as \in Seq(VersionNames) /\ \A w \in Requires[<<v, commit>>] : \E i \in DOMAIN as : as[i] = w
  <2>1. Requires[<<v, commit>>] \in SUBSET VersionNames
    BY <1>9, VersionConstants
  <2>2. PICK vs \in SUBSET VersionNames : vs = Requires[<<v, commit>>]
    BY <2>1
  <2>3. PICK c \in Nat : c = Cardinality(vs)
    BY AscendingIs
  <2>4. as \in [1..c -> vs] /\ \A w \in vs : \E i \in 1..c : as[i] = w
    BY <1>10, <2>2, <2>3, AscendingIs
  <2>5. as \in [1..c -> VersionNames]
    BY <2>2, <2>4
  <2>6. as \in Seq(VersionNames) /\ DOMAIN as = 1..c
    BY <2>3, <2>5, ListIs
  <2> QED
    BY <2>2, <2>4, <2>6
<1>12. PICK node : node = [version |-> v, commit |-> commit]
  OBVIOUS
<1>13. node \in R /\ node.version = v /\ node.commit = commit
  BY <1>5, <1>9, <1>12
<1>14. PICK more : more = Append(ns, node)
  OBVIOUS
<1>15. /\ more \in Seq(R) /\ \E i \in DOMAIN more : more[i] = node
       /\ \A i \in DOMAIN ns : i \in DOMAIN more /\ more[i] = ns[i]
       /\ \A i \in DOMAIN more : (i \in DOMAIN ns /\ more[i] = ns[i]) \/ more[i] = node
  <2> HIDE DEF R
  <2>1. node \in R /\ ns \in Seq(R) /\ more = Append(ns, node)
    BY <1>13, <1>14
  <2> QED
    BY ONLY <2>1, AppendHolds
<1>16. PICK line : line = Tail(q) \o as
  OBVIOUS
<1>17. /\ line \in Seq(VersionNames)
       /\ \A i \in DOMAIN Tail(q) : \E k \in DOMAIN line : line[k] = Tail(q)[i]
       /\ \A i \in DOMAIN as : \E k \in DOMAIN line : line[k] = as[i]
  <2>1. PICK t \in Seq(VersionNames) : t = Tail(q)
    BY <1>5
  <2>2. PICK p \in Seq(VersionNames) : p = as
    BY <1>11
  <2>3. line = t \o p
    BY <1>16, <2>1, <2>2
  <2>4. /\ line \in Seq(VersionNames)
        /\ \A i \in DOMAIN t : \E k \in DOMAIN line : line[k] = t[i]
        /\ \A i \in DOMAIN p : \E k \in DOMAIN line : line[k] = p[i]
    <3>1. line \in Seq(VersionNames)
      BY ONLY <2>3
    <3>2. ASSUME NEW i \in DOMAIN t
          PROVE  i \in DOMAIN line /\ line[i] = t[i]
      BY ONLY <2>3, i \in DOMAIN t
    <3>3. ASSUME NEW i \in DOMAIN p
          PROVE  Len(t) + i \in DOMAIN line /\ line[Len(t) + i] = p[i]
      BY ONLY <2>3, i \in DOMAIN p
    <3> QED
      BY <3>1, <3>2, <3>3
  <2> QED
    BY <2>1, <2>2, <2>4
<1>18. PICK y : y = [me EXCEPT !.tags = l, !.nodes = more, !.queue = line]
  OBVIOUS
<1>19. resolver' = [resolver EXCEPT ![r] = y]
  <2>1. resolver' = [resolver EXCEPT ![r].tags = l, ![r].nodes = more, ![r].queue = line]
    BY <1>2, <1>3, <1>4, <1>6, <1>10, <1>11, <1>12, <1>13, <1>14, <1>15, <1>16, <1>17
  <2> QED
    BY ONLY <2>1, <1>2, <1>18
<1>20. y \in Resolvers(n)
  BY <1>8, <1>14, <1>15, <1>16, <1>17, <1>18 DEF Resolvers
<1>21. y.pc = "expand" /\ y.queue = line /\ y.nodes = more /\ y.memo = me.memo /\ y.tags = l
  BY <1>2, <1>18, ResolverIs
<1>22. PICK z : z = [me EXCEPT !.tags = l]
  OBVIOUS
<1>23. z.nodes = me.nodes /\ z.memo = me.memo /\ z.tags = l
  BY <1>22, ResolverIs
<1>24. KeepsTags(me, z)
  BY <1>8, <1>23 DEF KeepsTags
<1>25. /\ NodesAreRead(z)
       /\ \A u : IsNode(z, u) <=> IsNode(me, u)
       /\ \A u : IsNode(me, u) => u \in VersionNames /\ me.tags[u] \in {1, 2} /\ Needs(z, u) = Needs(me, u)
       /\ \A u \in VersionNames : z.memo[u] = me.memo[u] => RemembersVersion(versions, z, u)
  <2>1. me \in Resolvers(Len(versions)) /\ z.nodes = me.nodes
    BY <1>1, <1>23
  <2> QED
    BY <1>2, <1>24, <2>1, RunStays, Zenon
<1>26. NodesAreRead(y)
  <2> SUFFICES ASSUME NEW i \in DOMAIN more
               PROVE  more[i].commit = l[more[i].version]
    BY <1>21 DEF NodesAreRead
  <2>1. CASE more[i] = node
    BY <2>1, <1>9, <1>12, <1>13
  <2>2. CASE i \in DOMAIN ns /\ more[i] = ns[i]
    BY <2>2, <1>4, <1>23, <1>25 DEF NodesAreRead
  <2> QED
    BY <2>1, <2>2, <1>14, <1>15
<1>27. \A u : IsNode(y, u) <=> IsNode(me, u) \/ u = v
  <2>1. ASSUME NEW u, IsNode(y, u)
        PROVE  IsNode(me, u) \/ u = v
    <3>1. PICK i \in DOMAIN more : more[i].version = u
      BY <2>1, <1>21 DEF IsNode
    <3> QED
      BY <3>1, <1>4, <1>12, <1>13, <1>14, <1>15 DEF IsNode
  <2>2. ASSUME NEW u, IsNode(me, u) \/ u = v
        PROVE  IsNode(y, u)
    BY <2>2, <1>4, <1>12, <1>13, <1>14, <1>15, <1>21 DEF IsNode
  <2> QED
    BY <2>1, <2>2
<1>28. \A u \in VersionNames : RemembersVersion(versions, y, u)
  BY <1>21, <1>23, <1>25 DEF RemembersVersion
<1>29. Needs(y, v) = Requires[<<v, commit>>] /\ \A u : IsNode(me, u) => Needs(y, u) = Needs(me, u)
  BY <1>9, <1>21, <1>23, <1>25 DEF Needs
<1>30. NodesAreClosed(y)
  <2> SUFFICES ASSUME NEW u \in VersionNames, IsNode(y, u), NEW w \in Needs(y, u), ~IsNode(y, w), me.memo[w] = Unknown
               PROVE  \E i \in DOMAIN line : line[i] = w
    BY <1>21 DEF NodesAreClosed
  <2>1. CASE u = v
    <3>1. PICK i \in DOMAIN as : as[i] = w
      BY <2>1, <1>10, <1>11, <1>29
    <3> QED
      BY <3>1, <1>16, <1>17
  <2>2. CASE IsNode(me, u)
    <3>1. w \in Needs(me, u) /\ ~IsNode(me, w) /\ w # v
      BY <2>2, <1>27, <1>29
    <3>2. PICK at \in DOMAIN q : q[at] = w
      BY <2>2, <3>1, <1>2, <1>3 DEF RunResolves, NodesAreClosed
    <3>3. \E i \in DOMAIN Tail(q) : Tail(q)[i] = w
      BY <1>3, <1>5, <3>1, <3>2, TailHolds
    <3> QED
      BY <3>3, <1>16, <1>17
  <2> QED
    BY <2>1, <2>2, <1>27
<1>31. GroupsAreLeft(y)
  BY <1>21 DEF GroupsAreLeft
<1>32. RunResolves(versions, y)
  BY <1>8, <1>21, <1>26, <1>28, <1>30, <1>31 DEF RunResolves
<1> QED
  BY <1>1, <1>19, <1>20, <1>32, RunSteps

LEMMA ExpandVersionedNodeKeeps ==
  ASSUME VersionInv, NEW r \in VersionRuns, ExpandVersionedNode(r)
  PROVE  VersionInv'
<1> DEFINE v == Head(resolver[r].queue)
           left == Tail(resolver[r].queue)
           stored == StoredVersion(v)
           read == IF stored # 0 /\ versions[stored].settled THEN TagsRead(stored) \cup {v} ELSE {v}
           commit == TagSeen(r, v)
<1>1. resolver[r].pc = "expand" /\ resolver[r].queue # <<>> /\ UNCHANGED <<tags, versions>> /\ VersionTypes
  BY DEF ExpandVersionedNode, VersionInv
<1>2. \/ /\ Node(r, v) \/ resolver[r].memo[v] # Unknown
         /\ resolver' = [resolver EXCEPT ![r].queue = left]
      \/ /\ stored # 0 /\ ~StoredVersionMiss(r, stored)
         /\ resolver' = [resolver EXCEPT ![r].queue = left, ![r].memo[v] = stored, ![r].tags = Look(r, read)]
      \/ /\ commit = 0
         /\ resolver' = [resolver EXCEPT ![r].queue = left, ![r].memo[v] = stored, ![r].tags = Look(r, read)]
      \/ /\ commit # 0
         /\ resolver' = [resolver EXCEPT ![r].tags = Look(r, read),
                           ![r].nodes = Append(resolver[r].nodes, [version |-> v, commit |-> commit]),
                           ![r].queue = left \o Ascending(Requires[<<v, commit>>])]
  BY Zenon DEF ExpandVersionedNode
<1>3. stored = 0 \/ stored \in SnapshotsOf(v)
  BY <1>1, StoredVersionIs
<1>4. v \in read
  OBVIOUS
<1>5. ASSUME stored # 0, ~StoredVersionMiss(r, stored)
      PROVE  /\ TagSeen(r, v) \in {0, versions[stored].commit}
             /\ \A w \in DOMAIN versions[stored].edges : versions[stored].edges[w] = Unavailable => TagSeen(r, w) = 0 /\ w \in read
  <2>1. stored \in DOMAIN versions /\ versions[stored].version = v
    BY <1>1, <1>3, <1>5, SnapshotsAre
  <2>2. stored \in Closure(stored)
    BY <1>1, <2>1, ClosureHolds DEF VersionInv
  <2>3. NodeComplete(r, stored) /\ versions[stored].settled
    BY <1>5, <2>2 DEF StoredVersionMiss, VersionedClosureMiss
  <2>4. read = TagsRead(stored) \cup {v}
    BY <1>5, <2>3
  <2>5. \A w \in DOMAIN versions[stored].edges : versions[stored].edges[w] = Unavailable => w \in TagsRead(stored)
    BY <2>2 DEF TagsRead
  <2> HIDE DEF v, stored, read
  <2> QED
    BY <2>1, <2>3, <2>4, <2>5 DEF NodeComplete
<1> HIDE DEF v, stored, read, commit
<1>6. CASE /\ Node(r, v) \/ resolver[r].memo[v] # Unknown
           /\ resolver' = [resolver EXCEPT ![r].queue = left]
  BY <1>1, <1>6, ExpandSkips DEF v
<1>7. CASE /\ stored # 0 /\ ~StoredVersionMiss(r, stored)
           /\ resolver' = [resolver EXCEPT ![r].queue = left, ![r].memo[v] = stored, ![r].tags = Look(r, read)]
  <2>1. stored \in SnapshotsOf(v)
    BY <1>3, <1>7
  <2> QED
    BY <1>1, <1>4, <1>5, <1>7, <2>1, ExpandRemembers DEF v
<1>8. CASE /\ commit = 0
           /\ resolver' = [resolver EXCEPT ![r].queue = left, ![r].memo[v] = stored, ![r].tags = Look(r, read)]
  <2>1. TagSeen(r, v) = 0
    BY <1>8 DEF commit
  <2> QED
    BY <1>1, <1>3, <1>4, <1>8, <2>1, ExpandRemembers DEF v
<1>9. CASE /\ commit # 0
           /\ resolver' = [resolver EXCEPT ![r].tags = Look(r, read),
                             ![r].nodes = Append(resolver[r].nodes, [version |-> v, commit |-> commit]),
                             ![r].queue = left \o Ascending(Requires[<<v, commit>>])]
  BY <1>1, <1>4, <1>9, ExpandCollects DEF v, commit
<1> QED
  BY <1>2, <1>6, <1>7, <1>8, <1>9

\* What a group's members are resolved to: each to a snapshot of its commit in which no edge lacks
\* a target that a checkout could give.
AreSnapshots(vs, me, ids) ==
  \A v \in DOMAIN ids :
    /\ ids[v] \in Nat /\ ids[v] > 0
    /\ vs[ids[v]].version = v /\ vs[ids[v]].commit = me.tags[v]
    /\ \A w \in DOMAIN vs[ids[v]].edges : vs[ids[v]].edges[w] = Unavailable => me.tags[w] = 0

\* A group whose members were resolved is done with.
LEMMA GroupResolves ==
  ASSUME NEW n \in Nat, NEW me \in Resolvers(n), NEW vs, RunResolves(vs, me),
         me.pc \in {"group", "extract", "publish"}, me.groups # <<>>,
         NEW ids, DOMAIN ids = Head(me.groups), AreSnapshots(vs, me, ids),
         NEW y, y.pc = "group", y.groups = Tail(me.groups), y.nodes = me.nodes, y.tags = me.tags,
         y.memo = [v \in VersionNames |-> IF v \in DOMAIN ids THEN ids[v] ELSE me.memo[v]]
  PROVE  RunResolves(vs, y)
<1>1. PICK gs \in Seq(SUBSET VersionNames) : gs = me.groups /\ gs # <<>>
  BY ResolverIs
<1>2. Head(gs) = gs[1] /\ 1 \in DOMAIN gs /\ Tail(gs) \in Seq(SUBSET VersionNames)
  BY <1>1
<1>3. PICK g \in SUBSET VersionNames : g = Head(gs) /\ g = DOMAIN ids /\ g = gs[1]
  BY <1>1, <1>2
<1>4. GroupsAreLeft(me) /\ NodesAreClosed(me) /\ NodesAreRead(me)
  BY DEF RunResolves
<1>5. PICK more \in Seq(SUBSET VersionNames) : more = Tail(gs)
  BY <1>2
<1>6. \A i \in DOMAIN more : i \in Nat /\ i + 1 \in DOMAIN gs /\ more[i] = gs[i + 1]
  BY <1>1, <1>5
<1>7. \A i \in DOMAIN gs : i = 1 \/ (i - 1 \in DOMAIN more /\ more[i - 1] = gs[i])
  BY <1>1, <1>5
<1> \A v \in DOMAIN ids :
       /\ ids[v] \in Nat /\ ids[v] > 0
       /\ vs[ids[v]].version = v /\ vs[ids[v]].commit = me.tags[v]
       /\ \A w \in DOMAIN vs[ids[v]].edges : vs[ids[v]].edges[w] = Unavailable => me.tags[w] = 0
  BY DEF AreSnapshots
<1>8. \A v \in g : IsNode(me, v)
  BY <1>1, <1>2, <1>3, <1>4 DEF GroupsAreLeft
<1>9. \A v \in VersionNames : y.memo[v] = IF v \in g THEN ids[v] ELSE me.memo[v]
  BY <1>3
<1>10. \A v : (IsNode(y, v) <=> IsNode(me, v)) /\ Needs(y, v) = Needs(me, v)
  BY DEF IsNode, Needs
<1>11. NodesAreRead(y)
  BY <1>4 DEF NodesAreRead
<1>12. \A v \in g : y.memo[v] # Unknown
  <2> TAKE v \in g
  <2>1. y.memo[v] = ids[v] /\ ids[v] \in Nat
    BY <1>3, <1>9
  <2> QED
    BY <2>1 DEF Unknown
<1>13. \A v \in VersionNames : me.memo[v] # Unknown => y.memo[v] # Unknown
  BY <1>9, <1>12
<1>14. NodesAreClosed(y)
  <2> SUFFICES ASSUME NEW v \in VersionNames, IsNode(y, v), NEW w \in Needs(y, v), ~IsNode(y, w)
               PROVE  y.memo[w] # Unknown
    BY Zenon DEF NodesAreClosed
  <2> IsNode(me, v) /\ w \in Needs(me, v) /\ ~IsNode(me, w)
    BY <1>10
  <2>1. me.memo[w] # Unknown
    BY <1>4 DEF NodesAreClosed
  <2>2. w \notin g
    BY <1>8
  <2>3. w \in VersionNames
    <3>1. me.tags[v] \in {1, 2}
      BY <1>4, NodesStay DEF KeepsTags
    <3>2. <<v, me.tags[v]>> \in DOMAIN Requires
      BY <3>1 DEF RunResolves, TagsName
    <3> QED
      BY <3>2, VersionConstants DEF Needs
  <2> QED
    BY <1>13, <2>1, <2>3
<1>15. \A v \in VersionNames : RemembersVersion(vs, y, v)
  <2> TAKE v \in VersionNames
  <2>1. CASE v \notin g
    <3>1. y.memo[v] = me.memo[v] /\ RemembersVersion(vs, me, v)
      BY <2>1, <1>9 DEF RunResolves
    <3> QED
      BY <3>1 DEF RemembersVersion
  <2>2. CASE v \in g
    <3>1. /\ ids[v] \in Nat /\ ids[v] > 0
          /\ vs[ids[v]].version = v /\ vs[ids[v]].commit = me.tags[v]
          /\ \A w \in DOMAIN vs[ids[v]].edges : vs[ids[v]].edges[w] = Unavailable => me.tags[w] = 0
      BY <2>2, <1>3
    <3>2. y.memo[v] = ids[v]
      BY <2>2, <1>9
    <3>3. me.tags[v] \in {1, 2}
      BY <2>2, <1>4, <1>8, NodesStay DEF KeepsTags
    <3>4. me.tags[v] # Unknown /\ ids[v] # Unavailable
      BY <3>1, <3>3 DEF Unknown, Unavailable
    <3> QED
      BY <3>1, <3>2, <3>4 DEF RemembersVersion
  <2> QED
    BY <2>1, <2>2
<1>16. GroupsAreLeft(y)
  <2>1. \A i \in DOMAIN more : more[i] # {} /\ \A v \in more[i] : IsNode(y, v)
    BY <1>1, <1>4, <1>6, <1>10 DEF GroupsAreLeft
  <2>2. \A i \in DOMAIN more : \A v \in more[i] : more[i] = {v} \/ Needs(y, v) \cap more[i] # {}
    BY <1>1, <1>4, <1>6, <1>10 DEF GroupsAreLeft
  <2>3. \A i, j \in DOMAIN more : i < j => \A v \in more[i] : Needs(y, v) \cap more[j] = {}
    <3> TAKE i, j \in DOMAIN more
    <3>1. i < j => i + 1 < j + 1
      BY <1>6
    <3> QED
      BY <3>1, <1>1, <1>4, <1>6, <1>10 DEF GroupsAreLeft
  <2>4. ASSUME NEW v \in VersionNames, IsNode(me, v), y.memo[v] = Unknown
        PROVE  \E i \in DOMAIN more : v \in more[i]
    <3>1. me.memo[v] = Unknown /\ v \notin g
      BY <2>4, <1>12, <1>13
    <3>2. PICK i \in DOMAIN gs : v \in gs[i]
      BY <1>1, <1>4, <2>4, <3>1 DEF GroupsAreLeft
    <3> QED
      BY <1>3, <1>7, <3>1, <3>2
  <2>5. \A v \in VersionNames : IsNode(y, v) => y.memo[v] # Unknown \/ \E i \in DOMAIN more : v \in more[i]
    BY <1>10, <2>4
  <2>6. y.groups = more /\ y.pc \notin {"extract", "publish"}
    BY <1>1, <1>5
  <2> QED
    BY <2>1, <2>2, <2>3, <2>5, <2>6 DEF GroupsAreLeft
<1> QED
  BY <1>11, <1>14, <1>15, <1>16 DEF RunResolves

\* Snapshots that are added, and snapshots that are pruned, leave what runs remember.
LEMMA RowsStay ==
  ASSUME VersionTypes, NEW me \in Resolvers(Len(versions)), RunResolves(versions, me), NEW vs,
         \A s \in DOMAIN versions : /\ vs[s].version = versions[s].version /\ vs[s].commit = versions[s].commit
                                    /\ vs[s].edges = versions[s].edges
  PROVE  RunResolves(vs, me)
<1>1. PICK n \in Nat : n = Len(versions) /\ DOMAIN versions = 1..n
  BY DEF VersionTypes
<1>2. PICK m \in [VersionNames -> -1..n] : m = me.memo
  BY <1>1, ResolverIs
<1>3. ASSUME NEW v \in VersionNames
      PROVE  RemembersVersion(vs, me, v)
  <2>1. m[v] > 0 => m[v] \in DOMAIN versions
    BY <1>1
  <2>2. RemembersVersion(versions, me, v)
    BY DEF RunResolves
  <2> QED
    BY <1>2, <2>1, <2>2 DEF RemembersVersion
<1> QED
  BY <1>3 DEF RunResolves

\* What Remember makes of a run.
Remembered(me, ids) == [v \in VersionNames |-> IF v \in DOMAIN ids THEN ids[v] ELSE me.memo[v]]
HasRemembered(y, me, ids) ==
  /\ y.pc = "group" /\ y.groups = Tail(me.groups) /\ y.nodes = me.nodes /\ y.tags = me.tags
  /\ y.memo = Remembered(me, ids)

LEMMA RememberIs ==
  ASSUME VersionInv, NEW r \in VersionRuns, resolver[r].groups # <<>>, NEW ids, Remember(r, ids),
         NEW k \in Nat, NEW ms, ms = [VersionNames -> -1..k], Remembered(resolver[r], ids) \in ms
  PROVE  \E y \in Resolvers(k) :
           resolver' = [resolver EXCEPT ![r] = y] /\ HasRemembered(y, resolver[r], ids)
<1>1. PICK n \in Nat : n = Len(versions)
  BY RunIs
<1>2. PICK me \in Resolvers(n) : me = resolver[r]
  BY <1>1, RunIs
<1>3. PICK gs \in Seq(SUBSET VersionNames) : gs = Tail(me.groups)
  <2>1. PICK all \in Seq(SUBSET VersionNames) : all = me.groups /\ all # <<>>
    BY <1>2, ResolverIs
  <2> QED
    BY <2>1, TailIs
<1>4. PICK m \in [VersionNames -> -1..k] : m = [v \in VersionNames |-> IF v \in DOMAIN ids THEN ids[v] ELSE me.memo[v]]
  BY <1>2 DEF Remembered
<1>5. resolver' = [resolver EXCEPT ![r].groups = gs, ![r].pc = "group", ![r].ids = <<>>, ![r].settled = <<>>, ![r].memo = m]
  BY <1>2, <1>3, <1>4, Zenon DEF Remember
<1>6. PICK y : y = [me EXCEPT !.groups = gs, !.pc = "group", !.ids = <<>>, !.settled = <<>>, !.memo = m]
  OBVIOUS
<1>7. resolver' = [resolver EXCEPT ![r] = y]
  BY ONLY <1>2, <1>5, <1>6
<1>8. <<>> \in UNION {[vs -> BOOLEAN] : vs \in SUBSET VersionNames}
  <2>1. <<>> \in [{} -> BOOLEAN]
    OBVIOUS
  <2> QED
    BY <2>1
<1>9. /\ y.pc = "group" /\ y.groups = gs /\ y.nodes = me.nodes /\ y.tags = me.tags /\ y.memo = m
      /\ y.ids = <<>> /\ y.settled = <<>> /\ y.queue = me.queue
      /\ y = [pc |-> y.pc, queue |-> y.queue, nodes |-> y.nodes, groups |-> y.groups, ids |-> y.ids,
              settled |-> y.settled, memo |-> y.memo, tags |-> y.tags]
  BY <1>6 DEF Resolvers
<1>10. y \in Resolvers(k)
  <2>1. /\ me.queue \in Seq(VersionNames) /\ me.nodes \in Seq([version : VersionNames, commit : {1, 2}])
        /\ me.tags \in [VersionNames -> -1..2]
    BY ResolverIs
  <2>2. PICK F : F = UNION {[vs -> BOOLEAN] : vs \in SUBSET VersionNames}
    OBVIOUS
  <2>3. <<>> \in F
    BY <1>8, <2>2
  <2> QED
    BY <1>9, <2>1, <2>2, <2>3 DEF Resolvers, ResolverPlaces
<1> QED
  BY <1>2, <1>3, <1>4, <1>7, <1>9, <1>10 DEF HasRemembered, Remembered

\* A run remembers stored snapshots of a group's members.
LEMMA RememberKeeps ==
  ASSUME VersionInv, NEW r \in VersionRuns, UNCHANGED <<tags, versions>>,
         resolver[r].pc \in {"group", "extract", "publish"}, resolver[r].groups # <<>>,
         NEW ids, DOMAIN ids = Group(r), Remember(r, ids),
         \A v \in DOMAIN ids :
           /\ ids[v] \in SnapshotsOf(v) /\ versions[ids[v]].commit = resolver[r].tags[v]
           /\ \A w \in DOMAIN versions[ids[v]].edges :
                versions[ids[v]].edges[w] = Unavailable => resolver[r].tags[w] = 0
  PROVE  VersionInv'
<1>1. PICK n \in Nat : n = Len(versions) /\ DOMAIN versions = 1..n
  BY RunIs
<1>2. PICK me \in Resolvers(n) : me = resolver[r] /\ RunResolves(versions, me)
  BY <1>1, RunIs
<1>3. \A v \in DOMAIN ids : ids[v] \in 1..n /\ versions[ids[v]].version = v
  BY <1>1, SnapshotsAre DEF VersionInv
<1>4. \A v \in VersionNames : me.memo[v] \in -1..n
  BY ResolverIs
<1>5. \A v \in DOMAIN ids : ids[v] \in -1..n
  BY <1>3
<1>6. PICK y \in Resolvers(n) :
           /\ resolver' = [resolver EXCEPT ![r] = y]
           /\ y.pc = "group" /\ y.groups = Tail(me.groups)
           /\ y.nodes = me.nodes /\ y.tags = me.tags
           /\ y.memo = [v \in VersionNames |-> IF v \in DOMAIN ids THEN ids[v] ELSE me.memo[v]]
  <2>1. PICK ms : ms = [VersionNames -> -1..n]
    OBVIOUS
  <2>2. Remembered(resolver[r], ids) \in ms
    BY <2>1, <1>2, <1>4, <1>5 DEF Remembered
  <2>3. PICK y \in Resolvers(n) : resolver' = [resolver EXCEPT ![r] = y] /\ HasRemembered(y, resolver[r], ids)
    BY <2>1, <2>2, RememberIs
  <2> QED
    BY <1>2, <2>3 DEF HasRemembered, Remembered
<1>7. /\ me.pc \in {"group", "extract", "publish"} /\ me.groups # <<>> /\ DOMAIN ids = Head(me.groups)
      /\ AreSnapshots(versions, me, ids)
  BY <1>2, <1>3 DEF Group, AreSnapshots
<1>8. RunResolves(versions, y)
  BY <1>2, <1>6, <1>7, GroupResolves
<1> QED
  BY <1>1, <1>6, <1>8, RunSteps

\* A run that goes on to another place of the same group.
LEMMA MovesOn ==
  ASSUME VersionInv, NEW r \in VersionRuns, UNCHANGED <<tags, versions>>,
         resolver[r].pc \in {"group", "extract"}, resolver[r].groups # <<>>,
         NEW y, y \in Resolvers(Len(versions)), resolver' = [resolver EXCEPT ![r] = y],
         y.pc \in {"extract", "publish"}, y.pc = "publish" => DOMAIN y.settled = Head(resolver[r].groups),
         y.groups = resolver[r].groups, y.nodes = resolver[r].nodes, y.memo = resolver[r].memo, y.tags = resolver[r].tags
  PROVE  VersionInv'
<1>1. PICK n \in Nat : n = Len(versions)
  BY RunIs
<1>2. PICK me \in Resolvers(n) : me = resolver[r] /\ RunResolves(versions, me)
  BY <1>1, RunIs
<1>3. KeepsTags(me, y)
  BY <1>2 DEF KeepsTags
<1>4. /\ NodesAreRead(y)
      /\ \A v : IsNode(y, v) <=> IsNode(me, v)
      /\ \A v : IsNode(me, v) => v \in VersionNames /\ me.tags[v] \in {1, 2} /\ Needs(y, v) = Needs(me, v)
      /\ \A v \in VersionNames : y.memo[v] = me.memo[v] => RemembersVersion(versions, y, v)
  <2>1. me \in Resolvers(Len(versions)) /\ y.nodes = me.nodes
    BY <1>1, <1>2
  <2> QED
    BY <1>2, <1>3, <2>1, RunStays, Zenon
<1>5. \A v : Needs(y, v) = Needs(me, v)
  BY <1>2 DEF Needs
<1>6. NodesAreClosed(y)
  BY <1>2, <1>4, <1>5 DEF RunResolves, NodesAreClosed
<1>7. GroupsAreLeft(y)
  BY <1>2, <1>4, <1>5 DEF RunResolves, GroupsAreLeft
<1>8. RunResolves(versions, y)
  BY <1>2, <1>4, <1>6, <1>7 DEF RunResolves
<1> QED
  BY <1>8, RunSteps

\* What is known of the group a run is at: its members are collected versions, and what they
\* require is in the group or was resolved.
LEMMA GroupIs ==
  ASSUME VersionInv, NEW r \in VersionRuns, resolver[r].pc \in {"group", "extract", "publish"}, resolver[r].groups # <<>>
  PROVE  /\ Group(r) \in SUBSET VersionNames /\ Group(r) # {}
         /\ \A v \in Group(r) :
              /\ CommitOf(r, v) = resolver[r].tags[v] /\ CommitOf(r, v) \in {1, 2}
              /\ <<v, CommitOf(r, v)>> \in DOMAIN Requires /\ RequiresOf(r, v) \subseteq VersionNames
              /\ \A w \in RequiresOf(r, v) : w \in Group(r) \/ resolver[r].memo[w] # Unknown
         /\ ~Cyclic(r) => \A v \in Group(r) : Group(r) = {v} /\ RequiresOf(r, v) \cap Group(r) = {}
<1>1. PICK n \in Nat : n = Len(versions)
  BY RunIs
<1>2. PICK me \in Resolvers(n) : me = resolver[r] /\ RunResolves(versions, me)
  BY <1>1, RunIs
<1>3. PICK gs \in Seq(SUBSET VersionNames) : gs = me.groups /\ gs # <<>>
  BY <1>2, ResolverIs
<1>4. Head(gs) = gs[1] /\ 1 \in DOMAIN gs /\ Head(gs) \in SUBSET VersionNames
  BY <1>3
<1>5. PICK g \in SUBSET VersionNames : g = Group(r) /\ g = gs[1]
  BY <1>2, <1>3, <1>4 DEF Group
<1>6. GroupsAreLeft(me) /\ NodesAreClosed(me) /\ me.pc \in {"group", "extract", "publish"}
  BY <1>2 DEF RunResolves
<1>7. \A v \in g : IsNode(me, v)
  BY <1>3, <1>4, <1>5, <1>6 DEF GroupsAreLeft
<1>8. ASSUME NEW v, IsNode(me, v)
      PROVE  /\ v \in VersionNames /\ CommitOf(r, v) = me.tags[v] /\ CommitOf(r, v) \in {1, 2}
             /\ <<v, CommitOf(r, v)>> \in DOMAIN Requires
             /\ RequiresOf(r, v) = Needs(me, v) /\ Needs(me, v) \subseteq VersionNames
  <2>1. Node(r, v)
    BY <1>2, <1>8 DEF Node, IsNode
  <2>2. VersionTypes /\ NodesAreRead(resolver[r]) /\ TagsName(resolver[r].tags)
    BY <1>2 DEF VersionInv, RunResolves
  <2> QED
    BY <1>2, <2>1, <2>2, NodeIs
<1>9. ASSUME NEW v \in g, NEW w \in Needs(me, v)
      PROVE  w \in g \/ me.memo[w] # Unknown
  <2> SUFFICES ASSUME w \notin g, me.memo[w] = Unknown
               PROVE  FALSE
    OBVIOUS
  <2>1. v \in VersionNames /\ IsNode(me, v) /\ w \in VersionNames
    BY <1>7, <1>8
  <2>2. IsNode(me, w)
    BY <1>6, <2>1 DEF NodesAreClosed
  <2>3. PICK i \in DOMAIN gs : w \in gs[i]
    BY <1>3, <1>6, <2>1, <2>2 DEF GroupsAreLeft
  <2>4. i # 1 /\ i \in Nat /\ i > 1
    BY <1>5, <2>3
  <2>5. Needs(me, v) \cap gs[i] = {}
    BY <1>3, <1>4, <1>5, <1>6, <2>4 DEF GroupsAreLeft
  <2> QED
    BY <2>3, <2>5
<1>10. ASSUME ~Cyclic(r), NEW v \in g
       PROVE  g = {v} /\ RequiresOf(r, v) \cap g = {}
  <2>1. RequiresOf(r, v) = Needs(me, v)
    BY <1>7, <1>8
  <2>2. RequiresOf(r, v) \cap g = {}
    BY <1>5, <1>10 DEF Cyclic
  <2>3. g = {v} \/ Needs(me, v) \cap g # {}
    BY <1>3, <1>4, <1>5, <1>6 DEF GroupsAreLeft
  <2> QED
    BY <2>1, <2>2, <2>3
<1>11. g # {}
  BY <1>3, <1>4, <1>5, <1>6 DEF GroupsAreLeft
<1>12. \A v \in g : /\ CommitOf(r, v) = me.tags[v] /\ CommitOf(r, v) \in {1, 2}
                    /\ <<v, CommitOf(r, v)>> \in DOMAIN Requires /\ RequiresOf(r, v) \subseteq VersionNames
                    /\ \A w \in RequiresOf(r, v) : w \in g \/ me.memo[w] # Unknown
  BY <1>7, <1>8, <1>9
<1> QED
  BY <1>2, <1>5, <1>10, <1>11, <1>12

\* What a run remembers of a version it resolved.
LEMMA MemoIs ==
  ASSUME VersionInv, NEW r \in VersionRuns, NEW w \in VersionNames, resolver[r].memo[w] # Unknown
  PROVE  /\ resolver[r].memo[w] \in Nat
         /\ resolver[r].memo[w] = Unavailable => resolver[r].tags[w] = 0
         /\ resolver[r].memo[w] # Unavailable =>
              resolver[r].memo[w] \in DOMAIN versions /\ versions[resolver[r].memo[w]].version = w
<1>1. PICK n \in Nat : n = Len(versions) /\ DOMAIN versions = 1..n
  BY RunIs
<1>2. PICK me \in Resolvers(n) : me = resolver[r] /\ RunResolves(versions, me)
  BY <1>1, RunIs
<1>3. PICK k \in -1..n : k = me.memo[w]
  BY ResolverIs
<1>4. RemembersVersion(versions, me, w)
  BY <1>2 DEF RunResolves
<1>5. k # -1 /\ k \in Nat /\ (k # 0 => k > 0 /\ k \in 1..n)
  BY <1>2, <1>3 DEF Unknown
<1> QED
  BY <1>1, <1>2, <1>3, <1>4, <1>5 DEF RemembersVersion, Unavailable

\* storedRevision found one for a version in no cycle.
LEMMA SingleRemembered ==
  ASSUME VersionInv, NEW r \in VersionRuns, UNCHANGED <<tags, versions>>,
         resolver[r].pc \in {"group", "extract", "publish"}, resolver[r].groups # <<>>, ~Cyclic(r),
         NEW v \in Group(r), NEW s \in SnapshotsOf(v), versions[s].commit = CommitOf(r, v),
         versions[s].edges = Edges(r, v, <<>>), Remember(r, [w \in {v} |-> s])
  PROVE  VersionInv'
<1>1. PICK ids : ids = [w \in {v} |-> s]
  OBVIOUS
<1>2. DOMAIN ids = {v} /\ ids[v] = s
  BY <1>1
<1>3. /\ CommitOf(r, v) = resolver[r].tags[v] /\ Group(r) = {v} /\ RequiresOf(r, v) \cap Group(r) = {}
      /\ RequiresOf(r, v) \subseteq VersionNames
      /\ \A w \in RequiresOf(r, v) : w \in Group(r) \/ resolver[r].memo[w] # Unknown
  BY GroupIs
<1>4. ASSUME NEW w \in DOMAIN versions[s].edges, versions[s].edges[w] = Unavailable
      PROVE  resolver[r].tags[w] = 0
  <2>1. w \in RequiresOf(r, v) /\ w \notin Group(r) /\ versions[s].edges[w] = resolver[r].memo[w]
    BY <1>3, <1>4 DEF Edges
  <2>2. w \in VersionNames /\ resolver[r].memo[w] # Unknown
    BY <1>3, <2>1
  <2> QED
    BY <1>4, <2>1, <2>2, MemoIs
<1>5. \A x \in DOMAIN ids :
        /\ ids[x] \in SnapshotsOf(x) /\ versions[ids[x]].commit = resolver[r].tags[x]
        /\ \A w \in DOMAIN versions[ids[x]].edges :
             versions[ids[x]].edges[w] = Unavailable => resolver[r].tags[w] = 0
  BY <1>2, <1>3, <1>4
<1>6. DOMAIN ids = Group(r) /\ Remember(r, ids)
  BY <1>1, <1>2, <1>3
<1> QED
  BY <1>5, <1>6, RememberKeeps

LEMMA ExtractsNext ==
  ASSUME VersionInv, NEW r \in VersionRuns, UNCHANGED <<tags, versions>>, resolver[r].pc = "group",
         resolver[r].groups # <<>>, resolver' = [resolver EXCEPT ![r].pc = "extract"]
  PROVE  VersionInv'
<1>1. PICK n \in Nat : n = Len(versions)
  BY RunIs
<1>2. PICK me \in Resolvers(n) : me = resolver[r]
  BY <1>1, RunIs
<1>3. PICK y : y = [me EXCEPT !.pc = "extract"]
  OBVIOUS
<1>4. resolver' = [resolver EXCEPT ![r] = y]
  BY <1>2, <1>3
<1>5. y \in Resolvers(n)
  BY <1>3 DEF Resolvers, ResolverPlaces
<1>6. y.pc = "extract" /\ y.groups = me.groups /\ y.nodes = me.nodes /\ y.memo = me.memo /\ y.tags = me.tags
  BY <1>3, ResolverIs
<1> QED
  BY <1>1, <1>2, <1>4, <1>5, <1>6, MovesOn

LEMMA ReuseRevisionKeeps ==
  ASSUME VersionInv, NEW r \in VersionRuns, ReuseRevision(r)
  PROVE  VersionInv'
<1>1. /\ resolver[r].pc = "group" /\ resolver[r].groups # <<>> /\ ~Cyclic(r) /\ UNCHANGED <<tags, versions>>
  BY DEF ReuseRevision
<1> DEFINE v == CHOOSE w \in Group(r) : TRUE
           edges == Edges(r, v, <<>>)
           S == SettledIn(r, v, edges)
<1>2. IF S # {} THEN Remember(r, [w \in {v} |-> Max(S)]) ELSE resolver' = [resolver EXCEPT ![r].pc = "extract"]
  BY Zenon DEF ReuseRevision
<1>3. v \in Group(r)
  BY <1>1, GroupIs
<1>4. S = SettledIn(r, v, Edges(r, v, <<>>))
  OBVIOUS
<1> HIDE DEF S, v
<1>5. \/ S # {} /\ Remember(r, [w \in {v} |-> Max(S)])
      \/ resolver' = [resolver EXCEPT ![r].pc = "extract"]
  BY <1>2
<1>6. ASSUME S # {}
      PROVE  Max(S) \in S
  <2>1. PICK n \in Nat : n = Len(versions) /\ DOMAIN versions = 1..n
    BY RunIs
  <2>2. S \in SUBSET (1..n)
    BY <1>4, <2>1 DEF SettledIn, SnapshotsOf, Stored
  <2> QED
    BY <1>6, <2>2, NewestOf
<1>7. \A s \in S : s \in SnapshotsOf(v) /\ versions[s].commit = CommitOf(r, v) /\ versions[s].edges = Edges(r, v, <<>>)
  BY <1>4 DEF SettledIn
<1>8. CASE S # {} /\ Remember(r, [w \in {v} |-> Max(S)])
  <2>1. Max(S) \in SnapshotsOf(v) /\ versions[Max(S)].commit = CommitOf(r, v) /\ versions[Max(S)].edges = Edges(r, v, <<>>)
    BY <1>6, <1>7, <1>8
  <2> QED
    BY <1>1, <1>3, <1>8, <2>1, SingleRemembered
<1>9. CASE resolver' = [resolver EXCEPT ![r].pc = "extract"]
  BY <1>1, <1>9, ExtractsNext
<1> QED
  BY <1>5, <1>8, <1>9

LEMMA ReuseVersionedGraphKeeps ==
  ASSUME VersionInv, NEW r \in VersionRuns, NEW x \in Extractions(r), ReuseVersionedGraph(r, x)
  PROVE  VersionInv'
<1> DEFINE ids == [v \in Group(r) |-> StoredVersion(v)]
           same == \A v \in Group(r) : /\ ids[v] # 0
                      /\ versions[ids[v]].commit = CommitOf(r, v)
                      /\ versions[ids[v]].edges = Edges(r, v, ids)
                      /\ versions[ids[v]].settled = x[v]
<1>1. /\ resolver[r].pc = "group" /\ resolver[r].groups # <<>> /\ UNCHANGED <<tags, versions>>
  BY DEF ReuseVersionedGraph
<1>2. IF same THEN Remember(r, ids) ELSE resolver' = [resolver EXCEPT ![r].pc = "extract"]
  BY Zenon DEF ReuseVersionedGraph
<1>3. DOMAIN ids = Group(r) /\ \A v \in Group(r) : ids[v] = StoredVersion(v)
  OBVIOUS
<1>4. ASSUME same, NEW v \in Group(r)
      PROVE  ids[v] # 0 /\ versions[ids[v]].commit = CommitOf(r, v) /\ versions[ids[v]].edges = Edges(r, v, ids)
  BY <1>4
<1> HIDE DEF ids
<1>5. CASE same /\ Remember(r, ids)
  <2>1. ASSUME NEW v \in DOMAIN ids
        PROVE  /\ ids[v] \in SnapshotsOf(v) /\ versions[ids[v]].commit = resolver[r].tags[v]
               /\ \A w \in DOMAIN versions[ids[v]].edges :
                    versions[ids[v]].edges[w] = Unavailable => resolver[r].tags[w] = 0
    <3>1. v \in Group(r) /\ ids[v] # 0 /\ versions[ids[v]].commit = CommitOf(r, v) /\ versions[ids[v]].edges = Edges(r, v, ids)
      BY <1>3, <1>4, <1>5, <2>1
    <3>2. ids[v] \in SnapshotsOf(v)
      BY <1>3, <3>1, StoredVersionIs DEF VersionInv
    <3>3. /\ CommitOf(r, v) = resolver[r].tags[v] /\ RequiresOf(r, v) \subseteq VersionNames
          /\ \A w \in RequiresOf(r, v) : w \in Group(r) \/ resolver[r].memo[w] # Unknown
      BY <1>1, <3>1, GroupIs
    <3>4. ASSUME NEW w \in DOMAIN versions[ids[v]].edges, versions[ids[v]].edges[w] = Unavailable
          PROVE  resolver[r].tags[w] = 0
      <4>1. w \in RequiresOf(r, v) /\ versions[ids[v]].edges[w] = IF w \in Group(r) THEN ids[w] ELSE resolver[r].memo[w]
        BY <3>1, <3>4 DEF Edges
      <4>2. w \notin Group(r)
        BY <1>4, <1>5, <3>4, <4>1 DEF Unavailable
      <4>3. w \in VersionNames /\ resolver[r].memo[w] # Unknown /\ resolver[r].memo[w] = Unavailable
        BY <3>3, <3>4, <4>1, <4>2
      <4> QED
        BY <4>3, MemoIs
    <3> QED
      BY <3>1, <3>2, <3>3, <3>4
  <2> HIDE DEF same
  <2> QED
    BY <1>1, <1>3, <1>5, <2>1, RememberKeeps
<1>6. CASE resolver' = [resolver EXCEPT ![r].pc = "extract"]
  BY <1>1, <1>6, ExtractsNext
<1> HIDE DEF same
<1> QED
  BY <1>2, <1>5, <1>6

LEMMA ExtractVersionKeeps ==
  ASSUME VersionInv, NEW r \in VersionRuns, NEW x \in Extractions(r), resolver[r].groups # <<>>, ExtractVersion(r, x)
  PROVE  VersionInv'
<1> DEFINE v == CHOOSE w \in Group(r) : TRUE
           S == {s \in SnapshotsOf(v) : /\ versions[s].commit = CommitOf(r, v) /\ versions[s].edges = Edges(r, v, <<>>)
                                        /\ versions[s].settled = x[v]}
<1>1. resolver[r].pc = "extract" /\ UNCHANGED <<tags, versions>>
  BY DEF ExtractVersion
<1>2. IF ~Cyclic(r) /\ S # {}
      THEN Remember(r, [w \in {v} |-> Max(S)])
      ELSE resolver' = [resolver EXCEPT ![r].pc = "publish", ![r].settled = x]
  BY Zenon DEF ExtractVersion
<1>3. v \in Group(r)
  BY <1>1, GroupIs
<1>4. \A s \in S : s \in SnapshotsOf(v) /\ versions[s].commit = CommitOf(r, v) /\ versions[s].edges = Edges(r, v, <<>>)
  OBVIOUS
<1> HIDE DEF S, v
<1>5. ASSUME S # {}
      PROVE  Max(S) \in S
  <2>1. PICK n \in Nat : n = Len(versions) /\ DOMAIN versions = 1..n
    BY RunIs
  <2>2. S \in SUBSET (1..n)
    BY <1>4, <2>1 DEF SnapshotsOf, Stored
  <2> QED
    BY <1>5, <2>2, NewestOf
<1>6. CASE ~Cyclic(r) /\ S # {} /\ Remember(r, [w \in {v} |-> Max(S)])
  <2>1. Max(S) \in SnapshotsOf(v) /\ versions[Max(S)].commit = CommitOf(r, v) /\ versions[Max(S)].edges = Edges(r, v, <<>>)
    BY <1>4, <1>5, <1>6
  <2> QED
    BY <1>1, <1>3, <1>6, <2>1, SingleRemembered
<1>7. CASE resolver' = [resolver EXCEPT ![r].pc = "publish", ![r].settled = x]
  <2>1. PICK n \in Nat : n = Len(versions)
    BY RunIs
  <2>2. PICK me \in Resolvers(n) : me = resolver[r]
    BY <2>1, RunIs
  <2>3. PICK y : y = [me EXCEPT !.pc = "publish", !.settled = x]
    OBVIOUS
  <2>4. resolver' = [resolver EXCEPT ![r] = y]
    BY <1>7, <2>2, <2>3
  <2>5. Group(r) \in SUBSET VersionNames
    BY <1>1, GroupIs
  <2>6. x \in [Group(r) -> BOOLEAN]
    BY DEF Extractions
  <2>7. PICK F : F = UNION {[vs -> BOOLEAN] : vs \in SUBSET VersionNames}
    OBVIOUS
  <2>8. x \in F
    BY <2>5, <2>6, <2>7
  <2>9. y \in Resolvers(n)
    BY <2>3, <2>7, <2>8 DEF Resolvers, ResolverPlaces
  <2>10. /\ y.pc = "publish" /\ y.groups = me.groups /\ y.nodes = me.nodes /\ y.memo = me.memo /\ y.tags = me.tags
         /\ y.settled = x
    BY <2>3, ResolverIs
  <2>11. DOMAIN y.settled = Head(resolver[r].groups)
    BY <2>6, <2>10 DEF Group
  <2> QED
    BY <1>1, <2>1, <2>2, <2>4, <2>9, <2>10, <2>11, MovesOn
<1> QED
  BY <1>2, <1>6, <1>7

LEMMA RetagKeeps ==
  ASSUME VersionInv, NEW v \in VersionNames, Retag(v)
  PROVE  VersionInv'
<1>1. PICK c \in 0..2 : (c = 0 \/ <<v, c>> \in DOMAIN Requires) /\ tags' = [tags EXCEPT ![v] = c]
  BY DEF Retag
<1>2. UNCHANGED <<versions, resolver>>
  BY DEF Retag
<1>3. PICK t \in [VersionNames -> 0..2] : t = tags
  BY DEF VersionInv, VersionTypes
<1>4. PICK u : u = tags' /\ u = [t EXCEPT ![v] = c]
  BY <1>1, <1>3
<1>5. u \in [VersionNames -> 0..2] /\ TagsName(u)
  <2>1. TagsName(t)
    BY <1>3 DEF VersionInv
  <2>2. \A w \in VersionNames : u[w] = IF w = v THEN c ELSE t[w]
    BY <1>3, <1>4
  <2>3. c > 0 => c # 0
    BY <1>1
  <2> QED
    BY <1>1, <1>3, <1>4, <2>1, <2>2, <2>3 DEF TagsName
<1>6. VersionTypes'
  BY <1>2, <1>4, <1>5 DEF VersionInv, VersionTypes
<1> QED
  BY <1>2, <1>4, <1>5, <1>6 DEF VersionInv

\* Pruning takes no snapshot that one it keeps links to, so what is stored links what is stored.
LEMMA PruneVersionsKeeps ==
  ASSUME VersionInv, NEW gone \in SUBSET Stored, PruneVersions(gone)
  PROVE  VersionInv'
<1>1. PICK n \in Nat : n = Len(versions) /\ DOMAIN versions = 1..n
  BY DEF VersionInv, VersionTypes
<1>2. PICK vs : vs = versions'
  OBVIOUS
<1>3. vs = [s \in DOMAIN versions |-> IF s \in gone THEN [versions[s] EXCEPT !.kept = FALSE] ELSE versions[s]]
  BY <1>2 DEF PruneVersions
<1>4. UNCHANGED <<tags, resolver>> /\ \A s \in Stored \ gone : Range(versions[s].edges) \cap gone = {}
  BY DEF PruneVersions
<1>5. \A s \in 1..n : versions[s] \in VersionRows
  BY <1>1, RowIs DEF VersionInv
<1>6. ASSUME NEW s \in 1..n
      PROVE  /\ vs[s] \in VersionRows /\ vs[s].version = versions[s].version
             /\ vs[s].commit = versions[s].commit /\ vs[s].edges = versions[s].edges
             /\ vs[s].kept <=> s \notin gone /\ versions[s].kept
  <2>1. PICK row \in VersionRows : row = versions[s]
    BY <1>5
  <2>2. vs[s] = IF s \in gone THEN [row EXCEPT !.kept = FALSE] ELSE row
    BY <1>1, <1>3, <2>1
  <2>3. PICK k \in BOOLEAN : k = row.kept
    BY <2>1 DEF VersionRows
  <2>4. CASE s \in gone
    <3>1. PICK old : old = [row EXCEPT !.kept = FALSE]
      OBVIOUS
    <3>2. /\ old \in VersionRows /\ old.version = row.version /\ old.commit = row.commit /\ old.edges = row.edges
          /\ old.kept = FALSE
      BY <3>1 DEF VersionRows
    <3> QED
      BY <2>1, <2>2, <2>4, <3>1, <3>2
  <2>5. CASE s \notin gone
    BY <2>1, <2>2, <2>3, <2>5
  <2> QED
    BY <2>4, <2>5
<1>7. vs = [s \in 1..n |-> vs[s]]
  BY <1>1, <1>3
<1>8. DOMAIN vs = 1..n /\ vs \in Seq(VersionRows) /\ Len(vs) = n
  <2>1. vs \in [1..n -> VersionRows]
    BY <1>6, <1>7
  <2> QED
    BY <2>1, ListIs
<1>9. VersionTypes'
  BY <1>1, <1>2, <1>4, <1>8 DEF VersionInv, VersionTypes
<1>10. ASSUME NEW s \in 1..n
       PROVE  RowLinks(vs, s)
  <2>1. RowLinks(versions, s)
    BY <1>1 DEF VersionInv
  <2>2. ASSUME NEW w \in DOMAIN vs[s].edges, vs[s].edges[w] # Unavailable
        PROVE  /\ vs[s].edges[w] \in DOMAIN vs /\ vs[vs[s].edges[w]].version = w
               /\ vs[s].kept => vs[vs[s].edges[w]].kept
    <3>1. vs[s].edges = versions[s].edges
      BY <1>6
    <3>2. PICK t : t = versions[s].edges[w]
      OBVIOUS
    <3>3. t \in 1..n /\ versions[t].version = w /\ (versions[s].kept => versions[t].kept)
      BY <1>1, <2>1, <2>2, <3>1, <3>2 DEF RowLinks
    <3>4. ASSUME vs[s].kept
          PROVE  t \notin gone
      <4>1. s \in Stored \ gone
        BY <1>1, <1>6, <3>4 DEF Stored
      <4>2. t \in Range(versions[s].edges)
        BY <2>2, <3>1, <3>2 DEF Range
      <4> QED
        BY <1>4, <4>1, <4>2
    <3> QED
      BY <1>6, <1>8, <3>1, <3>2, <3>3, <3>4
  <2>3. <<vs[s].version, vs[s].commit>> \in DOMAIN Requires /\ DOMAIN vs[s].edges = Requires[<<vs[s].version, vs[s].commit>>]
    BY <1>6, <2>1 DEF RowLinks
  <2> QED
    BY <2>2, <2>3 DEF RowLinks
<1>11. ASSUME NEW r \in VersionRuns
       PROVE  RunResolves(vs, resolver[r])
  <2>1. resolver[r] \in Resolvers(Len(versions)) /\ RunResolves(versions, resolver[r]) /\ VersionTypes
    BY RunIs DEF VersionInv
  <2>2. \A s \in DOMAIN versions : /\ vs[s].version = versions[s].version /\ vs[s].commit = versions[s].commit
                                   /\ vs[s].edges = versions[s].edges
    BY <1>1, <1>6
  <2> QED
    BY <2>1, <2>2, RowsStay
<1> QED
  BY <1>2, <1>4, <1>8, <1>9, <1>10, <1>11 DEF VersionInv

LEMMA FailedKeeps ==
  ASSUME VersionInv, NEW r \in VersionRuns, resolver[r].pc = "publish", UNCHANGED <<tags, versions>>,
         resolver' = [resolver EXCEPT ![r].pc = "failed"]
  PROVE  VersionInv'
<1>1. PICK n \in Nat : n = Len(versions)
  BY RunIs
<1>2. PICK me \in Resolvers(n) : me = resolver[r] /\ RunResolves(versions, me)
  BY <1>1, RunIs
<1>3. PICK y : y = [me EXCEPT !.pc = "failed"]
  OBVIOUS
<1>4. resolver' = [resolver EXCEPT ![r] = y]
  BY <1>2, <1>3
<1>5. y \in Resolvers(n)
  BY <1>3 DEF Resolvers, ResolverPlaces
<1>6. y.pc = "failed" /\ y.nodes = me.nodes /\ y.memo = me.memo /\ y.tags = me.tags
  BY <1>3, ResolverIs
<1>7. KeepsTags(me, y)
  BY <1>6 DEF KeepsTags
<1>8. /\ NodesAreRead(y)
      /\ \A v : IsNode(y, v) <=> IsNode(me, v)
      /\ \A v : IsNode(me, v) => v \in VersionNames /\ me.tags[v] \in {1, 2} /\ Needs(y, v) = Needs(me, v)
      /\ \A v \in VersionNames : y.memo[v] = me.memo[v] => RemembersVersion(versions, y, v)
  BY <1>1, <1>2, <1>6, <1>7, RunStays
<1>9. NodesAreClosed(y)
  BY <1>2, <1>6, <1>8 DEF RunResolves, NodesAreClosed
<1>10. GroupsAreLeft(y)
  BY <1>6 DEF GroupsAreLeft
<1>11. RunResolves(versions, y)
  BY <1>2, <1>6, <1>8, <1>9, <1>10 DEF RunResolves
<1> QED
  BY <1>1, <1>4, <1>5, <1>11, RunSteps

\* The snapshots publishVersionedGraph adds for a group, and the numbers it gives them.
NewIds(r, q) == [v \in Group(r) |-> Len(versions) + CHOOSE i \in DOMAIN q : q[i] = v]
NewRow(r, q, v) ==
  [version |-> v, commit |-> CommitOf(r, v), edges |-> Edges(r, v, NewIds(r, q)),
   settled |-> resolver[r].settled[v], kept |-> TRUE]
Outside(r) ==
  {resolver[r].memo[w] : w \in UNION {RequiresOf(r, v) \ Group(r) : v \in Group(r)}} \ {Unavailable}

\* publishVersionedGraph: the members' snapshots refer to each other and to what was resolved,
\* and in one transaction nothing that is referred to is missing.
LEMMA GroupPublished ==
  ASSUME VersionInv, NEW r \in VersionRuns, resolver[r].pc = "publish", UNCHANGED tags,
         resolver[r].groups # <<>>, NEW q, q = Ascending(Group(r)), Outside(r) \subseteq Stored,
         versions' = versions \o [i \in DOMAIN q |-> NewRow(r, q, q[i])], Remember(r, NewIds(r, q))
  PROVE  VersionInv'
<1>1. PICK n \in Nat : n = Len(versions) /\ DOMAIN versions = 1..n /\ versions \in Seq(VersionRows)
  BY DEF VersionInv, VersionTypes
<1>2. PICK me \in Resolvers(n) : me = resolver[r] /\ RunResolves(versions, me)
  BY <1>1, RunIs
<1>3. PICK g \in SUBSET VersionNames : g = Group(r) /\ g = Head(me.groups)
  BY <1>2, GroupIs DEF Group
<1>4. \A v \in g : /\ CommitOf(r, v) = me.tags[v] /\ CommitOf(r, v) \in {1, 2}
                   /\ <<v, CommitOf(r, v)>> \in DOMAIN Requires /\ RequiresOf(r, v) \subseteq VersionNames
                   /\ \A w \in RequiresOf(r, v) : w \in g \/ me.memo[w] # Unknown
  BY <1>2, <1>3, GroupIs
<1>5. PICK c \in Nat : c = Cardinality(g)
  BY AscendingIs
<1>6. q \in [1..c -> g] /\ \A v \in g : \E i \in 1..c : q[i] = v
  BY <1>3, <1>5, AscendingIs
<1>7. PICK ids : ids = NewIds(r, q)
  OBVIOUS
<1>8. DOMAIN ids = g /\ \A v \in g : \E i \in 1..c : ids[v] = n + i /\ q[i] = v
  <2>1. DOMAIN ids = g
    BY <1>3, <1>7 DEF NewIds
  <2>2. ASSUME NEW v \in g
        PROVE  \E i \in 1..c : ids[v] = n + i /\ q[i] = v
    <3>1. \E i \in DOMAIN q : q[i] = v
      BY <1>6
    <3>2. PICK i \in DOMAIN q : i = (CHOOSE j \in DOMAIN q : q[j] = v) /\ q[i] = v
      BY <3>1
    <3>3. ids[v] = n + i
      BY <1>1, <1>3, <1>7, <3>2 DEF NewIds
    <3> QED
      BY <1>6, <3>2, <3>3
  <2> QED
    BY <2>1, <2>2
<1>9. PICK rows : rows = [i \in DOMAIN q |-> NewRow(r, q, q[i])]
  OBVIOUS
<1>10. DOMAIN rows = 1..c /\ \A i \in 1..c : rows[i] = NewRow(r, q, q[i])
  BY <1>6, <1>9
<1>11. \A v \in g : me.settled[v] \in BOOLEAN
  <2>1. DOMAIN me.settled = g
    BY <1>2, <1>3 DEF RunResolves, GroupsAreLeft
  <2>2. PICK x : x = me.settled /\ x \in UNION {[vs -> BOOLEAN] : vs \in SUBSET VersionNames}
    BY ResolverIs
  <2>3. \E vs \in SUBSET VersionNames : x \in [vs -> BOOLEAN]
    BY <2>2
  <2> QED
    BY <2>1, <2>2, <2>3
<1>12. ASSUME NEW v \in g, NEW w \in RequiresOf(r, v)
       PROVE  /\ Edges(r, v, ids)[w] \in Nat
              /\ w \in g => \E j \in 1..c : Edges(r, v, ids)[w] = n + j /\ q[j] = w
              /\ w \notin g /\ Edges(r, v, ids)[w] = Unavailable => me.tags[w] = 0
              /\ w \notin g /\ Edges(r, v, ids)[w] # Unavailable =>
                    /\ Edges(r, v, ids)[w] \in 1..n /\ versions[Edges(r, v, ids)[w]].version = w
                    /\ versions[Edges(r, v, ids)[w]].kept
  <2>1. Edges(r, v, ids)[w] = IF w \in g THEN ids[w] ELSE me.memo[w]
    BY <1>2, <1>3 DEF Edges
  <2>2. CASE w \in g
    <3>1. PICK j \in 1..c : ids[w] = n + j /\ q[j] = w
      BY <1>8, <2>2
    <3> QED
      BY <2>1, <2>2, <3>1
  <2>3. CASE w \notin g
    <3>1. w \in VersionNames /\ me.memo[w] # Unknown
      BY <1>4, <2>3
    <3>2. /\ me.memo[w] \in Nat /\ (me.memo[w] = Unavailable => me.tags[w] = 0)
          /\ me.memo[w] # Unavailable => me.memo[w] \in DOMAIN versions /\ versions[me.memo[w]].version = w
      BY <1>2, <3>1, MemoIs
    <3>3. me.memo[w] # Unavailable => me.memo[w] \in Outside(r)
      BY <1>2, <1>3, <2>3 DEF Outside
    <3>4. me.memo[w] # Unavailable => versions[me.memo[w]].kept
      BY <3>3 DEF Stored
    <3> QED
      BY <1>1, <2>1, <2>3, <3>2, <3>4
  <2> QED
    BY <2>2, <2>3
<1>13. ASSUME NEW i \in 1..c
       PROVE  /\ rows[i] \in VersionRows /\ rows[i].version = q[i] /\ rows[i].commit = CommitOf(r, q[i])
              /\ rows[i].edges = Edges(r, q[i], ids) /\ rows[i].kept
  <2>1. PICK v \in g : v = q[i]
    BY <1>6
  <2>2. PICK e : e = Edges(r, v, ids)
    OBVIOUS
  <2>3. rows[i] = [version |-> v, commit |-> CommitOf(r, v), edges |-> e, settled |-> me.settled[v], kept |-> TRUE]
    BY <1>2, <1>7, <1>10, <2>1, <2>2 DEF NewRow
  <2>4. PICK vs \in SUBSET VersionNames : vs = RequiresOf(r, v)
    BY <1>4
  <2>5. e \in [vs -> Nat]
    <3>1. e = [w \in vs |-> e[w]]
      BY <2>2, <2>4 DEF Edges
    <3>2. \A w \in vs : e[w] \in Nat
      BY <1>12, <2>2, <2>4
    <3> QED
      BY <3>1, <3>2
  <2>6. PICK F : F = UNION {[ws -> Nat] : ws \in SUBSET VersionNames}
    OBVIOUS
  <2>7. e \in F
    BY <2>5, <2>6
  <2>8. CommitOf(r, v) \in {1, 2} /\ me.settled[v] \in BOOLEAN
    BY <1>4, <1>11
  <2>9. rows[i] \in VersionRows
    BY <2>3, <2>6, <2>7, <2>8 DEF VersionRows
  <2> QED
    BY <2>1, <2>2, <2>3, <2>9
<1>14. PICK vs : vs = versions'
  OBVIOUS
<1>15. /\ vs \in Seq(VersionRows) /\ DOMAIN vs = 1..(n + c) /\ Len(vs) = n + c
       /\ \A s \in 1..n : vs[s] = versions[s]
       /\ \A i \in 1..c : vs[n + i] = rows[i]
  <2>1. rows \in [1..c -> VersionRows]
    <3>1. rows = [i \in 1..c |-> rows[i]]
      BY <1>6, <1>9
    <3> QED
      BY <3>1, <1>13
  <2>2. PICK b \in Seq(VersionRows) : b = rows /\ Len(b) = c
    BY <2>1, ListIs
  <2>3. PICK a \in Seq(VersionRows) : a = versions /\ Len(a) = n
    BY <1>1
  <2>4. vs = a \o b
    BY <1>9, <1>14, <2>2, <2>3
  <2>5. vs \in Seq(VersionRows)
    BY ONLY <2>4
  <2>6. Len(vs) = n + c /\ DOMAIN vs = 1..(n + c)
    <3>1. Len(vs) = Len(a) + Len(b)
      BY ONLY <2>4
    <3>2. Len(vs) = n + c
      BY <3>1, <2>2, <2>3
    <3>3. DOMAIN vs = 1..Len(vs)
      BY ONLY <2>5
    <3> QED
      BY <3>2, <3>3
  <2>7. \A s \in 1..n : vs[s] = a[s]
    BY ONLY <2>2, <2>3, <2>4
  <2>8. \A i \in 1..c : vs[n + i] = b[i]
    BY ONLY <2>2, <2>3, <2>4
  <2> QED
    BY <2>2, <2>3, <2>5, <2>6, <2>7, <2>8
<1>16. \A s \in 1..(n + c) : s \in 1..n \/ \E i \in 1..c : s = n + i
  <2> TAKE s \in 1..(n + c)
  <2>1. s \in 1..n \/ (s - n \in 1..c /\ s = n + (s - n))
    OBVIOUS
  <2> QED
    BY <2>1
<1>17. \A s \in 1..n : s \in 1..(n + c)
  OBVIOUS
<1>18. \A i \in 1..c : n + i \in 1..(n + c) /\ n + i > 0 /\ n + i \in Nat /\ n + i # Unavailable
  BY DEF Unavailable
<1>19. ASSUME NEW s \in 1..n
       PROVE  RowLinks(vs, s)
  <2>1. RowLinks(versions, s)
    BY <1>1 DEF VersionInv
  <2>2. PICK row : row = versions[s] /\ row = vs[s]
    BY <1>15
  <2>3. ASSUME NEW w \in DOMAIN row.edges, row.edges[w] # Unavailable
        PROVE  row.edges[w] \in 1..(n + c) /\ vs[row.edges[w]].version = w /\ (row.kept => vs[row.edges[w]].kept)
    <3>1. row.edges[w] \in 1..n /\ versions[row.edges[w]].version = w /\ (row.kept => versions[row.edges[w]].kept)
      BY <1>1, <2>1, <2>2, <2>3 DEF RowLinks
    <3> QED
      BY <1>15, <1>17, <3>1
  <2> QED
    BY <1>15, <2>1, <2>2, <2>3 DEF RowLinks
<1>20. ASSUME NEW i \in 1..c
       PROVE  RowLinks(vs, n + i)
  <2>1. PICK v \in g : v = q[i]
    BY <1>6
  <2>2. PICK row : row = vs[n + i] /\ row = rows[i]
    BY <1>15
  <2>3. /\ row.version = v /\ row.commit = CommitOf(r, v) /\ row.edges = Edges(r, v, ids) /\ row.kept
    BY <1>13, <2>1, <2>2
  <2>4. DOMAIN row.edges = RequiresOf(r, v) /\ RequiresOf(r, v) = Requires[<<v, CommitOf(r, v)>>]
    BY <2>3 DEF Edges, RequiresOf
  <2>5. ASSUME NEW w \in DOMAIN row.edges, row.edges[w] # Unavailable
        PROVE  row.edges[w] \in 1..(n + c) /\ vs[row.edges[w]].version = w /\ vs[row.edges[w]].kept
    <3>1. w \in RequiresOf(r, v) /\ row.edges[w] = Edges(r, v, ids)[w]
      BY <2>3, <2>4
    <3>2. CASE w \in g
      <4>1. PICK j \in 1..c : row.edges[w] = n + j /\ q[j] = w
        BY <1>12, <3>1, <3>2
      <4>2. vs[n + j].version = w /\ vs[n + j].kept
        BY <1>13, <1>15, <4>1
      <4> QED
        BY <1>18, <4>1, <4>2
    <3>3. CASE w \notin g
      <4>1. row.edges[w] \in 1..n /\ versions[row.edges[w]].version = w /\ versions[row.edges[w]].kept
        BY <1>12, <2>5, <3>1, <3>3
      <4> QED
        BY <1>15, <1>17, <4>1
    <3> QED
      BY <3>2, <3>3
  <2>6. <<row.version, row.commit>> \in DOMAIN Requires /\ DOMAIN row.edges = Requires[<<row.version, row.commit>>]
    BY <1>4, <2>3, <2>4
  <2> QED
    BY <1>15, <2>2, <2>5, <2>6 DEF RowLinks
<1>21. \A s \in DOMAIN vs : RowLinks(vs, s)
  <2> SUFFICES ASSUME NEW s \in 1..(n + c)
               PROVE  RowLinks(vs, s)
    BY <1>15
  <2>1. CASE s \in 1..n
    BY <1>19, <2>1
  <2>2. ASSUME NEW i \in 1..c, s = n + i
        PROVE  RowLinks(vs, s)
    BY <1>20, <2>2
  <2> QED
    BY <1>16, <2>1, <2>2
<1>22. ASSUME NEW p \in VersionRuns
       PROVE  resolver[p] \in Resolvers(n + c) /\ RunResolves(vs, resolver[p])
  <2>1. resolver[p] \in Resolvers(Len(versions)) /\ RunResolves(versions, resolver[p]) /\ VersionTypes
    BY RunIs DEF VersionInv
  <2>2. \A s \in DOMAIN versions : /\ vs[s].version = versions[s].version /\ vs[s].commit = versions[s].commit
                                   /\ vs[s].edges = versions[s].edges
    BY <1>1, <1>15
  <2>3. RunResolves(vs, resolver[p])
    BY <2>1, <2>2, RowsStay
  <2>4. -1..n \subseteq -1..(n + c)
    OBVIOUS
  <2>5. resolver[p] \in Resolvers(n)
    BY <1>1, <2>1
  <2>6. [VersionNames -> -1..n] \subseteq [VersionNames -> -1..(n + c)]
    BY <2>4
  <2>7. resolver[p] \in Resolvers(n + c)
    BY <2>5, <2>6, Zenon DEF Resolvers
  <2> QED
    BY <2>3, <2>7
<1>23. PICK ms : ms = [VersionNames -> -1..(n + c)]
  OBVIOUS
<1>24. PICK k \in Nat : k = n + c
  OBVIOUS
<1>25. \A v \in g : ids[v] \in -1..k
  BY <1>8, <1>18, <1>24
<1>26. \A v \in VersionNames : me.memo[v] \in -1..k
  <2>1. \A v \in VersionNames : me.memo[v] \in -1..n
    BY ResolverIs
  <2> QED
    BY <2>1, <1>24
<1>27. ms = [VersionNames -> -1..k] /\ Remembered(resolver[r], ids) \in ms
  BY <1>2, <1>8, <1>23, <1>24, <1>25, <1>26 DEF Remembered
<1>28. PICK y \in Resolvers(k) : resolver' = [resolver EXCEPT ![r] = y] /\ HasRemembered(y, resolver[r], ids)
  BY <1>7, <1>27, RememberIs
<1>29. AreSnapshots(vs, me, ids)
  <2> SUFFICES ASSUME NEW v \in g
               PROVE  /\ ids[v] \in Nat /\ ids[v] > 0
                      /\ vs[ids[v]].version = v /\ vs[ids[v]].commit = me.tags[v]
                      /\ \A w \in DOMAIN vs[ids[v]].edges : vs[ids[v]].edges[w] = Unavailable => me.tags[w] = 0
    BY <1>8 DEF AreSnapshots
  <2>1. PICK i \in 1..c : ids[v] = n + i /\ q[i] = v
    BY <1>8
  <2>2. PICK row : row = vs[ids[v]] /\ row = rows[i]
    BY <1>15, <2>1
  <2>3. row.version = v /\ row.commit = me.tags[v] /\ row.edges = Edges(r, v, ids)
    BY <1>4, <1>13, <2>1, <2>2
  <2>4. ASSUME NEW w \in DOMAIN row.edges, row.edges[w] = Unavailable
        PROVE  me.tags[w] = 0
    <3>1. w \in RequiresOf(r, v)
      BY <2>3, <2>4 DEF Edges
    <3>2. w \notin g
      BY <1>12, <1>18, <2>3, <2>4, <3>1
    <3> QED
      BY <1>12, <2>3, <2>4, <3>1, <3>2
  <2> QED
    BY <1>18, <2>1, <2>2, <2>3, <2>4
<1>30. RunResolves(vs, y)
  <2>1. PICK m \in Resolvers(k) : m = me
    BY <1>2, <1>22, <1>24
  <2>2. RunResolves(vs, m)
    BY <1>2, <1>22, <2>1
  <2>3. /\ m.pc \in {"group", "extract", "publish"} /\ m.groups # <<>> /\ DOMAIN ids = Head(m.groups)
        /\ AreSnapshots(vs, m, ids)
    BY <1>2, <1>3, <1>8, <1>29, <2>1
  <2>4. /\ y.pc = "group" /\ y.groups = Tail(m.groups) /\ y.nodes = m.nodes /\ y.tags = m.tags
        /\ y.memo = [v \in VersionNames |-> IF v \in DOMAIN ids THEN ids[v] ELSE m.memo[v]]
    BY <1>2, <1>28, <2>1 DEF HasRemembered, Remembered
  <2> QED
    BY ONLY <2>2, <2>3, <2>4, GroupResolves
<1>31. resolver \in [VersionRuns -> Resolvers(n)]
  BY <1>1 DEF VersionInv, VersionTypes
<1>32. \A p \in VersionRuns : resolver'[p] = IF p = r THEN y ELSE resolver[p]
  BY <1>28, <1>31
<1>33. resolver' \in [VersionRuns -> Resolvers(k)]
  <2>1. resolver' = [p \in VersionRuns |-> resolver'[p]]
    BY <1>28, <1>31
  <2>2. \A p \in VersionRuns : resolver'[p] \in Resolvers(k)
    BY <1>22, <1>24, <1>32
  <2> QED
    BY <2>1, <2>2
<1>34. VersionTypes'
  BY <1>14, <1>15, <1>24, <1>33 DEF VersionInv, VersionTypes
<1>35. \A p \in VersionRuns : RunResolves(vs, resolver'[p])
  BY <1>22, <1>30, <1>32
<1>36. TagsName(tags')
  BY DEF VersionInv
<1> QED
  BY <1>14, <1>21, <1>34, <1>35, <1>36 DEF VersionInv

LEMMA PublishGroupKeeps ==
  ASSUME VersionInv, NEW r \in VersionRuns, PublishGroup(r)
  PROVE  VersionInv'
<1> DEFINE order == Ascending(Group(r))
           ids == [v \in Group(r) |-> Len(versions) + CHOOSE i \in DOMAIN order : order[i] = v]
           row(v) == [version |-> v, commit |-> CommitOf(r, v), edges |-> Edges(r, v, ids),
                      settled |-> resolver[r].settled[v], kept |-> TRUE]
           outside == {resolver[r].memo[w] : w \in UNION {RequiresOf(r, v) \ Group(r) : v \in Group(r)}} \ {Unavailable}
<1>1. resolver[r].pc = "publish" /\ UNCHANGED tags
  BY DEF PublishGroup
<1>2. IF outside \subseteq Stored
      THEN versions' = versions \o [i \in DOMAIN order |-> row(order[i])] /\ Remember(r, ids)
      ELSE resolver' = [resolver EXCEPT ![r].pc = "failed"] /\ UNCHANGED versions
  BY Zenon DEF PublishGroup
<1>3. resolver[r].groups # <<>>
  BY <1>1, RunIs DEF RunResolves, GroupsAreLeft
<1>4. PICK q : q = order
  OBVIOUS
<1>5. ids = NewIds(r, q) /\ outside = Outside(r) /\ \A v : row(v) = NewRow(r, q, v)
  BY <1>4 DEF NewIds, Outside, NewRow
<1>6. [i \in DOMAIN order |-> row(order[i])] = [i \in DOMAIN q |-> NewRow(r, q, q[i])]
  <2> HIDE DEF row, ids
  <2> QED
    BY <1>4, <1>5
<1>7. CASE outside \subseteq Stored /\ versions' = versions \o [i \in DOMAIN order |-> row(order[i])] /\ Remember(r, ids)
  <2>1. /\ Outside(r) \subseteq Stored /\ Remember(r, NewIds(r, q)) /\ q = Ascending(Group(r))
        /\ versions' = versions \o [i \in DOMAIN q |-> NewRow(r, q, q[i])]
    <3> HIDE DEF row, ids, outside
    <3> QED
      BY <1>4, <1>5, <1>6, <1>7 DEF order
  <2> QED
    BY ONLY <1>1, <1>3, <2>1, VersionInv, r \in VersionRuns, GroupPublished
<1>8. CASE resolver' = [resolver EXCEPT ![r].pc = "failed"] /\ UNCHANGED versions
  BY <1>1, <1>8, FailedKeeps
<1> HIDE DEF order, ids, row, outside
<1> QED
  BY <1>2, <1>7, <1>8

LEMMA VersionInitHolds == VersionInit => VersionInv
<1> SUFFICES ASSUME VersionInit
             PROVE  VersionInv
  OBVIOUS
<1>1. versions \in Seq(VersionRows) /\ Len(versions) = 0 /\ DOMAIN versions = {}
  <2>1. <<>> \in Seq(VersionRows) /\ Len(<<>>) = 0 /\ DOMAIN <<>> = {}
    OBVIOUS
  <2> QED
    BY <2>1 DEF VersionInit
<1>2. tags \in [VersionNames -> 0..2] /\ TagsName(tags)
  BY VersionConstants DEF VersionInit, TagsName
<1>3. PICK me : me = NewResolver
  OBVIOUS
<1>4. /\ me.pc = "idle" /\ me.nodes = <<>>
      /\ \A v \in VersionNames : me.memo[v] = Unknown /\ me.tags[v] = Unknown
  BY <1>3 DEF NewResolver
<1>5. me \in Resolvers(0)
  <2>1. <<>> \in Seq(VersionNames)
    OBVIOUS
  <2>2. <<>> \in Seq([version : VersionNames, commit : {1, 2}])
    OBVIOUS
  <2>3. <<>> \in Seq(SUBSET VersionNames)
    OBVIOUS
  <2>4. PICK F : F = UNION {[vs -> BOOLEAN] : vs \in SUBSET VersionNames}
    OBVIOUS
  <2>5. <<>> \in F
    <3>1. <<>> \in [{} -> BOOLEAN]
      OBVIOUS
    <3> QED
      BY <3>1, <2>4
  <2>6. PICK Q : Q = Seq(VersionNames)
    OBVIOUS
  <2>7. PICK N : N = Seq([version : VersionNames, commit : {1, 2}])
    OBVIOUS
  <2>8. PICK G : G = Seq(SUBSET VersionNames)
    OBVIOUS
  <2>9. PICK m : m = [v \in VersionNames |-> Unknown]
    OBVIOUS
  <2>10. m \in [VersionNames -> -1..0] /\ m \in [VersionNames -> -1..2]
    BY <2>9 DEF Unknown
  <2>11. <<>> \in Q /\ <<>> \in N /\ <<>> \in G
    BY <2>1, <2>2, <2>3, <2>6, <2>7, <2>8
  <2>12. me = [pc |-> "idle", queue |-> <<>>, nodes |-> <<>>, groups |-> <<>>, ids |-> <<>>, settled |-> <<>>,
               memo |-> m, tags |-> m]
    BY <1>3, <2>9 DEF NewResolver
  <2>13. PICK e : e = <<>> /\ e \in Q /\ e \in N /\ e \in G /\ e \in F
    BY <2>5, <2>11
  <2>14. Resolvers(0) = [pc : ResolverPlaces, queue : Q, nodes : N, groups : G, ids : {e}, settled : F,
                         memo : [VersionNames -> -1..0], tags : [VersionNames -> -1..2]]
    BY <2>4, <2>6, <2>7, <2>8, <2>13 DEF Resolvers
  <2>15. me = [pc |-> "idle", queue |-> e, nodes |-> e, groups |-> e, ids |-> e, settled |-> e, memo |-> m, tags |-> m]
    BY <2>12, <2>13
  <2> HIDE DEF Resolvers
  <2> QED
    BY ONLY <2>10, <2>13, <2>14, <2>15 DEF ResolverPlaces
<1>6. RunResolves(versions, me)
  <2>1. TagsName(me.tags)
    BY <1>4 DEF TagsName, Unknown
  <2>2. \A v \in VersionNames : RemembersVersion(versions, me, v)
    BY <1>4 DEF RemembersVersion, Unknown, Unavailable
  <2>3. \A i \in DOMAIN me.nodes : FALSE
    BY <1>4
  <2>4. NodesAreRead(me) /\ NodesAreClosed(me) /\ GroupsAreLeft(me)
    BY <1>4, <2>3 DEF NodesAreRead, NodesAreClosed, GroupsAreLeft, IsNode
  <2> QED
    BY <2>1, <2>2, <2>4 DEF RunResolves
<1>7. resolver = [r \in VersionRuns |-> me]
  BY <1>3 DEF VersionInit
<1>8. VersionTypes
  BY <1>1, <1>2, <1>5, <1>7 DEF VersionTypes
<1> QED
  BY <1>1, <1>2, <1>6, <1>7, <1>8 DEF VersionInv

LEMMA VersionNextKeeps == VersionInv /\ [VersionNext]_versionVars => VersionInv'
<1> SUFFICES ASSUME VersionInv, [VersionNext]_versionVars
             PROVE  VersionInv'
  OBVIOUS
<1>1. ASSUME NEW r \in VersionRuns,
             Resolve(r) \/ ExpandVersionedNode(r) \/ Discovered(r) \/ ReuseRevision(r) \/ PublishGroup(r) \/ Finish(r)
      PROVE  VersionInv'
  BY <1>1, ResolveKeeps, ExpandVersionedNodeKeeps, DiscoveredKeeps, ReuseRevisionKeeps, PublishGroupKeeps, FinishKeeps
<1>2. ASSUME NEW r \in VersionRuns, resolver[r].groups # <<>>, NEW x \in Extractions(r),
             ReuseVersionedGraph(r, x) \/ ExtractVersion(r, x)
      PROVE  VersionInv'
  BY <1>2, ReuseVersionedGraphKeeps, ExtractVersionKeeps
<1>3. ASSUME NEW v \in VersionNames, Retag(v)
      PROVE  VersionInv'
  BY <1>3, RetagKeeps
<1>4. ASSUME NEW gone \in SUBSET Stored, PruneVersions(gone)
      PROVE  VersionInv'
  BY <1>4, PruneVersionsKeeps
<1>5. CASE UNCHANGED versionVars
  <2>1. UNCHANGED <<tags, versions, resolver>>
    BY <1>5 DEF versionVars
  <2>2. VersionTypes'
    BY <2>1 DEF VersionInv, VersionTypes
  <2> QED
    BY <2>1, <2>2 DEF VersionInv
<1> QED
  BY <1>1, <1>2, <1>3, <1>4, <1>5, Zenon DEF VersionNext

LEMMA VersionInvSuffices == VersionInv => VersionsAreWhole
<1> SUFFICES ASSUME VersionInv
             PROVE  VersionsAreWhole
  OBVIOUS
<1>1. VersionTypeOK
  <2>1. \A s \in DOMAIN versions : versions[s].version \in VersionNames /\ versions[s].settled \in BOOLEAN
    BY RowIs DEF VersionInv
  <2>2. ASSUME NEW r \in VersionRuns
        PROVE  resolver[r].memo \in [VersionNames -> -1..Len(versions)]
    BY RunIs, ResolverIs
  <2> QED
    BY <2>1, <2>2 DEF VersionTypeOK, VersionInv, VersionTypes
<1>2. EdgesNameTheirVersions
  <2> SUFFICES ASSUME NEW s \in Stored
               PROVE  /\ DOMAIN versions[s].edges = Requires[<<versions[s].version, versions[s].commit>>]
                      /\ \A w \in DOMAIN versions[s].edges :
                           \/ versions[s].edges[w] = Unavailable
                           \/ versions[s].edges[w] \in Stored /\ versions[versions[s].edges[w]].version = w
    BY Zenon DEF EdgesNameTheirVersions
  <2>1. s \in DOMAIN versions /\ versions[s].kept /\ RowLinks(versions, s)
    BY DEF Stored, VersionInv
  <2> QED
    BY <2>1 DEF RowLinks, Stored
<1>3. DependenciesComeFirst
  BY GroupIs DEF DependenciesComeFirst, Linkable
<1>4. ResolvedVersionsAreCurrent
  <2> SUFFICES ASSUME NEW r \in VersionRuns, NEW v \in VersionNames, resolver[r].memo[v] > 0, resolver[r].tags[v] > 0
               PROVE  /\ versions[resolver[r].memo[v]].commit = resolver[r].tags[v]
                      /\ \A w \in DOMAIN versions[resolver[r].memo[v]].edges :
                           versions[resolver[r].memo[v]].edges[w] = Unavailable => resolver[r].tags[w] = 0
    BY Zenon DEF ResolvedVersionsAreCurrent
  <2>1. RemembersVersion(versions, resolver[r], v)
    BY RunIs DEF RunResolves
  <2> QED
    BY <2>1 DEF RemembersVersion
<1> QED
  BY <1>1, <1>2, <1>3, <1>4 DEF VersionsAreWhole

(* Whatever tags move, checkouts disappear and prunes delete while any number *)
(* of runs resolve, the stored graph of versions is whole, no run meets a     *)
(* dependency it has not resolved, and what a run resolved is current         *)
(* (resolveVersionedGraph, publishVersionedGraph, storedVersionMiss).         *)
THEOREM VersionsStayWhole == VersionSpec => []VersionsAreWhole
<1>1. VersionInit => VersionInv
  BY VersionInitHolds
<1>2. VersionInv /\ [VersionNext]_versionVars => VersionInv'
  BY VersionNextKeeps
<1>3. VersionInv => VersionsAreWhole
  BY VersionInvSuffices
<1> QED
  BY <1>1, <1>2, <1>3, PTL DEF VersionSpec

-----------------------------------------------------------------------------
(* The operators of CycleGroups.                                           *)

\* What a module needs is what it reaches through local dependencies.
LEMMA NeededIsReach ==
  ASSUME NEW m \in Checkouts
  PROVE  IsReach(Needed(m), LocalDeps, {m})
<1> DEFINE N == Cardinality(Checkouts)
           reach[n \in 0..N] ==
             IF n = 0 THEN {m} ELSE reach[n - 1] \cup UNION {LocalDeps[x] : x \in reach[n - 1]}
<1>1. Needed(m) = reach[N]
  BY Zenon DEF Needed
<1>2. DOMAIN LocalDeps = Checkouts /\ IsGraph(LocalDeps) /\ {m} \in SUBSET DOMAIN LocalDeps
  BY GroupConstants DEF IsGraph
<1>3. N \in Nat /\ IsFiniteSet(Checkouts)
  BY GroupConstants, FS_CardinalityType
<1> HIDE DEF N
<1>4. PICK w : IsWalk(w, LocalDeps, {m}, N)
  BY <1>2, <1>3, WalkExists
<1>5. w = [n \in 0..N |-> IF n = 0 THEN {m} ELSE w[n - 1] \cup UNION {LocalDeps[x] : x \in w[n - 1]}]
  <2>1. w = [n \in 0..N |-> w[n]]
    BY <1>4 DEF IsWalk
  <2>2. \A n \in 0..N : n # 0 => n \in 1..N
    BY <1>3
  <2>3. \A n \in 0..N : w[n] = IF n = 0 THEN {m} ELSE w[n - 1] \cup UNION {LocalDeps[x] : x \in w[n - 1]}
    BY <1>4, <2>2 DEF IsWalk
  <2> QED
    BY <2>1, <2>3, Zenon
<1>6. reach = [n \in 0..N |-> IF n = 0 THEN {m} ELSE reach[n - 1] \cup UNION {LocalDeps[x] : x \in reach[n - 1]}]
  BY <1>5
<1> HIDE DEF reach
<1>7. reach = [n \in 0..N |-> reach[n]] /\ reach[0] = {m}
  BY <1>3, <1>6
<1>8. \A n \in 1..N : reach[n] = reach[n - 1] \cup UNION {LocalDeps[x] : x \in reach[n - 1]}
  <2>1. \A n \in 1..N : n \in 0..N /\ n # 0
    BY <1>3
  <2> QED
    BY <1>6, <2>1
<1>9. IsWalk(reach, LocalDeps, {m}, N)
  BY <1>2, <1>3, <1>7, <1>8, WalkIs
<1>10. reach[N] \subseteq Checkouts
  BY <1>2, <1>3, <1>9 DEF IsWalk
<1>11. N <= N /\ Cardinality(Checkouts) <= N
  BY <1>3 DEF N
<1>12. IsReach(reach[N], LocalDeps, {m})
  BY <1>2, <1>3, <1>9, <1>10, <1>11, WalkReaches
<1> QED
  BY <1>1, <1>12

LEMMA NeededIs ==
  ASSUME NEW m \in Checkouts
  PROVE  /\ Needed(m) \in SUBSET Checkouts /\ m \in Needed(m)
         /\ \A x \in Needed(m) : LocalDeps[x] \subseteq Needed(m) /\ Needed(x) \subseteq Needed(m)
<1>1. DOMAIN LocalDeps = Checkouts
  BY GroupConstants
<1>2. IsReach(Needed(m), LocalDeps, {m})
  BY NeededIsReach
<1>3. Needed(m) \in SUBSET Checkouts /\ m \in Needed(m) /\ \A x \in Needed(m) : LocalDeps[x] \subseteq Needed(m)
  BY <1>1, <1>2 DEF IsReach
<1>4. ASSUME NEW x \in Needed(m)
      PROVE  Needed(x) \subseteq Needed(m)
  <2>1. IsReach(Needed(x), LocalDeps, {x})
    BY <1>3, NeededIsReach
  <2> QED
    BY <1>1, <1>3, <2>1 DEF IsReach
<1> QED
  BY <1>3, <1>4

\* A property of a module that passes to its dependencies holds of all it needs.
LEMMA NeededLeast ==
  ASSUME NEW m \in Checkouts, NEW C \in SUBSET Checkouts, m \in C, \A x \in C : LocalDeps[x] \subseteq C
  PROVE  Needed(m) \subseteq C
<1>1. DOMAIN LocalDeps = Checkouts
  BY GroupConstants
<1>2. IsReach(Needed(m), LocalDeps, {m})
  BY NeededIsReach
<1> QED
  BY <1>1, <1>2 DEF IsReach

\* The group of a module is that of each of its members.
LEMMA GroupOfIs ==
  ASSUME NEW m \in Checkouts
  PROVE  /\ m \in GroupOf(m) /\ GroupOf(m) \subseteq Needed(m) /\ GroupOf(m) \in SUBSET Checkouts
         /\ \A n \in GroupOf(m) : GroupOf(n) = GroupOf(m) /\ m \in Needed(n)
<1>1. \A x \in Checkouts : Needed(x) \in SUBSET Checkouts /\ x \in Needed(x) /\ \A z \in Needed(x) : Needed(z) \subseteq Needed(x)
  BY NeededIs
<1>2. ASSUME NEW n \in GroupOf(m)
      PROVE  GroupOf(n) = GroupOf(m)
  <2>1. n \in Checkouts /\ n \in Needed(m) /\ m \in Needed(n)
    BY <1>1 DEF GroupOf
  <2>2. Needed(n) = Needed(m)
    BY <1>1, <2>1
  <2>3. \A x \in Needed(m) : x \in Checkouts /\ (n \in Needed(x) <=> m \in Needed(x))
    BY <1>1, <2>1
  <2> QED
    BY <2>2, <2>3 DEF GroupOf
<1> QED
  BY <1>1, <1>2 DEF GroupOf

\* The groups of a module's graph: each is the group of its members, and what a member depends
\* on is in its group or an earlier one.
IsGroupOrder(gs, m) ==
  /\ gs \in Seq(SUBSET Checkouts)
  /\ \A i \in DOMAIN gs : gs[i] # {} /\ \A x \in gs[i] : x \in Needed(m) /\ GroupOf(x) = gs[i]
  /\ \A i \in DOMAIN gs : \A x \in gs[i] : \A n \in LocalDeps[x] : \E j \in DOMAIN gs : j <= i /\ n \in gs[j]

LEMMA GroupOrderIs ==
  ASSUME NEW m \in Checkouts
  PROVE  IsGroupOrder(GroupOrder(m), m)
<1> DEFINE groups == {GroupOf(n) : n \in Needed(m)}
           V == Needed(m)
           R == [n \in V |-> Needed(n)]
<1>1. GroupOrder(m) = CHOOSE s \in [1..Cardinality(groups) -> groups] :
         /\ Range(s) = groups
         /\ \A i, j \in DOMAIN s : i < j => \A n \in s[i] : s[j] \cap (Needed(n) \ s[i]) = {}
  BY Zenon DEF GroupOrder
<1>2. V \in SUBSET Checkouts /\ m \in V /\ \A x \in V : LocalDeps[x] \subseteq V /\ Needed(x) \subseteq V /\ x \in Needed(x)
  BY NeededIs
<1>3. IsFiniteSet(V)
  BY <1>2, GroupConstants, FS_Subset
<1>4. DOMAIN R = V /\ \A n \in V : R[n] = Needed(n)
  OBVIOUS
<1>5. IsReachability(R, V)
  <2>1. R = [n \in V |-> R[n]]
    OBVIOUS
  <2> HIDE DEF V, R
  <2>2. R \in [V -> SUBSET V]
    BY <1>2, <1>4, <2>1
  <2>3. \A v \in V : \A w \in R[v] : R[w] \subseteq R[v]
    BY <1>2, <1>4, NeededIs
  <2> QED
    BY <1>2, <1>4, <2>2, <2>3 DEF IsReachability
<1>6. \A n \in V : ComponentOf(R, n) = GroupOf(n)
  <2> HIDE DEF R
  <2> SUFFICES ASSUME NEW n \in V
               PROVE  \A w : w \in ComponentOf(R, n) <=> w \in GroupOf(n)
    OBVIOUS
  <2> QED
    BY <1>2, <1>4 DEF ComponentOf, GroupOf
<1>7. groups = ComponentsOf(R, V)
  <2> HIDE DEF R
  <2> QED
    BY <1>6, Zenon DEF ComponentsOf
<1>8. PICK N \in Nat : N = Cardinality(groups)
  <2> DEFINE c == [v \in V |-> GroupOf(v)]
  <2>1. c \in Surjection(V, groups)
    BY DEF Surjection
  <2>2. IsFiniteSet(groups)
    <3> HIDE DEF c, groups, V
    <3> QED
      BY <1>3, <2>1, FS_Surjection
  <2> QED
    BY <2>2, FS_CardinalityType
<1>9. \A n \in V : n \in GroupOf(n) /\ GroupOf(n) \subseteq V /\ \A x \in GroupOf(n) : GroupOf(x) = GroupOf(n)
  <2> TAKE n \in V
  <2>1. n \in Checkouts /\ Needed(n) \subseteq V
    BY <1>2
  <2> HIDE DEF V
  <2> QED
    BY <2>1, GroupOfIs
<1>10. \E s \in [1..N -> groups] :
         /\ Range(s) = groups
         /\ \A i, j \in DOMAIN s : i < j => \A n \in s[i] : s[j] \cap (Needed(n) \ s[i]) = {}
  <2>1. PICK s \in [1..N -> groups] :
           /\ \A g \in groups : \E i \in DOMAIN s : s[i] = g
           /\ \A i, j \in DOMAIN s : i < j => \A v \in s[i], w \in s[j] : w \notin R[v]
    <3> HIDE DEF R, groups, V
    <3> QED
      BY <1>3, <1>5, <1>7, <1>8, ComponentOrder
  <2>2. \A g \in groups : g \subseteq V
    BY <1>9
  <2> HIDE DEF groups, R, V
  <2>3. Range(s) = groups
    BY <2>1 DEF Range
  <2>4. \A i, j \in DOMAIN s : i < j => \A n \in s[i] : s[j] \cap (Needed(n) \ s[i]) = {}
    <3> SUFFICES ASSUME NEW i \in DOMAIN s, NEW j \in DOMAIN s, i < j, NEW n \in s[i], NEW w \in s[j], w \in Needed(n)
                 PROVE  FALSE
      OBVIOUS
    <3>1. s[i] \in groups /\ n \in V
      BY <2>1, <2>2
    <3>2. w \notin R[n]
      BY <2>1
    <3> QED
      BY <3>1, <3>2, <1>4
  <2> QED
    BY <2>3, <2>4
<1>11. PICK q \in [1..N -> groups] :
         /\ q = GroupOrder(m) /\ Range(q) = groups
         /\ \A i, j \in DOMAIN q : i < j => \A n \in q[i] : q[j] \cap (Needed(n) \ q[i]) = {}
  <2> HIDE DEF groups, V, R
  <2> QED
    BY <1>1, <1>8, <1>10, Zenon
<1>12. \A g \in groups : g # {} /\ g \subseteq V /\ g \in SUBSET Checkouts /\ \A x \in g : GroupOf(x) = g
  <2> SUFFICES ASSUME NEW n \in V
               PROVE  GroupOf(n) # {} /\ GroupOf(n) \subseteq V /\ GroupOf(n) \in SUBSET Checkouts /\ \A x \in GroupOf(n) : GroupOf(x) = GroupOf(n)
    OBVIOUS
  <2> HIDE DEF V
  <2> QED
    BY <1>2, <1>9
<1>13. \A n \in V : GroupOf(n) \in groups
  OBVIOUS
<1> HIDE DEF groups, R, V
<1>14. \A i \in DOMAIN q : q[i] \in groups
  BY <1>11
<1>15. q \in Seq(SUBSET Checkouts)
  BY <1>8, <1>11, <1>12
<1>16. \A i \in DOMAIN q : q[i] # {} /\ \A x \in q[i] : x \in V /\ GroupOf(x) = q[i]
  BY <1>12, <1>14
<1>17. ASSUME NEW i \in DOMAIN q, NEW x \in q[i], NEW n \in LocalDeps[x]
       PROVE  \E j \in DOMAIN q : j <= i /\ n \in q[j]
  <2>1. x \in V /\ x \in Checkouts
    BY <1>2, <1>16
  <2>2. n \in V /\ n \in Needed(x)
    <3>1. LocalDeps[x] \subseteq V /\ LocalDeps[x] \subseteq Needed(x)
      BY <1>2, <2>1, NeededIs
    <3> QED
      BY <3>1
  <2>3. PICK j \in DOMAIN q : q[j] = GroupOf(n)
    BY <1>11, <1>13, <2>2 DEF Range
  <2>4. n \in q[j]
    BY <1>9, <2>2, <2>3
  <2>5. i \in Int /\ j \in Int
    BY <1>8, <1>11
  <2>6. CASE j <= i
    BY <2>4, <2>6
  <2>7. CASE ~(j <= i)
    <3>1. i < j
      BY <2>5, <2>7
    <3>2. n \in q[i]
      BY <1>11, <2>2, <2>4, <3>1
    <3>3. i <= i
      BY <2>5
    <3> QED
      BY <3>2, <3>3
  <2> QED
    BY <2>6, <2>7
<1>18. IsGroupOrder(q, m)
  BY <1>15, <1>16, <1>17 DEF IsGroupOrder, V
<1> QED
  BY <1>11, <1>18

\* Listing a set gives each of its elements one place.
Lists(q, S, c) ==
  /\ q \in [1..c -> S] /\ DOMAIN q = 1..c
  /\ \A x \in S : \E i \in 1..c : q[i] = x
  /\ \A i, j \in 1..c : q[i] = q[j] => i = j

LEMMA SetToSeqIs ==
  ASSUME NEW S, IsFiniteSet(S)
  PROVE  \E c \in Nat : Lists(SetToSeq(S), S, c)
<1> DEFINE K == [x \in S |-> 0]
<1>1. PICK N \in Nat : N = Cardinality(S)
  BY FS_CardinalityType
<1>2. K \in [S -> Nat]
  OBVIOUS
<1>3. PICK s \in [1..N -> S] : \A x \in S : \E i \in 1..N : s[i] = x
  <2> HIDE DEF K
  <2> QED
    BY <1>1, <1>2, Arranged
<1>4. IsFiniteSet(1..N) /\ Cardinality(1..N) = N
  BY <1>1, FS_Interval
<1>5. s \in Injection(1..N, S)
  <2>1. s \in Surjection(1..N, S)
    BY <1>3 DEF Surjection
  <2> QED
    BY <1>1, <1>4, <2>1, FS_SurjSameCardinalityImpliesInj
<1>6. \E f \in [1..N -> S] : IsInjective(f)
  BY <1>5 DEF Injection
<1>7. PICK q \in [1..N -> S] : q = SetToSeq(S) /\ IsInjective(q)
  BY <1>1, <1>6, Zenon DEF SetToSeq
<1>8. q \in Injection(1..N, S)
  BY <1>7 DEF Injection
<1>9. q \in Surjection(1..N, S)
  BY <1>1, <1>4, <1>8, FS_Injection
<1>10. \A i, j \in 1..N : q[i] = q[j] => i = j
  BY <1>7 DEF IsInjective
<1>11. Lists(q, S, N)
  BY <1>7, <1>9, <1>10 DEF Surjection, Lists
<1> QED
  BY <1>7, <1>11

-----------------------------------------------------------------------------
(* The inductive invariant of CycleGroups.                                 *)

FactRows ==
  [module : Checkouts, content : Nat, dirty : BOOLEAN, edges : UNION {[ms -> Nat] : ms \in SUBSET Checkouts},
   kept : BOOLEAN]
GroupPlaces == {"idle", "group", "reuse", "publish", "done", "failed"}
GroupRunStates ==
  [pc : GroupPlaces, left : Seq(Checkouts), groups : Seq(SUBSET Checkouts), read : [Checkouts -> Nat],
   links : [Checkouts -> Nat], memo : [Checkouts -> Nat], heads : [Checkouts -> Nat], attempt : 1..GroupAttempts]

\* Every variable holds what it may hold.
GroupTypes ==
  /\ source \in [Checkouts -> Nat] /\ head \in [Checkouts -> Nat]
  /\ facts \in Seq(FactRows)
  /\ grouped \in [GroupRuns -> GroupRunStates]
  /\ pruned \in Nat

\* A snapshot links one of each module its own depends on; what is stored links what is stored,
\* and dirt passes from a link to what links it.
FactLinks(F, s) ==
  /\ DOMAIN F[s].edges = LocalDeps[F[s].module]
  /\ \A n \in LocalDeps[F[s].module] :
       /\ F[s].edges[n] \in DOMAIN F /\ F[F[s].edges[n]].module = n
       /\ F[s].kept => F[F[s].edges[n]].kept
       /\ F[F[s].edges[n]].dirty => F[s].dirty
  /\ F[s].content # 0 => F[s].dirty

\* One snapshot of each of some modules, which link each other.
IsGeneration(F, G) ==
  /\ G \in [Checkouts -> Nat]
  /\ \A m \in Checkouts : G[m] # 0 =>
       /\ G[m] \in DOMAIN F /\ F[G[m]].module = m
       /\ \A n \in LocalDeps[m] : G[n] = F[G[m]].edges[n]

\* Every snapshot is of a generation; when it is dirty, something in that has dirty content.
IsOneOf(F, s, G) ==
  /\ IsGeneration(F, G) /\ G[F[s].module] = s
  /\ F[s].dirty => \E x \in Needed(F[s].module) : F[G[x]].content # 0

\* A head is a stored snapshot of its checkout, and the heads of a group link each other.
HeadsAre(F, h) ==
  \A m \in Checkouts : h[m] # 0 =>
    /\ h[m] \in DOMAIN F /\ F[h[m]].module = m /\ F[h[m]].kept
    /\ \A n \in LocalDeps[m] : n \in GroupOf(m) => F[h[m]].edges[n] = h[n]

\* The targets a forced run has left come after what they depend on, and nothing the run
\* remembers depends on one of them, unless each depends on the other.
LeftInOrder(me) ==
  /\ \A i, j \in DOMAIN me.left : (i < j /\ me.left[j] \in Needed(me.left[i])) => me.left[i] \in Needed(me.left[j])
  /\ \A i \in DOMAIN me.left : \A n \in Checkouts :
       (me.memo[n] # 0 /\ me.left[i] \in Needed(n)) => n \in Needed(me.left[i])

\* What a target's groups depend on is linked, or in a group that is not linked yet.
GroupsInHand(me) ==
  me.pc \in {"group", "reuse", "publish"} =>
    /\ me.left # <<>>
    /\ \A i \in DOMAIN me.groups : me.groups[i] # {} /\ \A m \in me.groups[i] : m \in Needed(Head(me.left)) /\ GroupOf(m) = me.groups[i]
    /\ \A i \in DOMAIN me.groups : \A m \in me.groups[i] : \A n \in LocalDeps[m] :
         me.links[n] # 0 \/ \E j \in DOMAIN me.groups : j <= i /\ n \in me.groups[j]

\* Nothing else that a run remembers depends on the group it is about to take anew.
Replaceable(me) ==
  me.pc \in {"reuse", "publish"} =>
    /\ me.groups # <<>>
    /\ \A n \in Checkouts \ Head(me.groups) : me.memo[n] # 0 => LocalDeps[n] \cap Head(me.groups) = {}

\* What a run found reusable are snapshots of the group that link each other and what it linked.
ReuseIsSound(F, me) ==
  me.pc = "reuse" =>
    \A m \in Head(me.groups) :
      /\ me.heads[m] \in DOMAIN F /\ F[me.heads[m]].module = m
      /\ \A n \in LocalDeps[m] : F[me.heads[m]].edges[n] = IF n \in Head(me.groups) THEN me.heads[n] ELSE me.links[n]

GroupRunHolds(F, r, me) ==
  /\ IsGeneration(F, me.memo)
  /\ \A n \in Checkouts : me.links[n] # 0 => me.links[n] = me.memo[n]
  /\ r \in ForcedRuns => LeftInOrder(me)
  /\ GroupsInHand(me) /\ Replaceable(me) /\ ReuseIsSound(F, me)

FactsHold(F) == \A s \in DOMAIN F : FactLinks(F, s) /\ \E G : IsOneOf(F, s, G)

GroupInv ==
  /\ GroupTypes /\ FactsHold(facts) /\ HeadsAre(facts, head)
  /\ \A r \in GroupRuns : GroupRunHolds(facts, r, grouped[r])
  /\ pruned = 0 => \A s \in DOMAIN facts : facts[s].kept
  /\ GroupsFailForCause

-----------------------------------------------------------------------------
(* Generations.                                                            *)

LEMMA FactsAre ==
  ASSUME NEW F \in Seq(FactRows)
  PROVE  /\ Len(F) \in Nat /\ DOMAIN F = 1..Len(F) /\ 0 \notin DOMAIN F
         /\ \A s \in DOMAIN F : F[s] \in FactRows /\ F[s].module \in Checkouts /\ F[s].content \in Nat /\ F[s].dirty \in BOOLEAN /\ F[s].kept \in BOOLEAN
<1>1. Len(F) \in Nat /\ DOMAIN F = 1..Len(F)
  OBVIOUS
<1>2. \A s \in DOMAIN F : F[s] \in FactRows
  OBVIOUS
<1>3. \A x \in FactRows : x.module \in Checkouts /\ x.content \in Nat /\ x.dirty \in BOOLEAN /\ x.kept \in BOOLEAN
  BY DEF FactRows
<1> QED
  BY <1>1, <1>2, <1>3

\* Generations that agree on a module agree on all it needs.
LEMMA GenerationsAgree ==
  ASSUME NEW F \in Seq(FactRows), FactsHold(F), NEW G, NEW H, IsGeneration(F, G), IsGeneration(F, H),
         NEW m \in Checkouts, G[m] = H[m], G[m] # 0
  PROVE  \A n \in Needed(m) : G[n] = H[n] /\ G[n] # 0
<1> DEFINE C == {n \in Checkouts : G[n] = H[n] /\ G[n] # 0}
<1>1. ASSUME NEW x \in C
      PROVE  LocalDeps[x] \subseteq C
  <2>1. x \in Checkouts /\ G[x] \in DOMAIN F /\ F[G[x]].module = x /\ LocalDeps[x] \subseteq Checkouts
    BY GroupConstants DEF IsGeneration
  <2>2. FactLinks(F, G[x])
    BY <2>1 DEF FactsHold
  <2>3. \A n \in LocalDeps[x] : F[G[x]].edges[n] \in DOMAIN F
    BY <2>1, <2>2 DEF FactLinks
  <2>4. \A n \in LocalDeps[x] : G[n] = F[G[x]].edges[n] /\ H[n] = F[G[x]].edges[n]
    BY <2>1 DEF IsGeneration
  <2> QED
    BY <2>1, <2>3, <2>4, FactsAre
<1>2. m \in C /\ C \in SUBSET Checkouts
  OBVIOUS
<1> HIDE DEF C
<1>3. Needed(m) \subseteq C
  BY <1>1, <1>2, NeededLeast
<1> QED
  BY <1>3 DEF C

\* Rows that are there stay as they are, except for what is stored of them.
Grows(F, F2) ==
  \A s \in DOMAIN F : /\ s \in DOMAIN F2 /\ F2[s].module = F[s].module /\ F2[s].content = F[s].content
                      /\ F2[s].dirty = F[s].dirty /\ F2[s].edges = F[s].edges

LEMMA GenerationStays ==
  ASSUME NEW F, NEW F2, Grows(F, F2), NEW G, IsGeneration(F, G)
  PROVE  IsGeneration(F2, G)
BY DEF Grows, IsGeneration

LEMMA OneOfStays ==
  ASSUME NEW F \in Seq(FactRows), FactsHold(F), NEW F2, Grows(F, F2), NEW s \in DOMAIN F, NEW G, IsOneOf(F, s, G)
  PROVE  IsOneOf(F2, s, G)
<1>1. IsGeneration(F, G) /\ G[F[s].module] = s /\ F[s].module \in Checkouts /\ s # 0
  BY FactsAre DEF IsOneOf
<1>2. IsGeneration(F2, G)
  BY <1>1, GenerationStays
<1>3. \A n \in Needed(F[s].module) : G[n] # 0
  BY <1>1, GenerationsAgree
<1>4. Needed(F[s].module) \subseteq Checkouts
  BY <1>1, NeededIs
<1>5. \A n \in Needed(F[s].module) : G[n] \in DOMAIN F
  BY <1>1, <1>3, <1>4 DEF IsGeneration
<1>6. F2[s].module = F[s].module /\ F2[s].dirty = F[s].dirty
  BY DEF Grows
<1>7. \A n \in Needed(F[s].module) : F2[G[n]].content = F[G[n]].content
  BY <1>5 DEF Grows
<1>8. F[s].dirty => \E x \in Needed(F[s].module) : F[G[x]].content # 0
  BY DEF IsOneOf
<1> QED
  BY <1>1, <1>2, <1>6, <1>7, <1>8 DEF IsOneOf

LEMMA RunHoldsStill ==
  ASSUME NEW F, NEW F2, Grows(F, F2), NEW r, NEW me, GroupRunHolds(F, r, me)
  PROVE  GroupRunHolds(F2, r, me)
<1>1. IsGeneration(F2, me.memo)
  BY GenerationStays DEF GroupRunHolds
<1>2. ReuseIsSound(F2, me)
  BY DEF GroupRunHolds, ReuseIsSound, Grows
<1> QED
  BY <1>1, <1>2 DEF GroupRunHolds

-----------------------------------------------------------------------------
(* What a snapshot links.                                                  *)

FactGraph(F) == [t \in DOMAIN F |-> Range(F[t].edges)]

LEMMA FactGraphIs ==
  ASSUME NEW F \in Seq(FactRows), FactsHold(F)
  PROVE  /\ IsGraph(FactGraph(F)) /\ DOMAIN FactGraph(F) = DOMAIN F
         /\ \A t \in DOMAIN F : FactGraph(F)[t] = Range(F[t].edges)
         /\ \A t \in DOMAIN F : Range(F[t].edges) = {F[t].edges[n] : n \in LocalDeps[F[t].module]}
<1>1. DOMAIN FactGraph(F) = DOMAIN F /\ \A t \in DOMAIN F : FactGraph(F)[t] = Range(F[t].edges)
  BY DEF FactGraph
<1>2. \A t \in DOMAIN F : Range(F[t].edges) = {F[t].edges[n] : n \in LocalDeps[F[t].module]}
  BY DEF Range, FactsHold, FactLinks
<1>3. \A t \in DOMAIN F : \A n \in LocalDeps[F[t].module] : F[t].edges[n] \in DOMAIN F
  BY DEF FactsHold, FactLinks
<1>4. ASSUME NEW t \in DOMAIN F, NEW e \in Range(F[t].edges)
      PROVE  e \in DOMAIN F
  <2>1. PICK n \in LocalDeps[F[t].module] : e = F[t].edges[n]
    BY <1>2
  <2> QED
    BY <1>3, <2>1
<1> QED
  BY <1>1, <1>2, <1>4 DEF IsGraph

\* What the snapshots of S link in 0, 1, ... N steps, as CycleGroups defines it.
LinksInSteps(w, F, S, N) ==
  w = [n \in 0..N |-> IF n = 0 THEN S ELSE w[n - 1] \cup UNION {Range(F[t].edges) : t \in w[n - 1]}]

\* The recursive definitions of what snapshots reach have a value, which is a walk.
LEMMA FactWalkExists ==
  ASSUME NEW F \in Seq(FactRows), FactsHold(F), NEW S \in SUBSET DOMAIN F, NEW N \in Nat
  PROVE  \E w : LinksInSteps(w, F, S, N)
<1>1. PICK E : E = FactGraph(F)
  OBVIOUS
<1>2. IsGraph(E) /\ DOMAIN E = DOMAIN F /\ \A t \in DOMAIN F : E[t] = Range(F[t].edges)
  BY <1>1, FactGraphIs
<1>3. PICK w : IsWalk(w, E, S, N)
  BY <1>2, WalkExists
<1>4. \A n \in 1..N : UNION {E[t] : t \in w[n - 1]} = UNION {Range(F[t].edges) : t \in w[n - 1]}
  <2> TAKE n \in 1..N
  <2>1. n - 1 \in 0..N
    OBVIOUS
  <2>2. w[n - 1] \subseteq DOMAIN F
    BY <2>1, <1>2, <1>3 DEF IsWalk
  <2>3. \A t \in w[n - 1] : E[t] = Range(F[t].edges)
    BY <2>2, <1>2
  <2> QED
    BY <2>3, Zenon
<1>5. w = [n \in 0..N |-> w[n]]
  BY <1>3 DEF IsWalk
<1>6. \A n \in 0..N : n # 0 => n \in 1..N
  OBVIOUS
<1>7. \A n \in 0..N : w[n] = IF n = 0 THEN S ELSE w[n - 1] \cup UNION {Range(F[t].edges) : t \in w[n - 1]}
  BY <1>3, <1>4, <1>6 DEF IsWalk
<1>8. w = [n \in 0..N |-> IF n = 0 THEN S ELSE w[n - 1] \cup UNION {Range(F[t].edges) : t \in w[n - 1]}]
  BY <1>5, <1>7, Zenon
<1> QED
  BY <1>8 DEF LinksInSteps

LEMMA FactWalkIs ==
  ASSUME NEW F \in Seq(FactRows), FactsHold(F), NEW S \in SUBSET DOMAIN F, NEW N \in Nat, NEW w, LinksInSteps(w, F, S, N)
  PROVE  IsWalk(w, FactGraph(F), S, N)
<1>1. PICK E : E = FactGraph(F)
  OBVIOUS
<1>2. IsGraph(E) /\ DOMAIN E = DOMAIN F /\ \A t \in DOMAIN F : E[t] = Range(F[t].edges)
  BY <1>1, FactGraphIs
<1>3. w = [n \in 0..N |-> w[n]] /\ w[0] = S
  BY DEF LinksInSteps
<1>4. ASSUME NEW n \in 1..N, w[n - 1] \subseteq DOMAIN E
      PROVE  w[n] = w[n - 1] \cup UNION {E[t] : t \in w[n - 1]}
  <2>1. n \in 0..N /\ n # 0
    OBVIOUS
  <2>2. w[n] = w[n - 1] \cup UNION {Range(F[t].edges) : t \in w[n - 1]}
    BY <2>1 DEF LinksInSteps
  <2>3. \A t \in w[n - 1] : E[t] = Range(F[t].edges)
    BY <1>2, <1>4
  <2>4. UNION {E[t] : t \in w[n - 1]} = UNION {Range(F[t].edges) : t \in w[n - 1]}
    BY <2>3, Zenon
  <2> QED
    BY <2>2, <2>4
<1>5. IsWalk(w, E, S, N)
  BY <1>2, <1>3, <1>4, WalkIs
<1> QED
  BY <1>1, <1>5

\* What a snapshot links is its generation, of all its module needs.
LEMMA FactReaches ==
  ASSUME NEW F \in Seq(FactRows), FactsHold(F), NEW s \in DOMAIN F, NEW G, IsOneOf(F, s, G),
         NEW N \in Nat, Cardinality(Checkouts) <= N, NEW w, LinksInSteps(w, F, {s}, N)
  PROVE  /\ \A t \in w[N] : \E x \in Needed(F[s].module) : t = G[x]
         /\ \A x \in Needed(F[s].module) : G[x] \in w[N]
<1>1. PICK E : E = FactGraph(F)
  OBVIOUS
<1>2. /\ IsGraph(E) /\ DOMAIN E = DOMAIN F
      /\ \A t \in DOMAIN F : E[t] = {F[t].edges[n] : n \in LocalDeps[F[t].module]}
  BY <1>1, FactGraphIs
<1>3. N \in 0..N
  OBVIOUS
<1>4. IsWalk(w, E, {s}, N)
  BY <1>1, <1>3, FactWalkIs
<1>5. PICK m \in Checkouts : m = F[s].module
  BY FactsAre
<1>6. IsGeneration(F, G) /\ G[m] = s /\ s # 0
  BY <1>5, FactsAre DEF IsOneOf
<1>7. Needed(m) \in SUBSET Checkouts /\ m \in Needed(m) /\ \A x \in Needed(m) : LocalDeps[x] \subseteq Needed(m)
  BY NeededIs
<1>8. \A x \in Needed(m) : G[x] # 0
  BY <1>6, GenerationsAgree
<1>9. \A x \in Needed(m) : G[x] \in DOMAIN F /\ F[G[x]].module = x /\ \A n \in LocalDeps[x] : G[n] = F[G[x]].edges[n]
  BY <1>6, <1>7, <1>8 DEF IsGeneration
<1>10. PICK C : C = {G[x] : x \in Needed(m)}
  OBVIOUS
<1>11. s \in C /\ {s} \subseteq C
  BY <1>6, <1>7, <1>10
<1>12. \A t \in C : E[t] \subseteq C
  <2> SUFFICES ASSUME NEW x \in Needed(m), NEW n \in LocalDeps[x]
               PROVE  F[G[x]].edges[n] \in C
    BY <1>2, <1>9, <1>10
  <2>1. n \in Needed(m) /\ F[G[x]].edges[n] = G[n]
    BY <1>7, <1>9
  <2> QED
    BY <2>1, <1>10
<1>13. w[N] \subseteq C
  <2>1. PICK S : S = {s}
    OBVIOUS
  <2>2. IsWalk(w, E, S, N) /\ S \subseteq C
    BY <1>4, <1>11, <2>1
  <2> QED
    BY <1>3, <1>12, <2>2, WalkLeast
<1>14. IsFiniteSet(C) /\ Cardinality(C) <= N
  <2>1. IsFiniteSet(Needed(m)) /\ Cardinality(Needed(m)) <= N
    <3>1. IsFiniteSet(Needed(m)) /\ Cardinality(Needed(m)) <= Cardinality(Checkouts)
      BY <1>7, GroupConstants, FS_Subset
    <3>2. Cardinality(Needed(m)) \in Nat /\ Cardinality(Checkouts) \in Nat
      BY <3>1, GroupConstants, FS_CardinalityType
    <3> QED
      BY <3>1, <3>2
  <2> DEFINE c == [x \in Needed(m) |-> G[x]]
  <2>2. c \in Surjection(Needed(m), C)
    BY <1>10 DEF Surjection
  <2> HIDE DEF c
  <2>3. IsFiniteSet(C) /\ Cardinality(C) <= Cardinality(Needed(m))
    BY <2>1, <2>2, FS_Surjection
  <2>4. Cardinality(C) \in Nat /\ Cardinality(Needed(m)) \in Nat
    BY <2>1, <2>3, FS_CardinalityType
  <2> QED
    BY <1>3, <2>1, <2>3, <2>4
<1>15. IsReach(w[N], E, {s})
  BY <1>2, <1>3, <1>4, <1>13, <1>14, WalkReaches
<1>16. PICK D : D = {x \in Needed(m) : G[x] \in w[N]}
  OBVIOUS
<1>17. ASSUME NEW x \in D
       PROVE  LocalDeps[x] \subseteq D
  <2>1. x \in Needed(m) /\ G[x] \in w[N] /\ LocalDeps[x] \subseteq Needed(m)
    BY <1>7, <1>16
  <2>2. E[G[x]] \subseteq w[N]
    BY <2>1, <1>15 DEF IsReach
  <2>3. \A n \in LocalDeps[x] : G[n] \in E[G[x]]
    BY <2>1, <1>2, <1>9
  <2> QED
    BY <2>1, <2>2, <2>3, <1>16
<1>18. m \in D /\ D \in SUBSET Checkouts
  BY <1>6, <1>7, <1>15, <1>16 DEF IsReach
<1>19. Needed(m) \subseteq D
  BY <1>17, <1>18, NeededLeast
<1> QED
  BY <1>5, <1>10, <1>13, <1>16, <1>19

\* Dirty content of a generation makes what needs it dirty; what is stored has all it needs stored.
LEMMA GenerationInherits ==
  ASSUME NEW F \in Seq(FactRows), FactsHold(F), NEW G, IsGeneration(F, G), NEW m \in Checkouts, G[m] # 0
  PROVE  /\ \A x \in Needed(m) : F[G[x]].content # 0 => F[G[m]].dirty
         /\ F[G[m]].kept => \A x \in Needed(m) : F[G[x]].kept
<1>1. \A x \in Checkouts : G[x] # 0 =>
        /\ G[x] \in DOMAIN F /\ F[G[x]].module = x /\ FactLinks(F, G[x])
        /\ \A n \in LocalDeps[x] : n \in Checkouts /\ G[n] = F[G[x]].edges[n] /\ G[n] \in DOMAIN F /\ G[n] # 0
  <2> TAKE x \in Checkouts
  <2> HAVE G[x] # 0
  <2>1. G[x] \in DOMAIN F /\ F[G[x]].module = x /\ \A n \in LocalDeps[x] : G[n] = F[G[x]].edges[n]
    BY DEF IsGeneration
  <2>2. FactLinks(F, G[x])
    BY <2>1 DEF FactsHold
  <2>3. \A n \in LocalDeps[x] : F[G[x]].edges[n] \in DOMAIN F
    BY <2>1, <2>2 DEF FactLinks
  <2> QED
    BY <2>1, <2>2, <2>3, FactsAre, GroupConstants
<1>2. \A x \in Checkouts : G[x] # 0 => \A n \in LocalDeps[x] :
        (F[G[n]].dirty => F[G[x]].dirty) /\ (F[G[x]].kept => F[G[n]].kept)
  BY <1>1 DEF FactLinks
<1> DEFINE C == {x \in Checkouts : G[x] # 0 /\ (F[G[x]].dirty => F[G[m]].dirty) /\ (F[G[m]].kept => F[G[x]].kept)}
<1>3. \A x \in C : LocalDeps[x] \subseteq C
  BY <1>1, <1>2
<1>4. m \in C /\ C \in SUBSET Checkouts
  OBVIOUS
<1> HIDE DEF C
<1>5. Needed(m) \subseteq C
  BY <1>3, <1>4, NeededLeast
<1>6. \A x \in Needed(m) : G[x] # 0 /\ x \in Checkouts /\ (F[G[x]].dirty => F[G[m]].dirty) /\ (F[G[m]].kept => F[G[x]].kept)
  BY <1>5 DEF C
<1>7. \A x \in Needed(m) : F[G[x]].content # 0 => F[G[x]].dirty
  BY <1>1, <1>6 DEF FactLinks
<1> QED
  BY <1>6, <1>7

-----------------------------------------------------------------------------
(* GroupInv implies GroupsStayTogether.                                    *)

LEMMA GroupInvTypes == GroupInv => GroupTypeOK
<1> SUFFICES ASSUME GroupInv
             PROVE  GroupTypeOK
  OBVIOUS
<1>1. GroupTypes /\ HeadsAre(facts, head)
  BY DEF GroupInv
<1>2. facts \in Seq(FactRows) /\ head \in [Checkouts -> Nat]
  BY <1>1 DEF GroupTypes
<1>3. \A m \in Checkouts : head[m] # 0 => head[m] \in DOMAIN facts /\ facts[head[m]].module = m
  BY <1>1 DEF HeadsAre
<1>4. head \in [Checkouts -> 0..Len(facts)]
  <2>1. \A m \in Checkouts : head[m] \in 0..Len(facts)
    BY <1>2, <1>3, FactsAre
  <2> QED
    BY <1>2, <2>1
<1>5. \A r \in GroupRuns : grouped[r].attempt \in 1..GroupAttempts
  <2>1. \A me \in GroupRunStates : me.attempt \in 1..GroupAttempts
    BY DEF GroupRunStates
  <2> QED
    BY <1>1, <2>1 DEF GroupTypes
<1> QED
  BY <1>3, <1>4, <1>5 DEF GroupTypeOK

LEMMA GroupInvHeads == GroupInv => CycleHeadsAgree
BY DEF GroupInv, HeadsAre, CycleHeadsAgree

LEMMA GroupInvLinks == GroupInv => LinksAreOneGeneration
<1> SUFFICES ASSUME GroupInv, NEW s \in KeptFacts
             PROVE  LET reach[n \in 0..Cardinality(Checkouts)] ==
                          IF n = 0 THEN {s} ELSE reach[n - 1] \cup UNION {Range(facts[t].edges) : t \in reach[n - 1]}
                    IN \A t, u \in reach[Cardinality(Checkouts)] : t \in KeptFacts /\ (facts[t].module = facts[u].module => t = u)
  BY Zenon DEF LinksAreOneGeneration
<1> DEFINE N == Cardinality(Checkouts)
           reach[n \in 0..N] ==
             IF n = 0 THEN {s} ELSE reach[n - 1] \cup UNION {Range(facts[t].edges) : t \in reach[n - 1]}
<1> SUFFICES \A t, u \in reach[N] : t \in KeptFacts /\ (facts[t].module = facts[u].module => t = u)
  BY Zenon
<1>1. facts \in Seq(FactRows) /\ FactsHold(facts)
  BY DEF GroupInv, GroupTypes
<1>2. N \in Nat
  BY GroupConstants, FS_CardinalityType
<1>3. s \in DOMAIN facts /\ facts[s].kept /\ {s} \in SUBSET DOMAIN facts
  BY DEF KeptFacts
<1> HIDE DEF N
<1>4. \E w : LinksInSteps(w, facts, {s}, N)
  BY <1>1, <1>2, <1>3, FactWalkExists
<1>5. LinksInSteps(reach, facts, {s}, N)
  BY <1>4 DEF LinksInSteps
<1> HIDE DEF reach
<1>6. PICK G : IsOneOf(facts, s, G)
  BY <1>1, <1>3 DEF FactsHold
<1>7. PICK m \in Checkouts : m = facts[s].module
  BY <1>1, <1>3, FactsAre
<1>8. \A t \in reach[N] : \E x \in Needed(m) : t = G[x]
  <2>1. Cardinality(Checkouts) <= N
    BY <1>2 DEF N
  <2>2. PICK w : w = reach
    OBVIOUS
  <2>3. LinksInSteps(w, facts, {s}, N)
    BY <1>5, <2>2
  <2>4. /\ \A t \in w[N] : \E x \in Needed(facts[s].module) : t = G[x]
        /\ \A x \in Needed(facts[s].module) : G[x] \in w[N]
    BY <1>1, <1>2, <1>3, <1>6, <2>1, <2>3, FactReaches
  <2> QED
    BY <1>7, <2>2, <2>4
<1>9. IsGeneration(facts, G) /\ G[m] = s /\ s # 0 /\ Needed(m) \subseteq Checkouts
  BY <1>1, <1>3, <1>6, <1>7, FactsAre, NeededIs DEF IsOneOf
<1>10. \A x \in Needed(m) : G[x] # 0 /\ facts[G[x]].kept
  BY <1>1, <1>3, <1>9, GenerationInherits, GenerationsAgree
<1>11. \A x \in Needed(m) : G[x] \in DOMAIN facts /\ facts[G[x]].module = x
  BY <1>9, <1>10 DEF IsGeneration
<1> QED
  BY <1>8, <1>10, <1>11 DEF KeptFacts

LEMMA GroupInvDirt == GroupInv => DirtIsInherited
<1> SUFFICES ASSUME GroupInv, NEW s \in KeptFacts
             PROVE  LET reach[n \in 0..Cardinality(Checkouts)] ==
                          IF n = 0 THEN {s} ELSE reach[n - 1] \cup UNION {Range(facts[t].edges) : t \in reach[n - 1]}
                    IN facts[s].dirty <=> \E t \in reach[Cardinality(Checkouts)] : facts[t].content # 0
  BY Zenon DEF DirtIsInherited
<1> DEFINE N == Cardinality(Checkouts)
           reach[n \in 0..N] ==
             IF n = 0 THEN {s} ELSE reach[n - 1] \cup UNION {Range(facts[t].edges) : t \in reach[n - 1]}
<1> SUFFICES facts[s].dirty <=> \E t \in reach[N] : facts[t].content # 0
  BY Zenon
<1>1. facts \in Seq(FactRows) /\ FactsHold(facts)
  BY DEF GroupInv, GroupTypes
<1>2. N \in Nat
  BY GroupConstants, FS_CardinalityType
<1>3. s \in DOMAIN facts /\ {s} \in SUBSET DOMAIN facts
  BY DEF KeptFacts
<1> HIDE DEF N
<1>4. \E w : LinksInSteps(w, facts, {s}, N)
  BY <1>1, <1>2, <1>3, FactWalkExists
<1>5. LinksInSteps(reach, facts, {s}, N)
  BY <1>4 DEF LinksInSteps
<1> HIDE DEF reach
<1>6. PICK G : IsOneOf(facts, s, G)
  BY <1>1, <1>3 DEF FactsHold
<1>7. PICK m \in Checkouts : m = facts[s].module
  BY <1>1, <1>3, FactsAre
<1>8. (\A t \in reach[N] : \E x \in Needed(m) : t = G[x]) /\ \A x \in Needed(m) : G[x] \in reach[N]
  <2>1. Cardinality(Checkouts) <= N
    BY <1>2 DEF N
  <2>2. PICK w : w = reach
    OBVIOUS
  <2>3. LinksInSteps(w, facts, {s}, N)
    BY <1>5, <2>2
  <2>4. /\ \A t \in w[N] : \E x \in Needed(facts[s].module) : t = G[x]
        /\ \A x \in Needed(facts[s].module) : G[x] \in w[N]
    BY <1>1, <1>2, <1>3, <1>6, <2>1, <2>3, FactReaches
  <2> QED
    BY <1>7, <2>2, <2>4
<1>9. IsGeneration(facts, G) /\ G[m] = s /\ s # 0
  BY <1>1, <1>3, <1>6, <1>7, FactsAre DEF IsOneOf
<1>10. facts[s].dirty => \E x \in Needed(m) : facts[G[x]].content # 0
  BY <1>6, <1>7 DEF IsOneOf
<1>11. \A x \in Needed(m) : facts[G[x]].content # 0 => facts[s].dirty
  BY <1>1, <1>9, GenerationInherits
<1>12. facts[s].dirty \in BOOLEAN
  BY <1>1, <1>3, FactsAre
<1> QED
  BY <1>8, <1>10, <1>11, <1>12

LEMMA GroupInvSuffices == GroupInv => GroupsStayTogether
BY GroupInvTypes, GroupInvHeads, GroupInvLinks, GroupInvDirt DEF GroupInv, GroupsStayTogether

-----------------------------------------------------------------------------
(* GroupInv is preserved.                                                  *)

LEMMA GroupRunIs ==
  ASSUME NEW me \in GroupRunStates
  PROVE  /\ me.pc \in GroupPlaces /\ me.left \in Seq(Checkouts) /\ me.groups \in Seq(SUBSET Checkouts)
         /\ me.read \in [Checkouts -> Nat] /\ me.links \in [Checkouts -> Nat] /\ me.memo \in [Checkouts -> Nat]
         /\ me.heads \in [Checkouts -> Nat] /\ me.attempt \in 1..GroupAttempts
         /\ DOMAIN me = {"pc", "left", "groups", "read", "links", "memo", "heads", "attempt"}
BY DEF GroupRunStates

LEMMA RunOf ==
  ASSUME GroupInv, NEW r \in GroupRuns
  PROVE  /\ grouped[r] \in GroupRunStates /\ GroupRunHolds(facts, r, grouped[r])
         /\ facts \in Seq(FactRows) /\ FactsHold(facts) /\ HeadsAre(facts, head)
         /\ grouped[r].pc = "failed" => grouped[r].attempt = GroupAttempts \/ pruned > 0
BY DEF GroupInv, GroupTypes, GroupsFailForCause

LEMMA FactsGrow ==
  ASSUME NEW F
  PROVE  Grows(F, F)
BY DEF Grows

\* A step of one run, which may publish.
LEMMA GroupStepKeeps ==
  ASSUME GroupInv, NEW r \in GroupRuns, NEW me \in GroupRunStates, grouped' = [grouped EXCEPT ![r] = me],
         UNCHANGED <<source, pruned>>, head' \in [Checkouts -> Nat], facts' \in Seq(FactRows),
         Grows(facts, facts'), FactsHold(facts'), HeadsAre(facts', head'),
         pruned = 0 => \A s \in DOMAIN facts' : facts'[s].kept,
         GroupRunHolds(facts', r, me), me.pc = "failed" => me.attempt = GroupAttempts \/ pruned > 0
  PROVE  GroupInv'
<1>1. PICK g \in [GroupRuns -> GroupRunStates] : g = grouped
  BY DEF GroupInv, GroupTypes
<1>2. grouped' = [g EXCEPT ![r] = me]
  BY <1>1
<1>3. grouped' \in [GroupRuns -> GroupRunStates] /\ \A q \in GroupRuns : grouped'[q] = IF q = r THEN me ELSE g[q]
  BY <1>2
<1>4. GroupTypes'
  BY <1>3 DEF GroupInv, GroupTypes
<1>5. ASSUME NEW q \in GroupRuns
      PROVE  GroupRunHolds(facts', q, grouped'[q])
  <2>1. CASE q = r
    BY <1>3, <2>1
  <2>2. CASE q # r
    <3>1. GroupRunHolds(facts, q, g[q])
      BY <1>1 DEF GroupInv
    <3>2. GroupRunHolds(facts', q, g[q])
      BY <3>1, RunHoldsStill
    <3> QED
      BY <1>3, <2>2, <3>2
  <2> QED
    BY <2>1, <2>2
<1>6. GroupsFailForCause'
  <2>1. \A q \in GroupRuns : g[q].pc = "failed" => g[q].attempt = GroupAttempts \/ pruned > 0
    BY <1>1 DEF GroupInv, GroupsFailForCause
  <2>2. \A q \in GroupRuns : grouped'[q].pc = "failed" => grouped'[q].attempt = GroupAttempts \/ pruned > 0
    BY <1>3, <2>1
  <2> QED
    BY <2>2 DEF GroupsFailForCause
<1> QED
  BY <1>4, <1>5, <1>6 DEF GroupInv

LEMMA GroupStepKeepsFacts ==
  ASSUME GroupInv, NEW r \in GroupRuns, NEW me \in GroupRunStates, grouped' = [grouped EXCEPT ![r] = me],
         UNCHANGED <<source, facts, head, pruned>>,
         GroupRunHolds(facts, r, me), me.pc = "failed" => me.attempt = GroupAttempts \/ pruned > 0
  PROVE  GroupInv'
<1>1. /\ head \in [Checkouts -> Nat] /\ facts \in Seq(FactRows)
      /\ FactsHold(facts) /\ HeadsAre(facts, head) /\ Grows(facts, facts)
      /\ pruned = 0 => \A s \in DOMAIN facts : facts[s].kept
  BY FactsGrow DEF GroupInv, GroupTypes
<1> QED
  BY <1>1, GroupStepKeeps

LEMMA NothingIs ==
  Nothing \in [Checkouts -> Nat] /\ \A m \in Checkouts : Nothing[m] = 0
BY DEF Nothing

LEMMA NothingIsAGeneration ==
  ASSUME NEW F
  PROVE  IsGeneration(F, Nothing)
BY NothingIs DEF IsGeneration

LEMMA ReadGraphKeeps ==
  ASSUME GroupInv, NEW r \in GroupRuns, ReadGraph(r)
  PROVE  GroupInv'
<1>1. PICK me \in GroupRunStates : me = grouped[r] /\ GroupRunHolds(facts, r, me)
  BY RunOf
<1>2. me.pc = "idle" /\ me.left # <<>> /\ UNCHANGED <<source, facts, head, pruned>>
  BY <1>1 DEF ReadGraph
<1>3. me.left \in Seq(Checkouts)
  BY GroupRunIs
<1>4. PICK m \in Checkouts : m = Head(me.left)
  BY <1>2, <1>3, TailIs
<1>5. PICK gs : gs = GroupOrder(m)
  OBVIOUS
<1>6. IsGroupOrder(gs, m)
  BY <1>5, GroupOrderIs
<1>7. source \in [Checkouts -> Nat]
  BY DEF GroupInv, GroupTypes
<1>8. PICK y : y = [me EXCEPT !.pc = "group", !.groups = gs, !.read = source, !.links = Nothing]
  OBVIOUS
<1>9. grouped' = [grouped EXCEPT ![r] = y]
  BY <1>1, <1>4, <1>5, <1>8 DEF ReadGraph, GroupInv, GroupTypes
<1>10. y \in GroupRunStates
  BY <1>6, <1>7, <1>8, NothingIs DEF GroupRunStates, GroupPlaces, IsGroupOrder
<1>11. /\ y.pc = "group" /\ y.groups = gs /\ y.links = Nothing /\ y.memo = me.memo /\ y.left = me.left
  BY <1>8, GroupRunIs
<1>12. GroupsInHand(y)
  BY <1>2, <1>4, <1>6, <1>11 DEF GroupsInHand, IsGroupOrder
<1>13. Replaceable(y) /\ ReuseIsSound(facts, y)
  BY <1>11 DEF Replaceable, ReuseIsSound
<1>14. r \in ForcedRuns => LeftInOrder(y)
  BY <1>1, <1>11 DEF GroupRunHolds, LeftInOrder
<1>15. \A n \in Checkouts : y.links[n] = 0
  BY <1>11, NothingIs
<1>16. GroupRunHolds(facts, r, y)
  BY <1>1, <1>11, <1>12, <1>13, <1>14, <1>15 DEF GroupRunHolds
<1> QED
  BY <1>2, <1>9, <1>10, <1>11, <1>16, GroupStepKeepsFacts

LEMMA InputsChangedKeeps ==
  ASSUME GroupInv, NEW r \in GroupRuns, InputsChanged(r), UNCHANGED <<source, facts, head, pruned>>
  PROVE  GroupInv'
<1>1. PICK me \in GroupRunStates : me = grouped[r] /\ GroupRunHolds(facts, r, me)
  BY RunOf
<1>2. me.attempt \in 1..GroupAttempts /\ me.left \in Seq(Checkouts) /\ GroupAttempts \in Nat
  BY GroupRunIs, GroupConstants
<1>3. grouped \in [GroupRuns -> GroupRunStates]
  BY DEF GroupInv, GroupTypes
<1>4. CASE me.attempt < GroupAttempts
  <2>1. PICK y : y = [NewGroupRun EXCEPT !.left = me.left, !.attempt = me.attempt + 1]
    OBVIOUS
  <2>2. grouped' = [grouped EXCEPT ![r] = y]
    BY <1>1, <1>4, <2>1 DEF InputsChanged
  <2>3. /\ y.pc = "idle" /\ y.left = me.left /\ y.groups = <<>> /\ y.read = Nothing /\ y.links = Nothing
        /\ y.memo = Nothing /\ y.heads = Nothing /\ y.attempt = me.attempt + 1
    BY <2>1 DEF NewGroupRun
  <2>4. y = [pc |-> "idle", left |-> me.left, groups |-> <<>>, read |-> Nothing, links |-> Nothing,
             memo |-> Nothing, heads |-> Nothing, attempt |-> me.attempt + 1]
    BY <2>1 DEF NewGroupRun
  <2>5. y \in GroupRunStates
    <3>1. <<>> \in Seq(SUBSET Checkouts) /\ me.attempt + 1 \in 1..GroupAttempts
      BY <1>2, <1>4
    <3> QED
      BY <1>2, <2>4, <3>1, NothingIs DEF GroupRunStates, GroupPlaces
  <2>6. r \in ForcedRuns => LeftInOrder(y)
    BY <1>1, <2>3, NothingIs DEF GroupRunHolds, LeftInOrder
  <2>7. GroupRunHolds(facts, r, y)
    BY <2>3, <2>6, NothingIs, NothingIsAGeneration DEF GroupRunHolds, GroupsInHand, Replaceable, ReuseIsSound
  <2> QED
    BY <2>2, <2>3, <2>5, <2>7, GroupStepKeepsFacts
<1>5. CASE ~(me.attempt < GroupAttempts)
  <2>1. PICK y : y = [me EXCEPT !.pc = "failed"]
    OBVIOUS
  <2>2. grouped' = [grouped EXCEPT ![r] = y]
    BY <1>1, <1>5, <2>1 DEF InputsChanged
  <2>3. y \in GroupRunStates
    BY <2>1 DEF GroupRunStates, GroupPlaces
  <2>4. y.pc = "failed" /\ y.left = me.left /\ y.memo = me.memo /\ y.links = me.links /\ y.attempt = me.attempt
    BY <2>1, GroupRunIs
  <2>5. me.attempt = GroupAttempts
    BY <1>2, <1>5
  <2>6. GroupRunHolds(facts, r, y)
    BY <1>1, <2>4 DEF GroupRunHolds, LeftInOrder, GroupsInHand, Replaceable, ReuseIsSound
  <2> QED
    BY <2>2, <2>3, <2>4, <2>5, <2>6, GroupStepKeepsFacts
<1> QED
  BY <1>4, <1>5

LEMMA NextTargetKeeps ==
  ASSUME GroupInv, NEW r \in GroupRuns, NextTarget(r)
  PROVE  GroupInv'
<1>1. PICK me \in GroupRunStates : me = grouped[r] /\ GroupRunHolds(facts, r, me)
  BY RunOf
<1>2. me.pc = "group" /\ UNCHANGED <<source, facts, head, pruned>>
  BY <1>1 DEF NextTarget
<1>3. me.left \in Seq(Checkouts) /\ me.left # <<>>
  BY <1>1, <1>2, GroupRunIs DEF GroupRunHolds, GroupsInHand
<1>4. PICK p \in {"done", "idle"} : p = IF Len(me.left) = 1 THEN "done" ELSE "idle"
  OBVIOUS
<1>5. PICK rest : rest = Tail(me.left)
  OBVIOUS
<1>6. /\ rest \in Seq(Checkouts)
      /\ \A i \in DOMAIN rest : i + 1 \in DOMAIN me.left /\ rest[i] = me.left[i + 1]
  BY <1>3, <1>5
<1>7. PICK y : y = [me EXCEPT !.pc = p, !.left = rest, !.attempt = 1]
  OBVIOUS
<1>8. grouped' = [grouped EXCEPT ![r] = y]
  BY <1>1, <1>4, <1>5, <1>7 DEF NextTarget, GroupInv, GroupTypes
<1>9. y \in GroupRunStates
  <2>1. 1 \in 1..GroupAttempts
    BY GroupConstants
  <2> QED
    BY <1>4, <1>6, <1>7, <2>1 DEF GroupRunStates, GroupPlaces
<1>10. y.pc = p /\ y.left = rest /\ y.memo = me.memo /\ y.links = me.links
  BY <1>7, GroupRunIs
<1>11. p # "group" /\ p # "reuse" /\ p # "publish" /\ p # "failed"
  BY <1>4
<1>12. ASSUME r \in ForcedRuns
       PROVE  LeftInOrder(y)
  <2>1. LeftInOrder(me)
    BY <1>1, <1>12 DEF GroupRunHolds
  <2>2. \A i, j \in DOMAIN rest : i < j => i + 1 < j + 1
    BY <1>6
  <2>3. \A i, j \in DOMAIN rest : (i < j /\ rest[j] \in Needed(rest[i])) => rest[i] \in Needed(rest[j])
    BY <1>6, <2>1, <2>2 DEF LeftInOrder
  <2>4. \A i \in DOMAIN rest : \A n \in Checkouts : (me.memo[n] # 0 /\ rest[i] \in Needed(n)) => n \in Needed(rest[i])
    BY <1>6, <2>1 DEF LeftInOrder
  <2> QED
    BY <1>10, <2>3, <2>4 DEF LeftInOrder
<1>13. GroupsInHand(y) /\ Replaceable(y) /\ ReuseIsSound(facts, y)
  BY <1>10, <1>11 DEF GroupsInHand, Replaceable, ReuseIsSound
<1>14. GroupRunHolds(facts, r, y)
  BY <1>1, <1>10, <1>12, <1>13 DEF GroupRunHolds
<1> QED
  BY <1>2, <1>8, <1>9, <1>10, <1>11, <1>14, GroupStepKeepsFacts

\* The group a run is at: the group of each of its members, which depend on each other and on
\* what the run linked.
AtGroup(me, g) ==
  /\ g \in SUBSET Checkouts /\ g # {}
  /\ \A m \in g : m \in Needed(Head(me.left)) /\ GroupOf(m) = g
  /\ \A m \in g : \A n \in LocalDeps[m] : n \in Checkouts /\ (n \in g \/ me.links[n] # 0)

LEMMA AtGroupIs ==
  ASSUME NEW me \in GroupRunStates, GroupsInHand(me), me.pc \in {"group", "reuse", "publish"}, me.groups # <<>>
  PROVE  AtGroup(me, Head(me.groups)) /\ me.left # <<>> /\ me.left \in Seq(Checkouts) /\ Head(me.left) \in Checkouts
<1>1. PICK gs \in Seq(SUBSET Checkouts) : gs = me.groups
  BY GroupRunIs
<1>2. me.left # <<>> /\ me.left \in Seq(Checkouts)
  BY GroupRunIs DEF GroupsInHand
<1>3. 1 \in DOMAIN gs /\ gs[1] = Head(gs) /\ Head(gs) \in SUBSET Checkouts /\ \A j \in DOMAIN gs : j <= 1 => j = 1
  BY <1>1
<1>4. gs[1] # {} /\ \A m \in gs[1] : m \in Needed(Head(me.left)) /\ GroupOf(m) = gs[1]
  BY <1>1, <1>3 DEF GroupsInHand
<1>5. ASSUME NEW m \in gs[1], NEW n \in LocalDeps[m]
      PROVE  n \in Checkouts /\ (n \in gs[1] \/ me.links[n] # 0)
  <2>1. me.links[n] # 0 \/ \E j \in DOMAIN gs : j <= 1 /\ n \in gs[j]
    BY <1>1, <1>3 DEF GroupsInHand
  <2>2. n \in Checkouts
    BY <1>3, GroupConstants
  <2> QED
    BY <1>3, <2>1, <2>2
<1>6. AtGroup(me, gs[1])
  BY <1>3, <1>4, <1>5 DEF AtGroup
<1> QED
  BY <1>1, <1>2, <1>3, <1>6, TailIs

\* What a run remembers that depends on a group it is to take anew is in the group: either not all
\* of the group is remembered, and then nothing that needs it is, or it is that of a forced target.
LEMMA GroupIsReplaceable ==
  ASSUME NEW F \in Seq(FactRows), FactsHold(F), NEW r, NEW me \in GroupRunStates, GroupRunHolds(F, r, me),
         me.left \in Seq(Checkouts), me.left # <<>>, NEW g, AtGroup(me, g),
         (r \in ForcedRuns /\ Head(me.left) \in g) \/ \E m \in g : me.memo[m] = 0,
         NEW n \in Checkouts \ g, me.memo[n] # 0, NEW k \in LocalDeps[n], k \in g
  PROVE  FALSE
<1>1. k \in Checkouts /\ k \in Needed(n) /\ Needed(k) \subseteq Needed(n) /\ Needed(n) \subseteq Checkouts /\ g \subseteq Checkouts
  BY NeededIs DEF AtGroup
<1>2. g \subseteq Needed(k) /\ \A m \in g : k \in Needed(m)
  <2>1. GroupOf(k) = g
    BY DEF AtGroup
  <2> QED
    BY <1>1, <2>1, GroupOfIs
<1>3. CASE \E m \in g : me.memo[m] = 0
  <2>1. IsGeneration(F, me.memo)
    BY DEF GroupRunHolds
  <2>2. \A x \in Needed(n) : me.memo[x] # 0
    BY <2>1, GenerationsAgree
  <2> QED
    BY <1>1, <1>2, <1>3, <2>2
<1>4. CASE r \in ForcedRuns /\ Head(me.left) \in g
  <2>1. PICK h \in g : h = Head(me.left)
    BY <1>4
  <2>2. 1 \in DOMAIN me.left /\ me.left[1] = h
    BY <2>1
  <2>3. h \in Needed(n)
    BY <1>1, <1>2
  <2>4. n \in Needed(h)
    BY <1>4, <2>2, <2>3 DEF GroupRunHolds, LeftInOrder
  <2>5. GroupOf(h) = g /\ h \in Checkouts
    BY <1>1 DEF AtGroup
  <2>6. n \in GroupOf(h)
    BY <2>3, <2>4 DEF GroupOf
  <2> QED
    BY <2>5, <2>6
<1> QED
  BY <1>3, <1>4

\* Snapshots of a group that link each other and what the run linked.
AreGroupSnapshots(F, me, g, ids) ==
  \A m \in g :
    /\ ids[m] \in DOMAIN F /\ F[ids[m]].module = m
    /\ \A n \in LocalDeps[m] : F[ids[m]].edges[n] = IF n \in g THEN ids[n] ELSE me.links[n]

Remembering(me, g, ids) == [m \in Checkouts |-> IF m \in g THEN ids[m] ELSE me.memo[m]]

LEMMA RememberingIs ==
  ASSUME NEW F \in Seq(FactRows), NEW me \in GroupRunStates, NEW r, GroupRunHolds(F, r, me), NEW g, AtGroup(me, g), NEW ids,
         AreGroupSnapshots(F, me, g, ids), \A n \in Checkouts \ g : me.memo[n] # 0 => LocalDeps[n] \cap g = {}
  PROVE  IsGeneration(F, Remembering(me, g, ids))
<1>1. PICK G : G = Remembering(me, g, ids)
  OBVIOUS
<1>2. G = [m \in Checkouts |-> G[m]] /\ \A m \in Checkouts : G[m] = IF m \in g THEN ids[m] ELSE me.memo[m]
  BY <1>1 DEF Remembering
<1>3. me.memo \in [Checkouts -> Nat] /\ IsGeneration(F, me.memo) /\ g \subseteq Checkouts
  BY GroupRunIs DEF GroupRunHolds, AtGroup
<1>4. \A m \in Checkouts : G[m] \in Nat
  BY <1>2, <1>3, FactsAre DEF AreGroupSnapshots
<1>5. ASSUME NEW m \in g
      PROVE  G[m] \in DOMAIN F /\ F[G[m]].module = m /\ \A n \in LocalDeps[m] : G[n] = F[G[m]].edges[n]
  <2>1. G[m] = ids[m]
    BY <1>2, <1>3
  <2>2. ASSUME NEW n \in LocalDeps[m]
        PROVE  G[n] = F[ids[m]].edges[n]
    <3>1. n \in Checkouts /\ (n \in g \/ me.links[n] # 0)
      BY DEF AtGroup
    <3>2. me.links[n] # 0 => me.links[n] = me.memo[n]
      BY <3>1 DEF GroupRunHolds
    <3> QED
      BY <1>2, <3>1, <3>2 DEF AreGroupSnapshots
  <2> QED
    BY <2>1, <2>2 DEF AreGroupSnapshots
<1>6. ASSUME NEW m \in Checkouts \ g, G[m] # 0
      PROVE  G[m] \in DOMAIN F /\ F[G[m]].module = m /\ \A n \in LocalDeps[m] : G[n] = F[G[m]].edges[n]
  <2>1. G[m] = me.memo[m]
    BY <1>2
  <2>2. \A n \in LocalDeps[m] : n \in Checkouts /\ n \notin g
    BY <1>6, <2>1, GroupConstants
  <2>3. \A n \in LocalDeps[m] : G[n] = me.memo[n]
    BY <1>2, <2>2
  <2> QED
    BY <1>3, <1>6, <2>1, <2>3 DEF IsGeneration
<1>7. G \in [Checkouts -> Nat]
  BY <1>2, <1>4
<1>8. IsGeneration(F, G)
  BY <1>5, <1>6, <1>7 DEF IsGeneration
<1> QED
  BY <1>1, <1>8

\* The run once it has the group's snapshots: NextGroup.
GoesOn(me, g, ids, y) ==
  y = [me EXCEPT !.pc = "group", !.groups = Tail(me.groups), !.heads = Nothing,
                 !.links = [m \in Checkouts |-> IF m \in g THEN ids[m] ELSE me.links[m]],
                 !.memo = Remembering(me, g, ids)]

LEMMA NextGroupIs ==
  ASSUME GroupInv, NEW r \in GroupRuns, NEW me, me = grouped[r], NEW ids, NEW g, DOMAIN ids = g, NextGroup(r, ids)
  PROVE  \E y : GoesOn(me, g, ids, y) /\ grouped' = [grouped EXCEPT ![r] = y]
<1>1. PICK y : y = [me EXCEPT !.pc = "group", !.groups = Tail(me.groups), !.heads = Nothing,
                              !.links = [m \in Checkouts |-> IF m \in g THEN ids[m] ELSE me.links[m]],
                              !.memo = Remembering(me, g, ids)]
  OBVIOUS
<1>2. grouped' = [grouped EXCEPT ![r] = y]
  BY <1>1 DEF NextGroup, Remembering, GroupInv, GroupTypes
<1> QED
  BY <1>1, <1>2 DEF GoesOn

\* Going on to the next group with snapshots that extend what the run remembers.
LEMMA NextGroupHolds ==
  ASSUME NEW F \in Seq(FactRows), NEW r, NEW me \in GroupRunStates, GroupRunHolds(F, r, me),
         me.pc \in {"group", "reuse", "publish"}, me.groups # <<>>, NEW g, g = Head(me.groups),
         NEW ids, \A m \in g : ids[m] \in Nat \ {0}, IsGeneration(F, Remembering(me, g, ids)),
         NEW y, GoesOn(me, g, ids, y)
  PROVE  y \in GroupRunStates /\ GroupRunHolds(F, r, y) /\ y.pc = "group"
<1>1. PICK G : G = Remembering(me, g, ids)
  OBVIOUS
<1>2. PICK L : L = [m \in Checkouts |-> IF m \in g THEN ids[m] ELSE me.links[m]]
  OBVIOUS
<1>3. PICK gs \in Seq(SUBSET Checkouts) : gs = me.groups
  BY GroupRunIs
<1>4. PICK rest \in Seq(SUBSET Checkouts) : rest = Tail(gs)
  BY <1>3, TailIs
<1>5. y = [me EXCEPT !.pc = "group", !.groups = rest, !.heads = Nothing, !.links = L, !.memo = G]
  BY <1>1, <1>2, <1>3, <1>4 DEF GoesOn
<1>6. /\ me.links \in [Checkouts -> Nat] /\ L \in [Checkouts -> Nat] /\ G \in [Checkouts -> Nat]
      /\ \A m \in Checkouts : L[m] = IF m \in g THEN ids[m] ELSE me.links[m]
      /\ \A m \in Checkouts : G[m] = IF m \in g THEN ids[m] ELSE me.memo[m]
  <2>1. me.links \in [Checkouts -> Nat] /\ G \in [Checkouts -> Nat]
    BY <1>1, GroupRunIs DEF IsGeneration
  <2>2. \A m \in Checkouts : G[m] = IF m \in g THEN ids[m] ELSE me.memo[m]
    BY <1>1 DEF Remembering
  <2>3. \A m \in Checkouts : L[m] = (IF m \in g THEN ids[m] ELSE me.links[m]) /\ L[m] \in Nat
    BY <1>2, <2>1
  <2>4. L \in [Checkouts -> Nat]
    BY <1>2, <2>3
  <2> QED
    BY <2>1, <2>2, <2>3, <2>4
<1>7. y \in GroupRunStates
  BY <1>5, <1>6, NothingIs DEF GroupRunStates, GroupPlaces
<1>8. y.pc = "group" /\ y.groups = rest /\ y.links = L /\ y.memo = G /\ y.left = me.left
  BY <1>5, GroupRunIs
<1>9. /\ AtGroup(me, g) /\ me.left # <<>> /\ me.left \in Seq(Checkouts) /\ Head(me.left) \in Checkouts
  BY AtGroupIs DEF GroupRunHolds
<1>10. \A n \in Checkouts : L[n] # 0 => L[n] = G[n]
  BY <1>6 DEF GroupRunHolds
<1>11. ASSUME r \in ForcedRuns
       PROVE  LeftInOrder(y)
  <2>1. LeftInOrder(me)
    BY <1>11 DEF GroupRunHolds
  <2>2. ASSUME NEW i \in DOMAIN me.left, NEW n \in Checkouts, G[n] # 0, me.left[i] \in Needed(n)
        PROVE  n \in Needed(me.left[i])
    <3>1. CASE n \notin g
      BY <1>6, <2>1, <2>2, <3>1 DEF LeftInOrder
    <3>2. CASE n \in g
      <4>1. PICK h \in Checkouts : h = Head(me.left)
        BY <1>9
      <4>2. n \in Needed(h) /\ Needed(n) \subseteq Needed(h)
        BY <1>9, <3>2, <4>1, NeededIs DEF AtGroup
      <4>3. me.left[i] \in Needed(h) /\ 1 \in DOMAIN me.left /\ me.left[1] = h /\ (i = 1 \/ 1 < i) /\ me.left[i] \in Checkouts
        BY <1>9, <2>2, <4>1, <4>2
      <4>4. h \in Needed(me.left[i])
        <5>1. CASE i = 1
          BY <4>1, <4>3, <5>1, NeededIs
        <5>2. CASE 1 < i
          BY <2>1, <4>3, <5>2 DEF LeftInOrder
        <5> QED
          BY <4>3, <5>1, <5>2
      <4>5. Needed(h) \subseteq Needed(me.left[i])
        BY <4>3, <4>4, NeededIs
      <4> QED
        BY <4>2, <4>5
    <3> QED
      BY <3>1, <3>2
  <2>3. \A i, j \in DOMAIN me.left : (i < j /\ me.left[j] \in Needed(me.left[i])) => me.left[i] \in Needed(me.left[j])
    BY <2>1 DEF LeftInOrder
  <2> QED
    BY <1>8, <2>2, <2>3 DEF LeftInOrder
<1>12. GroupsInHand(y)
  <2>1. \A i \in DOMAIN rest : i + 1 \in DOMAIN gs /\ rest[i] = gs[i + 1]
    BY <1>3, <1>4
  <2>2. \A i \in DOMAIN gs : gs[i] # {} /\ \A m \in gs[i] : m \in Needed(Head(me.left)) /\ GroupOf(m) = gs[i]
    BY <1>3 DEF GroupsInHand, GroupRunHolds
  <2>3. \A i \in DOMAIN rest : rest[i] # {} /\ \A m \in rest[i] : m \in Needed(Head(me.left)) /\ GroupOf(m) = rest[i]
    BY <2>1, <2>2
  <2>4. ASSUME NEW i \in DOMAIN rest, NEW m \in rest[i], NEW n \in LocalDeps[m]
        PROVE  L[n] # 0 \/ \E j \in DOMAIN rest : j <= i /\ n \in rest[j]
    <3>1. m \in gs[i + 1] /\ i + 1 \in DOMAIN gs /\ i \in Int
      BY <1>4, <2>1
    <3>2. me.links[n] # 0 \/ \E j \in DOMAIN gs : j <= i + 1 /\ n \in gs[j]
      BY <1>3, <3>1 DEF GroupsInHand, GroupRunHolds
    <3>3. n \in Checkouts
      <4>1. gs[i + 1] \in SUBSET Checkouts
        BY <3>1
      <4> QED
        BY <3>1, <4>1, GroupConstants
    <3>4. CASE n \in g \/ me.links[n] # 0
      BY <1>6, <3>3, <3>4
    <3>5. CASE n \notin g /\ ~(me.links[n] # 0)
      <4>1. PICK j \in DOMAIN gs : j <= i + 1 /\ n \in gs[j]
        BY <3>2, <3>5
      <4>2. gs[1] = g
        BY <1>3
      <4>3. j # 1
        BY <3>5, <4>1, <4>2
      <4>4. j - 1 \in DOMAIN rest /\ rest[j - 1] = gs[j] /\ j - 1 <= i
        BY <1>3, <1>4, <3>1, <4>1, <4>3
      <4> QED
        BY <4>1, <4>4
    <3> QED
      BY <3>4, <3>5
  <2>5. \A i \in DOMAIN y.groups : y.groups[i] # {} /\ \A m \in y.groups[i] : m \in Needed(Head(y.left)) /\ GroupOf(m) = y.groups[i]
    BY ONLY <1>8, <2>3
  <2>6. \A i \in DOMAIN rest : \A m \in rest[i] : \A n \in LocalDeps[m] :
          L[n] # 0 \/ \E j \in DOMAIN rest : j <= i /\ n \in rest[j]
    BY ONLY <2>4
  <2>7. \A i \in DOMAIN y.groups : \A m \in y.groups[i] : \A n \in LocalDeps[m] :
          y.links[n] # 0 \/ \E j \in DOMAIN y.groups : j <= i /\ n \in y.groups[j]
    BY ONLY <1>8, <2>6, Zenon
  <2>8. y.left # <<>>
    BY ONLY <1>8, <1>9
  <2> QED
    BY ONLY <2>5, <2>7, <2>8 DEF GroupsInHand
<1>13. Replaceable(y) /\ ReuseIsSound(F, y)
  BY <1>8 DEF Replaceable, ReuseIsSound
<1>14. IsGeneration(F, y.memo)
  BY <1>1, <1>8
<1>15. GroupRunHolds(F, r, y)
  BY <1>8, <1>10, <1>11, <1>12, <1>13, <1>14 DEF GroupRunHolds
<1> QED
  BY <1>7, <1>8, <1>15

\* A run that goes on with snapshots that are there.
LEMMA NextGroupKeeps ==
  ASSUME GroupInv, NEW r \in GroupRuns, NEW me \in GroupRunStates, me = grouped[r], UNCHANGED <<source, facts, head, pruned>>,
         me.pc \in {"group", "reuse", "publish"}, me.groups # <<>>, NEW g, g = Head(me.groups),
         NEW ids, DOMAIN ids = g, \A m \in g : ids[m] \in Nat \ {0}, IsGeneration(facts, Remembering(me, g, ids)),
         NextGroup(r, ids)
  PROVE  GroupInv'
<1>1. facts \in Seq(FactRows) /\ GroupRunHolds(facts, r, me)
  BY RunOf
<1>2. PICK y : GoesOn(me, g, ids, y) /\ grouped' = [grouped EXCEPT ![r] = y]
  BY NextGroupIs
<1>3. grouped' = [grouped EXCEPT ![r] = y]
  BY <1>2
<1>4. y \in GroupRunStates /\ GroupRunHolds(facts, r, y) /\ y.pc = "group"
  BY <1>1, <1>2, NextGroupHolds
<1> QED
  BY <1>3, <1>4, GroupStepKeepsFacts

LEMMA RememberedGroupKeeps ==
  ASSUME GroupInv, NEW r \in GroupRuns, RememberedGroup(r)
  PROVE  GroupInv'
<1>1. PICK me \in GroupRunStates : me = grouped[r] /\ GroupRunHolds(facts, r, me)
  BY RunOf
<1>2. PICK g : g = At1(r) /\ g = Head(me.groups)
  BY <1>1 DEF At1
<1>3. /\ me.pc = "group" /\ me.groups # <<>> /\ UNCHANGED <<source, facts, head, pruned>>
      /\ \A m \in g : me.memo[m] # 0
  BY <1>1, <1>2 DEF RememberedGroup, InGroup
<1>4. AtGroup(me, g)
  BY <1>1, <1>2, <1>3, AtGroupIs DEF GroupRunHolds
<1>5. g \subseteq Checkouts /\ me.memo \in [Checkouts -> Nat] /\ IsGeneration(facts, me.memo)
  BY <1>1, <1>4, GroupRunIs DEF AtGroup, GroupRunHolds
<1>6. CASE \A m \in At1(r) : grouped[r].memo[m] \in KeptFacts
  <2>1. PICK ids : ids = [m \in g |-> me.memo[m]]
    OBVIOUS
  <2>2. NextGroup(r, ids)
    <3>1. ids = [m \in At1(r) |-> grouped[r].memo[m]]
      BY <1>1, <1>2, <2>1
    <3> QED
      BY <1>6, <3>1 DEF RememberedGroup
  <2>3. DOMAIN ids = g /\ \A m \in g : ids[m] = me.memo[m] /\ ids[m] \in Nat \ {0}
    BY <1>3, <1>5, <2>1
  <2>4. Remembering(me, g, ids) = me.memo
    <3>1. me.memo = [m \in Checkouts |-> me.memo[m]]
      BY <1>5
    <3>2. \A m \in Checkouts : (IF m \in g THEN ids[m] ELSE me.memo[m]) = me.memo[m]
      BY <2>3
    <3> QED
      BY <3>1, <3>2, Zenon DEF Remembering
  <2>5. IsGeneration(facts, Remembering(me, g, ids))
    BY <1>5, <2>4
  <2> QED
    BY <1>1, <1>2, <1>3, <2>2, <2>3, <2>5, NextGroupKeeps
<1>7. CASE ~\A m \in At1(r) : grouped[r].memo[m] \in KeptFacts
  <2>1. PICK y : y = [me EXCEPT !.pc = "failed"]
    OBVIOUS
  <2>2. grouped' = [grouped EXCEPT ![r] = y]
    BY <1>1, <1>7, <2>1 DEF RememberedGroup, GroupInv, GroupTypes
  <2>3. y \in GroupRunStates
    BY <2>1 DEF GroupRunStates, GroupPlaces
  <2>4. y.pc = "failed" /\ y.left = me.left /\ y.memo = me.memo /\ y.links = me.links /\ y.attempt = me.attempt
    BY <2>1, GroupRunIs
  <2>5. pruned > 0
    <3>1. PICK m \in g : me.memo[m] \notin KeptFacts
      BY <1>1, <1>2, <1>7
    <3>2. me.memo[m] \in DOMAIN facts
      BY <1>3, <1>5, <3>1 DEF IsGeneration
    <3>3. ~facts[me.memo[m]].kept
      BY <3>1, <3>2 DEF KeptFacts
    <3>4. pruned # 0 /\ pruned \in Nat
      BY <3>2, <3>3 DEF GroupInv, GroupTypes
    <3> QED
      BY <3>4
  <2>6. GroupRunHolds(facts, r, y)
    BY <1>1, <2>4 DEF GroupRunHolds, LeftInOrder, GroupsInHand, Replaceable, ReuseIsSound
  <2> QED
    BY <1>3, <2>2, <2>3, <2>4, <2>5, <2>6, GroupStepKeepsFacts
<1> QED
  BY <1>6, <1>7

LEMMA CheckHeadsKeeps ==
  ASSUME GroupInv, NEW r \in GroupRuns, CheckHeads(r)
  PROVE  GroupInv'
<1>1. PICK me \in GroupRunStates : me = grouped[r] /\ GroupRunHolds(facts, r, me)
  BY RunOf
<1>2. PICK g : g = At1(r) /\ g = Head(me.groups)
  BY <1>1 DEF At1
<1>3. /\ me.pc = "group" /\ me.groups # <<>> /\ UNCHANGED <<source, facts, head, pruned>>
      /\ (r \in ForcedRuns /\ Head(me.left) \in g) \/ \E m \in g : me.memo[m] = 0
  BY <1>1, <1>2 DEF CheckHeads, InGroup, ForcedGroup
<1>4. AtGroup(me, g) /\ me.left # <<>> /\ me.left \in Seq(Checkouts)
  BY <1>1, <1>2, <1>3, AtGroupIs DEF GroupRunHolds
<1>5. facts \in Seq(FactRows) /\ FactsHold(facts) /\ head \in [Checkouts -> Nat]
  BY DEF GroupInv, GroupTypes
<1>6. \A n \in Checkouts \ g : me.memo[n] # 0 => LocalDeps[n] \cap g = {}
  <2> SUFFICES ASSUME NEW n \in Checkouts \ g, me.memo[n] # 0, NEW k \in LocalDeps[n], k \in g
               PROVE  FALSE
    OBVIOUS
  <2> QED
    BY <1>1, <1>3, <1>4, <1>5, GroupIsReplaceable
<1>7. PICK reusable \in BOOLEAN :
        reusable = (~ForcedGroup(r) /\ \A m \in At1(r) : head[m] # 0 /\ facts[head[m]] = GroupRow(r, m, head))
  OBVIOUS
<1>8. PICK p \in {"reuse", "publish"} : p = IF reusable THEN "reuse" ELSE "publish"
  OBVIOUS
<1>9. PICK y : y = [me EXCEPT !.pc = p, !.heads = head]
  OBVIOUS
<1>10. grouped' = [grouped EXCEPT ![r] = y]
  BY <1>1, <1>7, <1>8, <1>9 DEF CheckHeads, GroupInv, GroupTypes
<1>11. y \in GroupRunStates
  BY <1>5, <1>8, <1>9 DEF GroupRunStates, GroupPlaces
<1>12. /\ y.pc = p /\ y.left = me.left /\ y.memo = me.memo /\ y.links = me.links /\ y.groups = me.groups
       /\ y.heads = head /\ y.attempt = me.attempt
  BY <1>9, GroupRunIs
<1>13. GroupsInHand(y) /\ Replaceable(y) /\ (r \in ForcedRuns => LeftInOrder(y))
  <2>1. GroupsInHand(y)
    BY <1>1, <1>3, <1>12 DEF GroupRunHolds, GroupsInHand
  <2>2. Replaceable(y)
    BY <1>2, <1>3, <1>6, <1>12 DEF Replaceable
  <2>3. r \in ForcedRuns => LeftInOrder(y)
    BY <1>1, <1>12 DEF GroupRunHolds, LeftInOrder
  <2> QED
    BY <2>1, <2>2, <2>3
<1>14. ASSUME p = "reuse", NEW m \in g
       PROVE  /\ head[m] \in DOMAIN facts /\ facts[head[m]].module = m
              /\ \A n \in LocalDeps[m] : facts[head[m]].edges[n] = IF n \in g THEN head[n] ELSE me.links[n]
  <2>1. head[m] # 0 /\ facts[head[m]] = GroupRow(r, m, head)
    BY <1>2, <1>7, <1>8, <1>14
  <2>2. m \in Checkouts
    BY <1>4 DEF AtGroup
  <2>3. head[m] \in DOMAIN facts /\ facts[head[m]].module = m
    BY <2>1, <2>2 DEF GroupInv, HeadsAre
  <2>4. PICK e : e = GroupEdges(r, m, head)
    OBVIOUS
  <2>5. facts[head[m]].edges = e
    BY <2>1, <2>4 DEF GroupRow
  <2>6. \A n \in LocalDeps[m] : e[n] = IF n \in g THEN head[n] ELSE me.links[n]
    BY <1>1, <1>2, <2>4 DEF GroupEdges
  <2> QED
    BY <2>3, <2>5, <2>6
<1>15. ReuseIsSound(facts, y)
  BY <1>2, <1>12, <1>14 DEF ReuseIsSound
<1>16. GroupRunHolds(facts, r, y)
  BY <1>1, <1>12, <1>13, <1>15 DEF GroupRunHolds
<1> QED
  BY <1>3, <1>8, <1>10, <1>11, <1>12, <1>16, GroupStepKeepsFacts

LEMMA ReuseGroupKeeps ==
  ASSUME GroupInv, NEW r \in GroupRuns, ReuseGroup(r)
  PROVE  GroupInv'
<1>1. PICK me \in GroupRunStates : me = grouped[r] /\ GroupRunHolds(facts, r, me)
  BY RunOf
<1>2. PICK g : g = At1(r) /\ g = Head(me.groups)
  BY <1>1 DEF At1
<1>3. me.pc = "reuse" /\ UNCHANGED <<source, facts, head, pruned>>
  BY <1>1 DEF ReuseGroup
<1>4. /\ me.groups # <<>> /\ \A n \in Checkouts \ g : me.memo[n] # 0 => LocalDeps[n] \cap g = {}
  BY <1>1, <1>2, <1>3 DEF GroupRunHolds, Replaceable
<1>5. AtGroup(me, g)
  BY <1>1, <1>2, <1>3, <1>4, AtGroupIs DEF GroupRunHolds
<1>6. facts \in Seq(FactRows)
  BY DEF GroupInv, GroupTypes
<1>7. CASE GroupVerified(r) /\ \A m \in At1(r) : head[m] = grouped[r].heads[m]
  <2>1. PICK ids : ids = [m \in g |-> head[m]]
    OBVIOUS
  <2>2. NextGroup(r, ids)
    <3>1. ids = [m \in At1(r) |-> head[m]]
      BY <1>2, <2>1
    <3> QED
      BY <1>7, <3>1 DEF ReuseGroup
  <2>3. DOMAIN ids = g /\ \A m \in g : ids[m] = me.heads[m]
    BY <1>1, <1>2, <1>7, <2>1
  <2>4. AreGroupSnapshots(facts, me, g, ids)
    <3>1. \A m \in g : /\ me.heads[m] \in DOMAIN facts /\ facts[me.heads[m]].module = m
                       /\ \A n \in LocalDeps[m] : facts[me.heads[m]].edges[n] = IF n \in g THEN me.heads[n] ELSE me.links[n]
      BY <1>1, <1>2, <1>3 DEF GroupRunHolds, ReuseIsSound
    <3> QED
      BY <2>3, <3>1 DEF AreGroupSnapshots
  <2>5. IsGeneration(facts, Remembering(me, g, ids))
    BY <1>1, <1>4, <1>5, <1>6, <2>4, RememberingIs
  <2>6. \A m \in g : ids[m] \in Nat \ {0}
    BY <1>6, <2>4, FactsAre DEF AreGroupSnapshots
  <2> QED
    BY <1>1, <1>2, <1>3, <1>4, <2>2, <2>3, <2>5, <2>6, NextGroupKeeps
<1>8. CASE ~(GroupVerified(r) /\ \A m \in At1(r) : head[m] = grouped[r].heads[m])
  <2>1. InputsChanged(r)
    BY <1>8 DEF ReuseGroup
  <2> QED
    BY <1>3, <2>1, InputsChangedKeeps
<1> QED
  BY <1>7, <1>8

\* The facts once a group is published: those there were, and one of each member, which link each
\* other and what the run linked.
Adds(F, F2, me, g, ids, dirt) ==
  /\ \A s \in DOMAIN F : s \in DOMAIN F2 /\ F2[s] = F[s]
  /\ \A s \in DOMAIN F2 : s \in DOMAIN F \/ \E m \in g : s = ids[m]
  /\ \A m \in g :
       /\ ids[m] \in DOMAIN F2 /\ ids[m] \notin DOMAIN F
       /\ F2[ids[m]].module = m /\ F2[ids[m]].content = me.read[m] /\ F2[ids[m]].dirty = dirt /\ F2[ids[m]].kept
       /\ DOMAIN F2[ids[m]].edges = LocalDeps[m]
       /\ \A n \in LocalDeps[m] : F2[ids[m]].edges[n] = IF n \in g THEN ids[n] ELSE me.links[n]

\* Dirt is of the group's own content or of what a member links.
DirtIs(F, me, g, dirt) ==
  /\ dirt \in BOOLEAN
  /\ dirt <=> \E m \in g : me.read[m] # 0 \/ \E n \in LocalDeps[m] \ g : F[me.links[n]].dirty

\* What a member links outside the group is the stored head it was when the group was verified.
LinksAreStored(F, me, g) ==
  \A m \in g : \A n \in LocalDeps[m] \ g : me.links[n] \in DOMAIN F /\ F[me.links[n]].module = n /\ F[me.links[n]].kept

LEMMA AddsGrows ==
  ASSUME NEW F, NEW F2, NEW me, NEW g, NEW ids, NEW dirt, Adds(F, F2, me, g, ids, dirt)
  PROVE  Grows(F, F2)
BY DEF Adds, Grows

LEMMA AddedLinks ==
  ASSUME NEW F \in Seq(FactRows), FactsHold(F), NEW F2, NEW me, NEW g, NEW ids, NEW dirt, Adds(F, F2, me, g, ids, dirt),
         DirtIs(F, me, g, dirt), LinksAreStored(F, me, g), NEW s \in DOMAIN F2
  PROVE  FactLinks(F2, s)
<1>1. CASE s \in DOMAIN F
  <2>1. F2[s] = F[s] /\ FactLinks(F, s)
    BY <1>1 DEF Adds, FactsHold
  <2>2. ASSUME NEW n \in LocalDeps[F[s].module]
        PROVE  /\ F[s].edges[n] \in DOMAIN F2 /\ F2[F[s].edges[n]].module = n
               /\ F[s].kept => F2[F[s].edges[n]].kept
               /\ F2[F[s].edges[n]].dirty => F[s].dirty
    <3>1. PICK e : e = F[s].edges[n]
      OBVIOUS
    <3>2. e \in DOMAIN F /\ F[e].module = n /\ (F[s].kept => F[e].kept) /\ (F[e].dirty => F[s].dirty)
      BY <2>1, <3>1 DEF FactLinks
    <3>3. e \in DOMAIN F2 /\ F2[e] = F[e]
      BY <3>2 DEF Adds
    <3> QED
      BY <3>1, <3>2, <3>3
  <2> QED
    BY <2>1, <2>2 DEF FactLinks
<1>2. CASE s \notin DOMAIN F
  <2>1. PICK m \in g : s = ids[m]
    BY <1>2 DEF Adds
  <2>2. /\ F2[s].module = m /\ F2[s].content = me.read[m] /\ F2[s].dirty = dirt /\ F2[s].kept
        /\ DOMAIN F2[s].edges = LocalDeps[m]
        /\ \A n \in LocalDeps[m] : F2[s].edges[n] = IF n \in g THEN ids[n] ELSE me.links[n]
    BY <2>1 DEF Adds
  <2>3. ASSUME NEW n \in LocalDeps[m]
        PROVE  /\ F2[s].edges[n] \in DOMAIN F2 /\ F2[F2[s].edges[n]].module = n
               /\ F2[F2[s].edges[n]].kept /\ (F2[F2[s].edges[n]].dirty => dirt)
    <3>1. CASE n \in g
      <4>1. F2[s].edges[n] = ids[n]
        BY <2>2, <3>1
      <4>2. ids[n] \in DOMAIN F2 /\ F2[ids[n]].module = n /\ F2[ids[n]].kept /\ F2[ids[n]].dirty = dirt
        BY <3>1 DEF Adds
      <4> QED
        BY <4>1, <4>2
    <3>2. CASE n \notin g
      <4>1. PICK e : e = me.links[n] /\ e = F2[s].edges[n]
        BY <2>2, <3>2
      <4>2. e \in DOMAIN F /\ F[e].module = n /\ F[e].kept
        BY <3>2, <4>1 DEF LinksAreStored
      <4>3. F[e].dirty => dirt
        BY <3>2, <4>1 DEF DirtIs
      <4>4. e \in DOMAIN F2 /\ F2[e] = F[e]
        BY <4>2 DEF Adds
      <4> QED
        BY <4>1, <4>2, <4>3, <4>4
    <3> QED
      BY <3>1, <3>2
  <2>4. me.read[m] # 0 => dirt
    BY DEF DirtIs
  <2> QED
    BY <2>2, <2>3, <2>4 DEF FactLinks
<1> QED
  BY <1>1, <1>2

LEMMA AddedIsAGeneration ==
  ASSUME NEW F \in Seq(FactRows), FactsHold(F), NEW F2 \in Seq(FactRows), NEW r, NEW me \in GroupRunStates, GroupRunHolds(F, r, me),
         NEW g, AtGroup(me, g), NEW ids, NEW dirt, Adds(F, F2, me, g, ids, dirt),
         \A n \in Checkouts \ g : me.memo[n] # 0 => LocalDeps[n] \cap g = {}
  PROVE  IsGeneration(F2, Remembering(me, g, ids))
<1>1. GroupRunHolds(F2, r, me)
  BY AddsGrows, RunHoldsStill
<1>2. AreGroupSnapshots(F2, me, g, ids)
  BY DEF Adds, AreGroupSnapshots
<1> QED
  BY <1>1, <1>2, RememberingIs

\* A dirty member's generation has dirty content: a member's, or that of what a member links.
LEMMA AddedIsWhole ==
  ASSUME NEW F \in Seq(FactRows), FactsHold(F), NEW F2 \in Seq(FactRows), NEW r, NEW me \in GroupRunStates, GroupRunHolds(F, r, me),
         NEW g, AtGroup(me, g), NEW ids, NEW dirt, Adds(F, F2, me, g, ids, dirt), DirtIs(F, me, g, dirt),
         NEW G, G = Remembering(me, g, ids), IsGeneration(F2, G), NEW m \in g
  PROVE  IsOneOf(F2, ids[m], G)
<1>1. g \subseteq Checkouts /\ \A u \in Checkouts : G[u] = IF u \in g THEN ids[u] ELSE me.memo[u]
  BY DEF AtGroup, Remembering
<1>2. G[m] = ids[m] /\ m \in Checkouts /\ F2[ids[m]].module = m /\ F2[ids[m]].dirty = dirt
  BY <1>1 DEF Adds
<1>3. \A x \in g : x \in Needed(m) /\ m \in Needed(x) /\ GroupOf(x) = g /\ x \in Checkouts
  <2>1. GroupOf(m) = g /\ \A x \in g : GroupOf(x) = g
    BY DEF AtGroup
  <2> QED
    BY <1>1, <1>2, <2>1, GroupOfIs
<1>4. ASSUME NEW x \in g, me.read[x] # 0
      PROVE  F2[G[x]].content # 0
  <2>1. G[x] = ids[x] /\ F2[ids[x]].content = me.read[x]
    BY <1>1 DEF Adds
  <2> QED
    BY <1>4, <2>1
<1>5. ASSUME NEW x \in g, NEW k \in LocalDeps[x] \ g, F[me.links[k]].dirty
      PROVE  \E z \in Needed(m) : F2[G[z]].content # 0
  <2>1. x \in Checkouts /\ x \in Needed(m) /\ LocalDeps[x] \subseteq Needed(x) /\ Needed(x) \subseteq Needed(m) /\ Needed(x) \subseteq Checkouts
    BY <1>2, <1>3, NeededIs
  <2>2. k \in Checkouts /\ k \in Needed(x) /\ Needed(k) \subseteq Needed(x) /\ k \in Needed(k)
    BY <2>1, NeededIs
  <2>3. me.links[k] # 0 /\ me.links[k] = me.memo[k]
    BY <2>2 DEF AtGroup, GroupRunHolds
  <2>4. IsGeneration(F, me.memo)
    BY DEF GroupRunHolds
  <2>5. PICK s \in DOMAIN F : s = me.memo[k] /\ F[s].module = k /\ F[s].dirty /\ s # 0
    BY <1>5, <2>2, <2>3, <2>4 DEF IsGeneration
  <2>6. PICK H : IsOneOf(F, s, H)
    BY DEF FactsHold
  <2>7. IsGeneration(F, H) /\ H[k] = s
    BY <2>5, <2>6 DEF IsOneOf
  <2>8. PICK z \in Needed(k) : F[H[z]].content # 0
    BY <2>5, <2>6 DEF IsOneOf
  <2>9. H[z] = me.memo[z] /\ me.memo[z] # 0
    <3>1. me.memo[k] = H[k] /\ me.memo[k] # 0
      BY <2>5, <2>7
    <3>2. \A n \in Needed(k) : me.memo[n] = H[n] /\ me.memo[n] # 0
      BY <2>2, <2>4, <2>7, <3>1, GenerationsAgree
    <3> QED
      BY <3>2
  <2>10. z \in Needed(m) /\ z \in Checkouts /\ z \in Needed(x)
    BY <2>1, <2>2
  <2>11. z \notin g
    <3> SUFFICES ASSUME z \in g
                 PROVE  FALSE
      OBVIOUS
    <3>1. GroupOf(x) = GroupOf(z) /\ GroupOf(x) = g
      BY <1>3
    <3>2. x \in GroupOf(z)
      BY <3>1
    <3>3. x \in Needed(z)
      BY <3>2, <2>10, GroupOfIs
    <3>4. x \in Needed(k)
      BY <2>2, <3>3, NeededIs
    <3>5. k \in GroupOf(x)
      BY <2>2, <3>4 DEF GroupOf
    <3> QED
      BY <3>1, <3>5
  <2>12. G[z] = me.memo[z] /\ me.memo[z] \in DOMAIN F
    BY <1>1, <2>4, <2>9, <2>10, <2>11 DEF IsGeneration
  <2>13. F2[me.memo[z]] = F[me.memo[z]]
    BY <2>12 DEF Adds
  <2> QED
    BY <2>8, <2>9, <2>10, <2>12, <2>13
<1>6. dirt => \E z \in Needed(m) : F2[G[z]].content # 0
  <2> SUFFICES ASSUME dirt
               PROVE  \E z \in Needed(m) : F2[G[z]].content # 0
    OBVIOUS
  <2>1. PICK x \in g : me.read[x] # 0 \/ \E n \in LocalDeps[x] \ g : F[me.links[n]].dirty
    BY DEF DirtIs
  <2>2. CASE me.read[x] # 0
    BY <1>3, <1>4, <2>2
  <2>3. CASE \E n \in LocalDeps[x] \ g : F[me.links[n]].dirty
    BY <1>5, <2>3
  <2> QED
    BY <2>1, <2>2, <2>3
<1> QED
  BY <1>2, <1>6 DEF IsOneOf

LEMMA AddedHeads ==
  ASSUME NEW F \in Seq(FactRows), NEW F2, NEW me, NEW g, AtGroup(me, g), NEW ids, NEW dirt, Adds(F, F2, me, g, ids, dirt),
         NEW h, HeadsAre(F, h), NEW h2, \A m \in Checkouts : h2[m] = IF m \in g THEN ids[m] ELSE h[m]
  PROVE  HeadsAre(F2, h2)
<1>1. \A m \in Checkouts : LocalDeps[m] \subseteq Checkouts
  BY GroupConstants
<1>2. ASSUME NEW m \in Checkouts, h2[m] # 0, m \notin g
      PROVE  /\ h2[m] \in DOMAIN F2 /\ F2[h2[m]].module = m /\ F2[h2[m]].kept
             /\ \A n \in LocalDeps[m] : n \in GroupOf(m) => F2[h2[m]].edges[n] = h2[n]
  <2>1. h2[m] = h[m] /\ h[m] # 0
    BY <1>2
  <2>2. /\ h[m] \in DOMAIN F /\ F[h[m]].module = m /\ F[h[m]].kept
        /\ \A n \in LocalDeps[m] : n \in GroupOf(m) => F[h[m]].edges[n] = h[n]
    BY <2>1 DEF HeadsAre
  <2>3. h[m] \in DOMAIN F2 /\ F2[h[m]] = F[h[m]]
    BY <2>2 DEF Adds
  <2>4. ASSUME NEW n \in LocalDeps[m], n \in GroupOf(m)
        PROVE  n \in Checkouts /\ n \notin g
    <3>1. n \in g => GroupOf(n) = g
      BY DEF AtGroup
    <3>2. GroupOf(n) = GroupOf(m) /\ m \in GroupOf(m)
      BY <2>4, GroupOfIs
    <3> QED
      BY <1>1, <1>2, <3>1, <3>2
  <2>5. \A n \in LocalDeps[m] : n \in GroupOf(m) => h2[n] = h[n]
    BY <2>4
  <2> QED
    BY <2>1, <2>2, <2>3, <2>5
<1>3. ASSUME NEW m \in g
      PROVE  /\ h2[m] \in DOMAIN F2 /\ F2[h2[m]].module = m /\ F2[h2[m]].kept
             /\ \A n \in LocalDeps[m] : n \in GroupOf(m) => F2[h2[m]].edges[n] = h2[n]
  <2>1. m \in Checkouts /\ h2[m] = ids[m] /\ GroupOf(m) = g
    BY DEF AtGroup
  <2>2. /\ ids[m] \in DOMAIN F2 /\ F2[ids[m]].module = m /\ F2[ids[m]].kept
        /\ \A n \in LocalDeps[m] : n \in g => F2[ids[m]].edges[n] = ids[n]
    BY DEF Adds
  <2>3. \A n \in LocalDeps[m] : n \in g => h2[n] = ids[n]
    BY <1>1, <2>1
  <2> QED
    BY <2>1, <2>2, <2>3
<1> QED
  BY <1>2, <1>3 DEF HeadsAre

\* createLocalGroup appends a row of each member, numbered as they are listed.
NumbersFrom(n, g, q, ids) == ids = [m \in g |-> n + CHOOSE i \in DOMAIN q : q[i] = m]
AppendsRows(r, q, ids, F, vs) == vs = F \o [i \in DOMAIN q |-> GroupRow(r, q[i], ids)]
IsAt(r, me, g) == me = grouped[r] /\ g = At1(r)

LEMMA NumbersAre ==
  ASSUME NEW n \in Nat, NEW c \in Nat, NEW q, NEW g, Lists(q, g, c), NEW ids, NumbersFrom(n, g, q, ids)
  PROVE  /\ DOMAIN ids = g /\ \A i \in 1..c : ids[q[i]] = n + i
         /\ \A m \in g : \E i \in 1..c : q[i] = m /\ ids[m] = n + i
<1>1. DOMAIN ids = g /\ \A m \in g : ids[m] = n + CHOOSE i \in DOMAIN q : q[i] = m
  BY DEF NumbersFrom
<1>2. ASSUME NEW i \in 1..c
      PROVE  ids[q[i]] = n + i
  <2>1. q[i] \in g /\ DOMAIN q = 1..c
    BY DEF Lists
  <2>2. \E j \in DOMAIN q : q[j] = q[i]
    BY <2>1
  <2>3. PICK j \in DOMAIN q : j = (CHOOSE k \in DOMAIN q : q[k] = q[i]) /\ q[j] = q[i]
    BY <2>2
  <2>4. j = i
    BY <2>1, <2>3 DEF Lists
  <2> QED
    BY <1>1, <2>1, <2>3, <2>4
<1>3. \A m \in g : \E i \in 1..c : q[i] = m
  BY DEF Lists
<1> QED
  BY <1>1, <1>2, <1>3

LEMMA GroupIsAdded ==
  ASSUME NEW n \in Nat, NEW F \in Seq(FactRows), Len(F) = n, NEW r, NEW me \in GroupRunStates, NEW g, IsAt(r, me, g), AtGroup(me, g),
         NEW c \in Nat, NEW q, Lists(q, g, c), NEW ids, NumbersFrom(n, g, q, ids), NEW vs, AppendsRows(r, q, ids, F, vs)
  PROVE  vs \in Seq(FactRows) /\ Adds(F, vs, me, g, ids, Dirty(r))
<1>1. g \subseteq Checkouts
  BY DEF AtGroup
<1>2. /\ q \in [1..c -> g] /\ DOMAIN q = 1..c
      /\ \A x \in g : \E i \in 1..c : q[i] = x
      /\ \A i, j \in 1..c : q[i] = q[j] => i = j
  BY DEF Lists
<1>3. DOMAIN ids = g /\ \A i \in 1..c : ids[q[i]] = n + i
  BY NumbersAre
<1>4. \A m \in g : \E i \in 1..c : q[i] = m /\ ids[m] = n + i
  BY NumbersAre
<1>5. PICK rows : rows = [i \in DOMAIN q |-> GroupRow(r, q[i], ids)]
  OBVIOUS
<1>6. PICK dirt \in BOOLEAN : dirt = Dirty(r)
  BY DEF Dirty
<1>7. me.read \in [Checkouts -> Nat] /\ me.links \in [Checkouts -> Nat]
  BY GroupRunIs
<1>8. ASSUME NEW i \in 1..c
      PROVE  /\ rows[i] \in FactRows /\ rows[i].module = q[i] /\ rows[i].content = me.read[q[i]] /\ rows[i].dirty = dirt
             /\ rows[i].kept /\ DOMAIN rows[i].edges = LocalDeps[q[i]]
             /\ \A k \in LocalDeps[q[i]] : rows[i].edges[k] = IF k \in g THEN ids[k] ELSE me.links[k]
  <2>1. PICK m \in g : m = q[i]
    BY <1>2
  <2>2. PICK e : e = [k \in LocalDeps[m] |-> IF k \in g THEN ids[k] ELSE me.links[k]]
    OBVIOUS
  <2>3. rows[i] = [module |-> m, content |-> me.read[m], dirty |-> dirt, edges |-> e, kept |-> TRUE]
    BY <1>2, <1>5, <1>6, <2>1, <2>2 DEF GroupRow, GroupEdges, IsAt
  <2>4. LocalDeps[m] \in SUBSET Checkouts /\ m \in Checkouts
    BY <1>1, GroupConstants
  <2>5. DOMAIN e = LocalDeps[m] /\ \A k \in LocalDeps[m] : e[k] = (IF k \in g THEN ids[k] ELSE me.links[k]) /\ e[k] \in Nat
    <3>1. \A k \in g : ids[k] \in Nat
      BY <1>4
    <3> QED
      BY <1>7, <2>2, <2>4, <3>1
  <2>6. e \in [LocalDeps[m] -> Nat]
    BY <2>2, <2>5
  <2>7. PICK E : E = UNION {[ms -> Nat] : ms \in SUBSET Checkouts}
    OBVIOUS
  <2>8. e \in E
    BY <2>4, <2>6, <2>7
  <2>9. me.read[m] \in Nat
    BY <1>7, <2>4
  <2>10. rows[i] \in FactRows
    BY <2>3, <2>4, <2>7, <2>8, <2>9 DEF FactRows
  <2> QED
    BY <2>1, <2>3, <2>5, <2>10
<1>9. rows \in Seq(FactRows) /\ Len(rows) = c
  <2>1. rows = [i \in 1..c |-> rows[i]]
    BY <1>2, <1>5
  <2>2. rows \in [1..c -> FactRows]
    BY <1>8, <2>1
  <2> QED
    BY <2>2, ListIs
<1>10. /\ vs \in Seq(FactRows) /\ DOMAIN vs = 1..(n + c)
       /\ DOMAIN F = 1..n
       /\ \A s \in 1..n : vs[s] = F[s]
       /\ \A i \in 1..c : vs[n + i] = rows[i]
  <2>1. PICK b \in Seq(FactRows) : b = rows /\ Len(b) = c
    BY <1>9
  <2>2. PICK a \in Seq(FactRows) : a = F /\ Len(a) = n
    OBVIOUS
  <2>3. vs = a \o b
    BY <1>5, <2>1, <2>2 DEF AppendsRows
  <2>4. vs \in Seq(FactRows)
    BY ONLY <2>3
  <2>5. Len(vs) = n + c /\ DOMAIN vs = 1..(n + c)
    <3>1. Len(vs) = Len(a) + Len(b)
      BY ONLY <2>3
    <3>2. Len(vs) = n + c
      BY <3>1, <2>1, <2>2
    <3>3. DOMAIN vs = 1..Len(vs)
      BY ONLY <2>4
    <3> QED
      BY <3>2, <3>3
  <2>6. \A s \in 1..n : vs[s] = a[s]
    BY ONLY <2>1, <2>2, <2>3
  <2>7. \A i \in 1..c : vs[n + i] = b[i]
    BY ONLY <2>1, <2>2, <2>3
  <2>8. DOMAIN a = 1..n
    BY ONLY <2>2
  <2> QED
    BY <2>1, <2>2, <2>4, <2>5, <2>6, <2>7, <2>8
<1>11. \A s \in 1..(n + c) : s \in 1..n \/ \E i \in 1..c : s = n + i
  <2> TAKE s \in 1..(n + c)
  <2>1. s \in 1..n \/ (s - n \in 1..c /\ s = n + (s - n))
    OBVIOUS
  <2> QED
    BY <2>1
<1>12. \A i \in 1..c : n + i \in 1..(n + c) /\ n + i \notin 1..n /\ q[i] \in g
  BY <1>2
<1>13. ASSUME NEW m \in g
       PROVE  /\ ids[m] \in DOMAIN vs /\ ids[m] \notin DOMAIN F
              /\ vs[ids[m]].module = m /\ vs[ids[m]].content = me.read[m] /\ vs[ids[m]].dirty = dirt /\ vs[ids[m]].kept
              /\ DOMAIN vs[ids[m]].edges = LocalDeps[m]
              /\ \A k \in LocalDeps[m] : vs[ids[m]].edges[k] = IF k \in g THEN ids[k] ELSE me.links[k]
  <2>1. PICK i \in 1..c : q[i] = m /\ ids[m] = n + i
    BY <1>4
  <2>2. vs[ids[m]] = rows[i] /\ ids[m] \in DOMAIN vs /\ ids[m] \notin DOMAIN F
    BY <1>10, <1>12, <2>1
  <2> QED
    BY <1>8, <2>1, <2>2
<1>14. \A s \in DOMAIN vs : s \in DOMAIN F \/ \E m \in g : s = ids[m]
  <2> TAKE s \in DOMAIN vs
  <2>1. s \in 1..n \/ \E i \in 1..c : s = n + i
    BY <1>10, <1>11
  <2>2. \A i \in 1..c : q[i] \in g /\ ids[q[i]] = n + i
    BY <1>3, <1>12
  <2> QED
    BY <1>10, <2>1, <2>2
<1>15. \A s \in DOMAIN F : s \in DOMAIN vs /\ vs[s] = F[s]
  BY <1>10
<1>16. Adds(F, vs, me, g, ids, dirt)
  BY <1>13, <1>14, <1>15 DEF Adds
<1> QED
  BY <1>6, <1>10, <1>16

\* What createLocalGroup stores: the group's rows, which are the new heads.
Publishes(r, q, ids) ==
  /\ facts' = facts \o [i \in DOMAIN q |-> GroupRow(r, q[i], ids)]
  /\ head' = [m \in Checkouts |-> IF m \in At1(r) THEN ids[m] ELSE head[m]]
  /\ NextGroup(r, ids)

LEMMA CreateGroupKeeps ==
  ASSUME GroupInv, NEW r \in GroupRuns, CreateGroup(r)
  PROVE  GroupInv'
<1>1. PICK me \in GroupRunStates : me = grouped[r] /\ GroupRunHolds(facts, r, me)
  BY RunOf
<1>2. PICK g : g = At1(r) /\ g = Head(me.groups)
  BY <1>1 DEF At1
<1>3. me.pc = "publish" /\ UNCHANGED <<source, pruned>>
  BY <1>1 DEF CreateGroup
<1>4. /\ me.groups # <<>> /\ \A n \in Checkouts \ g : me.memo[n] # 0 => LocalDeps[n] \cap g = {}
  BY <1>1, <1>2, <1>3 DEF GroupRunHolds, Replaceable
<1>5. AtGroup(me, g) /\ g \subseteq Checkouts
  BY <1>1, <1>2, <1>3, <1>4, AtGroupIs DEF GroupRunHolds, AtGroup
<1>6. PICK F \in Seq(FactRows) : F = facts /\ FactsHold(F) /\ HeadsAre(F, head)
  BY RunOf
<1>7. PICK q : q = SetToSeq(g)
  OBVIOUS
<1>70. PICK c \in Nat : Lists(q, g, c)
  <2>1. IsFiniteSet(g)
    BY <1>5, GroupConstants, FS_Subset
  <2> QED
    BY <1>7, <2>1, SetToSeqIs
<1>8. PICK n \in Nat : n = Len(F)
  OBVIOUS
<1>80. PICK ids : NumbersFrom(n, g, q, ids)
  BY DEF NumbersFrom
<1>9. CASE ~GroupVerified(r)
  <2>1. InputsChanged(r) /\ UNCHANGED <<facts, head>>
    BY <1>9 DEF CreateGroup
  <2> QED
    BY <1>3, <2>1, InputsChangedKeeps
<1>10. CASE GroupVerified(r)
  <2>1. /\ facts' = facts \o [i \in DOMAIN q |-> GroupRow(r, q[i], ids)]
        /\ head' = [m \in Checkouts |-> IF m \in g THEN ids[m] ELSE head[m]]
        /\ NextGroup(r, ids)
    <3>1. Publishes(r, SetToSeq(At1(r)), [m \in At1(r) |-> Len(facts) + CHOOSE i \in DOMAIN SetToSeq(At1(r)) : SetToSeq(At1(r))[i] = m])
      BY <1>10, Zenon DEF CreateGroup, Publishes
    <3>2. q = SetToSeq(At1(r))
      BY <1>2, <1>7
    <3>3. Publishes(r, q, [m \in At1(r) |-> Len(facts) + CHOOSE i \in DOMAIN q : q[i] = m])
      BY <3>1, <3>2
    <3>4. ids = [m \in At1(r) |-> Len(facts) + CHOOSE i \in DOMAIN q : q[i] = m]
      BY <1>2, <1>6, <1>8, <1>80 DEF NumbersFrom
    <3>5. Publishes(r, q, ids)
      BY <3>3, <3>4
    <3> QED
      BY <1>2, <3>5 DEF Publishes
  <2>2. PICK vs : vs = facts'
    OBVIOUS
  <2>3. PICK dirt : dirt = Dirty(r)
    OBVIOUS
  <2>4. vs \in Seq(FactRows) /\ Adds(F, vs, me, g, ids, dirt)
    <3>1. IsAt(r, me, g) /\ Len(F) = n
      BY <1>1, <1>2, <1>8 DEF IsAt
    <3>2. AppendsRows(r, q, ids, F, vs)
      BY <1>6, <2>1, <2>2 DEF AppendsRows
    <3>3. vs \in Seq(FactRows) /\ Adds(F, vs, me, g, ids, Dirty(r))
      BY <1>5, <1>6, <1>70, <1>80, <3>1, <3>2, GroupIsAdded
    <3> QED
      BY <2>3, <3>3
  <2>5. DirtIs(F, me, g, dirt)
    BY <1>1, <1>2, <1>6, <2>3 DEF DirtIs, Dirty
  <2>6. LinksAreStored(F, me, g)
    <3> SUFFICES ASSUME NEW m \in g, NEW k \in LocalDeps[m] \ g
                 PROVE  me.links[k] \in DOMAIN F /\ F[me.links[k]].module = k /\ F[me.links[k]].kept
      BY DEF LinksAreStored
    <3>1. head[k] = me.links[k]
      BY <1>1, <1>2, <1>10 DEF GroupVerified
    <3>2. k \in Checkouts /\ me.links[k] # 0
      BY <1>5 DEF AtGroup
    <3> QED
      BY <1>6, <3>1, <3>2 DEF HeadsAre
  <2>7. PICK G : G = Remembering(me, g, ids)
    OBVIOUS
  <2>8. GroupRunHolds(F, r, me)
    BY <1>1, <1>6
  <2>9. IsGeneration(vs, G)
    BY <1>4, <1>5, <1>6, <2>4, <2>7, <2>8, AddedIsAGeneration
  <2>10. Grows(F, vs) /\ GroupRunHolds(vs, r, me)
    BY <2>4, <2>8, AddsGrows, RunHoldsStill
  <2>11. FactsHold(vs)
    <3>1. ASSUME NEW s \in DOMAIN vs
          PROVE  FactLinks(vs, s)
      BY <1>6, <2>4, <2>5, <2>6, AddedLinks
    <3>2. ASSUME NEW s \in DOMAIN F
          PROVE  \E H : IsOneOf(vs, s, H)
      <4>1. PICK H : IsOneOf(F, s, H)
        BY <1>6 DEF FactsHold
      <4>2. IsOneOf(vs, s, H)
        BY <1>6, <2>10, <4>1, OneOfStays
      <4> QED
        BY <4>2
    <3>3. ASSUME NEW m \in g
          PROVE  IsOneOf(vs, ids[m], G)
      BY <1>5, <1>6, <2>4, <2>5, <2>7, <2>8, <2>9, AddedIsWhole
    <3>4. \A s \in DOMAIN vs : s \in DOMAIN F \/ \E m \in g : s = ids[m]
      BY <2>4 DEF Adds
    <3> QED
      BY <3>1, <3>2, <3>3, <3>4 DEF FactsHold
  <2>12. \A m \in g : ids[m] \in DOMAIN vs /\ ids[m] \in Nat \ {0}
    <3>1. \A m \in g : ids[m] \in DOMAIN vs
      BY <2>4 DEF Adds
    <3> QED
      BY <2>4, <3>1, FactsAre
  <2>13. PICK h2 : h2 = head'
    OBVIOUS
  <2>14. h2 \in [Checkouts -> Nat] /\ \A m \in Checkouts : h2[m] = IF m \in g THEN ids[m] ELSE head[m]
    <3>1. head \in [Checkouts -> Nat]
      BY DEF GroupInv, GroupTypes
    <3> QED
      BY <2>1, <2>12, <2>13, <3>1
  <2>15. HeadsAre(vs, h2)
    <3>1. PICK h : h = head /\ HeadsAre(F, h)
      BY <1>6
    <3>2. \A m \in Checkouts : h2[m] = IF m \in g THEN ids[m] ELSE h[m]
      BY <2>14, <3>1
    <3> QED
      BY <1>5, <1>6, <2>4, <3>1, <3>2, AddedHeads
  <2>16. pruned = 0 => \A s \in DOMAIN vs : vs[s].kept
    <3>1. pruned = 0 => \A s \in DOMAIN F : F[s].kept
      BY <1>6 DEF GroupInv
    <3> QED
      BY <2>4, <3>1 DEF Adds
  <2>17. PICK y : GoesOn(me, g, ids, y) /\ grouped' = [grouped EXCEPT ![r] = y]
    <3>1. DOMAIN ids = g
      BY <1>70, <1>80, NumbersAre
    <3> QED
      BY <1>1, <2>1, <3>1, NextGroupIs
  <2>18. y \in GroupRunStates /\ GroupRunHolds(vs, r, y) /\ y.pc = "group"
    <3>1. me.pc \in {"group", "reuse", "publish"} /\ \A m \in g : ids[m] \in Nat \ {0}
      BY <1>3, <2>12
    <3>2. IsGeneration(vs, Remembering(me, g, ids))
      BY <2>7, <2>9
    <3> QED
      BY <1>2, <1>4, <2>4, <2>10, <2>17, <3>1, <3>2, NextGroupHolds
  <2>19. Grows(facts, facts') /\ FactsHold(facts') /\ HeadsAre(facts', head') /\ facts' \in Seq(FactRows) /\ head' \in [Checkouts -> Nat]
    BY <1>6, <2>2, <2>4, <2>10, <2>11, <2>13, <2>14, <2>15
  <2>20. (pruned = 0 => \A s \in DOMAIN facts' : facts'[s].kept) /\ GroupRunHolds(facts', r, y)
    BY <2>2, <2>16, <2>18
  <2> QED
    BY <1>3, <2>17, <2>18, <2>19, <2>20, GroupStepKeeps
<1> QED
  BY <1>9, <1>10


LEMMA EditSourceKeeps ==
  ASSUME GroupInv, NEW m \in Checkouts, EditSource(m)
  PROVE  GroupInv'
<1>1. UNCHANGED <<facts, head, grouped, pruned>>
  BY DEF EditSource
<1>2. source' \in [Checkouts -> Nat]
  <2>1. PICK v \in [Checkouts -> Nat] : v = source
    BY DEF GroupInv, GroupTypes
  <2>2. source' = [v EXCEPT ![m] = v[m] + 1]
    BY <2>1 DEF EditSource
  <2> QED
    BY <2>2
<1>3. GroupTypes'
  BY <1>1, <1>2 DEF GroupInv, GroupTypes
<1> QED
  BY <1>1, <1>3 DEF GroupInv, GroupsFailForCause

\* What a prune keeps: the rows are as they were, but only what the heads reach is stored.
Prunes(F, R, vs) == vs = [s \in DOMAIN F |-> [F[s] EXCEPT !.kept = s \in R]]

LEMMA PrunedAre ==
  ASSUME NEW F \in Seq(FactRows), NEW R, NEW vs, Prunes(F, R, vs)
  PROVE  /\ vs \in Seq(FactRows) /\ DOMAIN vs = DOMAIN F /\ Grows(F, vs)
         /\ \A s \in DOMAIN F : vs[s].kept <=> s \in R
<1>1. DOMAIN F = 1..Len(F) /\ Len(F) \in Nat /\ \A s \in DOMAIN F : F[s] \in FactRows
  BY FactsAre
<1>2. DOMAIN vs = DOMAIN F /\ vs = [s \in DOMAIN F |-> vs[s]]
  BY DEF Prunes
<1>3. ASSUME NEW s \in DOMAIN F
      PROVE  /\ vs[s] \in FactRows /\ vs[s].module = F[s].module /\ vs[s].content = F[s].content
             /\ vs[s].dirty = F[s].dirty /\ vs[s].edges = F[s].edges /\ (vs[s].kept <=> s \in R)
  <2>1. PICK b \in BOOLEAN : b = (s \in R)
    <3>1. CASE s \in R
      <4>1. (s \in R) = TRUE
        BY <3>1
      <4> QED
        BY <4>1, Zenon
    <3>2. CASE s \notin R
      <4>1. (s \in R) = FALSE
        BY <3>2
      <4> QED
        BY <4>1, Zenon
    <3> QED
      BY <3>1, <3>2
  <2>2. PICK x \in FactRows : x = F[s]
    BY <1>1
  <2>3. PICK y : y = [x EXCEPT !.kept = b]
    OBVIOUS
  <2>4. vs[s] = y
    BY <2>1, <2>2, <2>3 DEF Prunes
  <2>5. y \in FactRows
    BY <2>3 DEF FactRows
  <2>6. y.module = x.module /\ y.content = x.content /\ y.dirty = x.dirty /\ y.edges = x.edges /\ y.kept = b
    BY <2>3 DEF FactRows
  <2> QED
    BY <2>1, <2>2, <2>4, <2>5, <2>6
<1>4. vs \in [1..Len(F) -> FactRows]
  BY <1>1, <1>2, <1>3
<1>5. vs \in Seq(FactRows)
  BY <1>1, <1>4, ListIs
<1>6. Grows(F, vs)
  BY <1>2, <1>3 DEF Grows
<1> QED
  BY <1>2, <1>3, <1>5, <1>6

LEMMA PruneFactsKeeps ==
  ASSUME GroupInv, PruneFacts
  PROVE  GroupInv'
<1> DEFINE N == Len(facts)
           reach[n \in 0..N] ==
             IF n = 0 THEN Range(head) \ {0} ELSE reach[n - 1] \cup UNION {Range(facts[s].edges) : s \in reach[n - 1]}
<1>1. /\ facts' = [s \in DOMAIN facts |-> [facts[s] EXCEPT !.kept = s \in reach[N]]]
      /\ pruned' = pruned + 1 /\ UNCHANGED <<source, head, grouped>>
  BY Zenon DEF PruneFacts
<1>2. PICK F \in Seq(FactRows) : F = facts /\ FactsHold(F) /\ HeadsAre(F, head)
  BY DEF GroupInv, GroupTypes
<1>3. N \in Nat /\ DOMAIN F = 1..N
  BY <1>2, FactsAre
<1>4. PICK S : S = Range(head) \ {0}
  OBVIOUS
<1>5. S \in SUBSET DOMAIN F /\ \A m \in Checkouts : head[m] # 0 => head[m] \in S
  <2>1. head \in [Checkouts -> Nat]
    BY DEF GroupInv, GroupTypes
  <2>2. Range(head) = {head[m] : m \in Checkouts}
    BY <2>1 DEF Range
  <2>3. \A m \in Checkouts : head[m] # 0 => head[m] \in DOMAIN F
    BY <1>2 DEF HeadsAre
  <2> QED
    BY <1>4, <2>2, <2>3
<1> HIDE DEF N
<1>6. \E w : LinksInSteps(w, facts, S, N)
  BY <1>2, <1>3, <1>5, FactWalkExists
<1>7. LinksInSteps(reach, facts, S, N)
  <2>1. \E w : LinksInSteps(w, facts, Range(head) \ {0}, N)
    BY <1>4, <1>6
  <2>2. LinksInSteps(reach, facts, Range(head) \ {0}, N)
    BY <2>1 DEF LinksInSteps
  <2> QED
    BY <1>4, <2>2
<1> HIDE DEF reach
<1>8. PICK w : w = reach /\ LinksInSteps(w, F, S, N)
  BY <1>2, <1>7
<1>9. PICK E : E = FactGraph(F)
  OBVIOUS
<1>10. /\ IsGraph(E) /\ DOMAIN E = DOMAIN F
       /\ \A t \in DOMAIN F : E[t] = {F[t].edges[n] : n \in LocalDeps[F[t].module]}
  BY <1>2, <1>9, FactGraphIs
<1>11. IsWalk(w, E, S, N)
  BY <1>2, <1>3, <1>5, <1>8, <1>9, FactWalkIs
<1>12. PICK R : R = w[N]
  OBVIOUS
<1>13. IsReach(R, E, S)
  <2>1. w[N] \subseteq DOMAIN F
    BY <1>3, <1>10, <1>11 DEF IsWalk
  <2>2. IsFiniteSet(DOMAIN F) /\ Cardinality(DOMAIN F) <= N
    <3>1. IsFiniteSet(1..N) /\ Cardinality(1..N) = N
      BY <1>3, FS_Interval
    <3> QED
      BY <1>3, <3>1
  <2>3. IsReach(w[N], E, S)
    BY <1>3, <1>10, <1>11, <2>1, <2>2, WalkReaches
  <2> QED
    BY <1>12, <2>3
<1>14. PICK vs : vs = facts'
  OBVIOUS
<1>15. Prunes(F, R, vs)
  BY <1>1, <1>2, <1>8, <1>12, <1>14 DEF Prunes
<1>16. /\ vs \in Seq(FactRows) /\ DOMAIN vs = DOMAIN F /\ Grows(F, vs)
       /\ \A s \in DOMAIN F : vs[s].kept <=> s \in R
  BY <1>15, PrunedAre
<1>17. \A s \in DOMAIN F : /\ vs[s].module = F[s].module /\ vs[s].content = F[s].content
                           /\ vs[s].dirty = F[s].dirty /\ vs[s].edges = F[s].edges
  BY <1>16 DEF Grows
<1>18. ASSUME NEW s \in DOMAIN F
       PROVE  FactLinks(vs, s)
  <2>1. FactLinks(F, s)
    BY <1>2 DEF FactsHold
  <2>2. ASSUME NEW n \in LocalDeps[F[s].module]
        PROVE  /\ F[s].edges[n] \in DOMAIN vs /\ vs[F[s].edges[n]].module = n
               /\ vs[s].kept => vs[F[s].edges[n]].kept
               /\ vs[F[s].edges[n]].dirty => vs[s].dirty
    <3>1. PICK e : e = F[s].edges[n]
      OBVIOUS
    <3>2. e \in DOMAIN F /\ F[e].module = n /\ (F[e].dirty => F[s].dirty)
      BY <2>1, <3>1 DEF FactLinks
    <3>3. s \in R => e \in R
      BY <1>10, <1>13, <3>1 DEF IsReach
    <3> QED
      BY <1>16, <1>17, <3>1, <3>2, <3>3
  <2> QED
    BY <1>17, <2>1, <2>2 DEF FactLinks
<1>19. FactsHold(vs)
  <2>1. ASSUME NEW s \in DOMAIN F
        PROVE  \E G : IsOneOf(vs, s, G)
    <3>1. PICK G : IsOneOf(F, s, G)
      BY <1>2 DEF FactsHold
    <3>2. IsOneOf(vs, s, G)
      BY <1>2, <1>16, <3>1, OneOfStays
    <3> QED
      BY <3>2
  <2> QED
    BY <1>16, <1>18, <2>1 DEF FactsHold
<1>20. HeadsAre(vs, head)
  <2> SUFFICES ASSUME NEW m \in Checkouts, head[m] # 0
               PROVE  /\ head[m] \in DOMAIN vs /\ vs[head[m]].module = m /\ vs[head[m]].kept
                      /\ \A n \in LocalDeps[m] : n \in GroupOf(m) => vs[head[m]].edges[n] = head[n]
    BY DEF HeadsAre
  <2>1. /\ head[m] \in DOMAIN F /\ F[head[m]].module = m
        /\ \A n \in LocalDeps[m] : n \in GroupOf(m) => F[head[m]].edges[n] = head[n]
    BY <1>2 DEF HeadsAre
  <2>2. head[m] \in R
    BY <1>5, <1>13 DEF IsReach
  <2> QED
    BY <1>16, <1>17, <2>1, <2>2
<1>21. \A q \in GroupRuns : GroupRunHolds(vs, q, grouped[q])
  <2> TAKE q \in GroupRuns
  <2>1. PICK me : me = grouped[q] /\ GroupRunHolds(F, q, me)
    BY <1>2 DEF GroupInv
  <2>2. GroupRunHolds(vs, q, me)
    BY <1>16, <2>1, RunHoldsStill
  <2> QED
    BY <2>1, <2>2
<1>22. pruned' \in Nat /\ pruned' > 0
  BY <1>1 DEF GroupInv, GroupTypes
<1>23. GroupTypes'
  BY <1>1, <1>14, <1>16, <1>22 DEF GroupInv, GroupTypes
<1>24. GroupsFailForCause'
  BY <1>22 DEF GroupsFailForCause
<1> QED
  BY <1>1, <1>14, <1>19, <1>20, <1>21, <1>22, <1>23, <1>24 DEF GroupInv

-----------------------------------------------------------------------------
(* GroupInv holds of every behaviour.                                      *)

\* A forced run's targets come after what they depend on, unless each depends on the other:
\* enclosingFirst puts a target after those whose packages it imports, where nesting leaves a choice.
TargetsInOrder ==
  \A r \in GroupRuns \cap ForcedRuns : \A i, j \in DOMAIN GroupTargets[r] :
    (i < j /\ GroupTargets[r][j] \in Needed(GroupTargets[r][i])) => GroupTargets[r][i] \in Needed(GroupTargets[r][j])

LEMMA GroupInitHolds ==
  ASSUME TargetsInOrder, GroupInit
  PROVE  GroupInv
<1>1. source \in [Checkouts -> Nat] /\ facts = <<>> /\ head = Nothing /\ pruned = 0
  BY DEF GroupInit
<1>2. facts \in Seq(FactRows) /\ DOMAIN facts = {}
  BY <1>1
<1>3. ASSUME NEW r \in GroupRuns
      PROVE  /\ grouped[r] \in GroupRunStates /\ GroupRunHolds(facts, r, grouped[r]) /\ grouped[r].pc = "idle"
  <2>1. PICK ts \in Seq(Checkouts) : ts = GroupTargets[r]
    BY GroupConstants
  <2>2. PICK y : y = [NewGroupRun EXCEPT !.left = ts]
    OBVIOUS
  <2>3. grouped[r] = y
    BY <2>1, <2>2 DEF GroupInit
  <2>4. y = [pc |-> "idle", left |-> ts, groups |-> <<>>, read |-> Nothing, links |-> Nothing,
             memo |-> Nothing, heads |-> Nothing, attempt |-> 1]
    BY <2>2 DEF NewGroupRun
  <2>5. y \in GroupRunStates
    <3>1. <<>> \in Seq(SUBSET Checkouts) /\ 1 \in 1..GroupAttempts
      BY GroupConstants
    <3> QED
      BY <2>4, <3>1, NothingIs DEF GroupRunStates, GroupPlaces
  <2>6. y.pc = "idle" /\ y.left = ts /\ y.memo = Nothing /\ y.links = Nothing
    BY <2>4
  <2>7. r \in ForcedRuns => LeftInOrder(y)
    BY <2>1, <2>6, NothingIs DEF TargetsInOrder, LeftInOrder
  <2>8. GroupRunHolds(facts, r, y)
    BY <2>6, <2>7, NothingIs, NothingIsAGeneration DEF GroupRunHolds, GroupsInHand, Replaceable, ReuseIsSound
  <2> QED
    BY <2>3, <2>5, <2>6, <2>8
<1>4. GroupTypes
  <2>1. grouped = [r \in GroupRuns |-> grouped[r]]
    BY DEF GroupInit
  <2>2. grouped \in [GroupRuns -> GroupRunStates]
    BY <1>3, <2>1
  <2> QED
    BY <1>1, <1>2, <2>2, NothingIs DEF GroupTypes
<1>5. FactsHold(facts) /\ HeadsAre(facts, head) /\ \A s \in DOMAIN facts : facts[s].kept
  BY <1>1, <1>2, NothingIs DEF FactsHold, HeadsAre
<1>6. GroupsFailForCause
  BY <1>3 DEF GroupsFailForCause
<1> QED
  BY <1>3, <1>4, <1>5, <1>6 DEF GroupInv

LEMMA GroupNextKeeps ==
  ASSUME GroupInv, [GroupNext]_groupVars
  PROVE  GroupInv'
<1>1. CASE UNCHANGED groupVars
  BY <1>1 DEF groupVars, GroupInv, GroupTypes, GroupsFailForCause
<1>2. ASSUME NEW r \in GroupRuns, ReadGraph(r)
      PROVE  GroupInv'
  BY <1>2, ReadGraphKeeps
<1>3. ASSUME NEW r \in GroupRuns, RememberedGroup(r)
      PROVE  GroupInv'
  BY <1>3, RememberedGroupKeeps
<1>4. ASSUME NEW r \in GroupRuns, CheckHeads(r)
      PROVE  GroupInv'
  BY <1>4, CheckHeadsKeeps
<1>5. ASSUME NEW r \in GroupRuns, ReuseGroup(r)
      PROVE  GroupInv'
  BY <1>5, ReuseGroupKeeps
<1>6. ASSUME NEW r \in GroupRuns, CreateGroup(r)
      PROVE  GroupInv'
  BY <1>6, CreateGroupKeeps
<1>7. ASSUME NEW r \in GroupRuns, NextTarget(r)
      PROVE  GroupInv'
  BY <1>7, NextTargetKeeps
<1>8. ASSUME NEW m \in Checkouts, EditSource(m)
      PROVE  GroupInv'
  BY <1>8, EditSourceKeeps
<1>9. CASE PruneFacts
  BY <1>9, PruneFactsKeeps
<1> QED
  BY <1>1, <1>2, <1>3, <1>4, <1>5, <1>6, <1>7, <1>8, <1>9 DEF GroupNext

(* Modules that depend on each other are published, reused and remembered as  *)
(* one, and a run is given up only for a cause, whatever the checkouts, their *)
(* dependencies and the runs are (createLocalGroup, reuseLocalGroup,          *)
(* rememberedLocalGroup), as long as enclosingFirst orders what runs force.   *)
THEOREM CyclesStayTogether ==
  ASSUME TargetsInOrder
  PROVE  GroupSpec => []GroupsStayTogether
<1>1. GroupInit => GroupInv
  BY GroupInitHolds
<1>2. GroupInv /\ [GroupNext]_groupVars => GroupInv'
  BY GroupNextKeeps
<1>3. GroupInv => GroupsStayTogether
  BY GroupInvSuffices
<1> QED
  BY <1>1, <1>2, <1>3, PTL DEF GroupSpec
=============================================================================
