----------------------- MODULE OpenAndServeProofs -----------------------
(***************************************************************************)
(* The database while it is opened and while it is served.                 *)
(*                                                                         *)
(* Opening: whatever database is found, wherever opens are stopped and     *)
(* whatever is published and read beside them, the index is carried over   *)
(* whole, and nothing that it has or is known by is lost.                  *)
(*                                                                         *)
(* Serving: what serve's answers promise, for every set of requests and    *)
(* any number of edits of the checkout.                                    *)
(***************************************************************************)
EXTENDS OpenDatabase, ServeRuntime, FiniteSetTheorems, SequenceTheorems, WellFoundedInduction, TLAPS

-----------------------------------------------------------------------------
(* Natural numbers, sequences and finite functions.                        *)

\* A non-empty set of naturals has a least element.
LEMMA LeastNatural ==
  ASSUME NEW T \in SUBSET Nat, T # {}
  PROVE  \E x \in T : \A y \in T : x <= y
<1>1. \E x \in T : \A y \in T : ~ (<<y, x>> \in OpToRel(<, Nat))
  BY NatLessThanWellFounded, WFMin
<1>2. PICK x \in T : \A y \in T : ~ (<<y, x>> \in OpToRel(<, Nat))
  BY <1>1
<1>3. \A y \in T : ~ (y < x)
  BY <1>2 DEF OpToRel
<1> QED
  BY <1>3

\* A set of naturals that holds 0 and the successor of each of its elements is all of them.
LEMMA NaturalInduction ==
  ASSUME NEW T \in SUBSET Nat, 0 \in T, \A n \in T : n + 1 \in T
  PROVE  T = Nat
<1> SUFFICES ASSUME Nat \ T # {} PROVE FALSE
  OBVIOUS
<1>1. PICK x \in Nat \ T : \A y \in Nat \ T : x <= y
  BY LeastNatural
<1>2. x # 0 /\ x - 1 \in Nat /\ x - 1 \notin Nat \ T
  BY <1>1
<1>3. x - 1 + 1 = x
  BY <1>1
<1> QED
  BY <1>1, <1>2, <1>3

\* The least and the largest element of a set of naturals that has one.
LEMMA MinIs ==
  ASSUME NEW T \in SUBSET Nat, T # {}
  PROVE  Min(T) \in T /\ \A y \in T : Min(T) <= y
<1>1. \E x \in T : \A y \in T : x <= y
  BY LeastNatural
<1> QED
  BY <1>1 DEF Min

LEMMA MaxIs ==
  ASSUME NEW n \in Nat, NEW T \in SUBSET (0..n), T # {}
  PROVE  Max(T) \in T /\ \A y \in T : Max(T) >= y
<1> DEFINE D == {k \in Nat : n - k \in T}
<1>1. D \in SUBSET Nat /\ D # {}
  <2>1. PICK t \in T : TRUE
    OBVIOUS
  <2>2. n - t \in Nat /\ n - (n - t) = t
    BY <2>1
  <2> QED
    BY <2>1, <2>2
<1>2. PICK d \in D : \A k \in D : d <= k
  <2> HIDE DEF D
  <2> QED
    BY <1>1, LeastNatural
<1>3. ASSUME NEW t \in T
      PROVE  n - d >= t
  <2>1. n - t \in D /\ t \in Int /\ d \in Int
    OBVIOUS
  <2>2. d <= n - t
    BY <1>2, <2>1
  <2> QED
    BY <2>1, <2>2
<1>4. \E m \in T : \A t \in T : m >= t
  BY <1>3
<1> QED
  BY <1>4 DEF Max

\* A sequence is a function from its indices.
LEMMA SeqIs ==
  ASSUME NEW S, NEW q \in Seq(S)
  PROVE  Len(q) \in Nat /\ DOMAIN q = 1..Len(q) /\ \A i \in DOMAIN q : q[i] \in S
OBVIOUS

LEMMA FunctionIs ==
  ASSUME NEW S, NEW n \in Nat, NEW q \in [1..n -> S]
  PROVE  q \in Seq(S) /\ Len(q) = n
OBVIOUS

LEMMA AppendIs ==
  ASSUME NEW S, NEW q \in Seq(S), NEW x \in S
  PROVE  /\ Append(q, x) \in Seq(S) /\ Len(Append(q, x)) = Len(q) + 1
         /\ DOMAIN Append(q, x) = 1..Len(q) + 1
         /\ \A i \in DOMAIN q : Append(q, x)[i] = q[i]
         /\ Append(q, x)[Len(q) + 1] = x
OBVIOUS

\* A finite set with at most one element has one that it is the set of.
LEMMA AtMostOne ==
  ASSUME NEW T, IsFiniteSet(T), Cardinality(T) <= 1, NEW x \in T
  PROVE  T = {x}
<1>1. IsFiniteSet({x}) /\ Cardinality({x}) = 1 /\ {x} \subseteq T
  BY FS_Singleton
<1>2. Cardinality(T) \in Nat /\ Cardinality({x}) <= Cardinality(T)
  BY <1>1, FS_Subset, FS_CardinalityType
<1>3. {x} = T
  BY <1>1, <1>2, FS_Subset
<1> QED
  BY <1>3

\* Naturals in a sequence have a bound.
LEMMA Bounded ==
  ASSUME NEW q \in Seq(Nat)
  PROVE  \E b \in Nat : \A i \in DOMAIN q : q[i] <= b
<1> DEFINE A == {n \in Nat : \E b \in Nat : \A i \in DOMAIN q : i <= n => q[i] <= b}
<1>0. Len(q) \in Nat /\ DOMAIN q = 1..Len(q) /\ \A i \in DOMAIN q : q[i] \in Nat
  BY SeqIs
<1>1. 0 \in A
  BY <1>0
<1>2. ASSUME NEW n \in A
      PROVE  n + 1 \in A
  <2>1. PICK b \in Nat : \A i \in DOMAIN q : i <= n => q[i] <= b
    OBVIOUS
  <2>2. CASE n + 1 \in DOMAIN q
    <3>1. PICK c \in Nat : c = b + q[n + 1]
      BY <1>0, <2>2
    <3>2. q[n + 1] \in Nat
      BY <1>0, <2>2
    <3>3. ASSUME NEW i \in DOMAIN q, i <= n + 1
          PROVE  q[i] <= c
      <4>1. CASE i = n + 1
        BY <4>1, <3>1, <3>2
      <4>2. CASE i # n + 1
        <5>1. i <= n
          BY <4>2, <3>3, <1>0
        <5>2. q[i] <= b /\ q[i] \in Nat
          BY <5>1, <2>1, <1>0
        <5> QED
          BY <5>2, <3>1, <3>2
      <4> QED
        BY <4>1, <4>2
    <3> QED
      BY <3>3
  <2>3. CASE n + 1 \notin DOMAIN q
    <3>1. \A i \in DOMAIN q : i <= n + 1 => i <= n
      BY <2>3, <1>0
    <3> QED
      BY <2>1, <3>1
  <2> QED
    BY <2>2, <2>3
<1>3. A = Nat
  <2>1. A \in SUBSET Nat
    OBVIOUS
  <2> HIDE DEF A
  <2> QED
    BY <1>1, <1>2, <2>1, NaturalInduction
<1> HIDE DEF A
<1>4. Len(q) \in A
  BY <1>0, <1>3
<1> QED
  BY <1>0, <1>4 DEF A

LEMMA SeqElements ==
  ASSUME NEW S, NEW T, NEW q \in Seq(S), \A i \in DOMAIN q : q[i] \in T
  PROVE  q \in Seq(T)
OBVIOUS

\* Sequences with the same indices have the same length.
LEMMA SameLength ==
  ASSUME NEW S, NEW T, NEW q \in Seq(S), NEW z \in Seq(T), DOMAIN z = DOMAIN q
  PROVE  Len(z) = Len(q)
OBVIOUS
-----------------------------------------------------------------------------
(* Opening a database: the inductive invariant.                            *)

Documents == [path : Paths, hash : Hashes, digest : Nat]
Snapshots == [base : Nat, inputs : Inputs]
Rows == UNION {[ps -> Nat] : ps \in SUBSET Paths}
Tallies == [added : Int, changed : Int, deleted : Int]
Markers == [row : BOOLEAN, complete : BOOLEAN, digested : Nat, members : Nat]
Places == {"idle", "failed", "discard", "migrate", "layout", "marker", "digest", "members", "complete", "stats", "open"}
Generations == Stale \cup {"none", "empty", "current", "error"}
Openings == [step : Places, generation : Generations, marker : Markers, seen : SUBSET (Paths \X Nat)]

\* The base of a snapshot is an earlier one.
IsBased(S) == \A s \in DOMAIN S : S[s].base < s

OpenTypes ==
  /\ catalog \in Catalogs
  /\ roots \in Seq(Nat)
  /\ documents \in Seq(Documents)
  /\ snapshots \in Seq(Snapshots) /\ IsBased(snapshots)
  /\ deltas \in Seq(Rows) /\ Len(deltas) = Len(snapshots)
  /\ stats \in Seq(Tallies) /\ Len(stats) = Len(snapshots)
  /\ membership \in Markers
  /\ opener \in [Openers -> Openings]
  /\ reader \in [Readers -> {"closed", "require", "open", "refused"}]
  /\ stops \in Nat

\* A catalog without the current layout has no snapshots, and a layout is recorded after the roots have ordinals.
CatalogTells(c, n) ==
  /\ Generation(c) \in Stale \cup {"empty"} => n = 0
  /\ c.layout # "noTable" => c.modules /\ c.ordinal
  /\ c.shapeFP => c.modules

\* Roots have no ordinals yet, or all of them one of their own.
RootsAreNumbered(c, R) ==
  IF Generation(c) = "preHandle" THEN \A i \in DOMAIN R : R[i] = 0
  ELSE /\ \A i \in DOMAIN R : R[i] # 0
       /\ \A i, j \in DOMAIN R : R[i] = R[j] => i = j

RenderedBy(d) == Rendering[<<d.path, d.hash>>]
AreTwins(d, e) == d.path = e.path /\ RenderedBy(d) = RenderedBy(e)

\* A digest is of what its document renders, and of the earliest that renders it; a document that
\* the backfill has passed has a twin with a digest.
DigestsTell(docs, m) ==
  /\ \A d \in DOMAIN docs : docs[d].digest # None =>
       /\ docs[d].digest = RenderedBy(docs[d])
       /\ \A e \in DOMAIN docs : e < d => ~AreTwins(docs[e], docs[d])
  /\ \A d \in DOMAIN docs : (m.row /\ (m.complete \/ d <= m.digested)) =>
       \E e \in DOMAIN docs : AreTwins(docs[e], docs[d]) /\ docs[e].digest # None

\* A document has the path, and renders what the input hash does; the old membership has that very hash.
ServesInputs(files, inputs, docs, exactly) ==
  /\ DOMAIN files = DOMAIN inputs
  /\ \A p \in DOMAIN files :
       /\ files[p] \in DOMAIN docs /\ docs[files[p]].path = p
       /\ RenderedBy(docs[files[p]]) = Rendering[<<p, inputs[p]>>]
       /\ exactly => docs[files[p]].hash = inputs[p]

\* The old membership of a snapshot, what deltas say along base chains, and sources, of given tables.
LegacyOf(S, docs, s) ==
  [p \in DOMAIN S[s].inputs |-> CHOOSE d \in DOMAIN docs : docs[d].path = p /\ docs[d].hash = S[s].inputs[p]]
Over(base, own) ==
  [p \in {q \in DOMAIN base \cup DOMAIN own : q \in DOMAIN own => own[q] # None} |->
     IF p \in DOMAIN own THEN own[p] ELSE base[p]]
Chained(S, D) ==
  LET eff[s \in 0..Len(S)] == IF s = 0 THEN <<>> ELSE Over(eff[S[s].base], D[s])
  IN eff
SourcesOf(S, s) == IF s = 0 THEN <<>> ELSE [p \in DOMAIN S[s].inputs |-> Revision[<<p, S[s].inputs[p]>>]]

HasDocuments(inputs, docs) ==
  \A p \in DOMAIN inputs : \E d \in DOMAIN docs : docs[d].path = p /\ docs[d].hash = inputs[p]

\* What was carried over serves its inputs; while the rest is to be, documents for all of it are
\* there and the carried part is the old membership.
MembersAreCarried(S, D, docs, m) ==
  /\ m.members <= Len(S)
  /\ \A s \in DOMAIN S : (m.complete \/ s <= m.members) =>
       ServesInputs(Chained(S, D)[s], S[s].inputs, docs, s <= m.members)
  /\ ~m.complete =>
       /\ \A s \in DOMAIN S : HasDocuments(S[s].inputs, docs)
       /\ \A s \in DOMAIN S : s <= m.members => Chained(S, D)[s] = LegacyOf(S, docs, s)
       /\ m.members > 0 => m.digested >= Len(docs)
  /\ ~m.row => m = NoMembership

CountsAreOf(S, st, s) == st[s] = NoCounts \/ st[s] = Counts(SourcesOf(S, S[s].base), SourcesOf(S, s))

Digested(docs) == {<<docs[d].path, docs[d].digest>> : d \in {e \in DOMAIN docs : docs[e].digest # None}}
Opening == {"layout", "marker", "digest", "members", "complete", "stats", "open"}

\* What an opener may rely on at each step.
OpenerKnows(o, c, docs, m, n) ==
  /\ o.step = "discard" => o.generation = Generation(c) /\ o.generation \in Stale
  /\ o.step \in {"migrate"} \cup Opening =>
       /\ c.layout # "other" /\ ~c.shapeFP
       /\ c.modules => c.ordinal
  /\ o.step \in Opening => c.modules /\ c.layout # "noTable"
  /\ o.step \in Opening \ {"layout"} => c.layout = "ours"
  /\ o.step \in {"digest", "members", "complete"} => m.row /\ ~m.complete /\ o.marker = m
  /\ o.step = "digest" => o.seen = Digested(docs)
  /\ o.step \in {"members", "complete"} => m.digested >= Len(docs)
  /\ o.step = "complete" => m.members >= n
  /\ o.step \in {"stats", "open"} => m.row /\ m.complete

\* A reader that was let in finds the membership complete, or nothing.
MayRead(rd, m, n) == rd = "open" => (m.row /\ m.complete) \/ n = 0

TablesTell ==
  /\ DigestsTell(documents, membership)
  /\ MembersAreCarried(snapshots, deltas, documents, membership)
  /\ \A s \in DOMAIN snapshots : CountsAreOf(snapshots, stats, s)

OpenInv ==
  /\ OpenTypes
  /\ CatalogTells(catalog, Len(snapshots)) /\ RootsAreNumbered(catalog, roots)
  /\ TablesTell
  /\ \A o \in Openers : OpenerKnows(opener[o], catalog, documents, membership, Len(snapshots))
  /\ \A r \in Readers : MayRead(reader[r], membership, Len(snapshots))

-----------------------------------------------------------------------------
(* What the deltas of base chains say.                                     *)

\* The first n snapshots have what their chains say.
IsChained(w, S, D, n) ==
  /\ DOMAIN w = 0..n
  /\ w = [s \in 0..n |-> IF s = 0 THEN <<>> ELSE Over(w[S[s].base], D[s])]

AreBased(S) == Len(S) \in Nat /\ \A s \in 1..Len(S) : S[s].base \in 0..(s - 1)
AgreeTo(n, S, D, S2, D2) ==
  n <= Len(S) /\ n <= Len(S2) /\ \A s \in 1..n : S2[s].base = S[s].base /\ D2[s] = D[s]

\* A recursive reading of the chains exists, bases being earlier.
LEMMA ChainedExists ==
  ASSUME NEW S, NEW D, NEW n \in Nat, \A s \in 1..n : S[s].base \in 0..(s - 1)
  PROVE  \E w : IsChained(w, S, D, n)
<1> DEFINE A == {k \in Nat : k <= n => \E w : IsChained(w, S, D, k)}
<1>1. 0 \in A
  <2>1. IsChained([s \in 0..0 |-> <<>>], S, D, 0)
    BY DEF IsChained
  <2> QED
    BY <2>1
<1>2. ASSUME NEW k \in A
      PROVE  k + 1 \in A
  <2> SUFFICES ASSUME k + 1 <= n
               PROVE  \E w : IsChained(w, S, D, k + 1)
    OBVIOUS
  <2>1. k \in Nat /\ k <= n /\ k + 1 \in 1..n
    OBVIOUS
  <2>2. PICK w : IsChained(w, S, D, k)
    BY <2>1
  <2>3. PICK v : v = [s \in 0..(k + 1) |-> IF s = k + 1 THEN Over(w[S[k + 1].base], D[k + 1]) ELSE w[s]]
    OBVIOUS
  <2>4. DOMAIN v = 0..(k + 1) /\ v[k + 1] = Over(w[S[k + 1].base], D[k + 1])
    BY <2>1, <2>3
  <2>5. \A s \in 0..k : v[s] = w[s]
    <3> TAKE s \in 0..k
    <3>1. s \in 0..(k + 1) /\ s # k + 1
      BY <2>1
    <3> QED
      BY <2>3, <3>1
  <2>6. \A s \in 1..(k + 1) : S[s].base \in 0..k
    <3> TAKE s \in 1..(k + 1)
    <3>1. s \in 1..n /\ S[s].base \in 0..(s - 1)
      BY <2>1
    <3> QED
      BY <3>1, <2>1
  <2>7. ASSUME NEW s \in 0..(k + 1)
        PROVE  v[s] = IF s = 0 THEN <<>> ELSE Over(v[S[s].base], D[s])
    <3>1. CASE s = k + 1
      <4>1. s # 0 /\ v[S[s].base] = w[S[s].base]
        BY <3>1, <2>1, <2>5, <2>6
      <4> QED
        BY <3>1, <4>1, <2>4
    <3>2. CASE s # k + 1
      <4>1. s \in 0..k
        BY <3>2, <2>1
      <4>2. v[s] = w[s] /\ w[s] = IF s = 0 THEN <<>> ELSE Over(w[S[s].base], D[s])
        BY <4>1, <2>2, <2>5 DEF IsChained
      <4>3. s # 0 => v[S[s].base] = w[S[s].base]
        <5> SUFFICES ASSUME s # 0
                     PROVE  S[s].base \in 0..k
          BY <2>5
        <5>1. s \in 1..(k + 1)
          BY <4>1, <2>1
        <5> QED
          BY <5>1, <2>6
      <4> QED
        BY <4>2, <4>3
    <3> QED
      BY <3>1, <3>2
  <2>8. v = [s \in 0..(k + 1) |-> v[s]]
    BY <2>3, <2>4
  <2>9. v = [s \in 0..(k + 1) |-> IF s = 0 THEN <<>> ELSE Over(v[S[s].base], D[s])]
    BY <2>7, <2>8, Zenon
  <2> QED
    BY <2>4, <2>9 DEF IsChained
<1>3. A = Nat
  <2>1. A \in SUBSET Nat
    OBVIOUS
  <2> HIDE DEF A
  <2> QED
    BY <1>1, <1>2, <2>1, NaturalInduction
<1> HIDE DEF A
<1>4. n \in A
  BY <1>3
<1> QED
  BY <1>4 DEF A

LEMMA ChainedIs ==
  ASSUME NEW S, NEW D, AreBased(S)
  PROVE  /\ Chained(S, D)[0] = <<>>
         /\ \A s \in 1..Len(S) : Chained(S, D)[s] = Over(Chained(S, D)[S[s].base], D[s])
<1> DEFINE eff[s \in 0..Len(S)] == IF s = 0 THEN <<>> ELSE Over(eff[S[s].base], D[s])
<1>0. Len(S) \in Nat /\ \A s \in 1..Len(S) : S[s].base \in 0..(s - 1)
  BY DEF AreBased
<1>1. Chained(S, D) = eff
  BY DEF Chained
<1>2. PICK w : IsChained(w, S, D, Len(S))
  <2> HIDE DEF eff
  <2> QED
    BY <1>0, ChainedExists
<1>3. w = [s \in 0..Len(S) |-> IF s = 0 THEN <<>> ELSE Over(w[S[s].base], D[s])]
  <2> HIDE DEF eff
  <2> QED
    BY <1>2 DEF IsChained
<1>4. eff = [s \in 0..Len(S) |-> IF s = 0 THEN <<>> ELSE Over(eff[S[s].base], D[s])]
  BY <1>3
<1> HIDE DEF eff
<1>5. 0 \in 0..Len(S) /\ \A s \in 1..Len(S) : s \in 0..Len(S) /\ s # 0
  BY <1>0
<1>6. eff[0] = <<>> /\ \A s \in 1..Len(S) : eff[s] = Over(eff[S[s].base], D[s])
  BY <1>4, <1>5
<1> QED
  BY <1>1, <1>6

\* Chains that agree up to a snapshot say the same of it.
LEMMA ChainedAgrees ==
  ASSUME NEW S, NEW D, AreBased(S), NEW S2, NEW D2, AreBased(S2), NEW n \in Nat, AgreeTo(n, S, D, S2, D2)
  PROVE  \A s \in 0..n : Chained(S2, D2)[s] = Chained(S, D)[s]
<1>0. /\ Len(S) \in Nat /\ \A s \in 1..Len(S) : S[s].base \in 0..(s - 1)
      /\ n <= Len(S) /\ n <= Len(S2) /\ Len(S2) \in Nat
      /\ \A s \in 1..n : S2[s].base = S[s].base /\ D2[s] = D[s]
  BY DEF AreBased, AgreeTo
<1> DEFINE Bad == {s \in 0..n : Chained(S2, D2)[s] # Chained(S, D)[s]}
<1> SUFFICES ASSUME Bad # {}
             PROVE  FALSE
  OBVIOUS
<1>1. Bad \in SUBSET Nat
  OBVIOUS
<1>2. PICK s \in Bad : \A t \in Bad : s <= t
  <2> HIDE DEF Bad
  <2> QED
    BY <1>1, LeastNatural
<1>3. s \in 0..n /\ Chained(S2, D2)[s] # Chained(S, D)[s]
  OBVIOUS
<1>4. CASE s = 0
  <2>1. Chained(S, D)[0] = <<>>
    BY ChainedIs
  <2>2. Chained(S2, D2)[0] = <<>>
    BY ChainedIs
  <2> QED
    BY <1>3, <1>4, <2>1, <2>2
<1>5. CASE s # 0
  <2>1. s \in 1..n /\ s \in 1..Len(S) /\ s \in 1..Len(S2)
    BY <1>0, <1>3, <1>5
  <2>2. Chained(S, D)[s] = Over(Chained(S, D)[S[s].base], D[s])
    BY <2>1, ChainedIs
  <2>3. Chained(S2, D2)[s] = Over(Chained(S2, D2)[S2[s].base], D2[s])
    BY <2>1, ChainedIs
  <2>4. S[s].base \in 0..(s - 1) /\ S2[s].base = S[s].base /\ D2[s] = D[s]
    BY <1>0, <2>1
  <2>5. S[s].base \in 0..n /\ ~(s <= S[s].base)
    BY <2>1, <2>4
  <2>6. Chained(S2, D2)[S[s].base] = Chained(S, D)[S[s].base]
    BY <1>2, <2>5
  <2> QED
    BY <1>3, <2>2, <2>3, <2>4, <2>6
<1> QED
  BY <1>4, <1>5

\* The rows that lead from one membership to another lead there.
LEMMA RowsLead ==
  ASSUME NEW base, NEW current, current = [p \in DOMAIN current |-> current[p]],
         \A p \in DOMAIN current : current[p] # None
  PROVE  Over(base, DeltaRows(base, current)) = current
<1> DEFINE own == DeltaRows(base, current)
           told == {q \in DOMAIN base \cup DOMAIN own : q \in DOMAIN own => own[q] # None}
<1>1. DOMAIN own = {q \in DOMAIN current : q \notin DOMAIN base \/ base[q] # current[q]} \cup (DOMAIN base \ DOMAIN current)
  BY DEF DeltaRows
<1>2. \A p \in DOMAIN own : own[p] = IF p \in DOMAIN current THEN current[p] ELSE None
  BY DEF DeltaRows
<1> HIDE DEF own
<1>3. told = DOMAIN current
  BY <1>1, <1>2
<1>4. \A p \in told : (IF p \in DOMAIN own THEN own[p] ELSE base[p]) = current[p]
  BY <1>1, <1>2, <1>3
<1>5. Over(base, own) = [p \in told |-> IF p \in DOMAIN own THEN own[p] ELSE base[p]]
  BY DEF Over
<1> HIDE DEF told
<1>6. [p \in told |-> IF p \in DOMAIN own THEN own[p] ELSE base[p]] = [p \in DOMAIN current |-> current[p]]
  BY <1>3, <1>4
<1>7. Over(base, own) = current
  BY <1>5, <1>6
<1> QED
  BY <1>7 DEF own

\* The definitions of OpenDatabase, of its own tables.
LEMMA TablesSay ==
  /\ Effective = Chained(snapshots, deltas)
  /\ \A s : LegacyMembership(s) = LegacyOf(snapshots, documents, s)
  /\ \A s : Sources(s) = SourcesOf(snapshots, s)
<1>1. Effective = Chained(snapshots, deltas)
  BY DEF Effective, Chained, Over
<1>2. \A s : LegacyMembership(s) = LegacyOf(snapshots, documents, s)
  BY DEF LegacyMembership, LegacyOf
<1>3. \A s : Sources(s) = SourcesOf(snapshots, s)
  BY DEF Sources, SourcesOf
<1> QED
  BY <1>1, <1>2, <1>3

\* A document that a found index has is one that its old membership names.
LEMMA LegacyServes ==
  ASSUME NEW S, NEW docs, NEW s, HasDocuments(S[s].inputs, docs)
  PROVE  /\ DOMAIN LegacyOf(S, docs, s) = DOMAIN S[s].inputs
         /\ LegacyOf(S, docs, s) = [p \in DOMAIN LegacyOf(S, docs, s) |-> LegacyOf(S, docs, s)[p]]
         /\ \A p \in DOMAIN S[s].inputs :
              /\ LegacyOf(S, docs, s)[p] \in DOMAIN docs
              /\ docs[LegacyOf(S, docs, s)[p]].path = p
              /\ docs[LegacyOf(S, docs, s)[p]].hash = S[s].inputs[p]
<1>1. DOMAIN LegacyOf(S, docs, s) = DOMAIN S[s].inputs
  BY DEF LegacyOf
<1>2. ASSUME NEW p \in DOMAIN S[s].inputs
      PROVE  /\ LegacyOf(S, docs, s)[p] \in DOMAIN docs
             /\ docs[LegacyOf(S, docs, s)[p]].path = p
             /\ docs[LegacyOf(S, docs, s)[p]].hash = S[s].inputs[p]
  <2>1. LegacyOf(S, docs, s)[p] = CHOOSE d \in DOMAIN docs : docs[d].path = p /\ docs[d].hash = S[s].inputs[p]
    BY DEF LegacyOf
  <2>2. \E d \in DOMAIN docs : docs[d].path = p /\ docs[d].hash = S[s].inputs[p]
    BY DEF HasDocuments
  <2>3. PICK d : d = CHOOSE e \in DOMAIN docs : docs[e].path = p /\ docs[e].hash = S[s].inputs[p]
    OBVIOUS
  <2>4. d \in DOMAIN docs /\ docs[d].path = p /\ docs[d].hash = S[s].inputs[p]
    BY <2>2, <2>3
  <2> QED
    BY <2>1, <2>3, <2>4
<1>3. LegacyOf(S, docs, s) = [p \in DOMAIN LegacyOf(S, docs, s) |-> LegacyOf(S, docs, s)[p]]
  BY DEF LegacyOf
<1> QED
  BY <1>1, <1>2, <1>3
-----------------------------------------------------------------------------
(* The invariant at first, and what every step relies on.                  *)

\* No other process opens the database meanwhile.
OneOpener == \A o, p \in Openers : o = p

\* The generations apart.
LEMMA GenerationIs ==
  ASSUME NEW c \in Catalogs
  PROVE  /\ Generation(c) \in Stale \cup {"empty", "current", "error"}
         /\ Generation(c) = "empty" <=> ~c.modules
         /\ Generation(c) = "preHandle" <=> c.modules /\ ~c.ordinal
         /\ Generation(c) = "current" <=> c.modules /\ c.ordinal /\ c.layout = "ours" /\ ~c.shapeFP
         /\ Generation(c) = "error" <=> c.modules /\ c.ordinal /\ c.layout = "other"
         /\ (Generation(c) \in Stale \cup {"empty"} /\ c.modules /\ c.ordinal) =>
              (c.layout \in {"noTable", "noRow"} \/ (c.layout = "ours" /\ c.shapeFP))
BY DEF Generation, Stale, Catalogs

LEMMA OpenInitHolds == OpenInit => OpenInv
<1> SUFFICES ASSUME OpenInit
             PROVE  OpenInv
  OBVIOUS
<1>1. PICK d \in Databases :
        /\ catalog = d.catalog /\ roots = d.roots /\ documents = d.documents
        /\ snapshots = d.snapshots /\ deltas = d.deltas /\ stats = d.stats /\ membership = d.membership
  BY Zenon DEF OpenInit
<1>2. Found(d)
  BY OpenConstants
<1>3. opener = [o \in Openers |-> Idle] /\ reader = [r \in Readers |-> "closed"] /\ stops = 0
  BY DEF OpenInit
<1>4. /\ catalog \in Catalogs /\ roots \in Seq(Nat)
      /\ documents \in Seq([path : Paths, hash : Hashes, digest : {None}])
      /\ snapshots \in Seq(Snapshots)
      /\ DOMAIN deltas = DOMAIN snapshots /\ deltas \in Seq({<<>>})
      /\ DOMAIN stats = DOMAIN snapshots /\ stats \in Seq({NoCounts})
      /\ membership = NoMembership
      /\ \A s \in DOMAIN snapshots : snapshots[s].base < s /\ HasDocuments(snapshots[s].inputs, documents)
  <2>1. /\ d.catalog \in Catalogs /\ d.roots \in Seq(Nat)
        /\ d.documents \in Seq([path : Paths, hash : Hashes, digest : {None}])
        /\ d.snapshots \in Seq(Snapshots)
        /\ DOMAIN d.deltas = DOMAIN d.snapshots /\ d.deltas \in Seq({<<>>})
        /\ DOMAIN d.stats = DOMAIN d.snapshots /\ d.stats \in Seq({NoCounts})
        /\ d.membership = NoMembership
    BY <1>2, Zenon DEF Found, Snapshots
  <2>2. \A s \in DOMAIN d.snapshots : d.snapshots[s].base < s /\ HasDocuments(d.snapshots[s].inputs, d.documents)
    BY <1>2, Zenon DEF Found, HasDocuments
  <2> QED
    BY <1>1, <2>1, <2>2, Zenon
<1>5. CatalogTells(catalog, Len(snapshots))
  <2>1. Len(<<>>) = 0
    OBVIOUS
  <2>2. /\ (\/ ~d.catalog.modules \/ ~d.catalog.ordinal
            \/ d.catalog.layout \in {"noTable", "noRow"} \/ (d.catalog.layout = "ours" /\ d.catalog.shapeFP)) => d.snapshots = <<>>
        /\ d.catalog.layout # "noTable" => d.catalog.modules /\ d.catalog.ordinal
        /\ d.catalog.shapeFP => d.catalog.modules
    BY <1>2, Zenon DEF Found
  <2>3. d.catalog \in Catalogs
    BY <1>2, Zenon DEF Found
  <2>4. Generation(d.catalog) \in Stale \cup {"empty"} => d.snapshots = <<>>
    BY <2>2, <2>3, GenerationIs
  <2> QED
    BY <1>1, <2>1, <2>2, <2>4, Zenon DEF CatalogTells
<1>6. RootsAreNumbered(catalog, roots)
  <2>1. CASE Generation(catalog) = "preHandle"
    <3>0. d.catalog.modules /\ ~d.catalog.ordinal
      BY <1>1, <1>4, <2>1, GenerationIs
    <3>1. Range(roots) \subseteq {0}
      BY <1>1, <1>2, <3>0, Zenon DEF Found
    <3> QED
      BY <2>1, <3>1 DEF RootsAreNumbered, Range
  <2>2. CASE Generation(catalog) # "preHandle"
    <3>0. ~(d.catalog.modules /\ ~d.catalog.ordinal)
      BY <1>1, <1>4, <2>2, GenerationIs
    <3>1. 0 \notin Range(roots) /\ IsInjective(roots)
      BY <1>1, <1>2, <3>0, Zenon DEF Found
    <3> QED
      BY <2>2, <3>1 DEF RootsAreNumbered, Range, IsInjective
  <2> QED
    BY <2>1, <2>2
<1>7. OpenTypes
  <2>1. documents \in Seq(Documents)
    <3> DEFINE Undigested == [path : Paths, hash : Hashes, digest : {None}]
    <3>1. \A i \in DOMAIN documents : documents[i] \in Undigested
      BY <1>4, SeqIs
    <3>2. Undigested \subseteq Documents
      BY DEF Documents, None
    <3>3. \A i \in DOMAIN documents : documents[i] \in Documents
      BY <3>1, <3>2
    <3> QED
      BY <1>4, <3>3, SeqElements
  <2>2. <<>> \in Rows
    <3>1. {} \in SUBSET Paths /\ <<>> \in [{} -> Nat]
      OBVIOUS
    <3> QED
      BY <3>1 DEF Rows
  <2>3. deltas \in Seq(Rows) /\ Len(deltas) = Len(snapshots)
    <3>1. \A i \in DOMAIN deltas : deltas[i] \in Rows
      <4>1. \A i \in DOMAIN deltas : deltas[i] \in {<<>>}
        BY <1>4, SeqIs
      <4> QED
        BY <4>1, <2>2
    <3>2. deltas \in Seq(Rows)
      BY <1>4, <3>1, SeqElements
    <3> QED
      BY <1>4, <3>2, SameLength
  <2>4. NoCounts \in Tallies
    BY DEF NoCounts, Tallies
  <2>5. stats \in Seq(Tallies) /\ Len(stats) = Len(snapshots)
    <3>1. \A i \in DOMAIN stats : stats[i] \in Tallies
      <4>1. \A i \in DOMAIN stats : stats[i] \in {NoCounts}
        BY <1>4, SeqIs
      <4> QED
        BY <4>1, <2>4
    <3>2. stats \in Seq(Tallies)
      BY <1>4, <3>1, SeqElements
    <3> QED
      BY <1>4, <3>2, SameLength
  <2>6. NoMembership \in Markers
    BY DEF NoMembership, Markers
  <2>7. Idle \in Openings
    <3>1. {} \in SUBSET (Paths \X Nat)
      OBVIOUS
    <3> QED
      BY <2>6, <3>1 DEF Idle, Openings, Places, Generations
  <2>8. IsBased(snapshots)
    BY <1>4 DEF IsBased
  <2> QED
    BY <1>3, <1>4, <2>1, <2>3, <2>5, <2>6, <2>7, <2>8 DEF OpenTypes
<1>8. DigestsTell(documents, membership)
  <2>1. \A e \in DOMAIN documents : documents[e] \in [path : Paths, hash : Hashes, digest : {None}]
    BY <1>4, SeqIs
  <2>2. \A e \in DOMAIN documents : documents[e].digest = None
    BY <2>1
  <2>3. ~membership.row
    BY <1>4 DEF NoMembership
  <2> QED
    BY <2>2, <2>3, Zenon DEF DigestsTell
<1>9. MembersAreCarried(snapshots, deltas, documents, membership)
  <2>1. membership.members = 0 /\ ~membership.complete /\ ~membership.row /\ Len(snapshots) \in Nat
        /\ DOMAIN snapshots = 1..Len(snapshots)
    BY <1>4 DEF NoMembership
  <2> QED
    BY <1>4, <2>1 DEF MembersAreCarried
<1>10. \A s \in DOMAIN snapshots : CountsAreOf(snapshots, stats, s)
  <2>1. \A s \in DOMAIN stats : stats[s] = NoCounts
    BY <1>4
  <2> QED
    BY <1>4, <2>1, Zenon DEF CountsAreOf
<1>11. \A o \in Openers : OpenerKnows(opener[o], catalog, documents, membership, Len(snapshots))
  <2>1. \A o \in Openers : opener[o].step = "idle"
    BY <1>3 DEF Idle
  <2>2. "idle" \notin {"migrate"} \cup Opening /\ "idle" \notin {"discard"}
    BY DEF Opening
  <2> QED
    BY <2>1, <2>2 DEF OpenerKnows, Opening
<1>12. \A r \in Readers : MayRead(reader[r], membership, Len(snapshots))
  BY <1>3 DEF MayRead
<1> QED
  BY <1>5, <1>6, <1>7, <1>8, <1>9, <1>10, <1>11, <1>12 DEF OpenInv, TablesTell

\* An opener's step changes its own place.
LEMMA OpenerIs ==
  ASSUME OpenTypes, OneOpener, NEW o \in Openers, NEW y \in Openings, opener' = [opener EXCEPT ![o] = y]
  PROVE  /\ opener' \in [Openers -> Openings] /\ opener'[o] = y
         /\ \A p \in Openers : opener'[p] = y
<1>1. opener' \in [Openers -> Openings] /\ opener'[o] = y
  BY DEF OpenTypes
<1>2. \A p \in Openers : p = o
  BY DEF OneOpener
<1> QED
  BY <1>1, <1>2

LEMMA PlaceIs ==
  ASSUME NEW me \in Openings, NEW step \in Places
  PROVE  \E y \in Openings : /\ y = [me EXCEPT !.step = step]
                            /\ y.step = step /\ y.generation = me.generation
                            /\ y.marker = me.marker /\ y.seen = me.seen
<1>1. PICK y : y = [me EXCEPT !.step = step]
  OBVIOUS
<1>2. y \in Openings /\ y.step = step /\ y.generation = me.generation /\ y.marker = me.marker /\ y.seen = me.seen
  BY <1>1 DEF Openings
<1> QED
  BY <1>1, <1>2

LEMMA OpenerGoes ==
  ASSUME OpenTypes, OneOpener, NEW o \in Openers, NEW step \in Places, Go(o, step)
  PROVE  \E y \in Openings :
           /\ opener' \in [Openers -> Openings] /\ \A p \in Openers : opener'[p] = y
           /\ y.step = step /\ y.generation = opener[o].generation
           /\ y.marker = opener[o].marker /\ y.seen = opener[o].seen
<1>1. opener[o] \in Openings
  BY DEF OpenTypes
<1>2. PICK y \in Openings : /\ y = [opener[o] EXCEPT !.step = step]
                            /\ y.step = step /\ y.generation = opener[o].generation
                            /\ y.marker = opener[o].marker /\ y.seen = opener[o].seen
  BY <1>1, PlaceIs
<1>3. opener' = [opener EXCEPT ![o] = y]
  BY <1>2, Zenon DEF Go
<1>4. opener' \in [Openers -> Openings] /\ \A p \in Openers : opener'[p] = y
  BY <1>3, OpenerIs
<1> QED
  BY <1>2, <1>4
-----------------------------------------------------------------------------
(* Steps that leave the index alone.                                       *)

LEMMA TablesStay ==
  ASSUME OpenInv, UNCHANGED indexTables
  PROVE  TablesTell' /\ Len(snapshots') = Len(snapshots)
BY DEF OpenInv, indexTables, TablesTell

LEMMA ReadersStay ==
  ASSUME OpenInv, UNCHANGED <<snapshots, membership, reader>>
  PROVE  \A r \in Readers : MayRead(reader'[r], membership', Len(snapshots'))
BY DEF OpenInv

LEMMA DetectKeeps ==
  ASSUME OpenInv, OneOpener, NEW o \in Openers, Detect(o)
  PROVE  OpenInv'
<1> DEFINE g == Generation(catalog)
<1>1. UNCHANGED <<catalog, roots, indexTables, reader, stops>>
  BY DEF Detect
<1>2. OpenTypes /\ catalog \in Catalogs /\ CatalogTells(catalog, Len(snapshots))
  BY DEF OpenInv, OpenTypes
<1>3. PICK y : y = [Idle EXCEPT !.generation = g,
                      !.step = IF g = "error" THEN "failed" ELSE IF g \in Stale THEN "discard" ELSE "migrate"]
  OBVIOUS
<1>4. opener' = [opener EXCEPT ![o] = y]
  BY <1>3, Zenon DEF Detect
<1>5. g \in Stale \cup {"empty", "current", "error"}
  BY <1>2, GenerationIs
<1>6. /\ y.generation = g /\ y.marker = NoMembership /\ y.seen = {}
      /\ y.step = IF g = "error" THEN "failed" ELSE IF g \in Stale THEN "discard" ELSE "migrate"
      /\ y \in Openings
  <2>1. NoMembership \in Markers /\ {} \in SUBSET (Paths \X Nat)
    BY DEF NoMembership, Markers
  <2> HIDE DEF g
  <2> QED
    BY <1>3, <1>5, <2>1 DEF Idle, Openings, Places, Generations
<1>7. opener' \in [Openers -> Openings] /\ \A p \in Openers : opener'[p] = y
  BY <1>2, <1>4, <1>6, OpenerIs
<1>8. OpenerKnows(y, catalog, documents, membership, Len(snapshots))
  <2>1. CASE g = "error"
    <3>1. y.step = "failed"
      BY <1>6, <2>1
    <3> QED
      BY <3>1 DEF OpenerKnows, Opening
  <2>2. CASE g \in Stale
    <3>1. y.step = "discard" /\ y.generation = g
      BY <1>6, <2>2 DEF Stale
    <3> QED
      BY <2>2, <3>1 DEF OpenerKnows, Opening
  <2>3. CASE g \in {"empty", "current"}
    <3>1. y.step = "migrate"
      BY <1>6, <2>3 DEF Stale
    <3>2. catalog.layout # "other" /\ ~catalog.shapeFP /\ (catalog.modules => catalog.ordinal)
      BY <1>2, <2>3, GenerationIs DEF CatalogTells
    <3> QED
      BY <3>1, <3>2 DEF OpenerKnows, Opening
  <2> QED
    BY <1>5, <2>1, <2>2, <2>3
<1>9. OpenTypes'
  BY <1>1, <1>2, <1>7 DEF OpenTypes, indexTables
<1>10. \A p \in Openers : OpenerKnows(opener'[p], catalog', documents', membership', Len(snapshots'))
  BY <1>1, <1>7, <1>8 DEF indexTables
<1>11. TablesTell' /\ \A r \in Readers : MayRead(reader'[r], membership', Len(snapshots'))
  BY <1>1, TablesStay, ReadersStay DEF indexTables
<1>12. CatalogTells(catalog', Len(snapshots')) /\ RootsAreNumbered(catalog', roots')
  BY <1>1, <1>2 DEF OpenInv, indexTables
<1> QED
  BY <1>9, <1>10, <1>11, <1>12 DEF OpenInv

LEMMA MigrateKeeps ==
  ASSUME OpenInv, OneOpener, NEW o \in Openers, Migrate(o)
  PROVE  OpenInv'
<1>1. UNCHANGED <<roots, indexTables, reader, stops>> /\ Go(o, "layout")
  BY DEF Migrate
<1>2. OpenTypes /\ catalog \in Catalogs /\ CatalogTells(catalog, Len(snapshots)) /\ opener[o] \in Openings
  BY DEF OpenInv, OpenTypes
<1>3. PICK c \in Catalogs : /\ c = catalog'
                            /\ c.modules /\ c.ordinal /\ c.shapeFP = catalog.shapeFP
                            /\ c.layout = IF catalog.layout = "noTable" THEN "noRow" ELSE catalog.layout
  <2>1. PICK c : c = [catalog EXCEPT !.modules = TRUE, !.ordinal = TRUE, !.tables = TRUE, !.member = TRUE,
                                     !.layout = IF catalog.layout = "noTable" THEN "noRow" ELSE catalog.layout]
    OBVIOUS
  <2>2. c = catalog'
    BY <2>1, Zenon DEF Migrate
  <2>3. /\ c \in Catalogs /\ c.modules /\ c.ordinal /\ c.shapeFP = catalog.shapeFP
        /\ c.layout = IF catalog.layout = "noTable" THEN "noRow" ELSE catalog.layout
    BY <1>2, <2>1 DEF Catalogs
  <2> QED
    BY <2>2, <2>3
<1>4. OpenerKnows(opener[o], catalog, documents, membership, Len(snapshots)) /\ opener[o].step = "migrate"
  BY DEF OpenInv, Migrate, At
<1>5. catalog.layout # "other" /\ ~catalog.shapeFP /\ (catalog.modules => catalog.ordinal)
  BY <1>4, Zenon DEF OpenerKnows
<1>6. "layout" \in Places
  BY DEF Places
<1>7. PICK y \in Openings :
        opener' \in [Openers -> Openings] /\ (\A p \in Openers : opener'[p] = y) /\ y.step = "layout"
  BY <1>1, <1>2, <1>6, OpenerGoes
<1>8. OpenTypes'
  BY <1>1, <1>2, <1>3, <1>7 DEF OpenTypes, indexTables
<1>9. CatalogTells(c, Len(snapshots))
  <2>1. CASE Generation(catalog) = "current"
    <3>1. Generation(c) = "current"
      BY <1>2, <1>3, <2>1, GenerationIs
    <3> QED
      BY <1>3, <3>1 DEF CatalogTells, Stale
  <2>2. CASE Generation(catalog) # "current"
    <3>1. Generation(catalog) # "error"
      BY <1>2, <1>5, GenerationIs
    <3>2. Generation(catalog) \in Stale \cup {"empty"}
      BY <1>2, <2>2, <3>1, GenerationIs
    <3> QED
      BY <1>2, <1>3, <3>2 DEF CatalogTells
  <2> QED
    BY <2>1, <2>2
<1>10. RootsAreNumbered(c, roots)
  <2>1. Generation(catalog) # "preHandle" /\ Generation(c) # "preHandle"
    BY <1>2, <1>3, <1>5, GenerationIs
  <2> QED
    BY <2>1 DEF OpenInv, RootsAreNumbered
<1>11. OpenerKnows(y, c, documents, membership, Len(snapshots))
  BY <1>3, <1>5, <1>7 DEF OpenerKnows, Opening
<1>12. \A p \in Openers : OpenerKnows(opener'[p], catalog', documents', membership', Len(snapshots'))
  BY <1>1, <1>3, <1>7, <1>11 DEF indexTables
<1>13. TablesTell' /\ \A r \in Readers : MayRead(reader'[r], membership', Len(snapshots'))
  BY <1>1, TablesStay, ReadersStay DEF indexTables
<1>14. CatalogTells(catalog', Len(snapshots')) /\ RootsAreNumbered(catalog', roots')
  BY <1>1, <1>3, <1>9, <1>10 DEF indexTables
<1> QED
  BY <1>8, <1>12, <1>13, <1>14 DEF OpenInv

LEMMA RecordLayoutKeeps ==
  ASSUME OpenInv, OneOpener, NEW o \in Openers, RecordLayout(o)
  PROVE  OpenInv'
<1>1. UNCHANGED <<roots, indexTables, reader, stops>> /\ Go(o, "marker")
  BY DEF RecordLayout
<1>2. OpenTypes /\ catalog \in Catalogs /\ CatalogTells(catalog, Len(snapshots)) /\ opener[o] \in Openings
  BY DEF OpenInv, OpenTypes
<1>3. PICK c \in Catalogs : /\ c = catalog'
                            /\ c.modules = catalog.modules /\ c.ordinal = catalog.ordinal /\ c.shapeFP = catalog.shapeFP
                            /\ c.layout = IF catalog.layout = "noRow" THEN "ours" ELSE catalog.layout
  BY <1>2 DEF RecordLayout, Catalogs
<1>4. OpenerKnows(opener[o], catalog, documents, membership, Len(snapshots)) /\ opener[o].step = "layout"
  BY DEF OpenInv, RecordLayout, At
<1>5. /\ catalog.layout # "other" /\ ~catalog.shapeFP /\ catalog.modules /\ catalog.ordinal
      /\ catalog.layout # "noTable"
  BY <1>4 DEF OpenerKnows, Opening
<1>6. "marker" \in Places
  BY DEF Places
<1>7. PICK y \in Openings :
        opener' \in [Openers -> Openings] /\ (\A p \in Openers : opener'[p] = y) /\ y.step = "marker"
  BY <1>1, <1>2, <1>6, OpenerGoes
<1>8. OpenTypes'
  BY <1>1, <1>2, <1>3, <1>7 DEF OpenTypes, indexTables
<1>9. c.layout = "ours" /\ Generation(c) = "current"
  BY <1>2, <1>3, <1>5, GenerationIs DEF Catalogs
<1>10. CatalogTells(c, Len(snapshots))
  BY <1>3, <1>5, <1>9 DEF CatalogTells, Stale
<1>11. RootsAreNumbered(c, roots)
  <2>1. Generation(catalog) # "preHandle"
    BY <1>2, <1>5, GenerationIs
  <2> QED
    BY <1>9, <2>1 DEF OpenInv, RootsAreNumbered
<1>12. OpenerKnows(y, c, documents, membership, Len(snapshots))
  BY <1>3, <1>5, <1>7, <1>9 DEF OpenerKnows, Opening
<1>13. \A p \in Openers : OpenerKnows(opener'[p], catalog', documents', membership', Len(snapshots'))
  BY <1>1, <1>3, <1>7, <1>12 DEF indexTables
<1>14. TablesTell' /\ \A r \in Readers : MayRead(reader'[r], membership', Len(snapshots'))
  BY <1>1, TablesStay, ReadersStay DEF indexTables
<1>15. CatalogTells(catalog', Len(snapshots')) /\ RootsAreNumbered(catalog', roots')
  BY <1>1, <1>3, <1>10, <1>11 DEF indexTables
<1> QED
  BY <1>8, <1>13, <1>14, <1>15 DEF OpenInv

LEMMA DiscardKeeps ==
  ASSUME OpenInv, OneOpener, NEW o \in Openers, Discard(o)
  PROVE  OpenInv'
<1>1. /\ documents' = <<>> /\ snapshots' = <<>> /\ deltas' = <<>> /\ stats' = <<>>
      /\ membership' = NoMembership /\ reader' = reader /\ stops' = stops
      /\ roots' = IF opener[o].generation = "preHandle" THEN [i \in DOMAIN roots |-> i] ELSE roots
      /\ Go(o, "migrate")
  BY DEF Discard
<1>2. OpenTypes /\ catalog \in Catalogs /\ CatalogTells(catalog, Len(snapshots)) /\ roots \in Seq(Nat)
  BY DEF OpenInv, OpenTypes
<1>3. PICK c \in Catalogs : /\ c = catalog' /\ c.modules = catalog.modules /\ c.ordinal /\ ~c.shapeFP
                            /\ c.layout = catalog.layout
  <2>1. PICK c : c = [catalog EXCEPT !.tables = FALSE, !.shapeFP = FALSE, !.ordinal = TRUE]
    OBVIOUS
  <2>2. c = catalog'
    BY <2>1, Zenon DEF Discard
  <2>3. c \in Catalogs /\ c.modules = catalog.modules /\ c.ordinal /\ ~c.shapeFP /\ c.layout = catalog.layout
    BY <1>2, <2>1 DEF Catalogs
  <2> QED
    BY <2>2, <2>3
<1>4. OpenerKnows(opener[o], catalog, documents, membership, Len(snapshots)) /\ opener[o].step = "discard"
  BY DEF OpenInv, Discard, At
<1>5. opener[o].generation = Generation(catalog) /\ Generation(catalog) \in Stale
  BY <1>4, Zenon DEF OpenerKnows
<1>6. "migrate" \in Places
  BY DEF Places
<1>7. PICK y \in Openings :
        opener' \in [Openers -> Openings] /\ (\A p \in Openers : opener'[p] = y) /\ y.step = "migrate"
  BY <1>1, <1>2, <1>6, OpenerGoes
<1>8. /\ Len(<<>>) = 0 /\ DOMAIN <<>> = {}
      /\ <<>> \in Seq(Documents) /\ <<>> \in Seq(Snapshots) /\ <<>> \in Seq(Rows) /\ <<>> \in Seq(Tallies)
  OBVIOUS
<1>9. NoMembership \in Markers /\ NoMembership.members = 0 /\ ~NoMembership.row
  BY DEF NoMembership, Markers
<1>10. roots' \in Seq(Nat) /\ RootsAreNumbered(c, roots')
  <2>1. Generation(c) # "preHandle"
    BY <1>3, GenerationIs
  <2>2. CASE Generation(catalog) = "preHandle"
    <3>1. roots' = [i \in DOMAIN roots |-> i]
      BY <1>1, <1>5, <2>2
    <3>2. Len(roots) \in Nat /\ DOMAIN roots = 1..Len(roots)
      BY <1>2, SeqIs
    <3>3. roots' \in [1..Len(roots) -> Nat]
      BY <3>1, <3>2
    <3>4. roots' \in Seq(Nat)
      BY <3>2, <3>3, FunctionIs
    <3>5. \A i \in DOMAIN roots' : roots'[i] = i /\ i # 0
      BY <3>1, <3>2
    <3> QED
      BY <2>1, <3>4, <3>5 DEF RootsAreNumbered
  <2>3. CASE Generation(catalog) # "preHandle"
    <3>1. roots' = roots
      BY <1>1, <1>5, <2>3
    <3> QED
      BY <1>2, <2>1, <2>3, <3>1 DEF OpenInv, RootsAreNumbered
  <2> QED
    BY <2>2, <2>3
<1>11. OpenTypes'
  <2>1. IsBased(<<>>)
    BY <1>8 DEF IsBased
  <2> QED
    BY <1>1, <1>2, <1>3, <1>7, <1>8, <1>9, <1>10, <2>1 DEF OpenTypes
<1>12. CatalogTells(c, 0)
  BY <1>2, <1>3 DEF CatalogTells
<1>13. OpenerKnows(y, c, <<>>, NoMembership, 0)
  <2>1. catalog.modules /\ c.layout # "other"
    <3>1. catalog.modules
      BY <1>2, <1>5, GenerationIs DEF Stale
    <3>2. Generation(catalog) # "error"
      BY <1>5 DEF Stale
    <3>3. catalog.layout = "other" => catalog.ordinal
      BY <1>2 DEF CatalogTells
    <3>4. catalog.layout # "other"
      BY <1>2, <3>1, <3>2, <3>3, GenerationIs
    <3> QED
      BY <1>3, <3>1, <3>4
  <2> QED
    BY <1>3, <1>7, <2>1 DEF OpenerKnows, Opening
<1>14. DigestsTell(<<>>, NoMembership)
  BY <1>8 DEF DigestsTell
<1>15. MembersAreCarried(<<>>, <<>>, <<>>, NoMembership)
  BY <1>8, <1>9 DEF MembersAreCarried
<1>16. TablesTell'
  BY <1>1, <1>8, <1>14, <1>15 DEF TablesTell
<1>17. \A r \in Readers : MayRead(reader'[r], NoMembership, 0)
  BY DEF MayRead
<1> QED
  BY <1>1, <1>3, <1>7, <1>8, <1>10, <1>11, <1>12, <1>13, <1>16, <1>17 DEF OpenInv

LEMMA StopKeeps ==
  ASSUME OpenInv, OneOpener, NEW o \in Openers, Stop(o)
  PROVE  OpenInv'
<1>1. UNCHANGED <<catalog, roots, indexTables, reader>> /\ stops' = stops + 1 /\ opener' = [opener EXCEPT ![o] = Idle]
  BY DEF Stop
<1>2. OpenTypes
  BY DEF OpenInv
<1>3. Idle \in Openings /\ Idle.step = "idle"
  <2>1. NoMembership \in Markers /\ {} \in SUBSET (Paths \X Nat)
    BY DEF NoMembership, Markers
  <2> QED
    BY <2>1 DEF Idle, Openings, Places, Generations
<1>4. opener' \in [Openers -> Openings] /\ \A p \in Openers : opener'[p] = Idle
  BY <1>1, <1>2, <1>3, OpenerIs
<1>5. OpenerKnows(Idle, catalog, documents, membership, Len(snapshots))
  BY <1>3 DEF OpenerKnows, Opening
<1>6. OpenTypes'
  BY <1>1, <1>2, <1>4 DEF OpenTypes, indexTables
<1>7. TablesTell' /\ \A r \in Readers : MayRead(reader'[r], membership', Len(snapshots'))
  BY <1>1, TablesStay, ReadersStay DEF indexTables
<1>8. CatalogTells(catalog', Len(snapshots')) /\ RootsAreNumbered(catalog', roots')
  BY <1>1 DEF OpenInv, indexTables
<1>9. \A p \in Openers : OpenerKnows(opener'[p], catalog', documents', membership', Len(snapshots'))
  BY <1>1, <1>4, <1>5 DEF indexTables
<1> QED
  BY <1>6, <1>7, <1>8, <1>9 DEF OpenInv

\* A new root's ordinal is past all others.
LEMMA NextOrdinal ==
  ASSUME NEW R \in Seq(Nat)
  PROVE  \E m \in Nat : m = Max(Range(R) \cup {0}) /\ \A i \in DOMAIN R : R[i] <= m
<1>1. PICK b \in Nat : \A i \in DOMAIN R : R[i] <= b
  BY Bounded
<1>2. \A i \in DOMAIN R : R[i] \in Nat
  BY SeqIs
<1>3. \A k \in Range(R) \cup {0} : k \in 0..b
  BY <1>1, <1>2 DEF Range
<1>4. PICK T \in SUBSET (0..b) : T = Range(R) \cup {0}
  BY <1>3
<1>5. T # {}
  BY <1>4
<1>6. Max(T) \in T /\ \A k \in T : Max(T) >= k
  BY <1>5, MaxIs
<1>7. PICK m \in 0..b : m = Max(T)
  BY <1>6
<1>8. \A i \in DOMAIN R : R[i] \in T
  BY <1>4 DEF Range
<1>9. \A i \in DOMAIN R : m >= R[i]
  BY <1>6, <1>7, <1>8
<1>10. m \in Nat /\ \A i \in DOMAIN R : R[i] <= m
  BY <1>2, <1>7, <1>9
<1> QED
  BY <1>4, <1>7, <1>10

LEMMA RegisterKeeps ==
  ASSUME OpenInv, OneOpener, NEW o \in Openers, Register(o)
  PROVE  OpenInv'
<1>1. UNCHANGED <<catalog, indexTables, opener, reader>> /\ stops' = stops + 1
  BY DEF Register
<1>2. OpenTypes /\ catalog \in Catalogs /\ roots \in Seq(Nat)
  BY DEF OpenInv, OpenTypes
<1>3. PICK next \in Nat : next = Max(Range(roots) \cup {0}) + 1 /\ next # 0 /\ \A i \in DOMAIN roots : ~(next <= roots[i])
  <2>1. PICK m \in Nat : m = Max(Range(roots) \cup {0}) /\ \A i \in DOMAIN roots : roots[i] <= m
    BY <1>2, NextOrdinal
  <2>2. \A i \in DOMAIN roots : roots[i] \in Nat
    BY <1>2, SeqIs
  <2>3. m + 1 \in Nat /\ m + 1 # 0
    OBVIOUS
  <2>4. ASSUME NEW i \in DOMAIN roots
        PROVE  ~(m + 1 <= roots[i])
    <3>1. PICK k \in Nat : k = roots[i]
      BY <2>2
    <3>2. k <= m
      BY <2>1, <3>1
    <3>3. ~(m + 1 <= k)
      BY ONLY <3>2, m \in Nat, k \in Nat
    <3> QED
      BY <3>1, <3>3
  <2> QED
    BY <2>1, <2>3, <2>4
<1>4. roots' = Append(roots, next)
  BY <1>3 DEF Register
<1>5. /\ roots' \in Seq(Nat) /\ DOMAIN roots' = 1..Len(roots) + 1
      /\ \A i \in DOMAIN roots : roots'[i] = roots[i]
      /\ roots'[Len(roots) + 1] = next
  BY <1>2, <1>4, AppendIs
<1>6. Len(roots) \in Nat /\ DOMAIN roots = 1..Len(roots) /\ \A i \in DOMAIN roots : roots[i] \in Nat
  BY <1>2, SeqIs
<1>7. OpenerKnows(opener[o], catalog, documents, membership, Len(snapshots)) /\ opener[o].step = "open"
  BY DEF OpenInv, Register, At
<1>8. Generation(catalog) # "preHandle"
  <2>1. catalog.modules => catalog.ordinal
    BY <1>7 DEF OpenerKnows, Opening
  <2> QED
    BY <1>2, <2>1, GenerationIs
<1>9. RootsAreNumbered(catalog, roots')
  <2>1. /\ \A i \in DOMAIN roots : roots[i] # 0
        /\ \A i, j \in DOMAIN roots : roots[i] = roots[j] => i = j
    BY <1>8 DEF OpenInv, RootsAreNumbered
  <2>2. next # 0
    BY <1>3
  <2>3. \A i \in DOMAIN roots' : roots'[i] # 0
    BY <1>5, <1>6, <2>1, <2>2
  <2>4. ASSUME NEW i \in DOMAIN roots', NEW j \in DOMAIN roots', roots'[i] = roots'[j]
        PROVE  i = j
    <3>1. CASE i \in DOMAIN roots /\ j \in DOMAIN roots
      BY <3>1, <2>4, <2>1, <1>5
    <3>2. CASE i \notin DOMAIN roots /\ j \notin DOMAIN roots
      BY <3>2, <1>5, <1>6
    <3>3. CASE i \in DOMAIN roots /\ j \notin DOMAIN roots
      <4>1. j = Len(roots) + 1
        BY <3>3, <1>5, <1>6
      <4>2. roots[i] = next
        BY <3>3, <4>1, <2>4, <1>5
      <4>3. ~(next <= roots[i])
        BY <3>3, <1>3
      <4> QED
        BY <4>2, <4>3, <1>3
    <3>4. CASE i \notin DOMAIN roots /\ j \in DOMAIN roots
      <4>1. i = Len(roots) + 1
        BY <3>4, <1>5, <1>6
      <4>2. roots[j] = next
        BY <3>4, <4>1, <2>4, <1>5
      <4>3. ~(next <= roots[j])
        BY <3>4, <1>3
      <4> QED
        BY <4>2, <4>3, <1>3
    <3> QED
      BY <3>1, <3>2, <3>3, <3>4
  <2> QED
    BY <1>8, <2>3, <2>4 DEF RootsAreNumbered
<1>10. OpenTypes'
  BY <1>1, <1>2, <1>5 DEF OpenTypes, indexTables
<1>11. TablesTell' /\ \A r \in Readers : MayRead(reader'[r], membership', Len(snapshots'))
  BY <1>1, TablesStay, ReadersStay DEF indexTables
<1>12. CatalogTells(catalog', Len(snapshots')) /\ RootsAreNumbered(catalog', roots')
  BY <1>1, <1>9 DEF OpenInv, indexTables
<1>13. \A p \in Openers : OpenerKnows(opener'[p], catalog', documents', membership', Len(snapshots'))
  BY <1>1 DEF OpenInv, indexTables
<1> QED
  BY <1>10, <1>11, <1>12, <1>13 DEF OpenInv

\* What a read-only opener does changes only its own place, and it is let in when it may be.
LEMMA ReaderKeeps ==
  ASSUME OpenInv, NEW r \in Readers, ReadGeneration(r) \/ RequireMembership(r) \/ CloseReader(r)
  PROVE  OpenInv'
<1>1. UNCHANGED <<catalog, roots, indexTables, opener, stops>>
  BY DEF ReadGeneration, RequireMembership, CloseReader
<1>2. OpenTypes
  BY DEF OpenInv
<1>3. PICK at \in {"closed", "require", "open", "refused"} :
        reader' = [reader EXCEPT ![r] = at] /\ (at = "open" => membership.row /\ membership.complete)
  BY DEF ReadGeneration, RequireMembership, CloseReader
<1>4. OpenTypes'
  BY <1>1, <1>2, <1>3 DEF OpenTypes, indexTables
<1>5. \A q \in Readers : MayRead(reader'[q], membership, Len(snapshots))
  <2> TAKE q \in Readers
  <2>1. CASE q = r
    <3>1. reader'[q] = at
      BY <1>2, <1>3, <2>1 DEF OpenTypes
    <3> QED
      BY <1>3, <3>1 DEF MayRead
  <2>2. CASE q # r
    <3>1. reader'[q] = reader[q]
      BY <1>2, <1>3, <2>2 DEF OpenTypes
    <3> QED
      BY <3>1 DEF OpenInv
  <2> QED
    BY <2>1, <2>2
<1>6. TablesTell'
  BY <1>1, TablesStay
<1>7. CatalogTells(catalog', Len(snapshots')) /\ RootsAreNumbered(catalog', roots')
  BY <1>1 DEF OpenInv, indexTables
<1>8. \A p \in Openers : OpenerKnows(opener'[p], catalog', documents', membership', Len(snapshots'))
  BY <1>1 DEF OpenInv, indexTables
<1>9. \A q \in Readers : MayRead(reader'[q], membership', Len(snapshots'))
  BY <1>1, <1>5 DEF indexTables
<1> QED
  BY <1>4, <1>6, <1>7, <1>8, <1>9 DEF OpenInv

-----------------------------------------------------------------------------
(* The steps of the membership cutover.                                    *)

LEMMA InputsAre ==
  ASSUME NEW f \in Inputs
  PROVE  /\ DOMAIN f \subseteq Paths /\ IsFiniteSet(DOMAIN f)
         /\ \A p \in DOMAIN f : f[p] \in Hashes
<1>1. PICK ps \in SUBSET Paths : f \in [ps -> Hashes]
  BY DEF Inputs
<1>2. DOMAIN f = ps /\ \A p \in DOMAIN f : f[p] \in Hashes
  BY <1>1
<1>3. IsFiniteSet(ps)
  BY OpenConstants, FS_Subset
<1> QED
  BY <1>2, <1>3

LEMMA SnapshotIs ==
  ASSUME OpenTypes
  PROVE  /\ Len(snapshots) \in Nat /\ DOMAIN snapshots = 1..Len(snapshots)
         /\ \A s \in DOMAIN snapshots : snapshots[s].base \in 0..(s - 1) /\ snapshots[s].inputs \in Inputs
<1>1. Len(snapshots) \in Nat /\ DOMAIN snapshots = 1..Len(snapshots) /\ \A s \in DOMAIN snapshots : snapshots[s] \in Snapshots
  BY SeqIs DEF OpenTypes
<1>2. \A s \in DOMAIN snapshots : snapshots[s].base \in Nat /\ snapshots[s].inputs \in Inputs /\ snapshots[s].base < s /\ s \in Nat
  BY <1>1 DEF OpenTypes, IsBased, Snapshots
<1>3. \A s \in DOMAIN snapshots : snapshots[s].base \in 0..(s - 1)
  BY <1>2
<1> QED
  BY <1>1, <1>2, <1>3

LEMMA DocumentIs ==
  ASSUME OpenTypes
  PROVE  /\ Len(documents) \in Nat /\ DOMAIN documents = 1..Len(documents)
         /\ \A d \in DOMAIN documents :
              /\ documents[d] \in Documents /\ documents[d].path \in Paths /\ documents[d].hash \in Hashes
              /\ documents[d].digest \in Nat
              /\ RenderedBy(documents[d]) \in Nat \ {None}
<1>1. Len(documents) \in Nat /\ DOMAIN documents = 1..Len(documents) /\ \A d \in DOMAIN documents : documents[d] \in Documents
  BY SeqIs DEF OpenTypes
<1>2. \A d \in DOMAIN documents : documents[d].path \in Paths /\ documents[d].hash \in Hashes /\ documents[d].digest \in Nat
  BY <1>1 DEF Documents
<1>3. \A d \in DOMAIN documents : <<documents[d].path, documents[d].hash>> \in Paths \X Hashes
  BY <1>2
<1>4. \A d \in DOMAIN documents : RenderedBy(documents[d]) \in Nat \ {None}
  BY <1>3, OpenConstants DEF RenderedBy
<1> QED
  BY <1>1, <1>2, <1>4

\* What is known of an open opener's marker, and of what the index is.
LEMMA OpenIs ==
  ASSUME OpenInv, NEW o \in Openers
  PROVE  /\ OpenTypes /\ catalog \in Catalogs /\ opener[o] \in Openings /\ membership \in Markers
         /\ CatalogTells(catalog, Len(snapshots)) /\ RootsAreNumbered(catalog, roots)
         /\ DigestsTell(documents, membership)
         /\ MembersAreCarried(snapshots, deltas, documents, membership)
         /\ \A s \in DOMAIN snapshots : CountsAreOf(snapshots, stats, s)
         /\ OpenerKnows(opener[o], catalog, documents, membership, Len(snapshots))
BY DEF OpenInv, OpenTypes, TablesTell

LEMMA StartMembershipKeeps ==
  ASSUME OpenInv, OneOpener, NEW o \in Openers, StartMembership(o)
  PROVE  OpenInv'
<1>1. PICK m : m = IF membership.row THEN membership
                   ELSE [NoMembership EXCEPT !.row = TRUE, !.complete = (documents = <<>> /\ snapshots = <<>>)]
  OBVIOUS
<1>2. PICK place : place = IF m.complete THEN "stats" ELSE "digest"
  OBVIOUS
<1>3. /\ membership' = m
      /\ opener' = [opener EXCEPT ![o].marker = m, ![o].seen = Digested(documents), ![o].step = place]
      /\ UNCHANGED <<catalog, roots, documents, snapshots, deltas, stats, reader, stops>>
      /\ opener[o].step = "marker"
  BY <1>1, <1>2 DEF StartMembership, Digested, At
<1>4. /\ OpenTypes /\ catalog \in Catalogs /\ opener[o] \in Openings /\ membership \in Markers
      /\ CatalogTells(catalog, Len(snapshots)) /\ RootsAreNumbered(catalog, roots)
      /\ DigestsTell(documents, membership)
      /\ MembersAreCarried(snapshots, deltas, documents, membership)
      /\ \A s \in DOMAIN snapshots : CountsAreOf(snapshots, stats, s)
      /\ OpenerKnows(opener[o], catalog, documents, membership, Len(snapshots))
  BY OpenIs
<1>5. m \in Markers /\ m.row
      /\ (~membership.row => /\ m.members = 0 /\ m.digested = 0
                             /\ m.complete = (documents = <<>> /\ snapshots = <<>>))
  BY <1>1, <1>4 DEF NoMembership, Markers
<1>6. ~membership.row => membership = NoMembership
  BY <1>4 DEF MembersAreCarried
<1>7. membership.row => m = membership
  BY <1>1
<1>8. Digested(documents) \in SUBSET (Paths \X Nat)
  BY <1>4, DocumentIs DEF Digested
<1>9. PICK y \in Openings : /\ y = [opener[o] EXCEPT !.marker = m, !.seen = Digested(documents), !.step = place]
                            /\ y.marker = m /\ y.seen = Digested(documents) /\ y.step = place
  <2>1. PICK y : y = [opener[o] EXCEPT !.marker = m, !.seen = Digested(documents), !.step = place]
    OBVIOUS
  <2>2. place \in Places
    BY <1>2 DEF Places
  <2>3. y \in Openings /\ y.marker = m /\ y.seen = Digested(documents) /\ y.step = place
    BY <1>4, <1>5, <1>8, <2>1, <2>2 DEF Openings
  <2> QED
    BY <2>1, <2>3
<1>10. opener' = [opener EXCEPT ![o] = y]
  BY <1>3, <1>4, <1>9 DEF OpenTypes
<1>11. opener' \in [Openers -> Openings] /\ \A p \in Openers : opener'[p] = y
  BY <1>4, <1>10, OpenerIs
<1>12. OpenTypes'
  BY <1>3, <1>4, <1>5, <1>11 DEF OpenTypes
<1>13. DigestsTell(documents, m)
  <2>1. CASE membership.row
    BY <1>4, <1>7, <2>1
  <2>2. CASE ~membership.row
    <3>1. \A d \in DOMAIN documents : ~(m.complete \/ d <= m.digested)
      <4>1. DOMAIN <<>> = {}
        OBVIOUS
      <4>2. m.complete => DOMAIN documents = {}
        BY <1>5, <2>2, <4>1, Zenon
      <4>3. m.digested = 0 /\ \A d \in DOMAIN documents : d \in Nat /\ d # 0
        BY <1>4, <1>5, <2>2, DocumentIs
      <4> QED
        BY <4>2, <4>3
    <3> QED
      BY <1>4, <3>1 DEF DigestsTell
  <2> QED
    BY <2>1, <2>2
<1>14. MembersAreCarried(snapshots, deltas, documents, m)
  <2>1. CASE membership.row
    BY <1>4, <1>7, <2>1
  <2>2. CASE ~membership.row
    <3>1. m.members = 0 /\ m.row /\ Len(snapshots) \in Nat /\ DOMAIN snapshots = 1..Len(snapshots)
      BY <1>4, <1>5, <2>2, SnapshotIs
    <3>2. \A s \in DOMAIN snapshots : ~(m.complete \/ s <= m.members)
      <4>1. DOMAIN <<>> = {}
        OBVIOUS
      <4>2. m.complete => DOMAIN snapshots = {}
        BY <1>5, <2>2, <4>1, Zenon
      <4> QED
        BY <3>1, <4>2
    <3>3. \A s \in DOMAIN snapshots : HasDocuments(snapshots[s].inputs, documents)
      BY <1>4, <1>6, <2>2 DEF MembersAreCarried, NoMembership
    <3>4. m.members <= Len(snapshots) /\ ~(m.members > 0)
      BY <3>1
    <3> QED
      BY <3>1, <3>2, <3>3, <3>4 DEF MembersAreCarried
  <2> QED
    BY <2>1, <2>2
<1>15. OpenerKnows(y, catalog, documents, m, Len(snapshots))
  <2>1. /\ catalog.layout # "other" /\ ~catalog.shapeFP /\ catalog.modules /\ catalog.ordinal
        /\ catalog.layout # "noTable" /\ catalog.layout = "ours"
    BY <1>3, <1>4 DEF OpenerKnows, Opening
  <2>2. y.step \in {"digest", "stats"} /\ (y.step = "digest" <=> ~m.complete)
    BY <1>2, <1>5, <1>9 DEF Markers
  <2> QED
    BY <1>5, <1>9, <2>1, <2>2 DEF OpenerKnows, Opening
<1>16. \A r \in Readers : MayRead(reader[r], m, Len(snapshots))
  <2>1. \A r \in Readers : MayRead(reader[r], membership, Len(snapshots))
    BY DEF OpenInv
  <2>2. membership.row /\ membership.complete => m.row /\ m.complete
    BY <1>7
  <2> QED
    BY <2>1, <2>2, Zenon DEF MayRead
<1>17. TablesTell'
  BY <1>3, <1>4, <1>13, <1>14 DEF TablesTell
<1>18. CatalogTells(catalog', Len(snapshots')) /\ RootsAreNumbered(catalog', roots')
  BY <1>3, <1>4
<1>19. \A p \in Openers : OpenerKnows(opener'[p], catalog', documents', membership', Len(snapshots'))
  BY <1>3, <1>11, <1>15
<1>20. \A r \in Readers : MayRead(reader'[r], membership', Len(snapshots'))
  BY <1>3, <1>16
<1> QED
  BY <1>12, <1>17, <1>18, <1>19, <1>20 DEF OpenInv

LEMMA CompleteMembershipKeeps ==
  ASSUME OpenInv, OneOpener, NEW o \in Openers, CompleteMembership(o)
  PROVE  OpenInv'
<1>1. /\ Go(o, "stats") /\ opener[o].step = "complete"
      /\ UNCHANGED <<catalog, roots, documents, snapshots, deltas, stats, reader, stops>>
  BY DEF CompleteMembership, At
<1>2. /\ OpenTypes /\ catalog \in Catalogs /\ opener[o] \in Openings /\ membership \in Markers
      /\ CatalogTells(catalog, Len(snapshots)) /\ RootsAreNumbered(catalog, roots)
      /\ DigestsTell(documents, membership)
      /\ MembersAreCarried(snapshots, deltas, documents, membership)
      /\ \A s \in DOMAIN snapshots : CountsAreOf(snapshots, stats, s)
      /\ OpenerKnows(opener[o], catalog, documents, membership, Len(snapshots))
  BY OpenIs
<1>3. PICK m \in Markers : /\ m = membership' /\ m.complete /\ m.row = membership.row
                           /\ m.digested = membership.digested /\ m.members = membership.members
  <2>1. PICK m : m = [membership EXCEPT !.complete = TRUE]
    OBVIOUS
  <2>2. m = membership'
    BY <2>1 DEF CompleteMembership
  <2>3. /\ m \in Markers /\ m.complete /\ m.row = membership.row
        /\ m.digested = membership.digested /\ m.members = membership.members
    BY <1>2, <2>1 DEF Markers
  <2> QED
    BY <2>2, <2>3
<1>4. "stats" \in Places
  BY DEF Places
<1>5. PICK y \in Openings :
        opener' \in [Openers -> Openings] /\ (\A p \in Openers : opener'[p] = y) /\ y.step = "stats"
  BY <1>1, <1>2, <1>4, OpenerGoes
<1>6. /\ membership.row /\ ~membership.complete
      /\ membership.digested >= Len(documents) /\ membership.members >= Len(snapshots)
      /\ catalog.layout = "ours" /\ ~catalog.shapeFP /\ catalog.modules /\ catalog.ordinal
  BY <1>1, <1>2 DEF OpenerKnows, Opening
<1>7. OpenTypes'
  BY <1>1, <1>2, <1>3, <1>5 DEF OpenTypes
<1>8. DigestsTell(documents, m)
  <2>1. \A d \in DOMAIN documents : d <= membership.digested
    BY <1>2, <1>6, DocumentIs DEF Markers
  <2> QED
    BY <1>2, <1>6, <2>1 DEF DigestsTell
<1>9. MembersAreCarried(snapshots, deltas, documents, m)
  <2>1. \A s \in DOMAIN snapshots : s <= membership.members
    BY <1>2, <1>6, SnapshotIs DEF Markers
  <2> QED
    BY <1>2, <1>3, <1>6, <2>1 DEF MembersAreCarried
<1>10. OpenerKnows(y, catalog, documents, m, Len(snapshots))
  BY <1>3, <1>5, <1>6 DEF OpenerKnows, Opening
<1>11. \A r \in Readers : MayRead(reader[r], m, Len(snapshots))
  BY <1>3, <1>6 DEF MayRead
<1>12. TablesTell'
  BY <1>1, <1>2, <1>3, <1>8, <1>9 DEF TablesTell
<1>13. CatalogTells(catalog', Len(snapshots')) /\ RootsAreNumbered(catalog', roots')
  BY <1>1, <1>2
<1>14. \A p \in Openers : OpenerKnows(opener'[p], catalog', documents', membership', Len(snapshots'))
  BY <1>1, <1>3, <1>5, <1>10
<1>15. \A r \in Readers : MayRead(reader'[r], membership', Len(snapshots'))
  BY <1>1, <1>3, <1>11
<1> QED
  BY <1>7, <1>12, <1>13, <1>14, <1>15 DEF OpenInv

\* Counts are counts.
LEMMA CountsAre ==
  ASSUME NEW base, NEW files, IsFiniteSet(DOMAIN base), IsFiniteSet(DOMAIN files)
  PROVE  Counts(base, files) \in Tallies
<1>1. /\ IsFiniteSet(DOMAIN files \ DOMAIN base) /\ IsFiniteSet(DOMAIN base \ DOMAIN files)
      /\ IsFiniteSet({p \in DOMAIN files \cap DOMAIN base : files[p] # base[p]})
  BY FS_Subset
<1>2. /\ Cardinality(DOMAIN files \ DOMAIN base) \in Int /\ Cardinality(DOMAIN base \ DOMAIN files) \in Int
      /\ Cardinality({p \in DOMAIN files \cap DOMAIN base : files[p] # base[p]}) \in Int
  BY <1>1, FS_CardinalityType
<1> QED
  BY <1>2 DEF Counts, Tallies

LEMMA SourcesAre ==
  ASSUME OpenTypes, NEW s \in DOMAIN snapshots
  PROVE  /\ DOMAIN SourcesOf(snapshots, s) = DOMAIN snapshots[s].inputs
         /\ IsFiniteSet(DOMAIN SourcesOf(snapshots, s))
         /\ IsFiniteSet(DOMAIN SourcesOf(snapshots, snapshots[s].base))
<1>1. \A t \in DOMAIN snapshots : t # 0 /\ IsFiniteSet(DOMAIN snapshots[t].inputs)
  BY SnapshotIs, InputsAre
<1>2. \A t \in DOMAIN snapshots : DOMAIN SourcesOf(snapshots, t) = DOMAIN snapshots[t].inputs
  BY <1>1 DEF SourcesOf
<1>3. snapshots[s].base = 0 \/ snapshots[s].base \in DOMAIN snapshots
  BY SnapshotIs
<1>4. IsFiniteSet(DOMAIN SourcesOf(snapshots, 0))
  <2>1. DOMAIN SourcesOf(snapshots, 0) = {}
    BY DEF SourcesOf
  <2> QED
    BY <2>1, FS_EmptySet
<1> QED
  BY <1>1, <1>2, <1>3, <1>4

LEMMA BackfillStatsKeeps ==
  ASSUME OpenInv, OneOpener, NEW o \in Openers, BackfillStats(o)
  PROVE  OpenInv'
<1> DEFINE pending == {s \in DOMAIN snapshots : stats[s] = NoCounts}
<1>1. /\ opener[o].step = "stats"
      /\ UNCHANGED <<catalog, roots, documents, snapshots, deltas, membership, reader, stops>>
  BY DEF BackfillStats, At
<1>2. /\ OpenTypes /\ catalog \in Catalogs /\ opener[o] \in Openings /\ membership \in Markers
      /\ CatalogTells(catalog, Len(snapshots)) /\ RootsAreNumbered(catalog, roots)
      /\ DigestsTell(documents, membership)
      /\ MembersAreCarried(snapshots, deltas, documents, membership)
      /\ \A s \in DOMAIN snapshots : CountsAreOf(snapshots, stats, s)
      /\ OpenerKnows(opener[o], catalog, documents, membership, Len(snapshots))
  BY OpenIs
<1>3. /\ membership.row /\ membership.complete
      /\ catalog.layout = "ours" /\ ~catalog.shapeFP /\ catalog.modules /\ catalog.ordinal
  BY <1>1, <1>2 DEF OpenerKnows, Opening
<1>4. CatalogTells(catalog', Len(snapshots')) /\ RootsAreNumbered(catalog', roots')
  BY <1>1, <1>2
<1>5. \A r \in Readers : MayRead(reader'[r], membership', Len(snapshots'))
  BY <1>1 DEF OpenInv
<1>6. CASE pending = {}
  <2>1. Go(o, "open") /\ stats' = stats
    BY <1>6 DEF BackfillStats
  <2>2. "open" \in Places
    BY DEF Places
  <2>3. PICK y \in Openings :
          opener' \in [Openers -> Openings] /\ (\A p \in Openers : opener'[p] = y) /\ y.step = "open"
    BY <1>2, <2>1, <2>2, OpenerGoes
  <2>4. OpenerKnows(y, catalog, documents, membership, Len(snapshots))
    BY <1>3, <2>3 DEF OpenerKnows, Opening
  <2>5. OpenTypes'
    BY <1>1, <1>2, <2>1, <2>3 DEF OpenTypes
  <2>6. TablesTell'
    BY <1>1, <1>2, <2>1 DEF TablesTell
  <2>7. \A p \in Openers : OpenerKnows(opener'[p], catalog', documents', membership', Len(snapshots'))
    BY <1>1, <2>3, <2>4
  <2> QED
    BY <1>4, <1>5, <2>5, <2>6, <2>7 DEF OpenInv
<1>7. CASE pending # {}
  <2>1. PICK s : s = Min(pending)
    OBVIOUS
  <2>2. stats' = [stats EXCEPT ![s] = Counts(Sources(snapshots[s].base), Served(s))] /\ opener' = opener
    BY <1>7, <2>1 DEF BackfillStats
  <2>3. s \in DOMAIN snapshots
    <3>1. pending \in SUBSET Nat
      BY <1>2, SnapshotIs
    <3>2. Min(pending) \in pending
      <4> HIDE DEF pending
      <4> QED
        BY <1>7, <3>1, MinIs
    <3> QED
      BY <2>1, <3>2
  <2>4. Served(s) = SourcesOf(snapshots, s)
    <3>1. ServesInputs(Effective[s], snapshots[s].inputs, documents, s <= membership.members)
      BY <1>2, <1>3, <2>3, TablesSay DEF MembersAreCarried
    <3>2. DOMAIN Effective[s] = DOMAIN snapshots[s].inputs
      BY <3>1 DEF ServesInputs
    <3>3. DOMAIN Sources(s) = DOMAIN snapshots[s].inputs /\ Sources(s) = [p \in DOMAIN Sources(s) |-> Sources(s)[p]]
      <4>1. s # 0
        BY <1>2, <2>3, SnapshotIs
      <4> QED
        BY <4>1 DEF Sources
    <3>4. Served(s) = Sources(s)
      BY <3>2, <3>3 DEF Served
    <3> QED
      BY <3>4, TablesSay
  <2>5. PICK c \in Tallies : c = Counts(SourcesOf(snapshots, snapshots[s].base), SourcesOf(snapshots, s))
    BY <1>2, <2>3, SourcesAre, CountsAre
  <2>6. stats' = [stats EXCEPT ![s] = c]
    BY <2>2, <2>4, <2>5, TablesSay
  <2>7. stats \in Seq(Tallies) /\ Len(stats) = Len(snapshots) /\ s \in 1..Len(stats)
    BY <1>2, <2>3, SnapshotIs DEF OpenTypes
  <2>8. stats' \in Seq(Tallies) /\ Len(stats') = Len(stats)
    BY <2>6, <2>7
  <2>9. ASSUME NEW t \in DOMAIN snapshots
        PROVE  CountsAreOf(snapshots, stats', t)
    <3>1. t \in 1..Len(stats) /\ CountsAreOf(snapshots, stats, t)
      BY <1>2, <2>7, SnapshotIs
    <3>2. CASE t = s
      <4>1. stats'[t] = c
        BY <2>6, <2>7, <3>2
      <4> QED
        BY <2>5, <3>2, <4>1 DEF CountsAreOf
    <3>3. CASE t # s
      <4>1. stats'[t] = stats[t]
        BY <2>6, <2>7, <3>1, <3>3
      <4> QED
        BY <3>1, <4>1 DEF CountsAreOf
    <3> QED
      BY <3>2, <3>3
  <2>10. OpenTypes'
    BY <1>1, <1>2, <2>2, <2>7, <2>8 DEF OpenTypes
  <2>11. TablesTell'
    BY <1>1, <1>2, <2>9 DEF TablesTell
  <2>12. \A p \in Openers : OpenerKnows(opener'[p], catalog', documents', membership', Len(snapshots'))
    BY <1>1, <2>2 DEF OpenInv
  <2> QED
    BY <1>4, <1>5, <2>10, <2>11, <2>12 DEF OpenInv
<1> QED
  BY <1>6, <1>7

\* The documents a batch digests.
LEMMA KeepersAre ==
  ASSUME NEW within, NEW known, NEW d
  PROVE  d \in Keepers(within, known) <=>
           /\ d \in within /\ documents[d].digest = None
           /\ <<documents[d].path, RenderedBy(documents[d])>> \notin known
           /\ \A e \in within : e < d => ~AreTwins(documents[e], documents[d])
<1>1. \A e : RenderedBy(documents[e]) = Rendering[<<documents[e].path, documents[e].hash>>]
  BY DEF RenderedBy
<1>2. \A e : AreTwins(documents[e], documents[d]) <=>
               <<documents[e].path, RenderedBy(documents[e])>> = <<documents[d].path, RenderedBy(documents[d])>>
  BY DEF AreTwins
<1>3. d \in Keepers(within, known) <=>
           /\ d \in within /\ documents[d].digest = None
           /\ <<documents[d].path, RenderedBy(documents[d])>> \notin known
           /\ \A e \in within : e < d =>
                <<documents[e].path, RenderedBy(documents[e])>> # <<documents[d].path, RenderedBy(documents[d])>>
  BY <1>1, Zenon DEF Keepers
<1> QED
  BY <1>2, <1>3, Zenon

\* A batch digested leaves digests that tell.
LEMMA BatchTells ==
  ASSUME OpenTypes, DigestsTell(documents, membership), membership.row, ~membership.complete,
         NEW B \in Nat, NEW batch, batch = {d \in DOMAIN documents : membership.digested < d /\ d <= B},
         NEW keep, keep = Keepers(batch, Digested(documents)),
         NEW N, DOMAIN N = DOMAIN documents,
         \A d \in DOMAIN N : /\ N[d].path = documents[d].path /\ N[d].hash = documents[d].hash
                             /\ N[d].digest = IF d \in keep THEN RenderedBy(documents[d]) ELSE documents[d].digest,
         NEW m \in Markers, ~m.complete, m.digested <= B
  PROVE  /\ DigestsTell(N, m)
         /\ Digested(N) = Digested(documents) \cup {<<documents[d].path, RenderedBy(documents[d])>> : d \in keep}
<1>1. /\ Len(documents) \in Nat /\ DOMAIN documents = 1..Len(documents)
      /\ \A d \in DOMAIN documents : RenderedBy(documents[d]) # None
      /\ membership.digested \in Nat /\ m.digested \in Nat
  BY DocumentIs DEF OpenTypes, Markers
<1>2. \A d \in DOMAIN N : RenderedBy(N[d]) = RenderedBy(documents[d])
  BY DEF RenderedBy
<1>3. \A d, e \in DOMAIN N : AreTwins(N[d], N[e]) <=> AreTwins(documents[d], documents[e])
  BY <1>2 DEF AreTwins
<1>4. \A d \in DOMAIN documents : documents[d].digest # None =>
        /\ documents[d].digest = RenderedBy(documents[d])
        /\ \A e \in DOMAIN documents : e < d => ~AreTwins(documents[e], documents[d])
  BY Zenon DEF DigestsTell
<1>5. \A d \in DOMAIN documents : d <= membership.digested =>
        \E e \in DOMAIN documents : AreTwins(documents[e], documents[d]) /\ documents[e].digest # None
  BY Zenon DEF DigestsTell
<1>6. \A d : d \in keep <=>
           /\ d \in batch /\ documents[d].digest = None
           /\ <<documents[d].path, RenderedBy(documents[d])>> \notin Digested(documents)
           /\ \A e \in batch : e < d => ~AreTwins(documents[e], documents[d])
  BY ONLY keep = Keepers(batch, Digested(documents)), KeepersAre, Zenon
<1>7. \A d \in DOMAIN N : documents[d].digest # None => N[d].digest = documents[d].digest
  BY <1>6
<1>8. \A d \in DOMAIN documents :
        <<documents[d].path, RenderedBy(documents[d])>> \in Digested(documents) <=>
          \E e \in DOMAIN documents : AreTwins(documents[e], documents[d]) /\ documents[e].digest # None
  <2> TAKE d \in DOMAIN documents
  <2>1. <<documents[d].path, RenderedBy(documents[d])>> \in Digested(documents) <=>
          \E e \in DOMAIN documents : /\ documents[e].digest # None
                                      /\ documents[e].path = documents[d].path /\ documents[e].digest = RenderedBy(documents[d])
    BY DEF Digested
  <2> QED
    BY <1>4, <2>1 DEF AreTwins
<1>9. ASSUME NEW d \in DOMAIN N, N[d].digest # None
      PROVE  /\ N[d].digest = RenderedBy(N[d])
             /\ \A e \in DOMAIN N : e < d => ~AreTwins(N[e], N[d])
  <2>1. CASE d \in keep
    <3>1. N[d].digest = RenderedBy(N[d])
      BY <1>2, <2>1
    <3>2. ASSUME NEW e \in DOMAIN N, e < d, AreTwins(documents[e], documents[d])
          PROVE  FALSE
      <4>1. d \in batch /\ d <= B
        BY <1>6, <2>1
      <4>2. CASE e \in batch
        BY <1>6, <2>1, <3>2, <4>2
      <4>3. CASE e \notin batch
        <5>1. e <= membership.digested
          BY <1>1, <3>2, <4>1, <4>3
        <5>2. PICK f \in DOMAIN documents : AreTwins(documents[f], documents[e]) /\ documents[f].digest # None
          BY <1>5, <5>1
        <5>3. AreTwins(documents[f], documents[d])
          BY <3>2, <5>2 DEF AreTwins
        <5> QED
          BY <1>6, <1>8, <2>1, <5>2, <5>3
      <4> QED
        BY <4>2, <4>3
    <3> QED
      BY <1>3, <3>1, <3>2
  <2>2. CASE d \notin keep
    <3>1. N[d].digest = documents[d].digest
      BY <2>2
    <3> QED
      BY <1>2, <1>3, <1>4, <1>9, <3>1
  <2> QED
    BY <2>1, <2>2
<1>10. ASSUME NEW d \in DOMAIN N, d <= m.digested
       PROVE  \E e \in DOMAIN N : AreTwins(N[e], N[d]) /\ N[e].digest # None
  <2>1. CASE <<documents[d].path, RenderedBy(documents[d])>> \in Digested(documents)
    <3>1. PICK e \in DOMAIN documents : AreTwins(documents[e], documents[d]) /\ documents[e].digest # None
      BY <1>8, <2>1
    <3> QED
      BY <1>3, <1>7, <3>1
  <2>2. CASE <<documents[d].path, RenderedBy(documents[d])>> \notin Digested(documents)
    <3>1. d \in batch
      <4>1. ~(d <= membership.digested)
        BY <1>5, <1>8, <2>2
      <4> QED
        BY <1>1, <1>10, <4>1
    <3> DEFINE T == {e \in batch : AreTwins(documents[e], documents[d])}
    <3>2. d \in T /\ T \in SUBSET Nat
      BY <1>1, <3>1 DEF AreTwins
    <3>3. PICK e \in T : \A f \in T : e <= f
      <4> HIDE DEF T
      <4> QED
        BY <3>2, LeastNatural
    <3>4. e \in DOMAIN documents /\ e \in batch /\ AreTwins(documents[e], documents[d])
      OBVIOUS
    <3>5. CASE documents[e].digest # None
      BY <1>3, <1>7, <3>4, <3>5
    <3>6. CASE documents[e].digest = None
      <4>1. <<documents[e].path, RenderedBy(documents[e])>> = <<documents[d].path, RenderedBy(documents[d])>>
        BY <3>4 DEF AreTwins
      <4>2. ASSUME NEW f \in batch, f < e
            PROVE  ~AreTwins(documents[f], documents[e])
        <5>1. ~(e <= f)
          BY <1>1, <3>4, <4>2
        <5>2. f \notin T
          BY <3>3, <5>1
        <5> QED
          BY <3>4, <5>2 DEF AreTwins
      <4>3. e \in keep
        BY <1>6, <2>2, <3>4, <3>6, <4>1, <4>2
      <4>4. N[e].digest # None
        BY <1>1, <3>4, <4>3
      <4> QED
        BY <1>3, <3>4, <4>4
    <3> QED
      BY <3>5, <3>6
  <2> QED
    BY <2>1, <2>2
<1>11. DigestsTell(N, m)
  BY <1>9, <1>10, Zenon DEF DigestsTell
<1>12. ASSUME NEW k
       PROVE  k \in Digested(N) <=>
                k \in Digested(documents) \cup {<<documents[d].path, RenderedBy(documents[d])>> : d \in keep}
  <2>1. k \in Digested(N) <=> \E d \in DOMAIN N : N[d].digest # None /\ k = <<N[d].path, N[d].digest>>
    BY DEF Digested
  <2>2. k \in Digested(documents) <=>
          \E d \in DOMAIN documents : documents[d].digest # None /\ k = <<documents[d].path, documents[d].digest>>
    BY DEF Digested
  <2>3. \A d \in keep : d \in DOMAIN N /\ N[d].digest # None
    BY <1>1, <1>6
  <2>4. ASSUME k \in Digested(N)
        PROVE  k \in Digested(documents) \cup {<<documents[d].path, RenderedBy(documents[d])>> : d \in keep}
    <3>1. PICK d \in DOMAIN N : N[d].digest # None /\ k = <<N[d].path, N[d].digest>>
      BY <2>1, <2>4
    <3>2. CASE d \in keep
      BY <3>1, <3>2
    <3>3. CASE d \notin keep
      BY <2>2, <3>1, <3>3
    <3> QED
      BY <3>2, <3>3
  <2>5. ASSUME k \in Digested(documents)
        PROVE  k \in Digested(N)
    <3>1. PICK d \in DOMAIN documents : documents[d].digest # None /\ k = <<documents[d].path, documents[d].digest>>
      BY <2>2, <2>5
    <3> QED
      BY <1>7, <2>1, <3>1
  <2>6. ASSUME NEW d \in keep, k = <<documents[d].path, RenderedBy(documents[d])>>
        PROVE  k \in Digested(N)
    BY <2>1, <2>3, <2>6
  <2> QED
    BY <2>4, <2>5, <2>6
<1> QED
  BY <1>11, <1>12

LEMMA DigestBatchStepKeeps ==
  ASSUME OpenInv, OneOpener, NEW o \in Openers, DigestBatchStep(o)
  PROVE  OpenInv'
<1> DEFINE from == opener[o].marker.digested
           batch == {d \in DOMAIN documents : from < d /\ d <= from + DigestBatch}
           keep == Keepers(batch, opener[o].seen)
<1>1. UNCHANGED <<catalog, roots, snapshots, deltas, stats, reader, stops>> /\ opener[o].step = "digest"
  BY DEF DigestBatchStep, At
<1>2. /\ OpenTypes /\ catalog \in Catalogs /\ opener[o] \in Openings /\ membership \in Markers
      /\ CatalogTells(catalog, Len(snapshots)) /\ RootsAreNumbered(catalog, roots)
      /\ DigestsTell(documents, membership)
      /\ MembersAreCarried(snapshots, deltas, documents, membership)
      /\ \A s \in DOMAIN snapshots : CountsAreOf(snapshots, stats, s)
      /\ OpenerKnows(opener[o], catalog, documents, membership, Len(snapshots))
  BY OpenIs
<1>3. /\ membership.row /\ ~membership.complete /\ opener[o].marker = membership
      /\ opener[o].seen = Digested(documents)
      /\ catalog.layout = "ours" /\ ~catalog.shapeFP /\ catalog.modules /\ catalog.ordinal
  BY <1>1, <1>2 DEF OpenerKnows, Opening
<1>4. /\ Len(documents) \in Nat /\ DOMAIN documents = 1..Len(documents) /\ membership.digested \in Nat
      /\ DigestBatch \in Nat \ {0} /\ from = membership.digested
  BY <1>2, <1>3, DocumentIs, OpenConstants DEF Markers
<1>5. CatalogTells(catalog', Len(snapshots')) /\ RootsAreNumbered(catalog', roots')
  BY <1>1, <1>2
<1>6. CASE batch = {}
  <2>1. Go(o, "members") /\ documents' = documents /\ membership' = membership
    BY <1>6 DEF DigestBatchStep
  <2>2. "members" \in Places
    BY DEF Places
  <2>3. PICK y \in Openings :
          /\ opener' \in [Openers -> Openings] /\ (\A p \in Openers : opener'[p] = y)
          /\ y.step = "members" /\ y.marker = opener[o].marker
    BY <1>2, <2>1, <2>2, OpenerGoes
  <2>4. membership.digested >= Len(documents)
    <3> SUFFICES ASSUME membership.digested < Len(documents)
                 PROVE  FALSE
      BY <1>4
    <3>1. membership.digested + 1 \in batch
      BY <1>4
    <3> QED
      BY <1>6, <3>1
  <2>5. OpenerKnows(y, catalog, documents, membership, Len(snapshots))
    BY <1>3, <2>3, <2>4 DEF OpenerKnows, Opening
  <2>6. OpenTypes'
    BY <1>1, <1>2, <2>1, <2>3 DEF OpenTypes
  <2>7. TablesTell'
    BY <1>1, <1>2, <2>1 DEF TablesTell
  <2>8. \A p \in Openers : OpenerKnows(opener'[p], catalog', documents', membership', Len(snapshots'))
    BY <1>1, <2>1, <2>3, <2>5
  <2>9. \A r \in Readers : MayRead(reader'[r], membership', Len(snapshots'))
    BY <1>1, <2>1 DEF OpenInv
  <2> QED
    BY <1>5, <2>6, <2>7, <2>8, <2>9 DEF OpenInv
<1>7. CASE batch # {}
  <2> DEFINE told == {<<documents[d].path, RenderedBy(documents[d])>> : d \in keep}
  <2>1. PICK b : b = Max(batch)
    OBVIOUS
  <2>2. b \in batch
    <3>1. batch \in SUBSET (0..Len(documents))
      BY <1>4
    <3> HIDE DEF batch
    <3> QED
      BY <1>4, <1>7, <2>1, <3>1, MaxIs
  <2>3. b \in Nat /\ membership.digested < b /\ b <= membership.digested + DigestBatch
    BY <1>4, <2>2
  <2>4. PICK m \in Markers : /\ m = [membership EXCEPT !.digested = b]
                             /\ m.row /\ ~m.complete /\ m.digested = b /\ m.members = membership.members
    <3>1. PICK m : m = [membership EXCEPT !.digested = b]
      OBVIOUS
    <3>2. m \in Markers /\ m.row /\ ~m.complete /\ m.digested = b /\ m.members = membership.members
      BY <1>2, <1>3, <2>3, <3>1 DEF Markers
    <3> QED
      BY <3>1, <3>2
  <2>5. PICK N : N = [d \in DOMAIN documents |->
                       IF d \in keep THEN [documents[d] EXCEPT !.digest = RenderedBy(documents[d])] ELSE documents[d]]
    OBVIOUS
  <2>6. /\ documents' = N /\ membership' = m
        /\ opener' = [opener EXCEPT ![o].marker.digested = b, ![o].seen = @ \cup told]
    BY <1>7, <2>1, <2>4, <2>5 DEF DigestBatchStep, RenderedBy
  <2>7. keep = Keepers(batch, Digested(documents))
    BY <1>3
  <2> HIDE DEF batch
  <2>8. keep \subseteq DOMAIN documents
    <3>1. Keepers(batch, opener[o].seen) \subseteq batch
      BY DEF Keepers
    <3>2. batch \subseteq DOMAIN documents
      BY DEF batch
    <3> QED
      BY <3>1, <3>2
  <2> HIDE DEF keep
  <2>9. ASSUME NEW d \in DOMAIN documents
        PROVE  /\ N[d] \in Documents
               /\ N[d].path = documents[d].path /\ N[d].hash = documents[d].hash
               /\ N[d].digest = IF d \in keep THEN RenderedBy(documents[d]) ELSE documents[d].digest
    <3>1. documents[d] \in Documents /\ RenderedBy(documents[d]) \in Nat
      BY <1>2, DocumentIs
    <3>2. CASE d \in keep
      <4>1. N[d] = [documents[d] EXCEPT !.digest = RenderedBy(documents[d])]
        BY <2>5, <3>2
      <4> QED
        BY <3>1, <3>2, <4>1 DEF Documents
    <3>3. CASE d \notin keep
      BY <2>5, <3>1, <3>3
    <3> QED
      BY <3>2, <3>3
  <2>10. DOMAIN N = DOMAIN documents /\ N \in Seq(Documents) /\ Len(N) = Len(documents)
    <3>1. DOMAIN N = DOMAIN documents
      BY <2>5
    <3>2. N \in [1..Len(documents) -> Documents]
      BY <1>4, <2>5, <2>9
    <3> QED
      BY <1>4, <3>1, <3>2, FunctionIs
  <2>11. /\ DigestsTell(N, m)
         /\ Digested(N) = Digested(documents) \cup told
    <3>1. PICK B \in Nat : B = membership.digested + DigestBatch
      BY <1>4
    <3>2. batch = {d \in DOMAIN documents : membership.digested < d /\ d <= B}
      BY <1>4, <3>1 DEF batch
    <3>3. m.digested <= B
      BY <2>3, <2>4, <3>1
    <3>4. \A d \in DOMAIN N : /\ N[d].path = documents[d].path /\ N[d].hash = documents[d].hash
                              /\ N[d].digest = IF d \in keep THEN RenderedBy(documents[d]) ELSE documents[d].digest
      BY <2>9, <2>10
    <3>5. OpenTypes /\ DigestsTell(documents, membership) /\ membership.row /\ ~membership.complete /\ ~m.complete
          /\ DOMAIN N = DOMAIN documents
      BY <1>2, <1>3, <2>4, <2>10
    <3>6. told = {<<documents[d].path, RenderedBy(documents[d])>> : d \in keep}
      BY DEF told
    <3> QED
      BY ONLY <2>7, <3>2, <3>3, <3>4, <3>5, <3>6, m \in Markers, B \in Nat, BatchTells
  <2>12. PICK y \in Openings : /\ y = [opener[o] EXCEPT !.marker = m, !.seen = opener[o].seen \cup told]
                               /\ y.marker = m /\ y.seen = opener[o].seen \cup told /\ y.step = "digest"
    <3>1. PICK y : y = [opener[o] EXCEPT !.marker = m, !.seen = opener[o].seen \cup told]
      OBVIOUS
    <3>2. told \in SUBSET (Paths \X Nat)
      <4>1. \A d \in keep : documents[d].path \in Paths /\ RenderedBy(documents[d]) \in Nat
        BY <1>2, <2>8, DocumentIs
      <4> QED
        BY <4>1
    <3> HIDE DEF told
    <3>3. opener[o].seen \cup told \in SUBSET (Paths \X Nat)
      BY <1>2, <3>2 DEF Openings
    <3>4. y \in Openings /\ y.marker = m /\ y.seen = opener[o].seen \cup told /\ y.step = "digest"
      BY <1>1, <1>2, <3>1, <3>3 DEF Openings
    <3> QED
      BY <3>1, <3>4
  <2> HIDE DEF told
  <2>13. opener' = [opener EXCEPT ![o] = y]
    BY <1>2, <1>3, <2>4, <2>6, <2>12 DEF OpenTypes
  <2>14. opener' \in [Openers -> Openings] /\ \A p \in Openers : opener'[p] = y
    BY <1>2, <2>13, OpenerIs
  <2>15. OpenTypes'
    BY <1>1, <1>2, <2>4, <2>6, <2>10, <2>14 DEF OpenTypes
  <2>16. MembersAreCarried(snapshots, deltas, N, m)
    <3>1. ~(membership.members > 0)
      BY <1>2, <1>3, <1>4, <2>2 DEF MembersAreCarried, batch
    <3>2. m.members = 0
      BY <1>2, <2>4, <3>1 DEF Markers
    <3>3. \A s \in DOMAIN snapshots : HasDocuments(snapshots[s].inputs, documents)
      BY <1>2, <1>3 DEF MembersAreCarried
    <3>4. \A s \in DOMAIN snapshots : HasDocuments(snapshots[s].inputs, N)
      BY <2>9, <2>10, <3>3 DEF HasDocuments
    <3>5. Len(snapshots) \in Nat /\ \A s \in DOMAIN snapshots : ~(s <= m.members)
      BY <1>2, <3>2, SnapshotIs
    <3>6. m.members <= Len(snapshots) /\ ~(m.members > 0)
      BY <3>2, <3>5
    <3> QED
      BY <2>4, <3>4, <3>5, <3>6 DEF MembersAreCarried
  <2>17. OpenerKnows(y, catalog, N, m, Len(snapshots))
    BY <1>3, <2>4, <2>11, <2>12 DEF OpenerKnows, Opening
  <2>18. \A r \in Readers : MayRead(reader[r], m, Len(snapshots))
    BY <1>3 DEF OpenInv, MayRead
  <2>19. TablesTell'
    BY <1>1, <1>2, <2>6, <2>11, <2>16 DEF TablesTell
  <2>20. \A p \in Openers : OpenerKnows(opener'[p], catalog', documents', membership', Len(snapshots'))
    BY <1>1, <2>6, <2>14, <2>17
  <2>21. \A r \in Readers : MayRead(reader'[r], membership', Len(snapshots'))
    BY <1>1, <2>6, <2>18
  <2> QED
    BY <1>5, <2>15, <2>19, <2>20, <2>21 DEF OpenInv
<1> QED
  BY <1>6, <1>7

\* One more snapshot carried over leaves what was.
LEMMA MemberCarried ==
  ASSUME NEW S, Len(S) \in Nat, DOMAIN S = 1..Len(S), \A s \in DOMAIN S : S[s].base \in 0..(s - 1),
         NEW D, DOMAIN D = DOMAIN S, NEW docs, Len(docs) \in Nat, DOMAIN docs = 1..Len(docs),
         NEW k \in Markers, ~k.complete, k.row, MembersAreCarried(S, D, docs, k), k.digested >= Len(docs),
         NEW s \in DOMAIN S, s = k.members + 1,
         NEW base, base = (IF S[s].base # 0 THEN LegacyOf(S, docs, S[s].base) ELSE <<>>),
         NEW D2, D2 = [D EXCEPT ![s] = DeltaRows(base, LegacyOf(S, docs, s))],
         NEW m \in Markers, ~m.complete, m.row, m.members = s, m.digested = k.digested
  PROVE  MembersAreCarried(S, D2, docs, m)
<1>1. k.members \in Nat /\ k.digested \in Nat /\ s \in Nat /\ s \in 1..Len(S)
  BY DEF Markers
<1>2. AreBased(S)
  BY DEF AreBased
<1>3. /\ \A t \in DOMAIN S : HasDocuments(S[t].inputs, docs)
      /\ \A t \in DOMAIN S : t <= k.members => Chained(S, D)[t] = LegacyOf(S, docs, t)
  BY DEF MembersAreCarried
<1>4. \A t \in 1..k.members : D2[t] = D[t] /\ t \in DOMAIN S
  BY <1>1
<1>5. \A t \in 0..k.members : Chained(S, D2)[t] = Chained(S, D)[t]
  <2>1. PICK n \in Nat : n = k.members
    BY <1>1
  <2>2. AgreeTo(n, S, D, S, D2)
    BY <1>1, <1>4, <2>1 DEF AgreeTo
  <2>3. \A t \in 0..n : Chained(S, D2)[t] = Chained(S, D)[t]
    BY ONLY <1>2, <2>2, n \in Nat, ChainedAgrees
  <2> QED
    BY <2>1, <2>3
<1>6. Chained(S, D2)[S[s].base] = base
  <2>1. S[s].base \in 0..k.members
    BY <1>1
  <2>2. Chained(S, D2)[S[s].base] = Chained(S, D)[S[s].base]
    BY <1>5, <2>1
  <2>3. CASE S[s].base = 0
    <3>1. Chained(S, D)[0] = <<>>
      BY ONLY <1>2, ChainedIs
    <3> QED
      BY <2>2, <2>3, <3>1
  <2>4. CASE S[s].base # 0
    <3>1. S[s].base \in DOMAIN S /\ S[s].base <= k.members
      BY <1>1, <2>1, <2>4
    <3> QED
      BY <1>3, <2>2, <2>4, <3>1
  <2> QED
    BY <2>3, <2>4
<1>7. Chained(S, D2)[s] = LegacyOf(S, docs, s)
  <2>1. Chained(S, D2)[s] = Over(Chained(S, D2)[S[s].base], D2[s])
    BY ONLY <1>1, <1>2, ChainedIs
  <2>2. D2[s] = DeltaRows(base, LegacyOf(S, docs, s))
    OBVIOUS
  <2>3. PICK current : current = LegacyOf(S, docs, s)
    OBVIOUS
  <2>4. /\ current = [p \in DOMAIN current |-> current[p]]
        /\ \A p \in DOMAIN current : current[p] # None
    <3>1. HasDocuments(S[s].inputs, docs)
      BY <1>3
    <3>2. /\ DOMAIN current = DOMAIN S[s].inputs
          /\ current = [p \in DOMAIN current |-> current[p]]
          /\ \A p \in DOMAIN S[s].inputs : current[p] \in DOMAIN docs
      BY <2>3, <3>1, LegacyServes
    <3>3. None \notin DOMAIN docs
      BY DEF None
    <3> QED
      BY <3>2, <3>3
  <2>5. Over(base, DeltaRows(base, current)) = current
    BY ONLY <2>4, RowsLead
  <2> QED
    BY <1>6, <2>1, <2>2, <2>3, <2>5
<1>8. ASSUME NEW t \in DOMAIN S, t <= s
      PROVE  Chained(S, D2)[t] = LegacyOf(S, docs, t)
  <2>1. CASE t = s
    BY <1>7, <2>1
  <2>2. CASE t # s
    <3>1. t \in 0..k.members /\ t <= k.members
      BY <1>1, <1>8, <2>2
    <3> QED
      BY <1>3, <1>5, <3>1
  <2> QED
    BY <2>1, <2>2
<1>9. ASSUME NEW t \in DOMAIN S, t <= s
      PROVE  ServesInputs(Chained(S, D2)[t], S[t].inputs, docs, TRUE)
  <2>1. PICK current : current = LegacyOf(S, docs, t)
    OBVIOUS
  <2>2. /\ DOMAIN current = DOMAIN S[t].inputs
        /\ \A p \in DOMAIN S[t].inputs :
             current[p] \in DOMAIN docs /\ docs[current[p]].path = p /\ docs[current[p]].hash = S[t].inputs[p]
    BY <1>3, <2>1, LegacyServes
  <2>3. ServesInputs(current, S[t].inputs, docs, TRUE)
    BY <2>2 DEF ServesInputs, RenderedBy
  <2> QED
    BY <1>8, <1>9, <2>1, <2>3
<1>10. \A t \in DOMAIN S : (m.complete \/ t <= m.members) =>
         ServesInputs(Chained(S, D2)[t], S[t].inputs, docs, t <= m.members)
  <2> SUFFICES ASSUME NEW t \in DOMAIN S, t <= s
               PROVE  ServesInputs(Chained(S, D2)[t], S[t].inputs, docs, t <= m.members)
    OBVIOUS
  <2>1. (t <= m.members) = TRUE
    OBVIOUS
  <2> QED
    BY <1>9, <2>1
<1>11. m.members <= Len(S) /\ m.digested >= Len(docs)
  BY <1>1
<1> QED
  BY <1>3, <1>8, <1>10, <1>11 DEF MembersAreCarried

LEMMA MemberStepKeeps ==
  ASSUME OpenInv, OneOpener, NEW o \in Openers, MemberStep(o)
  PROVE  OpenInv'
<1>1. UNCHANGED <<catalog, roots, documents, snapshots, stats, reader, stops>> /\ opener[o].step = "members"
  BY DEF MemberStep, At
<1>2. /\ OpenTypes /\ catalog \in Catalogs /\ opener[o] \in Openings /\ membership \in Markers
      /\ CatalogTells(catalog, Len(snapshots)) /\ RootsAreNumbered(catalog, roots)
      /\ DigestsTell(documents, membership)
      /\ MembersAreCarried(snapshots, deltas, documents, membership)
      /\ \A t \in DOMAIN snapshots : CountsAreOf(snapshots, stats, t)
      /\ OpenerKnows(opener[o], catalog, documents, membership, Len(snapshots))
  BY OpenIs
<1>3. /\ membership.row /\ ~membership.complete /\ opener[o].marker = membership
      /\ membership.digested >= Len(documents)
      /\ catalog.layout = "ours" /\ ~catalog.shapeFP /\ catalog.modules /\ catalog.ordinal
  BY <1>1, <1>2 DEF OpenerKnows, Opening
<1>4. PICK s \in Nat : s = membership.members + 1
  BY <1>2 DEF Markers
<1>5. Len(snapshots) \in Nat /\ DOMAIN snapshots = 1..Len(snapshots) /\ membership.members \in Nat
  BY <1>2, SnapshotIs DEF Markers
<1>6. CatalogTells(catalog', Len(snapshots')) /\ RootsAreNumbered(catalog', roots')
  BY <1>1, <1>2
<1>7. CASE s > Len(snapshots)
  <2>1. Go(o, "complete") /\ deltas' = deltas /\ membership' = membership
    BY <1>3, <1>4, <1>7 DEF MemberStep
  <2>2. "complete" \in Places
    BY DEF Places
  <2>3. PICK y \in Openings :
          /\ opener' \in [Openers -> Openings] /\ (\A p \in Openers : opener'[p] = y)
          /\ y.step = "complete" /\ y.marker = opener[o].marker
    BY <1>2, <2>1, <2>2, OpenerGoes
  <2>4. membership.members >= Len(snapshots)
    BY <1>4, <1>5, <1>7
  <2>5. OpenerKnows(y, catalog, documents, membership, Len(snapshots))
    BY <1>3, <2>3, <2>4 DEF OpenerKnows, Opening
  <2>6. OpenTypes'
    BY <1>1, <1>2, <2>1, <2>3 DEF OpenTypes
  <2>7. TablesTell'
    BY <1>1, <1>2, <2>1 DEF TablesTell
  <2>8. \A p \in Openers : OpenerKnows(opener'[p], catalog', documents', membership', Len(snapshots'))
    BY <1>1, <2>1, <2>3, <2>5
  <2>9. \A r \in Readers : MayRead(reader'[r], membership', Len(snapshots'))
    BY <1>1, <2>1 DEF OpenInv
  <2> QED
    BY <1>6, <2>6, <2>7, <2>8, <2>9 DEF OpenInv
<1>8. CASE ~(s > Len(snapshots))
  <2>1. s \in DOMAIN snapshots
    BY <1>4, <1>5, <1>8
  <2>2. PICK base : base = IF snapshots[s].base # 0 THEN LegacyOf(snapshots, documents, snapshots[s].base) ELSE <<>>
    OBVIOUS
  <2>3. PICK own : own = DeltaRows(base, LegacyOf(snapshots, documents, s))
    OBVIOUS
  <2>4. /\ deltas' = [deltas EXCEPT ![s] = own]
        /\ membership' = [membership EXCEPT !.members = s]
        /\ opener' = [opener EXCEPT ![o].marker.members = s]
    <3>1. opener[o].marker.members + 1 = s
      BY <1>3, <1>4
    <3>2. /\ deltas' = [deltas EXCEPT ![s] =
                          DeltaRows(IF s \in DOMAIN snapshots /\ snapshots[s].base # 0
                                    THEN LegacyMembership(snapshots[s].base) ELSE <<>>, LegacyMembership(s))]
          /\ membership' = [membership EXCEPT !.members = s]
          /\ opener' = [opener EXCEPT ![o].marker.members = s]
      BY <1>8, <3>1 DEF MemberStep
    <3>3. LegacyMembership(s) = LegacyOf(snapshots, documents, s)
          /\ LegacyMembership(snapshots[s].base) = LegacyOf(snapshots, documents, snapshots[s].base)
      BY TablesSay
    <3>4. base = IF s \in DOMAIN snapshots /\ snapshots[s].base # 0
                 THEN LegacyMembership(snapshots[s].base) ELSE <<>>
      BY <2>1, <2>2, <3>3
    <3> QED
      BY <2>3, <3>2, <3>3, <3>4
  <2>5. PICK m \in Markers : /\ m = [membership EXCEPT !.members = s]
                             /\ m.row /\ ~m.complete /\ m.digested = membership.digested /\ m.members = s
    <3>1. PICK m : m = [membership EXCEPT !.members = s]
      OBVIOUS
    <3>2. m \in Markers /\ m.row /\ ~m.complete /\ m.digested = membership.digested /\ m.members = s
      BY <1>2, <1>3, <3>1 DEF Markers
    <3> QED
      BY <3>1, <3>2
  <2>6. PICK y \in Openings : y = [opener[o] EXCEPT !.marker = m] /\ y.marker = m /\ y.step = "members"
    <3>1. PICK y : y = [opener[o] EXCEPT !.marker = m]
      OBVIOUS
    <3>2. y \in Openings /\ y.marker = m /\ y.step = "members"
      BY <1>1, <1>2, <3>1 DEF Openings
    <3> QED
      BY <3>1, <3>2
  <2>7. opener' = [opener EXCEPT ![o] = y]
    BY <1>2, <1>3, <2>4, <2>5, <2>6 DEF OpenTypes
  <2>8. opener' \in [Openers -> Openings] /\ \A p \in Openers : opener'[p] = y
    BY <1>2, <2>7, OpenerIs
  <2>9. deltas \in Seq(Rows) /\ DOMAIN deltas = DOMAIN snapshots /\ Len(deltas) = Len(snapshots)
    BY <1>2, <1>5, SeqIs DEF OpenTypes
  <2>10. own \in Rows
    <3>1. \A t \in DOMAIN snapshots : HasDocuments(snapshots[t].inputs, documents)
      BY <1>2, <1>3 DEF MembersAreCarried
    <3>2. \A t \in DOMAIN snapshots :
            /\ DOMAIN LegacyOf(snapshots, documents, t) \subseteq Paths
            /\ \A p \in DOMAIN LegacyOf(snapshots, documents, t) : LegacyOf(snapshots, documents, t)[p] \in Nat
      <4> TAKE t \in DOMAIN snapshots
      <4>1. /\ DOMAIN LegacyOf(snapshots, documents, t) = DOMAIN snapshots[t].inputs
            /\ \A p \in DOMAIN snapshots[t].inputs : LegacyOf(snapshots, documents, t)[p] \in DOMAIN documents
        BY <3>1, LegacyServes
      <4>2. DOMAIN snapshots[t].inputs \subseteq Paths
        BY <1>2, SnapshotIs, InputsAre
      <4>3. DOMAIN documents \subseteq Nat
        BY <1>2, DocumentIs
      <4> QED
        BY <4>1, <4>2, <4>3
    <3>3. DOMAIN base \subseteq Paths
      <4>1. CASE snapshots[s].base # 0
        <5>1. snapshots[s].base \in DOMAIN snapshots
          BY <1>2, <1>5, <2>1, <4>1, SnapshotIs
        <5> QED
          BY <2>2, <3>2, <4>1, <5>1
      <4>2. CASE snapshots[s].base = 0
        <5>1. DOMAIN <<>> = {}
          OBVIOUS
        <5> QED
          BY <2>2, <4>2, <5>1
      <4> QED
        BY <4>1, <4>2
    <3>4. PICK current : current = LegacyOf(snapshots, documents, s)
      OBVIOUS
    <3>5. DOMAIN current \subseteq Paths /\ \A p \in DOMAIN current : current[p] \in Nat
      BY <2>1, <3>2, <3>4
    <3>6. PICK ps \in SUBSET Paths : ps = {q \in DOMAIN current : q \notin DOMAIN base \/ base[q] # current[q]} \cup (DOMAIN base \ DOMAIN current)
      BY <3>3, <3>5
    <3>7. own = [p \in ps |-> IF p \in DOMAIN current THEN current[p] ELSE None]
      BY <2>3, <3>4, <3>6 DEF DeltaRows
    <3>8. own \in [ps -> Nat]
      BY <3>5, <3>7 DEF None
    <3> QED
      BY <3>8 DEF Rows
  <2>11. deltas' \in Seq(Rows) /\ Len(deltas') = Len(deltas)
    BY <1>5, <2>1, <2>4, <2>9, <2>10
  <2>12. OpenTypes'
    BY <1>1, <1>2, <2>4, <2>5, <2>8, <2>9, <2>11 DEF OpenTypes
  <2>13. MembersAreCarried(snapshots, deltas', documents, m)
    <3>1. \A t \in DOMAIN snapshots : snapshots[t].base \in 0..(t - 1)
      BY <1>2, SnapshotIs
    <3>2. Len(documents) \in Nat /\ DOMAIN documents = 1..Len(documents)
      BY <1>2, DocumentIs
    <3>3. deltas' = [deltas EXCEPT ![s] = DeltaRows(base, LegacyOf(snapshots, documents, s))]
      BY <2>3, <2>4
    <3>4. membership \in Markers /\ MembersAreCarried(snapshots, deltas, documents, membership)
      BY <1>2
    <3>5. /\ ~membership.complete /\ membership.row /\ membership.digested >= Len(documents)
          /\ DOMAIN deltas = DOMAIN snapshots /\ s = membership.members + 1
          /\ ~m.complete /\ m.row /\ m.members = s /\ m.digested = membership.digested
      BY <1>3, <1>4, <2>5, <2>9
    <3> QED
      BY ONLY <1>5, <2>1, <2>2, <3>1, <3>2, <3>3, <3>4, <3>5, m \in Markers, MemberCarried, Zenon
  <2>14. DigestsTell(documents, m)
    BY <1>2, <1>3, <2>5 DEF DigestsTell
  <2>15. OpenerKnows(y, catalog, documents, m, Len(snapshots))
    BY <1>3, <2>5, <2>6 DEF OpenerKnows, Opening
  <2>16. \A r \in Readers : MayRead(reader[r], m, Len(snapshots))
    BY <1>3 DEF OpenInv, MayRead
  <2>17. TablesTell'
    BY <1>1, <1>2, <2>4, <2>5, <2>13, <2>14 DEF TablesTell
  <2>18. \A p \in Openers : OpenerKnows(opener'[p], catalog', documents', membership', Len(snapshots'))
    BY <1>1, <2>4, <2>5, <2>8, <2>15
  <2>19. \A r \in Readers : MayRead(reader'[r], membership', Len(snapshots'))
    BY <1>1, <2>4, <2>5, <2>16
  <2> QED
    BY <1>6, <2>12, <2>17, <2>18, <2>19 DEF OpenInv
<1> QED
  BY <1>7, <1>8

-----------------------------------------------------------------------------
(* A publication through an open database.                                 *)

\* The documents of one table are at another's start.
Extends(docs, docs2) == \A d \in DOMAIN docs : d \in DOMAIN docs2 /\ docs2[d] = docs[d]

\* A membership maps paths to documents.
IsMembership(files) == files = [p \in DOMAIN files |-> files[p]] /\ \A p \in DOMAIN files : files[p] \in Nat /\ files[p] # None

LEMMA ConcatIs ==
  ASSUME NEW S, NEW q \in Seq(S), NEW x \in S
  PROVE  q \o <<x>> = Append(q, x) /\ q \o <<>> = q
OBVIOUS

\* A document that no other has the path and digest of is the earliest that renders it.
LEMMA DocumentAdded ==
  ASSUME NEW docs \in Seq(Documents), NEW x \in Documents, NEW m \in Markers, m.row, m.complete,
         DigestsTell(docs, m), x.digest = RenderedBy(x), x.digest # None,
         \A d \in DOMAIN docs : ~(docs[d].path = x.path /\ docs[d].digest = x.digest)
  PROVE  DigestsTell(Append(docs, x), m)
<1>1. PICK docs2 : docs2 = Append(docs, x)
  OBVIOUS
<1>2. /\ Len(docs) \in Nat /\ DOMAIN docs = 1..Len(docs)
      /\ DOMAIN docs2 = 1..Len(docs) + 1
      /\ \A d \in DOMAIN docs : docs2[d] = docs[d]
      /\ docs2[Len(docs) + 1] = x
  BY <1>1, SeqIs, AppendIs
<1>3. ASSUME NEW d \in DOMAIN docs
      PROVE  ~AreTwins(docs[d], x)
  <2> SUFFICES ASSUME AreTwins(docs[d], x)
               PROVE  FALSE
    OBVIOUS
  <2>1. PICK e \in DOMAIN docs : AreTwins(docs[e], docs[d]) /\ docs[e].digest # None
    BY DEF DigestsTell
  <2>2. docs[e].digest = RenderedBy(docs[e])
    BY <2>1 DEF DigestsTell
  <2>3. docs[e].path = x.path /\ docs[e].digest = x.digest
    BY <2>1, <2>2, Zenon DEF AreTwins
  <2> QED
    BY <2>3
<1>4. ASSUME NEW d \in DOMAIN docs2, docs2[d].digest # None
      PROVE  /\ docs2[d].digest = RenderedBy(docs2[d])
             /\ \A e \in DOMAIN docs2 : e < d => ~AreTwins(docs2[e], docs2[d])
  <2>1. CASE d \in DOMAIN docs
    <3>1. docs[d].digest = RenderedBy(docs[d]) /\ \A e \in DOMAIN docs : e < d => ~AreTwins(docs[e], docs[d])
      BY <1>2, <1>4, <2>1 DEF DigestsTell
    <3>2. \A e \in DOMAIN docs2 : e < d => e \in DOMAIN docs
      BY <1>2, <2>1
    <3> QED
      BY <1>2, <2>1, <3>1, <3>2
  <2>2. CASE d \notin DOMAIN docs
    <3>1. d = Len(docs) + 1 /\ docs2[d] = x
      BY <1>2, <2>2
    <3>2. \A e \in DOMAIN docs2 : e < d => e \in DOMAIN docs
      BY <1>2, <3>1
    <3> QED
      BY <1>2, <1>3, <3>1, <3>2
  <2> QED
    BY <2>1, <2>2
<1>5. ASSUME NEW d \in DOMAIN docs2
      PROVE  \E e \in DOMAIN docs2 : AreTwins(docs2[e], docs2[d]) /\ docs2[e].digest # None
  <2>1. CASE d \in DOMAIN docs
    <3>1. PICK e \in DOMAIN docs : AreTwins(docs[e], docs[d]) /\ docs[e].digest # None
      BY <2>1 DEF DigestsTell
    <3>2. e \in DOMAIN docs2 /\ docs2[e] = docs[e] /\ docs2[d] = docs[d]
      BY <1>2, <2>1
    <3> QED
      BY <3>1, <3>2
  <2>2. CASE d \notin DOMAIN docs
    <3>1. docs2[d] = x
      BY <1>2, <2>2
    <3>2. AreTwins(docs2[d], docs2[d]) /\ docs2[d].digest # None
      BY <3>1 DEF AreTwins
    <3> QED
      BY <3>2
  <2> QED
    BY <2>1, <2>2
<1> QED
  BY <1>1, <1>4, <1>5 DEF DigestsTell

\* A publication of inputs, its membership known, appends a snapshot and its rows to a complete index.
Published(S, S2, D, D2, docs, docs2, m, inputs, current) ==
  /\ S \in Seq(Snapshots) /\ IsBased(S) /\ D \in Seq(Rows) /\ Len(D) = Len(S) /\ D2 \in Seq(Rows)
  /\ Extends(docs, docs2)
  /\ m \in Markers /\ m.row /\ m.complete /\ MembersAreCarried(S, D, docs, m)
  /\ inputs \in Inputs /\ IsMembership(current) /\ ServesInputs(current, inputs, docs2, FALSE)
  /\ S2 = Append(S, [base |-> Len(S), inputs |-> inputs])
  /\ D2 = Append(D, DeltaRows(Chained(S, D)[Len(S)], current))

\* Its deltas lead to what it published, and leave the chains before it alone.
LEMMA SnapshotCarried ==
  ASSUME NEW S, NEW S2, NEW D, NEW D2, NEW docs, NEW docs2, NEW m, NEW inputs, NEW current,
         Published(S, S2, D, D2, docs, docs2, m, inputs, current)
  PROVE  /\ MembersAreCarried(S2, D2, docs2, m)
         /\ S2 \in Seq(Snapshots) /\ IsBased(S2) /\ Len(S2) = Len(D2)
<1>0. /\ S \in Seq(Snapshots) /\ IsBased(S) /\ D \in Seq(Rows) /\ Len(D) = Len(S) /\ D2 \in Seq(Rows)
      /\ Extends(docs, docs2)
      /\ m \in Markers /\ m.row /\ m.complete /\ MembersAreCarried(S, D, docs, m)
      /\ inputs \in Inputs /\ IsMembership(current) /\ ServesInputs(current, inputs, docs2, FALSE)
      /\ S2 = Append(S, [base |-> Len(S), inputs |-> inputs])
      /\ D2 = Append(D, DeltaRows(Chained(S, D)[Len(S)], current))
  BY DEF Published
<1>1. PICK n \in Nat : n = Len(S)
  BY <1>0
<1>2. PICK new \in Snapshots : new = [base |-> Len(S), inputs |-> inputs] /\ new.base = n /\ new.inputs = inputs
  <2>1. PICK new : new = [base |-> Len(S), inputs |-> inputs]
    OBVIOUS
  <2>2. new \in Snapshots /\ new.base = n /\ new.inputs = inputs
    BY <1>0, <1>1, <2>1 DEF Snapshots
  <2> QED
    BY <2>1, <2>2
<1>3. PICK own : own = DeltaRows(Chained(S, D)[n], current)
  OBVIOUS
<1>4. /\ DOMAIN S = 1..n /\ DOMAIN D = 1..n /\ Len(D) = n
      /\ S2 = Append(S, new) /\ D2 = Append(D, own)
  BY <1>0, <1>1, <1>2, <1>3, SeqIs
<1>5. /\ S2 \in Seq(Snapshots) /\ Len(S2) = n + 1 /\ DOMAIN S2 = 1..n + 1
      /\ \A s \in 1..n : S2[s] = S[s]
      /\ S2[n + 1] = new
  BY <1>0, <1>1, <1>4, AppendIs
<1>6. /\ Len(D2) = n + 1 /\ D2[n + 1] = own /\ \A s \in 1..n : D2[s] = D[s]
  BY <1>0, <1>1, <1>4
<1>7. \A s \in 1..n : S[s].base \in 0..(s - 1)
  <2>1. \A s \in 1..n : S[s] \in Snapshots
    BY <1>0, <1>4, SeqIs
  <2>2. \A s \in 1..n : S[s].base \in Nat /\ S[s].base < s
    BY <1>0, <1>4, <2>1 DEF IsBased, Snapshots
  <2> QED
    BY <2>2
<1>8. \A s \in 1..n + 1 : S2[s].base \in 0..(s - 1)
  <2> TAKE s \in 1..n + 1
  <2>1. CASE s \in 1..n
    BY <1>5, <1>7, <2>1
  <2>2. CASE s \notin 1..n
    <3>1. s = n + 1 /\ S2[s].base = n
      BY <1>2, <1>5, <2>2
    <3>2. n \in 0..(s - 1)
      BY <3>1
    <3> QED
      BY <3>1, <3>2
  <2> QED
    BY <2>1, <2>2
<1>9. IsBased(S2)
  BY <1>5, <1>8 DEF IsBased
<1>10. AreBased(S) /\ AreBased(S2) /\ AgreeTo(n, S, D, S2, D2)
  <2>1. AreBased(S)
    BY <1>1, <1>7 DEF AreBased
  <2>2. AreBased(S2)
    BY <1>5, <1>8 DEF AreBased
  <2>3. AgreeTo(n, S, D, S2, D2)
    BY <1>1, <1>5, <1>6 DEF AgreeTo
  <2> QED
    BY <2>1, <2>2, <2>3
<1>11. \A s \in 0..n : Chained(S2, D2)[s] = Chained(S, D)[s]
  BY ONLY <1>10, n \in Nat, ChainedAgrees
<1>12. Chained(S2, D2)[n + 1] = current
  <2>1. n + 1 \in 1..Len(S2) /\ S2[n + 1].base = n /\ n \in 0..n
    BY <1>2, <1>5
  <2>2. Chained(S2, D2)[n + 1] = Over(Chained(S2, D2)[S2[n + 1].base], D2[n + 1])
    BY ONLY <1>10, <2>1, ChainedIs
  <2>3. Chained(S2, D2)[n] = Chained(S, D)[n]
    BY <1>11, <2>1
  <2>4. PICK base : base = Chained(S, D)[n]
    OBVIOUS
  <2>5. Over(base, DeltaRows(base, current)) = current
    BY <1>0, RowsLead DEF IsMembership
  <2> QED
    BY <1>3, <1>6, <2>1, <2>2, <2>3, <2>4, <2>5
<1>13. m.members \in Nat /\ m.members <= n
  BY <1>0, <1>1 DEF MembersAreCarried, Markers
<1>14. ASSUME NEW s \in DOMAIN S2
       PROVE  ServesInputs(Chained(S2, D2)[s], S2[s].inputs, docs2, s <= m.members)
  <2>1. CASE s \in 1..n
    <3>1. PICK files : files = Chained(S, D)[s]
      OBVIOUS
    <3>2. ServesInputs(files, S[s].inputs, docs, s <= m.members)
      BY <1>0, <1>4, <2>1, <3>1 DEF MembersAreCarried
    <3>3. ServesInputs(files, S[s].inputs, docs2, s <= m.members)
      BY <1>0, <3>2 DEF ServesInputs, Extends
    <3>4. Chained(S2, D2)[s] = files /\ S2[s] = S[s]
      BY <1>5, <1>11, <2>1, <3>1
    <3> QED
      BY <3>3, <3>4
  <2>2. CASE s \notin 1..n
    <3>1. s = n + 1 /\ (s <= m.members) = FALSE
      BY <1>5, <1>13, <2>2
    <3>2. Chained(S2, D2)[s] = current /\ S2[s].inputs = inputs
      BY <1>2, <1>5, <1>12, <3>1
    <3> QED
      BY <1>0, <3>1, <3>2
  <2> QED
    BY <2>1, <2>2
<1>15. MembersAreCarried(S2, D2, docs2, m)
  <2>1. m.members <= Len(S2)
    BY <1>5, <1>13
  <2> QED
    BY <1>0, <1>14, <2>1 DEF MembersAreCarried
<1> QED
  BY <1>5, <1>6, <1>9, <1>15

\* The rows from one membership to another are rows of its paths.
LEMMA RowsAre ==
  ASSUME NEW base, DOMAIN base \subseteq Paths, NEW current, DOMAIN current \subseteq Paths,
         \A p \in DOMAIN current : current[p] \in Nat
  PROVE  DeltaRows(base, current) \in Rows
<1>1. PICK ps \in SUBSET Paths : ps = {q \in DOMAIN current : q \notin DOMAIN base \/ base[q] # current[q]} \cup (DOMAIN base \ DOMAIN current)
  OBVIOUS
<1>2. DeltaRows(base, current) = [p \in ps |-> IF p \in DOMAIN current THEN current[p] ELSE None]
  BY <1>1 DEF DeltaRows
<1>3. DeltaRows(base, current) \in [ps -> Nat]
  BY <1>2 DEF None
<1> QED
  BY <1>3 DEF Rows

\* The documents stored for a path's rendering, and the membership a publication finds.
StoredFor(docs, p, h) == {d \in DOMAIN docs : docs[d].path = p /\ docs[d].digest = Rendering[<<p, h>>]}
CurrentOf(docs, inputs) ==
  [p \in DOMAIN inputs |-> IF StoredFor(docs, p, inputs[p]) = {} THEN Len(docs) + 1 ELSE Min(StoredFor(docs, p, inputs[p]))]

LEMMA PublishIs ==
  ASSUME OpenInv, NEW o \in Openers, NEW inputs \in Inputs, Publish(o, inputs)
  PROVE  /\ opener[o].step = "open"
         /\ UNCHANGED <<catalog, roots, membership, opener, reader>> /\ stops' = stops + 1
         /\ snapshots' = Append(snapshots, [base |-> Len(snapshots), inputs |-> inputs])
         /\ deltas' = Append(deltas, DeltaRows(Effective[Len(snapshots)], CurrentOf(documents, inputs)))
         /\ stats' = Append(stats, Counts(Sources(Len(snapshots)), [p \in DOMAIN inputs |-> Revision[<<p, inputs[p]>>]]))
         /\ \/ /\ documents' = documents
               /\ \A p \in DOMAIN inputs : StoredFor(documents, p, inputs[p]) # {}
            \/ \E q \in DOMAIN inputs :
                 /\ documents' = Append(documents, [path |-> q, hash |-> inputs[q], digest |-> Rendering[<<q, inputs[q]>>]])
                 /\ StoredFor(documents, q, inputs[q]) = {}
                 /\ \A p \in DOMAIN inputs : StoredFor(documents, p, inputs[p]) = {} => p = q
<1> DEFINE stored(p) == {d \in DOMAIN documents : documents[d].path = p /\ documents[d].digest = Rendering[<<p, inputs[p]>>]}
           new == {p \in DOMAIN inputs : stored(p) = {}}
           found == [p \in DOMAIN inputs |-> IF p \in new THEN Len(documents) + 1 ELSE Min(stored(p))]
           added == IF new = {} THEN <<>> ELSE
                  LET p == CHOOSE q \in new : TRUE IN <<[path |-> p, hash |-> inputs[p], digest |-> Rendering[<<p, inputs[p]>>]]>>
<1>1. /\ opener[o].step = "open" /\ stops' = stops + 1
      /\ catalog' = catalog /\ roots' = roots /\ membership' = membership /\ opener' = opener /\ reader' = reader
      /\ snapshots' = Append(snapshots, [base |-> Len(snapshots), inputs |-> inputs])
      /\ stats' = Append(stats, Counts(Sources(Len(snapshots)), [p \in DOMAIN inputs |-> Revision[<<p, inputs[p]>>]]))
  BY Zenon DEF Publish, At
<1>2. Cardinality(new) <= 1 /\ documents' = documents \o added
  BY Zenon DEF Publish
<1>3. deltas' = Append(deltas, DeltaRows(Effective[Len(snapshots)], found))
  BY Zenon DEF Publish
<1>4. \A p \in DOMAIN inputs : stored(p) = StoredFor(documents, p, inputs[p])
  BY DEF StoredFor
<1>5. \A p : p \in new <=> p \in DOMAIN inputs /\ StoredFor(documents, p, inputs[p]) = {}
  BY <1>4
<1>6. found = CurrentOf(documents, inputs)
  <2> HIDE DEF new, stored
  <2>1. \A p \in DOMAIN inputs : (IF p \in new THEN Len(documents) + 1 ELSE Min(stored(p)))
                               = IF StoredFor(documents, p, inputs[p]) = {} THEN Len(documents) + 1 ELSE Min(StoredFor(documents, p, inputs[p]))
    BY <1>4, <1>5
  <2> QED
    BY <2>1, Zenon DEF CurrentOf
<1>7. documents \in Seq(Documents)
  BY DEF OpenInv, OpenTypes
<1>8. IsFiniteSet(new)
  <2>1. IsFiniteSet(DOMAIN inputs) /\ new \subseteq DOMAIN inputs
    BY InputsAre
  <2> HIDE DEF new
  <2> QED
    BY <2>1, FS_Subset
<1> HIDE DEF stored, found
<1>9. CASE new = {}
  <2>1. documents' = documents \o <<>>
    BY <1>2, <1>9
  <2>2. documents' = documents
    BY <1>7, <2>1
  <2>3. \A p \in DOMAIN inputs : StoredFor(documents, p, inputs[p]) # {}
    <3> HIDE DEF new
    <3> QED
      BY <1>5, <1>9
  <2> QED
    BY <1>1, <1>3, <1>6, <2>2, <2>3
<1>10. CASE new # {}
  <2>1. PICK q \in new : q = CHOOSE p \in new : TRUE
    <3> HIDE DEF new
    <3> QED
      BY <1>10
  <2>2. PICK row : row = [path |-> q, hash |-> inputs[q], digest |-> Rendering[<<q, inputs[q]>>]]
    OBVIOUS
  <2> HIDE DEF new
  <2>3. documents' = documents \o <<row>>
    BY <1>2, <1>10, <2>1, <2>2, Zenon
  <2>4. row \in Documents
    <3>1. q \in DOMAIN inputs
      BY <1>5, <2>1
    <3>2. q \in Paths /\ inputs[q] \in Hashes
      BY <3>1, InputsAre
    <3>3. <<q, inputs[q]>> \in Paths \X Hashes
      BY <3>2
    <3>4. Rendering[<<q, inputs[q]>>] \in Nat
      BY <3>3, OpenConstants
    <3> QED
      BY <2>2, <3>2, <3>4 DEF Documents
  <2>5. documents' = Append(documents, row)
    BY <1>7, <2>3, <2>4, ConcatIs
  <2>6. q \in DOMAIN inputs /\ StoredFor(documents, q, inputs[q]) = {}
    BY <1>5, <2>1
  <2>7. \A p \in DOMAIN inputs : StoredFor(documents, p, inputs[p]) = {} => p = q
    <3>1. new = {q}
      BY <1>2, <1>8, <2>1, AtMostOne
    <3> QED
      BY <1>5, <3>1
  <2>8. \E r \in DOMAIN inputs :
                 /\ documents' = Append(documents, [path |-> r, hash |-> inputs[r], digest |-> Rendering[<<r, inputs[r]>>]])
                 /\ StoredFor(documents, r, inputs[r]) = {}
                 /\ \A p \in DOMAIN inputs : StoredFor(documents, p, inputs[p]) = {} => p = r
    BY <2>2, <2>5, <2>6, <2>7, Zenon
  <2> QED
    BY <1>1, <1>3, <1>6, <2>8, Zenon
<1> QED
  BY <1>9, <1>10

\* What a publication finds or adds serves its inputs.
AddedServes(docs, docs2, inputs) ==
  \A p \in DOMAIN inputs : StoredFor(docs, p, inputs[p]) = {} =>
    /\ Len(docs) + 1 \in DOMAIN docs2 /\ docs2[Len(docs) + 1].path = p
    /\ RenderedBy(docs2[Len(docs) + 1]) = Rendering[<<p, inputs[p]>>]

LEMMA CurrentServes ==
  ASSUME NEW docs \in Seq(Documents), NEW docs2, Extends(docs, docs2), NEW m, DigestsTell(docs, m),
         NEW inputs \in Inputs, AddedServes(docs, docs2, inputs), NEW current, current = CurrentOf(docs, inputs)
  PROVE  ServesInputs(current, inputs, docs2, FALSE) /\ DOMAIN current = DOMAIN inputs /\ IsMembership(current)
<1>1. current = [p \in DOMAIN current |-> current[p]] /\ DOMAIN current = DOMAIN inputs
  BY DEF CurrentOf
<1>2. Len(docs) \in Nat /\ DOMAIN docs = 1..Len(docs)
  BY SeqIs
<1>3. ASSUME NEW p \in DOMAIN inputs
      PROVE  /\ current[p] \in DOMAIN docs2 /\ docs2[current[p]].path = p
             /\ RenderedBy(docs2[current[p]]) = Rendering[<<p, inputs[p]>>]
             /\ current[p] \in Nat /\ current[p] # None
  <2>1. CASE StoredFor(docs, p, inputs[p]) = {}
    <3>1. current[p] = Len(docs) + 1
      BY <2>1 DEF CurrentOf
    <3> QED
      BY <1>2, <2>1, <3>1 DEF None, AddedServes
  <2>2. CASE StoredFor(docs, p, inputs[p]) # {}
    <3>1. current[p] = Min(StoredFor(docs, p, inputs[p]))
      BY <2>2 DEF CurrentOf
    <3>2. StoredFor(docs, p, inputs[p]) \in SUBSET Nat
      BY <1>2 DEF StoredFor
    <3>3. current[p] \in StoredFor(docs, p, inputs[p])
      BY <2>2, <3>1, <3>2, MinIs
    <3>4. current[p] \in DOMAIN docs /\ docs[current[p]].path = p /\ docs[current[p]].digest = Rendering[<<p, inputs[p]>>]
      BY <3>3 DEF StoredFor
    <3>5. Rendering[<<p, inputs[p]>>] # None
      <4>1. <<p, inputs[p]>> \in Paths \X Hashes
        BY InputsAre
      <4> QED
        BY <4>1, OpenConstants
    <3>6. RenderedBy(docs[current[p]]) = Rendering[<<p, inputs[p]>>]
      BY <3>4, <3>5 DEF DigestsTell
    <3>7. current[p] \in DOMAIN docs2 /\ docs2[current[p]] = docs[current[p]]
      BY <3>4 DEF Extends
    <3>8. current[p] \in Nat /\ current[p] # None
      BY <1>2, <3>4 DEF None
    <3> QED
      BY <3>4, <3>6, <3>7, <3>8
  <2> QED
    BY <2>1, <2>2
<1>4. ServesInputs(current, inputs, docs2, FALSE)
  BY <1>1, <1>3 DEF ServesInputs
<1> QED
  BY <1>1, <1>3, <1>4 DEF IsMembership

\* Sources of the snapshots before are the same, and a publication counts from its own.
CountsPublished(S, S2, st, st2, inputs) ==
  /\ S2 = Append(S, [base |-> Len(S), inputs |-> inputs])
  /\ st2 = Append(st, Counts(SourcesOf(S, Len(S)), [p \in DOMAIN inputs |-> Revision[<<p, inputs[p]>>]]))
AllCounted(S, st) == \A s \in DOMAIN S : CountsAreOf(S, st, s)
LEMMA CountsFollow ==
  ASSUME NEW S \in Seq(Snapshots), AreBased(S),
         NEW st \in Seq(Tallies), Len(st) = Len(S), AllCounted(S, st),
         NEW inputs \in Inputs, NEW S2, NEW st2, CountsPublished(S, S2, st, st2, inputs)
  PROVE  /\ AllCounted(S2, st2)
         /\ IsFiniteSet(DOMAIN SourcesOf(S, Len(S))) => st2 \in Seq(Tallies) /\ Len(st2) = Len(S2)
<1>1. PICK n \in Nat : n = Len(S)
  OBVIOUS
<1>2. PICK new \in Snapshots : new = [base |-> Len(S), inputs |-> inputs] /\ new.base = n /\ new.inputs = inputs
  <2>1. PICK new : new = [base |-> Len(S), inputs |-> inputs]
    OBVIOUS
  <2>2. new \in Snapshots /\ new.base = n /\ new.inputs = inputs
    BY <1>1, <2>1 DEF Snapshots
  <2> QED
    BY <2>1, <2>2
<1>3. PICK files : files = [p \in DOMAIN inputs |-> Revision[<<p, inputs[p]>>]]
  OBVIOUS
<1>4. PICK tally : tally = Counts(SourcesOf(S, n), files)
  OBVIOUS
<1>5. DOMAIN S = 1..n /\ DOMAIN st = 1..n /\ S2 = Append(S, new) /\ st2 = Append(st, tally)
  BY <1>1, <1>2, <1>3, <1>4, SeqIs DEF CountsPublished
<1>6. /\ Len(S2) = n + 1 /\ DOMAIN S2 = 1..n + 1 /\ S2[n + 1] = new
      /\ \A s \in 1..n : S2[s] = S[s]
  BY <1>1, <1>5, AppendIs
<1>7. st2[n + 1] = tally /\ \A s \in 1..n : st2[s] = st[s]
  BY <1>1, <1>5
<1>8. \A s \in 0..n : SourcesOf(S2, s) = SourcesOf(S, s)
  <2> TAKE s \in 0..n
  <2>1. CASE s = 0
    BY <2>1 DEF SourcesOf
  <2>2. CASE s # 0
    <3>1. S2[s] = S[s]
      BY <1>6, <2>2
    <3> QED
      BY <3>1 DEF SourcesOf
  <2> QED
    BY <2>1, <2>2
<1>9. SourcesOf(S2, n + 1) = files
  <2>1. n + 1 # 0 /\ S2[n + 1].inputs = inputs
    BY <1>2, <1>6
  <2> QED
    BY <1>3, <2>1 DEF SourcesOf
<1>10. ASSUME NEW s \in DOMAIN S2
       PROVE  CountsAreOf(S2, st2, s)
  <2>1. CASE s \in 1..n
    <3>1. S[s].base \in 0..n /\ s \in 0..n
      BY <1>1, <2>1 DEF AreBased
    <3>2. PICK b \in 0..n : b = S[s].base
      BY <3>1
    <3>3. SourcesOf(S2, b) = SourcesOf(S, b) /\ SourcesOf(S2, s) = SourcesOf(S, s)
      BY <1>8, <3>1
    <3>4. S2[s].base = b /\ st2[s] = st[s]
      BY <1>6, <1>7, <2>1, <3>2
    <3>5. CountsAreOf(S, st, s)
      BY <1>5, <2>1 DEF AllCounted
    <3> QED
      BY <3>2, <3>3, <3>4, <3>5 DEF CountsAreOf
  <2>2. CASE s \notin 1..n
    <3>1. s = n + 1 /\ n \in 0..n
      BY <1>6, <2>2
    <3>2. S2[s].base = n /\ st2[s] = tally
      BY <1>2, <1>6, <1>7, <3>1
    <3>3. SourcesOf(S2, n) = SourcesOf(S, n)
      BY <1>8, <3>1
    <3> QED
      BY <1>4, <1>9, <3>1, <3>2, <3>3 DEF CountsAreOf
  <2> QED
    BY <2>1, <2>2
<1>11. IsFiniteSet(DOMAIN SourcesOf(S, Len(S))) => st2 \in Seq(Tallies) /\ Len(st2) = Len(S2)
  <2> SUFFICES ASSUME IsFiniteSet(DOMAIN SourcesOf(S, Len(S)))
               PROVE  st2 \in Seq(Tallies) /\ Len(st2) = Len(S2)
    OBVIOUS
  <2>1. IsFiniteSet(DOMAIN files)
    BY <1>3, InputsAre
  <2>2. PICK base : base = SourcesOf(S, n)
    OBVIOUS
  <2>3. tally \in Tallies
    BY <1>1, <1>4, <2>1, <2>2, CountsAre
  <2> QED
    BY <1>1, <1>5, <1>6, <2>3, AppendIs
<1> QED
  BY <1>10, <1>11 DEF AllCounted

LEMMA PublishKeeps ==
  ASSUME OpenInv, OneOpener, NEW o \in Openers, NEW ps \in SUBSET Paths, NEW inputs \in [ps -> Hashes],
         Publish(o, inputs)
  PROVE  OpenInv'
<1>0. inputs \in Inputs
  BY DEF Inputs
<1>1. PICK current : current = CurrentOf(documents, inputs)
  OBVIOUS
<1>2. PICK files : files = [p \in DOMAIN inputs |-> Revision[<<p, inputs[p]>>]]
  OBVIOUS
<1>3. PICK n : n = Len(snapshots)
  OBVIOUS
<1>4. /\ opener[o].step = "open"
      /\ UNCHANGED <<catalog, roots, membership, opener, reader>> /\ stops' = stops + 1
      /\ snapshots' = Append(snapshots, [base |-> n, inputs |-> inputs])
      /\ deltas' = Append(deltas, DeltaRows(Chained(snapshots, deltas)[n], current))
      /\ stats' = Append(stats, Counts(SourcesOf(snapshots, n), files))
  BY <1>0, <1>1, <1>2, <1>3, PublishIs, TablesSay
<1>5. \/ /\ documents' = documents
         /\ \A p \in DOMAIN inputs : StoredFor(documents, p, inputs[p]) # {}
      \/ \E q \in DOMAIN inputs :
           /\ documents' = Append(documents, [path |-> q, hash |-> inputs[q], digest |-> Rendering[<<q, inputs[q]>>]])
           /\ StoredFor(documents, q, inputs[q]) = {}
           /\ \A p \in DOMAIN inputs : StoredFor(documents, p, inputs[p]) = {} => p = q
  BY <1>0, PublishIs
<1>6. /\ OpenTypes /\ catalog \in Catalogs /\ opener[o] \in Openings /\ membership \in Markers
      /\ CatalogTells(catalog, Len(snapshots)) /\ RootsAreNumbered(catalog, roots)
      /\ DigestsTell(documents, membership)
      /\ MembersAreCarried(snapshots, deltas, documents, membership)
      /\ \A s \in DOMAIN snapshots : CountsAreOf(snapshots, stats, s)
      /\ OpenerKnows(opener[o], catalog, documents, membership, Len(snapshots))
  BY OpenIs
<1>7. /\ membership.row /\ membership.complete
      /\ catalog.layout = "ours" /\ ~catalog.shapeFP /\ catalog.modules /\ catalog.ordinal /\ catalog.layout # "other"
  BY <1>4, <1>6 DEF OpenerKnows, Opening
<1>8. /\ documents \in Seq(Documents) /\ snapshots \in Seq(Snapshots) /\ IsBased(snapshots)
      /\ deltas \in Seq(Rows) /\ Len(deltas) = n /\ stats \in Seq(Tallies) /\ Len(stats) = n
      /\ n \in Nat /\ DOMAIN snapshots = 1..n
  BY <1>3, <1>6, SnapshotIs DEF OpenTypes
<1>9. /\ documents' \in Seq(Documents) /\ DigestsTell(documents', membership) /\ Extends(documents, documents')
      /\ AddedServes(documents, documents', inputs)
  <2>1. CASE /\ documents' = documents
             /\ \A p \in DOMAIN inputs : StoredFor(documents, p, inputs[p]) # {}
    BY <1>6, <1>8, <2>1 DEF Extends, AddedServes
  <2>2. ASSUME NEW q \in DOMAIN inputs,
               documents' = Append(documents, [path |-> q, hash |-> inputs[q], digest |-> Rendering[<<q, inputs[q]>>]]),
               StoredFor(documents, q, inputs[q]) = {},
               \A p \in DOMAIN inputs : StoredFor(documents, p, inputs[p]) = {} => p = q
        PROVE  /\ documents' \in Seq(Documents) /\ DigestsTell(documents', membership) /\ Extends(documents, documents')
               /\ AddedServes(documents, documents', inputs)
    <3>1. q \in Paths /\ inputs[q] \in Hashes
      BY <1>0, InputsAre
    <3>2. <<q, inputs[q]>> \in Paths \X Hashes
      BY <3>1
    <3>3. Rendering[<<q, inputs[q]>>] \in Nat \ {None}
      BY <3>2, OpenConstants
    <3>4. PICK row : row = [path |-> q, hash |-> inputs[q], digest |-> Rendering[<<q, inputs[q]>>]]
      OBVIOUS
    <3>5. /\ row \in Documents /\ row.path = q /\ row.digest = Rendering[<<q, inputs[q]>>] /\ row.digest # None
          /\ RenderedBy(row) = Rendering[<<q, inputs[q]>>]
      BY <3>1, <3>3, <3>4 DEF Documents, RenderedBy
    <3>6. documents' = Append(documents, row)
      BY <2>2, <3>4, Zenon
    <3>7. \A d \in DOMAIN documents : ~(documents[d].path = row.path /\ documents[d].digest = row.digest)
      BY <2>2, <3>5 DEF StoredFor
    <3>8. DigestsTell(documents', membership)
      <4>1. DigestsTell(Append(documents, row), membership)
        BY <1>6, <1>7, <1>8, <3>5, <3>7, DocumentAdded
      <4> QED
        BY <3>6, <4>1
    <3>9. /\ documents' \in Seq(Documents) /\ DOMAIN documents' = 1..Len(documents) + 1 /\ Len(documents) \in Nat
          /\ \A d \in DOMAIN documents : documents'[d] = documents[d]
          /\ documents'[Len(documents) + 1] = row /\ DOMAIN documents = 1..Len(documents)
      BY <1>8, <3>5, <3>6, AppendIs, SeqIs
    <3>10. Extends(documents, documents') /\ Len(documents) + 1 \in DOMAIN documents'
      BY <3>9 DEF Extends
    <3> QED
      BY <2>2, <3>5, <3>8, <3>9, <3>10 DEF AddedServes
  <2> QED
    BY <1>5, <2>1, <2>2
<1>10. ServesInputs(current, inputs, documents', FALSE) /\ DOMAIN current = DOMAIN inputs /\ IsMembership(current)
  <2>1. PICK docs2 : docs2 = documents'
    OBVIOUS
  <2>2. /\ documents \in Seq(Documents) /\ Extends(documents, docs2) /\ DigestsTell(documents, membership)
        /\ inputs \in Inputs /\ AddedServes(documents, docs2, inputs)
    BY <1>0, <1>6, <1>8, <1>9, <2>1
  <2>3. ServesInputs(current, inputs, docs2, FALSE) /\ DOMAIN current = DOMAIN inputs /\ IsMembership(current)
    BY ONLY <1>1, <2>2, CurrentServes, Zenon
  <2> QED
    BY <2>1, <2>3
<1>11. PICK base : base = Chained(snapshots, deltas)[n]
  OBVIOUS
<1>12. deltas' \in Seq(Rows)
  <2>1. DOMAIN base \subseteq Paths
    <3>1. CASE n = 0
      <4>1. AreBased(snapshots)
        BY <1>3, <1>6, SnapshotIs DEF AreBased
      <4>2. base = <<>> /\ DOMAIN <<>> = {}
        BY <1>11, <3>1, <4>1, ChainedIs
      <4> QED
        BY <4>2
    <3>2. CASE n # 0
      <4>1. n \in DOMAIN snapshots
        BY <1>8, <3>2
      <4>2. ServesInputs(base, snapshots[n].inputs, documents, n <= membership.members)
        BY <1>6, <1>7, <1>11, <4>1 DEF MembersAreCarried
      <4>3. DOMAIN base = DOMAIN snapshots[n].inputs /\ snapshots[n].inputs \in Inputs
        BY <1>6, <4>1, <4>2, SnapshotIs DEF ServesInputs
      <4> QED
        BY <4>3, InputsAre
    <3> QED
      BY <3>1, <3>2
  <2>2. DOMAIN current \subseteq Paths
    BY <1>0, <1>10, InputsAre
  <2>3. DeltaRows(base, current) \in Rows
    BY <1>10, <2>1, <2>2, RowsAre DEF IsMembership
  <2> QED
    BY <1>4, <1>8, <1>11, <2>3, AppendIs
<1>13. /\ MembersAreCarried(snapshots', deltas', documents', membership)
       /\ snapshots' \in Seq(Snapshots) /\ IsBased(snapshots') /\ Len(snapshots') = Len(deltas')
  <2>1. PICK docs2 : docs2 = documents'
    OBVIOUS
  <2>2. PICK S2 : S2 = snapshots'
    OBVIOUS
  <2>3. PICK D2 : D2 = deltas'
    OBVIOUS
  <2>4. Published(snapshots, S2, deltas, D2, documents, docs2, membership, inputs, current)
    BY <1>0, <1>3, <1>4, <1>6, <1>7, <1>8, <1>9, <1>10, <1>12, <2>1, <2>2, <2>3 DEF Published
  <2>5. /\ MembersAreCarried(S2, D2, docs2, membership)
        /\ S2 \in Seq(Snapshots) /\ IsBased(S2) /\ Len(S2) = Len(D2)
    BY ONLY <2>4, SnapshotCarried
  <2> QED
    BY <2>1, <2>2, <2>3, <2>5
<1>14. /\ \A s \in DOMAIN snapshots' : CountsAreOf(snapshots', stats', s)
       /\ stats' \in Seq(Tallies) /\ Len(stats') = Len(snapshots')
  <2>1. PICK S2 : S2 = snapshots'
    OBVIOUS
  <2>2. PICK st2 : st2 = stats'
    OBVIOUS
  <2>3. IsFiniteSet(DOMAIN SourcesOf(snapshots, Len(snapshots)))
    <3>1. CASE n = 0
      <4>1. SourcesOf(snapshots, n) = <<>> /\ DOMAIN <<>> = {}
        BY <3>1 DEF SourcesOf
      <4> QED
        BY <1>3, <4>1, FS_EmptySet
    <3>2. CASE n # 0
      <4>1. n \in DOMAIN snapshots
        BY <1>8, <3>2
      <4> QED
        BY <1>3, <1>6, <4>1, SourcesAre
    <3> QED
      BY <3>1, <3>2
  <2>4. /\ snapshots \in Seq(Snapshots) /\ AreBased(snapshots) /\ AllCounted(snapshots, stats)
        /\ stats \in Seq(Tallies) /\ inputs \in Inputs
    BY <1>0, <1>6, <1>8, SnapshotIs DEF AreBased, AllCounted
  <2>5. CountsPublished(snapshots, S2, stats, st2, inputs) /\ Len(stats) = Len(snapshots)
    BY <1>2, <1>3, <1>4, <1>8, <2>1, <2>2 DEF CountsPublished
  <2>6. AllCounted(S2, st2) /\ st2 \in Seq(Tallies) /\ Len(st2) = Len(S2)
    BY ONLY <2>3, <2>4, <2>5, CountsFollow
  <2> QED
    BY <2>1, <2>2, <2>6 DEF AllCounted
<1>15. OpenTypes'
  BY <1>4, <1>6, <1>9, <1>12, <1>13, <1>14 DEF OpenTypes
<1>16. CatalogTells(catalog', Len(snapshots')) /\ RootsAreNumbered(catalog', roots')
  <2>1. Generation(catalog) = "current"
    BY <1>6, <1>7, GenerationIs
  <2>2. CatalogTells(catalog, Len(snapshots'))
    BY <1>7, <2>1 DEF CatalogTells, Stale
  <2> QED
    BY <1>4, <1>6, <2>2
<1>17. OpenerKnows(opener[o], catalog, documents', membership, Len(snapshots'))
  BY <1>4, <1>7 DEF OpenerKnows, Opening
<1>18. \A p \in Openers : OpenerKnows(opener'[p], catalog', documents', membership', Len(snapshots'))
  <2>1. \A p \in Openers : opener'[p] = opener[o]
    BY <1>4 DEF OneOpener
  <2> QED
    BY <1>4, <1>17, <2>1
<1>19. \A r \in Readers : MayRead(reader'[r], membership', Len(snapshots'))
  BY <1>4, <1>7 DEF MayRead
<1>20. TablesTell'
  BY <1>4, <1>9, <1>13, <1>14 DEF TablesTell
<1> QED
  BY <1>15, <1>16, <1>18, <1>19, <1>20 DEF OpenInv

-----------------------------------------------------------------------------
(* Markers, and the two together.                                          *)

\* No marker is past the last document, and an opener about to discard has read none.
MarkersFit ==
  /\ membership.digested <= Len(documents)
  /\ \A o \in Openers :
       /\ opener[o].marker.digested <= Len(documents)
       /\ opener[o].step = "discard" => opener[o].marker = NoMembership

\* Steps that digest nothing.
LEMMA MarkersStay ==
  ASSUME OpenInv, OpenInv', OneOpener, MarkersFit, NEW o \in Openers, Len(documents') >= Len(documents),
         membership'.digested = membership.digested,
         \/ opener' = opener
         \/ opener' = [opener EXCEPT ![o] = Idle]
         \/ \E step \in Places \ {"discard"} : Go(o, step)
  PROVE  MarkersFit'
<1>1. /\ Len(documents) \in Nat /\ Len(documents') \in Nat /\ membership.digested \in Nat
      /\ \A p \in Openers : opener[p].marker.digested \in Nat /\ opener[p] \in Openings
  <2>1. OpenTypes /\ documents' \in Seq(Documents) /\ membership \in Markers
    BY DEF OpenInv, OpenTypes
  <2>2. Len(documents) \in Nat /\ Len(documents') \in Nat
    BY <2>1, SeqIs DEF OpenTypes
  <2>3. \A p \in Openers : opener[p] \in Openings
    BY <2>1 DEF OpenTypes
  <2>4. \A p \in Openers : opener[p].marker \in Markers
    BY <2>3 DEF Openings
  <2> QED
    BY <2>1, <2>2, <2>3, <2>4 DEF Markers
<1>2. membership'.digested <= Len(documents')
  BY <1>1 DEF MarkersFit
<1>3. \A p \in Openers : opener[p].marker.digested <= Len(documents')
  BY <1>1 DEF MarkersFit
<1>4. OpenTypes /\ NoMembership.digested = 0 /\ Idle.marker = NoMembership /\ Idle.step = "idle"
  BY DEF OpenInv, NoMembership, Idle
<1>5. CASE opener' = opener
  BY <1>2, <1>3, <1>5 DEF MarkersFit
<1>6. CASE opener' = [opener EXCEPT ![o] = Idle]
  <2>1. \A p \in Openers : opener'[p] = Idle
    <3>1. \A p \in Openers : p = o
      BY DEF OneOpener
    <3>2. opener'[o] = Idle
      BY <1>4, <1>6 DEF OpenTypes
    <3> QED
      BY <3>1, <3>2
  <2> QED
    BY <1>1, <1>2, <1>4, <2>1 DEF MarkersFit
<1>7. ASSUME NEW step \in Places \ {"discard"}, Go(o, step)
      PROVE  MarkersFit'
  <2>1. PICK y \in Openings : /\ \A p \in Openers : opener'[p] = y
                              /\ y.step = step /\ y.marker = opener[o].marker
    BY <1>4, <1>7, OpenerGoes
  <2> QED
    BY <1>2, <1>3, <1>7, <2>1 DEF MarkersFit
<1> QED
  BY <1>5, <1>6, <1>7

LEMMA OpenInvSteps ==
  ASSUME OpenInv, OneOpener, [OpenNext]_openVars
  PROVE  OpenInv'
<1>1. CASE UNCHANGED openVars
  BY <1>1 DEF openVars, OpenInv, OpenTypes, TablesTell
<1>2. ASSUME NEW r \in Readers, ReadGeneration(r) \/ RequireMembership(r) \/ CloseReader(r)
      PROVE  OpenInv'
  BY <1>2, ReaderKeeps
<1>3. ASSUME NEW o \in Openers, NEW ps \in SUBSET Paths, NEW inputs \in [ps -> Hashes], Publish(o, inputs)
      PROVE  OpenInv'
  BY <1>3, PublishKeeps
<1>4. ASSUME NEW o \in Openers, Detect(o) \/ Register(o) \/ Stop(o)
      PROVE  OpenInv'
  BY <1>4, DetectKeeps, RegisterKeeps, StopKeeps
<1>5. ASSUME NEW o \in Openers, Discard(o) \/ Migrate(o) \/ RecordLayout(o) \/ StartMembership(o)
      PROVE  OpenInv'
  BY <1>5, DiscardKeeps, MigrateKeeps, RecordLayoutKeeps, StartMembershipKeeps
<1>6. ASSUME NEW o \in Openers, DigestBatchStep(o) \/ MemberStep(o) \/ CompleteMembership(o) \/ BackfillStats(o)
      PROVE  OpenInv'
  BY <1>6, DigestBatchStepKeeps, MemberStepKeeps, CompleteMembershipKeeps, BackfillStatsKeeps
<1> QED
  BY <1>1, <1>2, <1>3, <1>4, <1>5, <1>6 DEF OpenNext, OpenStep

LEMMA MarkersFitSteps ==
  ASSUME OpenInv, OpenInv', OneOpener, MarkersFit, [OpenNext]_openVars
  PROVE  MarkersFit'
<1>0. /\ OpenTypes /\ documents \in Seq(Documents) /\ documents' \in Seq(Documents)
      /\ Len(documents) \in Nat /\ Len(documents') \in Nat /\ membership \in Markers
      /\ DOMAIN documents = 1..Len(documents) /\ DOMAIN documents' = 1..Len(documents')
      /\ \A o \in Openers : opener[o] \in Openings
  <2>1. OpenTypes /\ documents \in Seq(Documents) /\ documents' \in Seq(Documents) /\ membership \in Markers
        /\ \A o \in Openers : opener[o] \in Openings
    BY DEF OpenInv, OpenTypes
  <2> QED
    BY <2>1, SeqIs
<1>1. CASE UNCHANGED openVars
  BY <1>1 DEF openVars, MarkersFit
<1>2. ASSUME NEW r \in Readers, ReadGeneration(r) \/ RequireMembership(r) \/ CloseReader(r)
      PROVE  MarkersFit'
  BY <1>2 DEF ReadGeneration, RequireMembership, CloseReader, MarkersFit, indexTables
<1>3. ASSUME NEW o \in Openers, NEW ps \in SUBSET Paths, NEW inputs \in [ps -> Hashes], Publish(o, inputs)
      PROVE  MarkersFit'
  <2>1. inputs \in Inputs
    BY DEF Inputs
  <2>2. membership' = membership /\ opener' = opener
    BY <1>3 DEF Publish
  <2>3. documents' = documents \/ \E row : documents' = Append(documents, row)
    BY <1>3, <2>1, PublishIs
  <2>4. Len(documents') >= Len(documents)
    <3>1. CASE documents' = documents
      BY <1>0, <3>1
    <3>2. ASSUME NEW row, documents' = Append(documents, row)
          PROVE  Len(documents') >= Len(documents)
      <4>1. documents \in Seq(Documents \cup {row})
        BY <1>0
      <4>2. Len(documents') = Len(documents) + 1
        BY <3>2, <4>1, AppendIs
      <4> QED
        BY <1>0, <4>2
    <3> QED
      BY <2>3, <3>1, <3>2
  <2> QED
    BY <2>2, <2>4, MarkersStay
<1>4. ASSUME NEW o \in Openers, Register(o) \/ Stop(o)
      PROVE  MarkersFit'
  <2>1. documents' = documents /\ membership' = membership /\ (opener' = opener \/ opener' = [opener EXCEPT ![o] = Idle])
    BY <1>4 DEF Register, Stop, indexTables
  <2> QED
    BY <1>0, <2>1, MarkersStay
<1>5. ASSUME NEW o \in Openers, Migrate(o) \/ RecordLayout(o) \/ CompleteMembership(o) \/ BackfillStats(o)
      PROVE  MarkersFit'
  <2>1. documents' = documents /\ membership'.digested = membership.digested
    BY <1>0, <1>5 DEF Migrate, RecordLayout, CompleteMembership, BackfillStats, indexTables, Markers
  <2>2. opener' = opener \/ \E step \in {"layout", "marker", "stats", "open"} : Go(o, step)
    BY <1>5 DEF Migrate, RecordLayout, CompleteMembership, BackfillStats
  <2>3. {"layout", "marker", "stats", "open"} \subseteq Places \ {"discard"}
    BY DEF Places
  <2>4. opener' = opener \/ \E step \in Places \ {"discard"} : Go(o, step)
    BY <2>2, <2>3
  <2> QED
    BY <1>0, <2>1, <2>4, MarkersStay
<1>6. ASSUME NEW o \in Openers, Detect(o)
      PROVE  MarkersFit'
  <2>1. PICK g : g = Generation(catalog)
    OBVIOUS
  <2>2. PICK y : y = [Idle EXCEPT !.generation = g,
                       !.step = IF g = "error" THEN "failed" ELSE IF g \in Stale THEN "discard" ELSE "migrate"]
    OBVIOUS
  <2>3. opener' = [opener EXCEPT ![o] = y] /\ documents' = documents /\ membership' = membership
    BY <1>6, <2>1, <2>2 DEF Detect, indexTables
  <2>4. y.marker = NoMembership /\ NoMembership.digested = 0
    BY <2>2 DEF Idle, NoMembership
  <2>5. \A p \in Openers : opener'[p] = y
    <3>1. opener'[o] = y
      BY <1>0, <2>3 DEF OpenTypes
    <3> QED
      BY <3>1 DEF OneOpener
  <2> QED
    BY <1>0, <2>3, <2>4, <2>5 DEF MarkersFit
<1>7. ASSUME NEW o \in Openers, Discard(o)
      PROVE  MarkersFit'
  <2>1. /\ membership' = NoMembership /\ opener[o].marker = NoMembership /\ NoMembership.digested = 0
        /\ Go(o, "migrate")
    BY <1>7 DEF Discard, MarkersFit, At, NoMembership
  <2>2. "migrate" \in Places
    BY DEF Places
  <2>3. PICK y \in Openings : /\ \A p \in Openers : opener'[p] = y
                              /\ y.step = "migrate" /\ y.marker = NoMembership
    BY <1>0, <2>1, <2>2, OpenerGoes
  <2> QED
    BY <1>0, <2>1, <2>3 DEF MarkersFit
<1>8. ASSUME NEW o \in Openers, StartMembership(o)
      PROVE  MarkersFit'
  <2>1. PICK m : m = IF membership.row THEN membership
                     ELSE [NoMembership EXCEPT !.row = TRUE, !.complete = (documents = <<>> /\ snapshots = <<>>)]
    OBVIOUS
  <2>2. PICK place : place = IF m.complete THEN "stats" ELSE "digest"
    OBVIOUS
  <2>3. /\ membership' = m /\ documents' = documents
        /\ opener' = [opener EXCEPT ![o].marker = m, ![o].seen = Digested(documents), ![o].step = place]
    BY <1>8, <2>1, <2>2 DEF StartMembership, Digested
  <2>4. m.digested <= Len(documents)
    BY <1>0, <2>1 DEF MarkersFit, NoMembership
  <2>5. opener'[o].marker = m /\ opener'[o].step # "discard"
    <3>1. PICK y : y = [opener[o] EXCEPT !.marker = m, !.seen = Digested(documents), !.step = place]
      OBVIOUS
    <3>2. y.marker = m /\ y.step = place
      BY <1>0, <3>1 DEF Openings
    <3>3. opener' = [opener EXCEPT ![o] = y]
      BY <1>0, <2>3, <3>1 DEF OpenTypes
    <3>4. opener'[o] = y
      BY <1>0, <3>3 DEF OpenTypes
    <3> QED
      BY <2>2, <3>2, <3>4
  <2> QED
    BY <2>3, <2>4, <2>5 DEF MarkersFit, OneOpener
<1>9. ASSUME NEW o \in Openers, MemberStep(o)
      PROVE  MarkersFit'
  <2>1. CASE Go(o, "complete") /\ membership' = membership /\ documents' = documents
    <3>1. "complete" \in Places \ {"discard"}
      BY DEF Places
    <3> QED
      BY <1>0, <2>1, <3>1, MarkersStay
  <2>2. ASSUME NEW s, membership' = [membership EXCEPT !.members = s],
               opener' = [opener EXCEPT ![o].marker.members = s]
        PROVE  MarkersFit'
    <3>1. membership'.digested = membership.digested /\ documents' = documents /\ opener[o].step = "members"
      BY <1>0, <1>9, <2>2 DEF Markers, MemberStep, At
    <3>2. PICK y : y = [opener[o] EXCEPT !.marker.members = s]
      OBVIOUS
    <3>3. opener[o].marker \in Markers
      BY <1>0 DEF Openings
    <3>4. y.marker.digested = opener[o].marker.digested /\ y.step = opener[o].step
      BY <1>0, <3>2, <3>3 DEF Openings, Markers
    <3>5. opener'[o] = y
      BY <1>0, <2>2, <3>2 DEF OpenTypes
    <3> QED
      BY <3>1, <3>4, <3>5 DEF MarkersFit, OneOpener
  <2> QED
    BY <1>9, <2>1, <2>2 DEF MemberStep
<1>10. ASSUME NEW o \in Openers, DigestBatchStep(o)
       PROVE  MarkersFit'
  <2>1. PICK batch : batch = {d \in DOMAIN documents : opener[o].marker.digested < d /\ d <= opener[o].marker.digested + DigestBatch}
    OBVIOUS
  <2>2. opener[o].step = "digest"
    BY <1>10 DEF DigestBatchStep, At
  <2>3. CASE batch = {}
    <3>1. Go(o, "members") /\ documents' = documents /\ membership' = membership
      BY <1>10, <2>1, <2>3 DEF DigestBatchStep
    <3>2. "members" \in Places \ {"discard"}
      BY DEF Places
    <3> QED
      BY <1>0, <3>1, <3>2, MarkersStay
  <2>4. CASE batch # {}
    <3>1. PICK b : b = Max(batch)
      OBVIOUS
    <3>2. /\ DOMAIN documents' = DOMAIN documents
          /\ membership' = [membership EXCEPT !.digested = b]
          /\ \E now : opener' = [opener EXCEPT ![o].marker.digested = b, ![o].seen = now]
      BY <1>10, <2>1, <2>4, <3>1 DEF DigestBatchStep
    <3>3. b \in DOMAIN documents
      <4>1. batch \in SUBSET (0..Len(documents))
        BY <1>0, <2>1
      <4>2. b \in batch
        BY <1>0, <2>4, <3>1, <4>1, MaxIs
      <4> QED
        BY <2>1, <4>2
    <3>4. Len(documents') = Len(documents) /\ b <= Len(documents)
      <4>1. Len(documents') = Len(documents)
        BY <1>0, <3>2, SameLength
      <4> QED
        BY <1>0, <3>3, <4>1
    <3>5. membership'.digested = b
      BY <1>0, <3>2 DEF Markers
    <3>6. PICK now : opener' = [opener EXCEPT ![o].marker.digested = b, ![o].seen = now]
      BY <3>2
    <3>7. PICK y : y = [opener[o] EXCEPT !.marker.digested = b, !.seen = now]
      OBVIOUS
    <3>8. opener[o].marker \in Markers
      BY <1>0 DEF Openings
    <3>9. y.marker.digested = b /\ y.step = "digest"
      BY <1>0, <2>2, <3>7, <3>8 DEF Openings, Markers
    <3>10. opener'[o] = y
      BY <1>0, <3>6, <3>7 DEF OpenTypes
    <3> QED
      BY <3>4, <3>5, <3>9, <3>10 DEF MarkersFit, OneOpener
  <2> QED
    BY <2>3, <2>4
<1> QED
  BY <1>1, <1>2, <1>3, <1>4, <1>5, <1>6, <1>7, <1>8, <1>9, <1>10 DEF OpenNext, OpenStep

-----------------------------------------------------------------------------
(* What the invariant says of an index.                                    *)

LEMMA ServesAtOpen ==
  ASSUME OpenInv
  PROVE  MembershipFollowsInputs /\ ReadersFindMembership
<1>0. /\ MembersAreCarried(snapshots, deltas, documents, membership) /\ Effective = Chained(snapshots, deltas)
      /\ \A r \in Readers : MayRead(reader[r], membership, Len(snapshots))
      /\ OpenTypes
  BY TablesSay DEF OpenInv, TablesTell
<1>1. ASSUME NEW s \in DOMAIN snapshots, membership.complete \/ s <= membership.members
      PROVE  ServesInputs(Effective[s], snapshots[s].inputs, documents, s <= membership.members)
  BY <1>0, <1>1 DEF MembersAreCarried
<1>2. MembershipFollowsInputs
  <2> SUFFICES ASSUME NEW s \in DOMAIN snapshots, membership.complete \/ s <= membership.members
               PROVE  /\ DOMAIN Effective[s] = DOMAIN snapshots[s].inputs
                      /\ \A p \in DOMAIN Effective[s] :
                           /\ documents[Effective[s][p]].path = p
                           /\ Rendering[<<p, documents[Effective[s][p]].hash>>] = Rendering[<<p, snapshots[s].inputs[p]>>]
                           /\ s <= membership.members => documents[Effective[s][p]].hash = snapshots[s].inputs[p]
    BY DEF MembershipFollowsInputs, CarriedOver
  <2>1. PICK at : at = Effective[s]
    OBVIOUS
  <2>2. ServesInputs(at, snapshots[s].inputs, documents, s <= membership.members)
    BY <1>1, <2>1
  <2>3. /\ DOMAIN at = DOMAIN snapshots[s].inputs
        /\ \A p \in DOMAIN at :
             /\ documents[at[p]].path = p
             /\ RenderedBy(documents[at[p]]) = Rendering[<<p, snapshots[s].inputs[p]>>]
             /\ s <= membership.members => documents[at[p]].hash = snapshots[s].inputs[p]
    BY <2>2 DEF ServesInputs
  <2>4. \A p \in DOMAIN at : Rendering[<<p, documents[at[p]].hash>>] = Rendering[<<p, snapshots[s].inputs[p]>>]
    BY <2>3 DEF RenderedBy
  <2> QED
    BY <2>1, <2>3, <2>4
<1>3. ReadersFindMembership
  <2> SUFFICES ASSUME NEW r \in Readers, reader[r] = "open", NEW s \in DOMAIN snapshots
               PROVE  DOMAIN Effective[s] = DOMAIN snapshots[s].inputs
    BY DEF ReadersFindMembership
  <2>1. Len(snapshots) # 0
    BY <1>0, SnapshotIs
  <2>2. membership.complete
    BY <1>0, <2>1 DEF MayRead
  <2> QED
    BY <1>1, <2>2 DEF ServesInputs
<1> QED
  BY <1>2, <1>3

LEMMA EarliestHasTheDigest ==
  ASSUME OpenInv
  PROVE  DigestsNameTheEarliest
<1>0. DigestsTell(documents, membership) /\ OpenTypes
  BY DEF OpenInv, TablesTell
<1> SUFFICES ASSUME NEW d \in DOMAIN documents,
                    NEW twins,
                    twins = {e \in DOMAIN documents : /\ documents[e].path = documents[d].path
                       /\ Rendering[<<documents[e].path, documents[e].hash>>] = Rendering[<<documents[d].path, documents[d].hash>>]}
             PROVE  /\ documents[d].digest # None => d = Min(twins)
                    /\ (membership.row /\ (membership.complete \/ d <= membership.digested)) => documents[Min(twins)].digest # None
  BY Zenon DEF DigestsNameTheEarliest
<1>1. \A e : e \in twins <=> e \in DOMAIN documents /\ AreTwins(documents[e], documents[d])
  BY DEF AreTwins, RenderedBy
<1>2. DOMAIN documents \subseteq Nat
  BY <1>0, DocumentIs
<1>3. twins \in SUBSET Nat /\ d \in twins
  BY <1>1, <1>2 DEF AreTwins
<1>4. PICK least : least = Min(twins)
  OBVIOUS
<1>5. least \in twins /\ \A e \in twins : least <= e
  BY <1>3, <1>4, MinIs
<1>6. ASSUME NEW e \in twins, documents[e].digest # None
      PROVE  e = least
  <2>1. e \in DOMAIN documents /\ least \in DOMAIN documents /\ AreTwins(documents[least], documents[e])
    BY <1>1, <1>5 DEF AreTwins
  <2>2. ~(least < e)
    BY <1>0, <1>6, <2>1 DEF DigestsTell
  <2>3. least \in Nat /\ e \in Nat /\ least <= e
    BY <1>2, <1>5, <2>1
  <2> QED
    BY <2>2, <2>3
<1>7. ASSUME membership.row, membership.complete \/ d <= membership.digested
      PROVE  documents[least].digest # None
  <2>1. PICK e \in DOMAIN documents : AreTwins(documents[e], documents[d]) /\ documents[e].digest # None
    BY <1>0, <1>7 DEF DigestsTell
  <2> QED
    BY <1>1, <1>6, <2>1
<1> QED
  BY <1>3, <1>4, <1>6, <1>7

\* Counts lead from one set of files to another, and are nought only of the same.
LEMMA CountsLead ==
  ASSUME NEW base, NEW files, IsFiniteSet(DOMAIN base), IsFiniteSet(DOMAIN files),
         base = [p \in DOMAIN base |-> base[p]], files = [p \in DOMAIN files |-> files[p]],
         NEW tally, tally = Counts(base, files)
  PROVE  /\ Cardinality(DOMAIN files) = Cardinality(DOMAIN base) + tally.added - tally.deleted
         /\ (tally.added = 0 /\ tally.changed = 0 /\ tally.deleted = 0) <=> files = base
<1> DEFINE B == DOMAIN base
           F == DOMAIN files
           C == {p \in F \cap B : files[p] # base[p]}
<1>1. tally.added = Cardinality(F \ B) /\ tally.changed = Cardinality(C) /\ tally.deleted = Cardinality(B \ F)
  BY DEF Counts
<1>2. /\ IsFiniteSet(B) /\ IsFiniteSet(F) /\ IsFiniteSet(F \ B) /\ IsFiniteSet(B \ F)
      /\ IsFiniteSet(C) /\ IsFiniteSet(F \cap B)
  BY FS_Subset
<1>3. /\ Cardinality(F \ B) \in Nat /\ Cardinality(B \ F) \in Nat /\ Cardinality(F \cap B) \in Nat
      /\ Cardinality(C) \in Nat /\ Cardinality(F) \in Nat /\ Cardinality(B) \in Nat
  BY <1>2, FS_CardinalityType
<1>4. (F \cap B) \cap (F \ B) = {} /\ (F \cap B) \cup (F \ B) = F
      /\ (F \cap B) \cap (B \ F) = {} /\ (F \cap B) \cup (B \ F) = B
  OBVIOUS
<1>5. Cardinality(F) = Cardinality(F \cap B) + Cardinality(F \ B)
      /\ Cardinality(B) = Cardinality(F \cap B) + Cardinality(B \ F)
  <2> HIDE DEF B, F
  <2>1. Cardinality({}) = 0
    BY FS_EmptySet
  <2>2. Cardinality((F \cap B) \cup (F \ B)) = Cardinality(F \cap B) + Cardinality(F \ B) - Cardinality((F \cap B) \cap (F \ B))
    BY <1>2, FS_Union
  <2>3. Cardinality((F \cap B) \cup (B \ F)) = Cardinality(F \cap B) + Cardinality(B \ F) - Cardinality((F \cap B) \cap (B \ F))
    BY <1>2, FS_Union
  <2>4. Cardinality((F \cap B) \cup (F \ B)) = Cardinality(F) /\ Cardinality((F \cap B) \cap (F \ B)) = 0
    BY <1>4, <2>1, Zenon
  <2>5. Cardinality((F \cap B) \cup (B \ F)) = Cardinality(B) /\ Cardinality((F \cap B) \cap (B \ F)) = 0
    BY <1>4, <2>1, Zenon
  <2>6. Cardinality(F) = Cardinality(F \cap B) + Cardinality(F \ B) - 0
    BY <2>2, <2>4, Zenon
  <2>7. Cardinality(B) = Cardinality(F \cap B) + Cardinality(B \ F) - 0
    BY <2>3, <2>5, Zenon
  <2> QED
    BY <1>3, <2>6, <2>7
<1>6. Cardinality(F) = Cardinality(B) + tally.added - tally.deleted
  <2> HIDE DEF B, F, C
  <2> QED
    BY <1>1, <1>3, <1>5
<1>7. (tally.added = 0 /\ tally.changed = 0 /\ tally.deleted = 0) <=> (F \ B = {} /\ C = {} /\ B \ F = {})
  <2> HIDE DEF B, F, C
  <2> QED
    BY <1>1, <1>2, FS_EmptySet
<1>8. (F \ B = {} /\ C = {} /\ B \ F = {}) => files = base
  <2> SUFFICES ASSUME F \ B = {}, C = {}, B \ F = {}
               PROVE  files = base
    OBVIOUS
  <2>1. F = B
    OBVIOUS
  <2>2. \A p \in F : files[p] = base[p]
    BY <2>1
  <2>3. [p \in F |-> files[p]] = [p \in B |-> base[p]]
    BY <2>1, <2>2
  <2> QED
    BY <2>3
<1>9. files = base => (F \ B = {} /\ C = {} /\ B \ F = {})
  OBVIOUS
<1> QED
  BY <1>6, <1>7, <1>8, <1>9

LEMMA CountsAreLed ==
  ASSUME OpenInv
  PROVE  StatsLeadFromBase
<1>0. OpenTypes /\ \A s \in DOMAIN snapshots : CountsAreOf(snapshots, stats, s)
  BY DEF OpenInv, TablesTell
<1>1. \A s : Sources(s) = SourcesOf(snapshots, s)
  BY TablesSay
<1> SUFFICES ASSUME NEW s \in DOMAIN snapshots, stats[s] # NoCounts
             PROVE  /\ Cardinality(DOMAIN Sources(s)) = Cardinality(DOMAIN Sources(snapshots[s].base)) + stats[s].added - stats[s].deleted
                    /\ (stats[s].added = 0 /\ stats[s].changed = 0 /\ stats[s].deleted = 0) <=> (Sources(s) = Sources(snapshots[s].base))
  BY DEF StatsLeadFromBase
<1>2. PICK files : files = SourcesOf(snapshots, s)
  OBVIOUS
<1>3. PICK base : base = SourcesOf(snapshots, snapshots[s].base)
  OBVIOUS
<1>4. PICK tally : tally = Counts(base, files)
  OBVIOUS
<1>5. stats[s] = tally
  BY <1>0, <1>2, <1>3, <1>4 DEF CountsAreOf
<1>6. IsFiniteSet(DOMAIN base) /\ IsFiniteSet(DOMAIN files)
  BY <1>0, <1>2, <1>3, SourcesAre
<1>7. base = [p \in DOMAIN base |-> base[p]] /\ files = [p \in DOMAIN files |-> files[p]]
  <2>1. <<>> = [p \in DOMAIN <<>> |-> <<>>[p]]
    OBVIOUS
  <2>2. \A t : SourcesOf(snapshots, t) = [p \in DOMAIN SourcesOf(snapshots, t) |-> SourcesOf(snapshots, t)[p]]
    <3> TAKE t
    <3>1. CASE t = 0
      <4>1. SourcesOf(snapshots, t) = <<>>
        BY <3>1 DEF SourcesOf
      <4> QED
        BY <2>1, <4>1
    <3>2. CASE t # 0
      BY <3>2 DEF SourcesOf
    <3> QED
      BY <3>1, <3>2
  <2> QED
    BY <1>2, <1>3, <2>2
<1>8. /\ Cardinality(DOMAIN files) = Cardinality(DOMAIN base) + tally.added - tally.deleted
      /\ (tally.added = 0 /\ tally.changed = 0 /\ tally.deleted = 0) <=> files = base
  BY <1>4, <1>6, <1>7, CountsLead
<1> QED
  BY <1>1, <1>2, <1>3, <1>5, <1>8

LEMMA TypesAtOpen ==
  ASSUME OpenInv, MarkersFit
  PROVE  OpenTypeOK
<1>1. OpenTypes
  BY DEF OpenInv
<1>2. catalog.layout \in {"noTable", "noRow", "ours", "other"} /\ \A i \in DOMAIN roots : roots[i] \in Nat
  BY <1>1 DEF OpenTypes, Catalogs
<1>3. \A d \in DOMAIN documents : documents[d].path \in Paths /\ documents[d].hash \in Hashes
  BY <1>1, DocumentIs
<1>4. \A s \in DOMAIN snapshots : snapshots[s].base \in 0..(s - 1)
  BY <1>1, SnapshotIs
<1>5. DOMAIN deltas = DOMAIN snapshots /\ DOMAIN stats = DOMAIN snapshots
  <2>1. DOMAIN deltas = 1..Len(deltas) /\ DOMAIN stats = 1..Len(stats) /\ DOMAIN snapshots = 1..Len(snapshots)
    BY <1>1, SeqIs DEF OpenTypes
  <2> QED
    BY <1>1, <2>1 DEF OpenTypes
<1>6. \A r \in Readers : reader[r] \in {"closed", "require", "open", "refused"}
  BY <1>1 DEF OpenTypes
<1> QED
  BY <1>2, <1>3, <1>4, <1>5, <1>6 DEF OpenTypeOK, MarkersFit

\* However often the cutovers at open are stopped and resumed, and whatever is published through the
\* database then and read beside them, every snapshot serves what its inputs select, a digest names the
\* earliest document that renders it, and recorded counts lead from a snapshot's base to it
\* (storage/handle_cutover.go, storage/membership_cutover.go, storage/snapshot_stats.go).
THEOREM AnIndexIsCarriedOver ==
  ASSUME OneOpener
  PROVE  OpenSpec => []IndexIsCarriedOver
<1>1. OpenInit => OpenInv /\ MarkersFit
  <2> SUFFICES ASSUME OpenInit
               PROVE  OpenInv /\ MarkersFit
    OBVIOUS
  <2>1. OpenInv
    BY OpenInitHolds
  <2>2. membership = NoMembership /\ opener = [o \in Openers |-> Idle]
    BY OpenConstants DEF OpenInit, Found
  <2>3. NoMembership.digested = 0 /\ Idle.marker = NoMembership
    BY DEF NoMembership, Idle
  <2>4. Len(documents) \in Nat
    BY <2>1, DocumentIs DEF OpenInv
  <2> QED
    BY <2>1, <2>2, <2>3, <2>4 DEF MarkersFit
<1>2. OpenInv /\ MarkersFit /\ [OpenNext]_openVars => (OpenInv /\ MarkersFit)'
  BY OpenInvSteps, MarkersFitSteps
<1>3. OpenInv /\ MarkersFit => IndexIsCarriedOver
  BY ServesAtOpen, EarliestHasTheDigest, CountsAreLed, TypesAtOpen DEF IndexIsCarriedOver
<1> QED
  BY <1>1, <1>2, <1>3, PTL DEF OpenSpec

\* A step that shrinks the index, or renumbers roots, finds none to lose.
LEMMA OpensKeep ==
  ASSUME OpenInv, OpenInv', [OpenNext]_openVars
  PROVE  /\ Len(snapshots') >= Len(snapshots)
         /\ \A i \in DOMAIN roots : i \in DOMAIN roots' /\ (roots[i] # 0 => roots'[i] = roots[i])
         /\ (\E o \in Openers : opener'[o].step = "open") => 0 \notin Range(roots') /\ IsInjective(roots')
<1>0. /\ OpenTypes /\ roots \in Seq(Nat) /\ snapshots \in Seq(Snapshots) /\ Len(snapshots) \in Nat
      /\ Len(roots) \in Nat /\ DOMAIN roots = 1..Len(roots) /\ catalog' \in Catalogs
  <2>1. OpenTypes /\ roots \in Seq(Nat) /\ snapshots \in Seq(Snapshots) /\ catalog' \in Catalogs
    BY DEF OpenInv, OpenTypes
  <2> QED
    BY <2>1, SeqIs
<1>1. (\E o \in Openers : opener'[o].step = "open") => 0 \notin Range(roots') /\ IsInjective(roots')
  <2> SUFFICES ASSUME NEW o \in Openers, opener'[o].step = "open"
               PROVE  0 \notin Range(roots') /\ IsInjective(roots')
    OBVIOUS
  <2>1. OpenerKnows(opener'[o], catalog', documents', membership', Len(snapshots'))
    BY DEF OpenInv
  <2>2. catalog'.ordinal
    BY <2>1 DEF OpenerKnows, Opening
  <2>3. Generation(catalog') # "preHandle"
    BY <1>0, <2>2, GenerationIs
  <2>4. /\ \A i \in DOMAIN roots' : roots'[i] # 0
        /\ \A i, j \in DOMAIN roots' : roots'[i] = roots'[j] => i = j
    BY <2>3 DEF OpenInv, RootsAreNumbered
  <2> QED
    BY <2>4 DEF Range, IsInjective
<1>2. \A i \in DOMAIN roots : i \in DOMAIN roots' /\ (roots[i] # 0 => roots'[i] = roots[i])
  <2>1. CASE roots' = roots
    BY <2>1
  <2>2. ASSUME NEW o \in Openers, Register(o)
        PROVE  \A i \in DOMAIN roots : i \in DOMAIN roots' /\ (roots[i] # 0 => roots'[i] = roots[i])
    <3>1. PICK next : roots' = Append(roots, next)
      BY <2>2 DEF Register
    <3>2. roots \in Seq(Nat \cup {next})
      BY <1>0
    <3>3. DOMAIN roots' = 1..Len(roots) + 1 /\ \A i \in DOMAIN roots : roots'[i] = roots[i]
      BY <3>1, <3>2, AppendIs
    <3> QED
      BY <1>0, <3>3
  <2>3. ASSUME NEW o \in Openers, Discard(o)
        PROVE  \A i \in DOMAIN roots : i \in DOMAIN roots' /\ (roots[i] # 0 => roots'[i] = roots[i])
    <3>1. roots' = IF opener[o].generation = "preHandle" THEN [i \in DOMAIN roots |-> i] ELSE roots
      BY <2>3 DEF Discard
    <3>2. OpenerKnows(opener[o], catalog, documents, membership, Len(snapshots)) /\ opener[o].step = "discard"
      BY <2>3 DEF OpenInv, Discard, At
    <3>3. opener[o].generation = Generation(catalog)
      BY <3>2 DEF OpenerKnows
    <3>4. Generation(catalog) = "preHandle" => \A i \in DOMAIN roots : roots[i] = 0
      BY DEF OpenInv, RootsAreNumbered
    <3> QED
      BY <3>1, <3>3, <3>4
  <2>4. roots' = roots \/ \E o \in Openers : Register(o) \/ Discard(o)
    BY Zenon DEF OpenNext, OpenStep, openVars, Detect, Migrate, RecordLayout, StartMembership, DigestBatchStep,
         MemberStep, CompleteMembership, BackfillStats, Publish, Stop, ReadGeneration, RequireMembership, CloseReader
  <2> QED
    BY <2>1, <2>2, <2>3, <2>4
<1>3. Len(snapshots') >= Len(snapshots)
  <2>1. CASE snapshots' = snapshots
    BY <1>0, <2>1
  <2>2. ASSUME NEW row, snapshots' = Append(snapshots, row)
        PROVE  Len(snapshots') >= Len(snapshots)
    <3>1. snapshots \in Seq(Snapshots \cup {row})
      BY <1>0
    <3>2. Len(snapshots') = Len(snapshots) + 1
      BY <2>2, <3>1, AppendIs
    <3> QED
      BY <1>0, <3>2
  <2>3. ASSUME NEW o \in Openers, Discard(o)
        PROVE  Len(snapshots') >= Len(snapshots)
    <3>1. OpenerKnows(opener[o], catalog, documents, membership, Len(snapshots)) /\ opener[o].step = "discard"
      BY <2>3 DEF OpenInv, Discard, At
    <3>2. Generation(catalog) \in Stale
      BY <3>1, Zenon DEF OpenerKnows
    <3>3. Len(snapshots) = 0
      BY <3>2 DEF OpenInv, CatalogTells
    <3>4. Len(<<>>) = 0 /\ snapshots' = <<>>
      BY <2>3 DEF Discard
    <3> QED
      BY <3>3, <3>4
  <2>4. snapshots' = snapshots \/ (\E row : snapshots' = Append(snapshots, row)) \/ \E o \in Openers : Discard(o)
    <3>1. CASE UNCHANGED openVars
      BY <3>1 DEF openVars
    <3>2. ASSUME NEW r \in Readers, ReadGeneration(r) \/ RequireMembership(r) \/ CloseReader(r)
          PROVE  snapshots' = snapshots
      BY <3>2 DEF ReadGeneration, RequireMembership, CloseReader, indexTables
    <3>3. ASSUME NEW o \in Openers, Detect(o) \/ Register(o) \/ Stop(o) \/ Migrate(o) \/ RecordLayout(o)
          PROVE  snapshots' = snapshots
      BY <3>3 DEF Detect, Register, Stop, Migrate, RecordLayout, indexTables
    <3>4. ASSUME NEW o \in Openers, StartMembership(o) \/ DigestBatchStep(o) \/ MemberStep(o) \/ CompleteMembership(o) \/ BackfillStats(o)
          PROVE  snapshots' = snapshots
      BY <3>4 DEF StartMembership, DigestBatchStep, MemberStep, CompleteMembership, BackfillStats
    <3>5. ASSUME NEW o \in Openers, NEW ps \in SUBSET Paths, NEW inputs \in [ps -> Hashes], Publish(o, inputs)
          PROVE  \E row : snapshots' = Append(snapshots, row)
      BY <3>5 DEF Publish
    <3> QED
      BY <3>1, <3>2, <3>3, <3>4, <3>5 DEF OpenNext, OpenStep
  <2> QED
    BY <2>1, <2>2, <2>3, <2>4
<1> QED
  BY <1>1, <1>2, <1>3

\* No open shrinks the index or renumbers a root, and an open database has all its roots numbered apart:
\* discardStaleGeneration drops only an index without a recorded layout, and numbers only roots that
\* have no ordinal (storage/handle_cutover.go).
THEOREM NoOpenLosesTheIndex ==
  ASSUME OneOpener
  PROVE  OpenSpec => OpensKeepTheIndex
<1>1. OpenInit => OpenInv
  BY OpenInitHolds
<1>2. OpenInv /\ [OpenNext]_openVars => OpenInv'
  BY OpenInvSteps
<1>3. OpenInv /\ OpenInv' /\ [OpenNext]_openVars
      => /\ [Len(snapshots') >= Len(snapshots)]_openVars
         /\ [/\ \A i \in DOMAIN roots : i \in DOMAIN roots' /\ (roots[i] # 0 => roots'[i] = roots[i])
             /\ (\E o \in Openers : opener'[o].step = "open") => 0 \notin Range(roots') /\ IsInjective(roots')]_openVars
  BY OpensKeep
<1> QED
  BY <1>1, <1>2, <1>3, PTL DEF OpenSpec, OpensKeepTheIndex, IndexOutlivesOpens, RootsKeepOrdinals

-----------------------------------------------------------------------------
(* Serving: the inductive invariant.                                       *)

Files == [near : Nat, far : Nat, patched : BOOLEAN]
\* What a hash is over: a snapshot and a diff.
Parts == Files \cup Nat
Steps == {"new", "started", "previewing", "previewed", "preparing", "patching", "patched", "waiting"}
Handlers == [at : Answers \cup Steps, hash : Seq(Parts), own : Seq(Parts), onto : Seq(Parts), late : BOOLEAN]
Jobs == [state : {"none", "running", "done", "failed"}, counted : BOOLEAN, recorded : BOOLEAN]

ServeTypes ==
  /\ phase \in {"serving", "shutdown", "drain", "close", "closed"}
  /\ cancelled \in BOOLEAN /\ overdue \in BOOLEAN
  /\ handler \in [ServeRequests -> Handlers]
  /\ job \in [ServeRequests -> Jobs]
  /\ checkout \in Files /\ indexed \in Files

\* How much of a hash is known at each step.
HashesGrow(h) ==
  /\ Len(h.hash) <= 2 /\ Len(h.own) <= 2 /\ Len(h.onto) <= 1
  /\ h.at = "previewing" => Len(h.hash) = 1
  /\ h.at \in {"previewed", "preparing", "patching"} => Len(h.hash) = 2
  /\ h.at = "preparing" => Len(h.own) = 1

\* The patch that is about to be written is the preview's, and so is the one that was.
PatchIsReviewed(h, near) ==
  /\ h.at \in Steps \ {"patched", "waiting"} => h.onto = <<>>
  /\ ~h.late =>
       /\ h.at = "patching" => h.hash[2] = near
       /\ h.onto # <<>> => h.onto = <<h.hash[2]>>

\* A patch is never undone, and a head made after it has it.
PatchReachesTheIndex(h, j, inCheckout, inIndex) ==
  /\ h.at \in {"patched", "waiting", "applied"} => inCheckout
  /\ h.at = "waiting" /\ j.state = "done" => inIndex
  /\ h.at = "applied" => inIndex

\* A shutdown that is not overdue leaves no handler at work, then no counted run, then no run unrecorded.
RunIsWaitedFor(h, j, at, late) ==
  /\ h.at = "started" => j.state # "none"
  /\ h.at = "accepted" => j.state # "none" /\ j.counted
  /\ ~late =>
       /\ at \in {"drain", "close", "closed"} => h.at \in Answers \cup {"new", "previewed"}
       /\ at \in {"close", "closed"} /\ h.at = "accepted" => j.state \in {"done", "failed"}
       /\ at = "closed" /\ h.at = "accepted" => j.recorded

RequestOK(h, j, at, late, near, inCheckout, inIndex) ==
  /\ HashesGrow(h) /\ PatchIsReviewed(h, near)
  /\ PatchReachesTheIndex(h, j, inCheckout, inIndex) /\ RunIsWaitedFor(h, j, at, late)

ServeInv ==
  /\ ServeTypes
  /\ phase # "serving" => cancelled
  /\ indexed.patched => checkout.patched
  /\ \A r \in ServeRequests :
       RequestOK(handler[r], job[r], phase, overdue, checkout.near, checkout.patched, indexed.patched)

-----------------------------------------------------------------------------
\* PatchOf answers one diff, or none once the patch is there.
LEMMA PatchOfType ==
  ASSUME NEW f \in Files
  PROVE  /\ PatchOf(f) \in Seq(Parts) /\ Len(PatchOf(f)) <= 1
         /\ PatchOf(f) = <<>> <=> f.patched
         /\ ~f.patched => PatchOf(f) = <<f.near>> /\ Len(PatchOf(f)) = 1
<1>1. f.near \in Parts /\ f.patched \in BOOLEAN
  BY DEF Files, Parts
<1>2. CASE f.patched
  BY <1>1, <1>2 DEF PatchOf
<1>3. CASE ~f.patched
  <2>1. PatchOf(f) = <<f.near>>
    BY <1>3 DEF PatchOf
  <2> QED
    BY <1>1, <1>3, <2>1
<1> QED
  BY <1>1, <1>2, <1>3

HandlerAs(h, a, hash, own, onto) == [at |-> a, hash |-> hash, own |-> own, onto |-> onto, late |-> h.late]
JobAs(s, c, d) == [state |-> s, counted |-> c, recorded |-> d]

\* A step of one request, which leaves what the others rely on as it is.
LEMMA OneRequestSteps ==
  ASSUME ServeInv, NEW r \in ServeRequests,
         handler' = [handler EXCEPT ![r] = handler'[r]], handler'[r] \in Handlers,
         job' = [job EXCEPT ![r] = job'[r]], job'[r] \in Jobs,
         UNCHANGED <<phase, cancelled, overdue>>, checkout' \in Files, indexed' \in Files,
         checkout'.near = checkout.near,
         checkout.patched => checkout'.patched, indexed.patched => indexed'.patched, indexed'.patched => checkout'.patched,
         RequestOK(handler'[r], job'[r], phase, overdue, checkout.near, checkout'.patched, indexed'.patched)
  PROVE  ServeInv'
<1>1. ServeTypes'
  BY DEF ServeInv, ServeTypes
<1>2. ASSUME NEW q \in ServeRequests
      PROVE  RequestOK(handler[q], job[q], phase, overdue, checkout.near, checkout.patched, indexed.patched)'
  <2>1. CASE q = r
    BY <2>1
  <2>2. CASE q # r
    <3>1. handler'[q] = handler[q] /\ job'[q] = job[q]
      BY <2>2 DEF ServeInv, ServeTypes
    <3>2. RequestOK(handler[q], job[q], phase, overdue, checkout.near, checkout.patched, indexed.patched)
      BY DEF ServeInv
    <3> QED
      BY <3>1, <3>2 DEF RequestOK, PatchReachesTheIndex
  <2> QED
    BY <2>1, <2>2
<1> QED
  BY <1>1, <1>2 DEF ServeInv

-----------------------------------------------------------------------------
\* The server starts with no request under way.
LEMMA ServeInitInv == ServeInit => ServeInv
<1> SUFFICES ASSUME ServeInit PROVE ServeInv
  OBVIOUS
<1> USE DEF ServeInit, NewHandler, NewJob, TheFiles
<1>1. ServeTypes
  <2>1. NewHandler \in Handlers /\ NewJob \in Jobs /\ TheFiles \in Files
    BY DEF Files, Steps, Handlers, Jobs, Answers
  <2> QED
    BY <2>1 DEF ServeTypes
<1>2. ASSUME NEW r \in ServeRequests
      PROVE  RequestOK(handler[r], job[r], phase, overdue, checkout.near, checkout.patched, indexed.patched)
  <2>1. handler[r] = NewHandler /\ job[r] = NewJob /\ phase = "serving"
    OBVIOUS
  <2> QED
    BY <2>1 DEF RequestOK, HashesGrow, PatchIsReviewed, PatchReachesTheIndex, RunIsWaitedFor
<1> QED
  BY <1>1, <1>2 DEF ServeInv


\* What the invariant says of the request that steps.
LEMMA RequestFacts ==
  ASSUME ServeInv, NEW r \in ServeRequests
  PROVE  /\ handler \in [ServeRequests -> Handlers] /\ handler[r] \in Handlers
         /\ job \in [ServeRequests -> Jobs] /\ job[r] \in Jobs
         /\ checkout \in Files /\ indexed \in Files /\ (indexed.patched => checkout.patched)
         /\ RequestOK(handler[r], job[r], phase, overdue, checkout.near, checkout.patched, indexed.patched)
  BY DEF ServeInv, ServeTypes

\* A handler that moves on is a handler.
LEMMA HandlerAsType ==
  ASSUME NEW h \in Handlers, NEW a \in Answers \cup Steps, NEW x \in Seq(Parts), NEW y \in Seq(Parts), NEW z \in Seq(Parts)
  PROVE  HandlerAs(h, a, x, y, z) \in Handlers
  BY DEF Handlers, HandlerAs

\* What a handler that moves on holds.
LEMMA HandlerAsFields ==
  ASSUME NEW h, NEW a, NEW x, NEW y, NEW z
  PROVE  LET g == HandlerAs(h, a, x, y, z)
         IN  g.at = a /\ g.hash = x /\ g.own = y /\ g.onto = z /\ g.late = h.late
  BY DEF HandlerAs

\* A hash's snapshot, and the diff behind it.
LEMMA HashWithDiff ==
  ASSUME NEW S, NEW s \in Seq(S), NEW t \in Seq(S), Len(s) = 1, Len(t) <= 1
  PROVE  s \o t \in Seq(S) /\ Len(s \o t) = 1 + Len(t) /\ (Len(t) = 1 => (s \o t)[2] = t[1])
  BY ConcatProperties

\* What a handler holds.
LEMMA HandlerParts ==
  ASSUME NEW h \in Handlers
  PROVE  h.at \in Answers \cup Steps /\ h.hash \in Seq(Parts) /\ h.own \in Seq(Parts) /\ h.onto \in Seq(Parts)
  BY DEF Handlers

\* startModuleIndex: a run starts, or the context is done.
LEMMA StartIndexInv ==
  ASSUME ServeInv, NEW r \in ServeRequests, StartIndex(r)
  PROVE  ServeInv'
<1> DEFINE h(a) == HandlerAs(handler[r], a, handler[r].hash, handler[r].own, handler[r].onto)
<1>1. handler' = [handler EXCEPT ![r] = handler'[r]] /\ job' = [job EXCEPT ![r] = job'[r]]
  BY RequestFacts DEF StartIndex, Goes
<1>2. handler[r].at = "new" /\ phase = "serving"
      /\ UNCHANGED <<checkout, indexed>>
  BY DEF StartIndex, Goes, Live
<1>3. handler'[r] = IF Live THEN h("started") ELSE h("failed")
  BY <1>2, RequestFacts DEF StartIndex, Goes, Live, Handlers, HandlerAs
<1>4. job'[r] = IF Live THEN JobAs("running", job[r].counted, job[r].recorded) ELSE job[r]
  BY RequestFacts DEF StartIndex, Live, Jobs, JobAs
<1>5. handler'[r] \in Handlers /\ job'[r] \in Jobs
  BY <1>2, <1>3, <1>4, RequestFacts DEF Handlers, HandlerAs, Jobs, JobAs, Answers, Steps
<1>6. HashesGrow(handler'[r])
  BY <1>2, <1>3, RequestFacts DEF HandlerAs, Handlers, RequestOK, HashesGrow
<1>7. PatchIsReviewed(handler'[r], checkout.near)
  BY <1>2, <1>3, RequestFacts DEF HandlerAs, Steps, RequestOK, PatchIsReviewed
<1>8. PatchReachesTheIndex(handler'[r], job'[r], checkout'.patched, indexed'.patched)
  BY <1>2, <1>3, <1>4, RequestFacts DEF HandlerAs, JobAs, RequestOK, PatchReachesTheIndex
<1>9. RunIsWaitedFor(handler'[r], job'[r], phase, overdue)
  BY <1>2, <1>3, <1>4, RequestFacts DEF HandlerAs, JobAs, Answers, RequestOK, RunIsWaitedFor
<1>10. RequestOK(handler'[r], job'[r], phase, overdue, checkout.near, checkout'.patched, indexed'.patched)
  BY <1>6, <1>7, <1>8, <1>9 DEF RequestOK
<1> QED
  BY <1>1, <1>2, <1>5, <1>10, RequestFacts, OneRequestSteps DEF StartIndex

\* The run is counted as its id is answered.
LEMMA AcceptIndexInv ==
  ASSUME ServeInv, NEW r \in ServeRequests, AcceptIndex(r)
  PROVE  ServeInv'
<1> DEFINE h(a) == HandlerAs(handler[r], a, handler[r].hash, handler[r].own, handler[r].onto)
<1>1. handler' = [handler EXCEPT ![r] = handler'[r]] /\ job' = [job EXCEPT ![r] = job'[r]]
  BY RequestFacts DEF AcceptIndex, Goes
<1>2. handler[r].at = "started"
      /\ UNCHANGED <<checkout, indexed>>
  BY DEF AcceptIndex, Goes, Live
<1>3. handler'[r] = h("accepted")
  BY <1>2, RequestFacts DEF AcceptIndex, Goes, Live, Handlers, HandlerAs
<1>4. job'[r] = JobAs(job[r].state, TRUE, job[r].recorded)
  BY RequestFacts DEF AcceptIndex, Live, Jobs, JobAs
<1>5. handler'[r] \in Handlers /\ job'[r] \in Jobs
  BY <1>2, <1>3, <1>4, RequestFacts DEF Handlers, HandlerAs, Jobs, JobAs, Answers, Steps
<1>6. HashesGrow(handler'[r])
  BY <1>2, <1>3, RequestFacts DEF HandlerAs, Handlers, RequestOK, HashesGrow
<1>7. PatchIsReviewed(handler'[r], checkout.near)
  BY <1>2, <1>3, RequestFacts DEF HandlerAs, Steps, RequestOK, PatchIsReviewed
<1>8. PatchReachesTheIndex(handler'[r], job'[r], checkout'.patched, indexed'.patched)
  BY <1>2, <1>3, <1>4, RequestFacts DEF HandlerAs, JobAs, RequestOK, PatchReachesTheIndex
<1>9. RunIsWaitedFor(handler'[r], job'[r], phase, overdue)
  BY <1>2, <1>3, <1>4, RequestFacts DEF HandlerAs, JobAs, Answers, RequestOK, RunIsWaitedFor
<1>10. RequestOK(handler'[r], job'[r], phase, overdue, checkout.near, checkout'.patched, indexed'.patched)
  BY <1>6, <1>7, <1>8, <1>9 DEF RequestOK
<1> QED
  BY <1>1, <1>2, <1>5, <1>10, RequestFacts, OneRequestSteps DEF AcceptIndex

\* The checkout is as its head; an apply keeps the preview's hash and starts its own.
LEMMA CheckHeadInv ==
  ASSUME ServeInv, NEW r \in ServeRequests, CheckHead(r)
  PROVE  ServeInv'
<1>1. handler' = [handler EXCEPT ![r] = handler'[r]] /\ job' = [job EXCEPT ![r] = job'[r]]
  BY RequestFacts DEF CheckHead
<1>2. phase = "serving" /\ handler[r].at \in {"new", "previewed"} /\ UNCHANGED <<checkout, indexed>>
  BY DEF CheckHead
<1>3. PICK a \in Answers \cup Steps, x \in Seq(Parts), y \in Seq(Parts) :
        /\ handler'[r] = HandlerAs(handler[r], a, x, y, handler[r].onto)
        /\ \/ handler[r].at = "new" /\ a \in {"previewing", "failed"} /\ Len(x) = 1 /\ y = handler[r].own
           \/ /\ handler[r].at = "previewed" /\ a \in {"failed", "historical_snapshot", "preparing"}
              /\ x = handler[r].hash /\ Len(y) = 1
  <2>1. CASE handler[r].at = "new"
    <3>1. PICK a \in {"previewing", "failed"} : handler' = [handler EXCEPT ![r].at = a, ![r].hash = <<indexed>>]
      BY <2>1 DEF CheckHead
    <3>2. handler'[r] = HandlerAs(handler[r], a, <<indexed>>, handler[r].own, handler[r].onto)
      BY <3>1, RequestFacts DEF Handlers, HandlerAs
    <3>3. <<indexed>> \in Seq(Parts) /\ Len(<<indexed>>) = 1
      BY RequestFacts DEF Parts
    <3> QED
      BY <2>1, <3>2, <3>3, RequestFacts, HandlerParts, Zenon DEF Answers, Steps
  <2>2. CASE handler[r].at = "previewed"
    <3>1. PICK a \in {"failed", "historical_snapshot", "preparing"} :
            handler' = [handler EXCEPT ![r].at = a, ![r].own = <<handler[r].hash[1]>>]
      BY <2>2 DEF CheckHead
    <3>2. handler'[r] = HandlerAs(handler[r], a, handler[r].hash, <<handler[r].hash[1]>>, handler[r].onto)
      BY <3>1, RequestFacts DEF Handlers, HandlerAs
    <3>3. <<handler[r].hash[1]>> \in Seq(Parts) /\ Len(<<handler[r].hash[1]>>) = 1
      BY <2>2, RequestFacts DEF RequestOK, HashesGrow, Handlers
    <3> QED
      BY <2>2, <3>2, <3>3, RequestFacts, HandlerParts, Zenon DEF Answers, Steps
  <2> QED
    BY <1>2, <2>1, <2>2
<1>4. job'[r] = job[r]
  BY DEF CheckHead
<1>5. handler'[r] \in Handlers /\ job'[r] \in Jobs
  BY <1>3, <1>4, RequestFacts, HandlerAsType, HandlerParts
<1>6. HashesGrow(handler'[r])
  <2>1. HashesGrow(handler[r])
    BY RequestFacts DEF RequestOK
  <2>2. handler'[r].at = a /\ handler'[r].hash = x /\ handler'[r].own = y /\ handler'[r].onto = handler[r].onto
    BY <1>3, HandlerAsFields
  <2>3. CASE handler[r].at = "new" /\ a \in {"previewing", "failed"} /\ Len(x) = 1 /\ y = handler[r].own
    BY <2>1, <2>2, <2>3 DEF HashesGrow
  <2>4. CASE /\ handler[r].at = "previewed" /\ a \in {"failed", "historical_snapshot", "preparing"}
             /\ x = handler[r].hash /\ Len(y) = 1
    BY <2>1, <2>2, <2>4 DEF HashesGrow
  <2> QED
    BY <1>3, <2>3, <2>4
<1>7. PatchIsReviewed(handler'[r], checkout.near)
  BY <1>2, <1>3, RequestFacts DEF HandlerAs, Steps, RequestOK, PatchIsReviewed
<1>8. PatchReachesTheIndex(handler'[r], job'[r], checkout'.patched, indexed'.patched)
  BY <1>2, <1>3, <1>4, RequestFacts DEF HandlerAs, JobAs, RequestOK, PatchReachesTheIndex
<1>9. RunIsWaitedFor(handler'[r], job'[r], phase, overdue)
  BY <1>2, <1>3, <1>4, RequestFacts DEF HandlerAs, JobAs, Answers, RequestOK, RunIsWaitedFor
<1>10. RequestOK(handler'[r], job'[r], phase, overdue, checkout.near, checkout'.patched, indexed'.patched)
  BY <1>6, <1>7, <1>8, <1>9 DEF RequestOK
<1> QED
  BY <1>1, <1>2, <1>5, <1>10, RequestFacts, OneRequestSteps DEF CheckHead

\* The preview adds the diff to its hash.
LEMMA PreviewDiffInv ==
  ASSUME ServeInv, NEW r \in ServeRequests, PreviewDiff(r)
  PROVE  ServeInv'
<1>1. handler' = [handler EXCEPT ![r] = handler'[r]] /\ job' = [job EXCEPT ![r] = job'[r]]
  BY RequestFacts DEF PreviewDiff
<1>2. handler[r].at = "previewing" /\ UNCHANGED <<checkout, indexed>>
  BY DEF PreviewDiff
<1>3. PICK a \in {"failed", "previewed"}, x \in Seq(Parts) :
        /\ handler'[r] = HandlerAs(handler[r], a, x, handler[r].own, handler[r].onto)
        /\ Len(x) <= 2 /\ (a = "previewed" => Len(x) = 2)
  <2> DEFINE a == IF checkout.patched THEN "failed" ELSE "previewed"
             x == handler[r].hash \o PatchOf(checkout)
  <2>1. handler' = [handler EXCEPT ![r].at = a, ![r].hash = x]
    BY RequestFacts, PatchOfType DEF PreviewDiff
  <2>2. handler'[r] = HandlerAs(handler[r], a, x, handler[r].own, handler[r].onto)
    BY <2>1, RequestFacts DEF Handlers, HandlerAs
  <2>3. /\ handler[r].hash \in Seq(Parts) /\ Len(handler[r].hash) = 1
        /\ PatchOf(checkout) \in Seq(Parts) /\ Len(PatchOf(checkout)) <= 1
        /\ ~checkout.patched => Len(PatchOf(checkout)) = 1
    BY <1>2, RequestFacts, PatchOfType DEF RequestOK, HashesGrow, Handlers
  <2>4. x \in Seq(Parts) /\ Len(x) <= 2 /\ (~checkout.patched => Len(x) = 2)
    BY <2>3, HashWithDiff
  <2>5. a \in {"failed", "previewed"} /\ (a = "previewed" => ~checkout.patched)
    OBVIOUS
  <2> HIDE DEF a, x
  <2> QED
    BY <2>2, <2>4, <2>5
<1>4. job'[r] = job[r]
  BY DEF PreviewDiff
<1>5. handler'[r] \in Handlers /\ job'[r] \in Jobs
  <2>1. a \in Answers \cup Steps
    BY <1>3 DEF Answers, Steps
  <2> QED
    BY <1>3, <1>4, <2>1, RequestFacts, HandlerAsType, HandlerParts
<1>6. HashesGrow(handler'[r])
  <2>1. HashesGrow(handler[r])
    BY RequestFacts DEF RequestOK
  <2> QED
    BY <1>2, <1>3, <2>1, HandlerAsFields DEF HashesGrow
<1>7. PatchIsReviewed(handler'[r], checkout.near)
  BY <1>2, <1>3, RequestFacts DEF HandlerAs, Steps, RequestOK, PatchIsReviewed
<1>8. PatchReachesTheIndex(handler'[r], job'[r], checkout'.patched, indexed'.patched)
  BY <1>2, <1>3, <1>4, RequestFacts DEF HandlerAs, JobAs, RequestOK, PatchReachesTheIndex
<1>9. RunIsWaitedFor(handler'[r], job'[r], phase, overdue)
  BY <1>2, <1>3, <1>4, RequestFacts DEF HandlerAs, JobAs, Answers, RequestOK, RunIsWaitedFor
<1>10. RequestOK(handler'[r], job'[r], phase, overdue, checkout.near, checkout'.patched, indexed'.patched)
  BY <1>6, <1>7, <1>8, <1>9 DEF RequestOK
<1> QED
  BY <1>1, <1>2, <1>5, <1>10, RequestFacts, OneRequestSteps, ZenonT(40) DEF PreviewDiff

\* The apply compares its own hash with the preview's.
LEMMA ApplyDiffInv ==
  ASSUME ServeInv, NEW r \in ServeRequests, ApplyDiff(r)
  PROVE  ServeInv'
<1>1. handler' = [handler EXCEPT ![r] = handler'[r]] /\ job' = [job EXCEPT ![r] = job'[r]]
  BY RequestFacts DEF ApplyDiff
<1>2. handler[r].at = "preparing" /\ UNCHANGED <<checkout, indexed>>
  BY DEF ApplyDiff
<1>3. PICK a \in {"failed", "stale_preview", "patching"}, x \in Seq(Parts) :
        /\ handler'[r] = HandlerAs(handler[r], a, handler[r].hash, x, handler[r].onto)
        /\ Len(x) <= 2 /\ (a = "patching" => x = handler[r].hash /\ x[2] = checkout.near)
  <2> DEFINE x == handler[r].own \o PatchOf(checkout)
  <2>1. PICK a \in {"failed", "stale_preview", "patching"} :
          /\ handler' = [handler EXCEPT ![r].at = a, ![r].own = x]
          /\ a = "patching" => ~checkout.patched /\ x = handler[r].hash
    BY RequestFacts, PatchOfType DEF ApplyDiff
  <2>2. handler'[r] = HandlerAs(handler[r], a, handler[r].hash, x, handler[r].onto)
    BY <2>1, RequestFacts DEF Handlers, HandlerAs
  <2>3. /\ handler[r].own \in Seq(Parts) /\ Len(handler[r].own) = 1
        /\ PatchOf(checkout) \in Seq(Parts) /\ Len(PatchOf(checkout)) <= 1
        /\ ~checkout.patched => Len(PatchOf(checkout)) = 1 /\ PatchOf(checkout)[1] = checkout.near
    BY <1>2, RequestFacts, PatchOfType DEF RequestOK, HashesGrow, Handlers
  <2>4. x \in Seq(Parts) /\ Len(x) <= 2 /\ (~checkout.patched => x[2] = checkout.near)
    BY <2>3, HashWithDiff
  <2> HIDE DEF x
  <2> QED
    BY <2>1, <2>2, <2>4
<1>4. job'[r] = job[r]
  BY DEF ApplyDiff
<1>5. handler'[r] \in Handlers /\ job'[r] \in Jobs
  <2>1. a \in Answers \cup Steps
    BY <1>3 DEF Answers, Steps
  <2> QED
    BY <1>3, <1>4, <2>1, RequestFacts, HandlerAsType, HandlerParts
<1>6. HashesGrow(handler'[r])
  BY <1>2, <1>3, RequestFacts DEF RequestOK, HandlerAs, HashesGrow
<1>7. PatchIsReviewed(handler'[r], checkout.near)
  BY <1>2, <1>3, RequestFacts DEF HandlerAs, Steps, RequestOK, PatchIsReviewed
<1>8. PatchReachesTheIndex(handler'[r], job'[r], checkout'.patched, indexed'.patched)
  BY <1>2, <1>3, <1>4, RequestFacts DEF HandlerAs, JobAs, RequestOK, PatchReachesTheIndex
<1>9. RunIsWaitedFor(handler'[r], job'[r], phase, overdue)
  BY <1>2, <1>3, <1>4, RequestFacts DEF HandlerAs, JobAs, Answers, RequestOK, RunIsWaitedFor
<1>10. RequestOK(handler'[r], job'[r], phase, overdue, checkout.near, checkout'.patched, indexed'.patched)
  BY <1>6, <1>7, <1>8, <1>9 DEF RequestOK
<1> QED
  BY <1>1, <1>2, <1>5, <1>10, RequestFacts, OneRequestSteps, ZenonT(40) DEF ApplyDiff

\* gopatch writes the patch over the files as they are by now, or fails.
LEMMA RunGopatchInv ==
  ASSUME ServeInv, NEW r \in ServeRequests, RunGopatch(r)
  PROVE  ServeInv'
<1>1. handler' = [handler EXCEPT ![r] = handler'[r]] /\ job' = [job EXCEPT ![r] = job'[r]]
  BY RequestFacts DEF RunGopatch, Goes
<1>2. /\ handler[r].at = "patching" /\ UNCHANGED indexed
      /\ checkout' \in Files /\ checkout'.near = checkout.near /\ (checkout.patched => checkout'.patched)
  BY RequestFacts DEF RunGopatch, Files
<1>3. PICK a \in {"patched", "failed"}, x \in Seq(Parts) :
        /\ handler'[r] = HandlerAs(handler[r], a, handler[r].hash, handler[r].own, x)
        /\ \/ a = "patched" /\ checkout'.patched /\ x = <<checkout.near>> /\ Len(x) = 1
           \/ a = "failed" /\ x = handler[r].onto
  <2>1. CASE /\ ~checkout.patched
             /\ handler' = [handler EXCEPT ![r].at = "patched", ![r].onto = PatchOf(checkout)]
             /\ checkout' = [checkout EXCEPT !.patched = TRUE]
    <3>1. PatchOf(checkout) = <<checkout.near>> /\ PatchOf(checkout) \in Seq(Parts) /\ Len(PatchOf(checkout)) = 1
      BY <2>1, RequestFacts, PatchOfType
    <3>2. handler'[r] = HandlerAs(handler[r], "patched", handler[r].hash, handler[r].own, PatchOf(checkout))
      BY <2>1, RequestFacts DEF Handlers, HandlerAs
    <3>3. checkout'.patched
      BY <2>1, RequestFacts DEF Files
    <3> QED
      BY <3>1, <3>2, <3>3, Zenon
  <2>2. CASE Goes(r, "failed") /\ UNCHANGED checkout
    <3>1. handler'[r] = HandlerAs(handler[r], "failed", handler[r].hash, handler[r].own, handler[r].onto)
      BY <2>2, RequestFacts DEF Goes, Handlers, HandlerAs
    <3> QED
      BY <3>1, RequestFacts, HandlerParts, Zenon
  <2> QED
    BY <2>1, <2>2 DEF RunGopatch
<1>4. job'[r] = job[r]
  BY DEF RunGopatch
<1>5. handler'[r] \in Handlers /\ job'[r] \in Jobs
  <2>1. a \in Answers \cup Steps
    BY <1>3 DEF Answers, Steps
  <2> QED
    BY <1>3, <1>4, <2>1, RequestFacts, HandlerAsType, HandlerParts
<1>6. HashesGrow(handler'[r])
  <2>1. HashesGrow(handler[r])
    BY RequestFacts DEF RequestOK
  <2>2. handler'[r].at = a /\ handler'[r].hash = handler[r].hash /\ handler'[r].own = handler[r].own /\ handler'[r].onto = x
    BY <1>3, HandlerAsFields
  <2>3. CASE Len(x) = 1
    BY <2>1, <2>2, <2>3 DEF HashesGrow
  <2>4. CASE x = handler[r].onto
    BY <2>1, <2>2, <2>4 DEF HashesGrow
  <2> QED
    BY <1>3, <2>3, <2>4
<1>7. PatchIsReviewed(handler'[r], checkout.near)
  BY <1>2, <1>3, RequestFacts DEF HandlerAs, Steps, RequestOK, PatchIsReviewed
<1>8. PatchReachesTheIndex(handler'[r], job'[r], checkout'.patched, indexed'.patched)
  BY <1>2, <1>3, <1>4, RequestFacts DEF HandlerAs, JobAs, RequestOK, PatchReachesTheIndex
<1>9. RunIsWaitedFor(handler'[r], job'[r], phase, overdue)
  BY <1>2, <1>3, <1>4, RequestFacts DEF HandlerAs, JobAs, Answers, RequestOK, RunIsWaitedFor
<1>10. RequestOK(handler'[r], job'[r], phase, overdue, checkout.near, checkout'.patched, indexed'.patched)
  BY <1>6, <1>7, <1>8, <1>9 DEF RequestOK
<1> QED
  BY <1>1, <1>2, <1>5, <1>10, RequestFacts, OneRequestSteps DEF RunGopatch

\* The reindex starts, or the context is done.
LEMMA StartReindexInv ==
  ASSUME ServeInv, NEW r \in ServeRequests, StartReindex(r)
  PROVE  ServeInv'
<1> DEFINE h(a) == HandlerAs(handler[r], a, handler[r].hash, handler[r].own, handler[r].onto)
<1>1. handler' = [handler EXCEPT ![r] = handler'[r]] /\ job' = [job EXCEPT ![r] = job'[r]]
  BY RequestFacts DEF StartReindex, Goes
<1>2. handler[r].at = "patched"
      /\ UNCHANGED <<checkout, indexed>>
  BY DEF StartReindex, Goes, Live
<1>3. handler'[r] = IF Live THEN h("waiting") ELSE h("reindex_failed")
  BY <1>2, RequestFacts DEF StartReindex, Goes, Live, Handlers, HandlerAs
<1>4. job'[r] = IF Live THEN JobAs("running", job[r].counted, job[r].recorded) ELSE job[r]
  BY RequestFacts DEF StartReindex, Live, Jobs, JobAs
<1>5. handler'[r] \in Handlers /\ job'[r] \in Jobs
  BY <1>2, <1>3, <1>4, RequestFacts DEF Handlers, HandlerAs, Jobs, JobAs, Answers, Steps
<1>6. HashesGrow(handler'[r])
  BY <1>2, <1>3, RequestFacts DEF HandlerAs, Handlers, RequestOK, HashesGrow
<1>7. PatchIsReviewed(handler'[r], checkout.near)
  BY <1>2, <1>3, RequestFacts DEF HandlerAs, Steps, RequestOK, PatchIsReviewed
<1>8. PatchReachesTheIndex(handler'[r], job'[r], checkout'.patched, indexed'.patched)
  BY <1>2, <1>3, <1>4, RequestFacts DEF HandlerAs, JobAs, RequestOK, PatchReachesTheIndex
<1>9. RunIsWaitedFor(handler'[r], job'[r], phase, overdue)
  BY <1>2, <1>3, <1>4, RequestFacts DEF HandlerAs, JobAs, Answers, RequestOK, RunIsWaitedFor
<1>10. RequestOK(handler'[r], job'[r], phase, overdue, checkout.near, checkout'.patched, indexed'.patched)
  BY <1>6, <1>7, <1>8, <1>9 DEF RequestOK
<1> QED
  BY <1>1, <1>2, <1>5, <1>10, RequestFacts, OneRequestSteps DEF StartReindex

\* The apply answers what its reindex came to.
LEMMA AnswerApplyInv ==
  ASSUME ServeInv, NEW r \in ServeRequests, AnswerApply(r)
  PROVE  ServeInv'
<1>1. handler' = [handler EXCEPT ![r] = handler'[r]] /\ job' = [job EXCEPT ![r] = job'[r]]
  BY RequestFacts DEF AnswerApply, Goes
<1>2. handler[r].at = "waiting"
      /\ UNCHANGED <<checkout, indexed>>
  BY DEF AnswerApply, Goes, Live
<1>3. \E a \in {"applied", "reindex_failed"} :
        /\ handler'[r] = HandlerAs(handler[r], a, handler[r].hash, handler[r].own, handler[r].onto)
        /\ a = "applied" => job[r].state = "done"
  <2>1. PICK a \in {"applied", "reindex_failed"} :
          handler' = [handler EXCEPT ![r].at = a] /\ (a = "applied" => job[r].state = "done")
    BY DEF AnswerApply, Goes
  <2> QED
    BY <2>1, RequestFacts DEF Handlers, HandlerAs
<1>4. job'[r] = job[r]
  BY RequestFacts DEF AnswerApply, Live, Jobs, JobAs
<1>5. handler'[r] \in Handlers /\ job'[r] \in Jobs
  BY <1>2, <1>3, <1>4, RequestFacts DEF Handlers, HandlerAs, Jobs, JobAs, Answers, Steps
<1>6. HashesGrow(handler'[r])
  BY <1>2, <1>3, RequestFacts DEF HandlerAs, Handlers, RequestOK, HashesGrow
<1>7. PatchIsReviewed(handler'[r], checkout.near)
  BY <1>2, <1>3, RequestFacts DEF HandlerAs, Steps, RequestOK, PatchIsReviewed
<1>8. PatchReachesTheIndex(handler'[r], job'[r], checkout'.patched, indexed'.patched)
  BY <1>2, <1>3, <1>4, RequestFacts DEF HandlerAs, JobAs, RequestOK, PatchReachesTheIndex
<1>9. RunIsWaitedFor(handler'[r], job'[r], phase, overdue)
  BY <1>2, <1>3, <1>4, RequestFacts DEF HandlerAs, JobAs, Answers, RequestOK, RunIsWaitedFor
<1>10. RequestOK(handler'[r], job'[r], phase, overdue, checkout.near, checkout'.patched, indexed'.patched)
  BY <1>6, <1>7, <1>8, <1>9 DEF RequestOK
<1> QED
  BY <1>1, <1>2, <1>5, <1>10, RequestFacts, OneRequestSteps DEF AnswerApply

\* A run publishes the checkout as it is, or fails.
LEMMA EndRunInv ==
  ASSUME ServeInv, NEW r \in ServeRequests, EndRun(r)
  PROVE  ServeInv'
<1>1. handler' = [handler EXCEPT ![r] = handler'[r]] /\ job' = [job EXCEPT ![r] = job'[r]]
  BY RequestFacts DEF EndRun, Goes
<1>2. job[r].state = "running"
      /\ checkout' = checkout /\ indexed' \in {indexed, checkout}
  BY DEF EndRun, Goes, Live
<1>3. handler'[r] = handler[r]
  BY <1>2, RequestFacts DEF EndRun, Goes, Live, Handlers, HandlerAs
<1>4. \E s \in {"done", "failed"} :
        /\ job'[r] = JobAs(s, job[r].counted, job[r].recorded)
        /\ indexed' = checkout \/ (s = "failed" /\ indexed' = indexed)
  <2>1. PICK s \in {"done", "failed"} :
          job' = [job EXCEPT ![r].state = s] /\ (indexed' = checkout \/ (s = "failed" /\ indexed' = indexed))
    BY DEF EndRun
  <2> QED
    BY <2>1, RequestFacts DEF Jobs, JobAs
<1>5. handler'[r] \in Handlers /\ job'[r] \in Jobs
  BY <1>2, <1>3, <1>4, RequestFacts DEF Handlers, HandlerAs, Jobs, JobAs, Answers, Steps
<1>6. HashesGrow(handler'[r])
  BY <1>2, <1>3, RequestFacts DEF HandlerAs, Handlers, RequestOK, HashesGrow
<1>7. PatchIsReviewed(handler'[r], checkout.near)
  BY <1>2, <1>3, RequestFacts DEF HandlerAs, Steps, RequestOK, PatchIsReviewed
<1>8. PatchReachesTheIndex(handler'[r], job'[r], checkout'.patched, indexed'.patched)
  BY <1>2, <1>3, <1>4, RequestFacts DEF HandlerAs, JobAs, RequestOK, PatchReachesTheIndex
<1>9. RunIsWaitedFor(handler'[r], job'[r], phase, overdue)
  BY <1>2, <1>3, <1>4, RequestFacts DEF HandlerAs, JobAs, Answers, RequestOK, RunIsWaitedFor
<1>10. RequestOK(handler'[r], job'[r], phase, overdue, checkout.near, checkout'.patched, indexed'.patched)
  BY <1>6, <1>7, <1>8, <1>9 DEF RequestOK
<1> QED
  BY <1>1, <1>2, <1>5, <1>10, RequestFacts, OneRequestSteps DEF EndRun

\* A run seen terminal is recorded.
LEMMA RecordRunInv ==
  ASSUME ServeInv, NEW r \in ServeRequests, RecordRun(r)
  PROVE  ServeInv'
<1>1. handler' = [handler EXCEPT ![r] = handler'[r]] /\ job' = [job EXCEPT ![r] = job'[r]]
  BY RequestFacts DEF RecordRun, Goes
<1>2. phase # "closed"
      /\ UNCHANGED <<checkout, indexed>>
  BY DEF RecordRun, Goes, Live
<1>3. handler'[r] = handler[r]
  BY <1>2, RequestFacts DEF RecordRun, Goes, Live, Handlers, HandlerAs
<1>4. job'[r] = JobAs(job[r].state, job[r].counted, TRUE)
  BY RequestFacts DEF RecordRun, Live, Jobs, JobAs
<1>5. handler'[r] \in Handlers /\ job'[r] \in Jobs
  BY <1>2, <1>3, <1>4, RequestFacts DEF Handlers, HandlerAs, Jobs, JobAs, Answers, Steps
<1>6. HashesGrow(handler'[r])
  BY <1>2, <1>3, RequestFacts DEF HandlerAs, Handlers, RequestOK, HashesGrow
<1>7. PatchIsReviewed(handler'[r], checkout.near)
  BY <1>2, <1>3, RequestFacts DEF HandlerAs, Steps, RequestOK, PatchIsReviewed
<1>8. PatchReachesTheIndex(handler'[r], job'[r], checkout'.patched, indexed'.patched)
  BY <1>2, <1>3, <1>4, RequestFacts DEF HandlerAs, JobAs, RequestOK, PatchReachesTheIndex
<1>9. RunIsWaitedFor(handler'[r], job'[r], phase, overdue)
  BY <1>2, <1>3, <1>4, RequestFacts DEF HandlerAs, JobAs, Answers, RequestOK, RunIsWaitedFor
<1>10. RequestOK(handler'[r], job'[r], phase, overdue, checkout.near, checkout'.patched, indexed'.patched)
  BY <1>6, <1>7, <1>8, <1>9 DEF RequestOK
<1> QED
  BY <1>1, <1>2, <1>5, <1>10, RequestFacts, OneRequestSteps DEF RecordRun

\* The checkout's user edits it; only what lies before an apply's comparison is under its hash.
LEMMA EditInv == ASSUME ServeInv, Edit PROVE ServeInv'
<1>1. /\ checkout' \in Files /\ checkout'.patched = checkout.patched
      /\ UNCHANGED <<phase, cancelled, overdue, job, indexed>>
  BY DEF ServeInv, ServeTypes, Edit, Files
<1>2. /\ handler' \in [ServeRequests -> Handlers]
      /\ \A r \in ServeRequests :
           \/ checkout'.near = checkout.near /\ handler'[r] = handler[r]
           \/ /\ handler'[r] = [handler[r] EXCEPT !.late = handler'[r].late]
              /\ handler[r].late \/ handler[r].at = "patching" => handler'[r].late
  <2>1. CASE UNCHANGED handler /\ checkout'.near = checkout.near
    BY <2>1 DEF ServeInv, ServeTypes
  <2>2. CASE handler' = [r \in ServeRequests |-> [handler[r] EXCEPT !.late = @ \/ handler[r].at = "patching"]]
    BY <2>2 DEF ServeInv, ServeTypes, Handlers
  <2> QED
    BY <2>1, <2>2 DEF Edit, ServeInv, ServeTypes, Files
<1>3. ASSUME NEW r \in ServeRequests
      PROVE  RequestOK(handler[r], job[r], phase, overdue, checkout.near, checkout.patched, indexed.patched)'
  <2>1. CASE checkout'.near = checkout.near /\ handler'[r] = handler[r]
    BY <1>1, <2>1, RequestFacts
  <2>2. CASE /\ handler'[r] = [handler[r] EXCEPT !.late = handler'[r].late]
             /\ handler[r].late \/ handler[r].at = "patching" => handler'[r].late
    <3>1. /\ handler'[r].at = handler[r].at /\ handler'[r].hash = handler[r].hash
          /\ handler'[r].own = handler[r].own /\ handler'[r].onto = handler[r].onto
      BY <2>2, RequestFacts DEF Handlers
    <3>2. RequestOK(handler[r], job[r], phase, overdue, checkout.near, checkout.patched, indexed.patched)
      BY RequestFacts
    <3> QED
      BY <1>1, <2>2, <3>1, <3>2 DEF RequestOK, HashesGrow, PatchIsReviewed, PatchReachesTheIndex, RunIsWaitedFor
  <2> QED
    BY <1>2, <2>1, <2>2
<1> QED
  BY <1>1, <1>2, <1>3 DEF ServeInv, ServeTypes

\* The steps of the shutdown itself, in the order runServe takes them.
LEMMA ShutdownInv ==
  ASSUME ServeInv, Interrupt \/ CloseListener \/ EndShutdown \/ Drain \/ Close
  PROVE  ServeInv'
<1>1. UNCHANGED <<handler, checkout, indexed>>
  BY DEF Interrupt, CloseListener, EndShutdown, Drain, Close
<1>2. job' \in [ServeRequests -> Jobs] /\ \A r \in ServeRequests :
         /\ job'[r].state = job[r].state /\ job'[r].counted = job[r].counted
         /\ job[r].recorded \/ (Close /\ job[r].state \in {"done", "failed"}) => job'[r].recorded
  <2>1. CASE UNCHANGED job /\ ~Close
    BY <2>1 DEF ServeInv, ServeTypes
  <2>2. CASE Close
    BY <2>2, ZenonT(40) DEF ServeInv, ServeTypes, Jobs, Close
  <2> QED
    BY <2>1, <2>2 DEF Interrupt, CloseListener, EndShutdown, Drain
<1>3. /\ phase' \in {"serving", "shutdown", "drain", "close", "closed"} /\ cancelled' \in BOOLEAN /\ overdue' \in BOOLEAN
      /\ phase' # "serving" => cancelled'
  BY DEF ServeInv, ServeTypes, Interrupt, CloseListener, EndShutdown, Drain, Close
<1>4. ASSUME NEW r \in ServeRequests PROVE RunIsWaitedFor(handler[r], job'[r], phase', overdue')
  <2>1. RunIsWaitedFor(handler[r], job[r], phase, overdue)
    BY RequestFacts DEF RequestOK
  <2>2. CASE Interrupt \/ CloseListener
    BY <1>2, <2>1, <2>2 DEF Interrupt, CloseListener, RunIsWaitedFor
  <2>3. CASE EndShutdown
    BY <1>2, <2>1, <2>3 DEF EndShutdown, RunIsWaitedFor, Active
  <2>4. CASE Drain
    <3>1. phase = "drain" /\ phase' = "close" /\ (~overdue' => ~overdue /\ ~Counted(r))
      BY <2>4 DEF Drain, ServeInv, ServeTypes
    <3>2. job[r].state \in {"none", "running", "done", "failed"}
      BY RequestFacts DEF Jobs
    <3> QED
      BY <1>2, <2>1, <3>1, <3>2 DEF RunIsWaitedFor, Counted
  <2>5. CASE Close
    <3>1. phase = "close" /\ phase' = "closed" /\ overdue' = overdue
      BY <2>5 DEF Close
    <3> QED
      BY <1>2, <2>1, <2>5, <3>1 DEF RunIsWaitedFor
  <2> QED
    BY <2>2, <2>3, <2>4, <2>5
<1>5. ASSUME NEW r \in ServeRequests
      PROVE  RequestOK(handler[r], job[r], phase, overdue, checkout.near, checkout.patched, indexed.patched)'
  BY <1>1, <1>2, <1>4, RequestFacts DEF RequestOK, PatchReachesTheIndex
<1> QED
  BY <1>1, <1>2, <1>3, <1>5 DEF ServeInv, ServeTypes

\* Every step of the server, its handlers and the checkout keeps the invariant.
LEMMA ServeStepInv == ServeInv /\ [ServeNext]_serveVars => ServeInv'
<1> SUFFICES ASSUME ServeInv, [ServeNext]_serveVars PROVE ServeInv'
  OBVIOUS
<1>1. CASE UNCHANGED serveVars
  BY <1>1 DEF serveVars, ServeInv, ServeTypes
<1>2. CASE ServeNext
  BY <1>2, StartIndexInv, AcceptIndexInv, CheckHeadInv, PreviewDiffInv, ApplyDiffInv, RunGopatchInv, StartReindexInv,
     AnswerApplyInv, EndRunInv, RecordRunInv, EditInv, ShutdownInv DEF ServeNext
<1> QED
  BY <1>1, <1>2

\* What a request is answered is true of the task-run store and of the checkout, whatever handlers, runs,
\* edits and the shutdown do to each other (serve.go, refactor_service.go).
THEOREM ServeAnswersAreKept == ServeSpec => []AnswersAreKept
<1>1. ServeInv => AnswersAreKept
  <2> SUFFICES ASSUME ServeInv PROVE AnswersAreKept
    OBVIOUS
  <2>1. ServeTypeOK
    BY RequestFacts DEF ServeInv, ServeTypes, RequestOK, HashesGrow, ServeTypeOK, Handlers, Jobs, Steps
  <2>2. AcceptedRunsAreRecorded
    BY RequestFacts DEF AcceptedRunsAreRecorded, RequestOK, RunIsWaitedFor, ServeRequests
  <2>3. ReviewedPatchIsWritten
    BY RequestFacts DEF ReviewedPatchIsWritten, RequestOK, PatchIsReviewed, ServeRequests
  <2>4. AppliedIsIndexed
    BY RequestFacts DEF AppliedIsIndexed, RequestOK, PatchReachesTheIndex, ServeRequests
  <2> QED
    BY <2>1, <2>2, <2>3, <2>4 DEF AnswersAreKept
<1> QED
  BY <1>1, ServeInitInv, ServeStepInv, PTL DEF ServeSpec

=============================================================================
