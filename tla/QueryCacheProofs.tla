-------------------------- MODULE QueryCacheProofs --------------------------
(***************************************************************************)
(* What a cached answer is worth, for every number of queries, roots,      *)
(* symbols and handles, and any steps of publishers and pruners.           *)
(***************************************************************************)
EXTENDS QueryCache, FiniteSetTheorems, TLAPS

-----------------------------------------------------------------------------
(* The index: what HandleIndex promises, as an invariant.                  *)

Snapshots == 0..MaxPublications

IndexTypes ==
  /\ handle \in [Symbols -> Handles \cup {NoHandle}]
  /\ head \in [Roots -> Snapshots]
  /\ epoch \in Nat /\ published \in Snapshots

\* A stored symbol's handle is its own.
HandlesDiffer ==
  \A s, t \in Symbols : handle[s] # NoHandle /\ handle[s] = handle[t] => s = t

\* A row's handle is the one its symbol is stored under.
RowsAreStored ==
  \A x \in rows :
    /\ x.means \in Symbols /\ x.handle = handle[x.means] /\ x.handle # NoHandle
    /\ x.snapshot \in Snapshots /\ x.snapshot <= published

HeadsAreLive ==
  \A r \in Roots : head[r] <= published /\ (head[r] # 0 => <<r, head[r]>> \in live)

IndexInv == IndexTypes /\ HandlesDiffer /\ RowsAreStored /\ HeadsAreLive

-----------------------------------------------------------------------------
(* The cache.                                                              *)

Tokens == [heads : [Roots -> Snapshots], epoch : Nat \cup {Nothing}]
Selections == [Roots -> Snapshots \cup {Nothing}]
Generations == [token : Tokens \cup {Nothing}, selection : Selections]
Pairings == Symbols \X (Handles \cup {NoHandle})
Asking == {"heads", "token", "loading"}
Holding == {"validated", "selected"}
Facing == {"captured", "read", "looked"}
Phases == {"idle", "scoped", "done", "conflict"} \cup Asking \cup Holding \cup Facing
QueryStates ==
  [phase : Phases, symbol : Symbols \cup {Nothing}, root : Roots \cup {Nothing}, began : Nat,
   saw : Snapshots, token : Tokens \cup {Nothing}, generation : Objects \cup {0},
   scope : Snapshots \cup {Nothing}, facts : Objects \cup {0},
   handle : Handles \cup {NoHandle}, answer : SUBSET Symbols]

CacheTypes ==
  /\ generations \in [Objects -> Generations]
  /\ current \in Objects \cup {0}
  /\ facts \in [Objects -> SUBSET Pairings]
  /\ symbols \in Objects
  /\ query \in [Queries -> QueryStates]

\* A snapshot that was a head since the epoch e exists while the epoch is still e.
Lasts(r, snapshot, e) ==
  /\ snapshot \in Snapshots /\ snapshot <= published
  /\ e = epoch /\ snapshot # 0 => <<r, snapshot>> \in live

\* A generation's token was read before what the generation keeps.
GenerationOK(g) ==
  /\ g.token \in Tokens /\ g.token.epoch \in Nat /\ g.token.epoch <= epoch
  /\ \A r \in Roots :
       /\ g.token.heads[r] <= head[r]
       /\ g.selection[r] # Nothing =>
            g.token.heads[r] <= g.selection[r] /\ Lasts(r, g.selection[r], g.token.epoch)

\* The handle the symbol is stored under.
Stored(s, h) == s \in Symbols /\ h = handle[s] /\ h # NoHandle

\* What the facts hold, and what is about to be added, is how symbols are stored now.
Fresh(f) ==
  /\ \A p \in facts[f] : Stored(p[1], p[2])
  /\ \A q \in Queries : query[q].phase = "read" /\ query[q].facts = f =>
       Stored(query[q].symbol, query[q].handle)

\* The token a query reads tells no less than what there was when it began.
TokenOK(x) ==
  x.phase \in Asking =>
    /\ x.token \in Tokens /\ x.token.heads[x.root] = x.saw
    /\ \A r \in Roots : x.token.heads[r] <= head[r]
    /\ x.phase # "heads" => x.token.epoch \in Nat /\ x.began <= x.token.epoch /\ x.token.epoch <= epoch
    /\ x.generation = 0 /\ x.facts = 0

\* The generation a query holds is no older than the query.
HeldOK(x) ==
  x.phase \in Holding =>
    LET g == generations[x.generation] IN
    /\ x.generation \in Objects /\ GenerationOK(g)
    /\ x.saw <= g.token.heads[x.root] /\ x.began <= g.token.epoch
    /\ x.phase = "selected" =>
         g.token.heads[x.root] <= x.scope /\ Lasts(x.root, x.scope, g.token.epoch)

\* The snapshot a query reads.
ScopeOK(x) ==
  /\ x.phase \in {"scoped", "selected", "done", "conflict"} \cup Facing => x.scope # Nothing
  /\ x.scope # Nothing => x.saw <= x.scope /\ Lasts(x.root, x.scope, x.began)

\* The handle a query reads rows by, and its answer.
AnswerOK(x) ==
  /\ x.phase \in Facing => x.facts \in Objects
  /\ x.phase # "done" => x.answer = {}
  /\ x.began = epoch =>
       /\ x.phase = "looked" => Stored(x.symbol, x.handle)
       /\ x.phase = "done" =>
            x.answer = {r.means : r \in {y \in rows : y.snapshot = x.scope /\ y.means = x.symbol}}
       /\ x.phase # "conflict"

QueryOK(x) ==
  /\ x.began <= epoch
  /\ x.phase # "idle" => x.symbol \in Symbols /\ x.root \in Roots
  /\ TokenOK(x) /\ HeldOK(x) /\ ScopeOK(x) /\ AnswerOK(x)

\* The facts of the moment are fresh for a generation, and for a query, of this
\* epoch; the facts a query took are fresh for it.
FactsAreFresh ==
  /\ current = 0 => facts[symbols] = {} /\ \A q \in Queries : query[q].phase \in Asking \cup {"idle"}
  /\ current # 0 /\ generations[current].token.epoch = epoch => Fresh(symbols)
  /\ \A q \in Queries : query[q].began = epoch =>
       /\ query[q].phase \in Holding \cup {"scoped"} => Fresh(symbols)
       /\ query[q].phase \in Facing => Fresh(query[q].facts)

CacheInv ==
  /\ IndexInv /\ CacheTypes
  /\ current # 0 => GenerationOK(generations[current])
  /\ \A q \in Queries : QueryOK(query[q])
  /\ FactsAreFresh

-----------------------------------------------------------------------------
(* Lemmas.                                                                 *)

\* Each query holds at most one object, and one of them holds none: an object is
\* left to take.
LEMMA UnusedIsFree ==
  ASSUME NEW held, NEW x, NEW f, 0 \in held,
         \A o \in held : o = x \/ \E p \in Queries : o = f[p]
  PROVE  Unused(held) \in Objects /\ Unused(held) \notin held
<1> DEFINE T == {f[p] : p \in Queries}
           F == [p \in Queries |-> f[p]]
           n == Cardinality(Queries)
<1>1. IsFiniteSet(Queries) /\ n \in Nat
  BY QueryConstants, FS_CardinalityType
<1>2. F \in Surjection(Queries, T)
  BY DEF Surjection
<1>3. IsFiniteSet(T) /\ Cardinality(T) <= n /\ Cardinality(T) \in Nat
  BY <1>1, <1>2, FS_Surjection, FS_CardinalityType
<1>4. held \in SUBSET (T \cup {x})
  OBVIOUS
<1>5. IsFiniteSet(held) /\ Cardinality(held) <= n + 1 /\ Cardinality(held) \in Nat
  <2>1. IsFiniteSet(T \cup {x}) /\ Cardinality(T \cup {x}) = IF x \in T THEN Cardinality(T) ELSE Cardinality(T) + 1
    BY <1>3, FS_AddElement
  <2>2. IsFiniteSet(held) /\ Cardinality(held) <= Cardinality(T \cup {x})
    BY <1>4, <2>1, FS_Subset
  <2>3. Cardinality(held) \in Nat
    BY <2>2, FS_CardinalityType
  <2> HIDE DEF T, n
  <2> QED
    BY <1>1, <1>3, <2>1, <2>2, <2>3
<1>7. IsFiniteSet(held \ {0}) /\ Cardinality(held \ {0}) <= n
  <2>1. IsFiniteSet(held \ {0}) /\ Cardinality(held \ {0}) = Cardinality(held) - 1
    BY <1>5, FS_RemoveElement
  <2> HIDE DEF n
  <2> QED
    BY <1>1, <1>5, <2>1
<1>8. IsFiniteSet(Objects) /\ Cardinality(Objects) = n + 1
  BY <1>1, FS_Interval DEF Objects
<1>9. ~(Objects \subseteq held \ {0})
  <2> SUFFICES ASSUME Objects \in SUBSET (held \ {0}) PROVE FALSE
    OBVIOUS
  <2>1. Cardinality(Objects) <= Cardinality(held \ {0})
    BY <1>7, FS_Subset
  <2>2. Cardinality(held \ {0}) \in Nat
    BY <1>7, FS_CardinalityType
  <2> QED
    BY <1>1, <1>7, <1>8, <2>1, <2>2
<1>10. 0 \notin Objects
  BY <1>1 DEF Objects
<1>11. \E o \in Objects : o \notin held
  BY <1>9, <1>10
<1> QED
  BY <1>11 DEF Unused

-----------------------------------------------------------------------------
(* Steps of the index.                                                     *)

\* A publication keeps what is stored, what is live and what rows say, and leaves
\* heads no older.
LEMMA PublishKeeps ==
  ASSUME IndexInv, NEW root \in Roots, NEW named \in SUBSET Symbols, PublishSnapshot(root, named)
  PROVE  /\ IndexInv' /\ epoch' = epoch
         /\ published' = published + 1 /\ live \subseteq live' /\ rows \subseteq rows'
         /\ \A r \in Roots : head[r] <= head'[r]
         /\ \A s \in Symbols : handle[s] # NoHandle => handle'[s] = handle[s]
         /\ \A x \in rows' : x \in rows \/ x.snapshot = published + 1
<1> USE DEF IndexInv
<1>1. published \in Nat /\ published + 1 \in Snapshots /\ MaxPublications \in Nat
  BY IndexConstants DEF PublishSnapshot, IndexTypes, Snapshots
<1>2. epoch' = epoch /\ published' = published + 1 /\ live \subseteq live' /\ rows \subseteq rows'
  BY DEF PublishSnapshot
<1>3. \A s \in Symbols : handle[s] # NoHandle => handle'[s] = handle[s]
  BY DEF PublishSnapshot, StoredUnder
<1>4. \A r \in Roots : head'[r] = IF r = root THEN published + 1 ELSE head[r]
  BY DEF PublishSnapshot, IndexTypes
<1>5. IndexTypes'
  BY <1>1, <1>4 DEF PublishSnapshot, IndexTypes
<1>6. HandlesDiffer'
  <2>1. handle' \in [Symbols -> Handles \cup {NoHandle}]
    BY DEF PublishSnapshot
  <2>2. \A s, t \in StoredUnder(handle') : handle'[s] = handle'[t] => s = t
    BY DEF PublishSnapshot
  <2> QED
    BY <2>1, <2>2 DEF HandlesDiffer, StoredUnder
<1>7. ASSUME NEW x \in rows'
      PROVE  /\ x \in rows \/ x.snapshot = published + 1
             /\ x.means \in Symbols /\ x.handle = handle'[x.means] /\ x.handle # NoHandle
             /\ x.snapshot \in Snapshots /\ x.snapshot <= published'
  <2>1. CASE x \in rows
    BY <1>1, <1>2, <1>3, <2>1 DEF RowsAreStored, Snapshots
  <2>2. CASE x \notin rows
    <3>1. PICK s \in named : x = [root |-> root, snapshot |-> published + 1, handle |-> handle'[s], means |-> s]
      BY <2>2 DEF PublishSnapshot
    <3>2. s \in Symbols /\ handle'[s] # NoHandle
      BY DEF PublishSnapshot, StoredUnder
    <3>3. x.snapshot = published + 1 /\ x.handle = handle'[s] /\ x.means = s
      BY <3>1
    <3> QED
      BY <1>1, <1>2, <3>2, <3>3
  <2> QED
    BY <2>1, <2>2
<1>8. RowsAreStored'
  BY <1>7 DEF RowsAreStored
<1>9. HeadsAreLive'
  <2>1. <<root, published + 1>> \in live'
    BY DEF PublishSnapshot
  <2> QED
    BY <1>1, <1>2, <1>4, <2>1 DEF HeadsAreLive, IndexTypes, Snapshots
<1>10. ASSUME NEW r \in Roots PROVE head[r] <= head'[r]
  <2>1. head[r] \in Nat
    BY <1>1 DEF IndexTypes, Snapshots
  <2>2. head[r] <= published
    BY Zenon DEF HeadsAreLive
  <2>3. head'[r] = published + 1 \/ head'[r] = head[r]
    BY <1>4
  <2> QED
    BY <1>1, <2>1, <2>2, <2>3
<1> QED
  BY <1>2, <1>3, <1>5, <1>6, <1>7, <1>8, <1>9, <1>10

\* A prune moves the epoch, and leaves rows only to symbols that it leaves.
LEMMA PruneKeeps ==
  ASSUME IndexInv, NEW root \in Roots, NEW gone \in SUBSET live,
         NEW orphans \in SUBSET StoredUnder(handle), PruneSnapshots(root, gone, orphans)
  PROVE  IndexInv' /\ epoch' = epoch + 1 /\ UNCHANGED <<head, published>>
<1> USE DEF IndexInv
<1>1. epoch' = epoch + 1 /\ UNCHANGED <<head, published>>
  BY DEF PruneSnapshots
<1>2. \A s \in Symbols : handle'[s] = IF s \in orphans THEN NoHandle ELSE handle[s]
  BY DEF PruneSnapshots
<1>3. IndexTypes'
  <2>1. handle' \in [Symbols -> Handles \cup {NoHandle}]
    BY DEF PruneSnapshots, IndexTypes
  <2> QED
    BY <1>1, <2>1 DEF IndexTypes
<1>4. HandlesDiffer'
  BY <1>2 DEF HandlesDiffer
<1>5. RowsAreStored'
  <2> SUFFICES ASSUME NEW x \in rows'
               PROVE  /\ x.means \in Symbols /\ x.handle = handle'[x.means] /\ x.handle # NoHandle
                      /\ x.snapshot \in Snapshots /\ x.snapshot <= published'
    BY DEF RowsAreStored
  <2>1. x \in rows
    BY DEF PruneSnapshots
  <2>2. x.means \in Symbols /\ x.handle = handle[x.means] /\ x.handle # NoHandle
        /\ x.snapshot \in Snapshots /\ x.snapshot <= published
    BY <2>1 DEF RowsAreStored
  <2>3. x.means \notin orphans
    BY <2>2 DEF PruneSnapshots
  <2> QED
    BY <1>1, <1>2, <2>2, <2>3
<1>6. HeadsAreLive'
  BY <1>1 DEF HeadsAreLive, PruneSnapshots
<1> QED
  BY <1>1, <1>3, <1>4, <1>5, <1>6

\* What the cache's invariant needs of a step of the index: a publication, or a
\* step that moves the epoch.
Publishes ==
  /\ epoch' = epoch /\ live \subseteq live' /\ rows \subseteq rows'
  /\ \A s \in Symbols : handle[s] # NoHandle => handle'[s] = handle[s]
  /\ \A x \in rows' : x \in rows \/ x.snapshot = published + 1

IndexMoves ==
  /\ published \in Snapshots /\ published' \in Snapshots /\ published <= published'
  /\ epoch \in Nat /\ epoch' \in Nat
  /\ \A r \in Roots : head[r] \in Nat /\ head'[r] \in Nat /\ head[r] <= head'[r]
  /\ Publishes \/ epoch' = epoch + 1

\* Every step of the index is one of the two.
LEMMA IndexNextMoves ==
  ASSUME IndexInv, IndexNext
  PROVE  IndexInv' /\ IndexMoves
<1>1. PICK root \in Roots :
        \/ \E named \in SUBSET Symbols : PublishSnapshot(root, named)
        \/ \E gone \in SUBSET live, orphans \in SUBSET StoredUnder(handle) : PruneSnapshots(root, gone, orphans)
  BY DEF IndexNext
<1>2. \A n \in Snapshots : n \in Nat
  BY IndexConstants DEF Snapshots
<1>3. IndexTypes /\ (IndexInv' => IndexTypes')
  BY DEF IndexInv
<1>4. ASSUME IndexTypes, NEW r \in Roots PROVE head[r] \in Nat
  BY <1>2, <1>4 DEF IndexTypes
<1>5. ASSUME IndexTypes', NEW r \in Roots PROVE head'[r] \in Nat
  BY <1>2, <1>5 DEF IndexTypes
<1>6. CASE \E named \in SUBSET Symbols : PublishSnapshot(root, named)
  <2>1. PICK named \in SUBSET Symbols : PublishSnapshot(root, named)
    BY <1>6
  <2>2. /\ IndexInv' /\ epoch' = epoch
        /\ published' = published + 1 /\ live \subseteq live' /\ rows \subseteq rows'
        /\ \A r \in Roots : head[r] <= head'[r]
        /\ \A s \in Symbols : handle[s] # NoHandle => handle'[s] = handle[s]
        /\ \A x \in rows' : x \in rows \/ x.snapshot = published + 1
    BY <2>1, PublishKeeps
  <2>3. Publishes
    BY <2>2 DEF Publishes
  <2>4. published \in Snapshots /\ published' \in Snapshots /\ epoch \in Nat /\ epoch' \in Nat
    BY <1>3, <2>2 DEF IndexTypes
  <2>5. published <= published'
    BY <1>2, <2>2, <2>4
  <2> QED
    BY <1>3, <1>4, <1>5, <2>2, <2>3, <2>4, <2>5 DEF IndexMoves
<1>7. CASE \E gone \in SUBSET live, orphans \in SUBSET StoredUnder(handle) : PruneSnapshots(root, gone, orphans)
  <2>1. PICK gone \in SUBSET live, orphans \in SUBSET StoredUnder(handle) : PruneSnapshots(root, gone, orphans)
    BY <1>7
  <2>2. IndexInv' /\ epoch' = epoch + 1 /\ UNCHANGED <<head, published>>
    BY <2>1, PruneKeeps
  <2>3. published \in Snapshots /\ published' \in Snapshots /\ epoch \in Nat /\ epoch' \in Nat
    BY <1>3, <2>2 DEF IndexTypes
  <2>4. published <= published' /\ \A r \in Roots : head[r] <= head'[r]
    BY <1>2, <1>3, <1>4, <2>2, <2>3
  <2> QED
    BY <1>3, <1>4, <1>5, <2>2, <2>3, <2>4 DEF IndexMoves
<1> QED
  BY <1>1, <1>6, <1>7

\* What lasted while the epoch was e still does.
LEMMA LastingLasts ==
  ASSUME IndexMoves, NEW r, NEW n, NEW e \in Nat, e <= epoch, Lasts(r, n, e)
  PROVE  Lasts(r, n, e)'
<1>1. n \in Snapshots /\ n \in Nat /\ published \in Nat /\ published' \in Nat
  BY IndexConstants DEF Lasts, IndexMoves, Snapshots
<1>2. n <= published'
  BY <1>1 DEF Lasts, IndexMoves
<1>3. CASE epoch' = epoch + 1
  BY <1>1, <1>2, <1>3 DEF Lasts, IndexMoves
<1>4. CASE Publishes
  BY <1>1, <1>2, <1>4 DEF Lasts, Publishes
<1> QED
  BY <1>3, <1>4 DEF IndexMoves

\* A generation stays as good as it was.
LEMMA GenerationLasts ==
  ASSUME IndexMoves, NEW g \in Generations, GenerationOK(g)
  PROVE  GenerationOK(g)'
<1>1. g.token \in Tokens /\ g.token.epoch \in Nat /\ g.token.epoch <= epoch
  BY DEF GenerationOK
<1>3. g.token.epoch <= epoch'
  BY <1>1 DEF IndexMoves, Publishes
<1>2. ASSUME NEW r \in Roots
      PROVE  /\ g.token.heads[r] <= head'[r]
             /\ g.selection[r] # Nothing =>
                  g.token.heads[r] <= g.selection[r] /\ Lasts(r, g.selection[r], g.token.epoch)'
  <2>1. g.token.heads[r] \in Nat
    BY <1>1, IndexConstants DEF Tokens, Snapshots
  <2>2. g.token.heads[r] <= head'[r]
    BY <2>1 DEF GenerationOK, IndexMoves
  <2>3. ASSUME g.selection[r] # Nothing
        PROVE  g.token.heads[r] <= g.selection[r] /\ Lasts(r, g.selection[r], g.token.epoch)'
    BY <1>1, <2>3, LastingLasts DEF GenerationOK
  <2> QED
    BY <2>2, <2>3
<1> QED
  BY <1>1, <1>2, <1>3 DEF GenerationOK

\* A symbol that is stored is stored the same way until a prune.
LEMMA StoredLasts ==
  ASSUME Publishes, NEW s, NEW h, Stored(s, h)
  PROVE  Stored(s, h)'
  BY DEF Publishes, Stored

\* So are facts as fresh as they were.
LEMMA FreshLasts ==
  ASSUME Publishes, UNCHANGED cacheVars, NEW f, Fresh(f)
  PROVE  Fresh(f)'
<1>1. facts' = facts /\ query' = query
  BY DEF cacheVars
<1>2. \A p \in facts'[f] : Stored(p[1], p[2])'
  BY <1>1, StoredLasts DEF Fresh
<1>3. ASSUME NEW q \in Queries, query[q].phase = "read", query[q].facts = f
      PROVE  Stored(query[q].symbol, query[q].handle)'
  <2>1. Stored(query[q].symbol, query[q].handle)
    BY <1>3 DEF Fresh
  <2> QED
    BY <1>1, <2>1 DEF Stored, Publishes
<1> QED
  BY <1>1, <1>2, <1>3 DEF Fresh

\* A query is none the worse for a step of the index.
LEMMA QueryLasts ==
  ASSUME IndexInv, IndexMoves, CacheTypes, UNCHANGED generations, NEW x \in QueryStates, QueryOK(x)
  PROVE  QueryOK(x)'
<1>1. /\ x.began \in Nat /\ x.began <= epoch /\ x.saw \in Nat
      /\ x.phase # "idle" => x.symbol \in Symbols /\ x.root \in Roots
      /\ TokenOK(x) /\ HeldOK(x) /\ ScopeOK(x) /\ AnswerOK(x)
  BY IndexConstants DEF QueryOK, QueryStates, Snapshots
<1>2. x.began <= epoch' /\ epoch \in Nat /\ epoch' \in Nat /\ epoch <= epoch'
  BY <1>1 DEF IndexMoves, Publishes
<1>3. TokenOK(x)'
  <2> SUFFICES ASSUME x.phase \in Asking PROVE TokenOK(x)'
    BY DEF TokenOK
  <2>1. /\ x.token \in Tokens /\ x.token.heads[x.root] = x.saw
        /\ \A r \in Roots : x.token.heads[r] <= head[r]
        /\ x.phase # "heads" => x.token.epoch \in Nat /\ x.began <= x.token.epoch /\ x.token.epoch <= epoch
        /\ x.generation = 0 /\ x.facts = 0
    BY <1>1 DEF TokenOK
  <2>2. ASSUME NEW r \in Roots PROVE x.token.heads[r] <= head'[r]
    <3>1. x.token.heads[r] \in Nat
      BY <2>1, IndexConstants DEF Tokens, Snapshots
    <3> QED
      BY <2>1, <3>1 DEF IndexMoves
  <2>3. x.phase # "heads" => x.token.epoch <= epoch'
    BY <1>2, <2>1
  <2> QED
    BY <2>1, <2>2, <2>3 DEF TokenOK
<1>4. HeldOK(x)'
  <2> SUFFICES ASSUME x.phase \in Holding PROVE HeldOK(x)'
    BY DEF HeldOK
  <2> DEFINE g == generations[x.generation]
  <2>1. /\ x.generation \in Objects /\ GenerationOK(g)
        /\ x.saw <= g.token.heads[x.root] /\ x.began <= g.token.epoch
        /\ x.phase = "selected" =>
             g.token.heads[x.root] <= x.scope /\ Lasts(x.root, x.scope, g.token.epoch)
    BY <1>1 DEF HeldOK
  <2>2. g \in Generations /\ g' = g
    BY <2>1 DEF CacheTypes
  <2>3. g.token.epoch \in Nat /\ g.token.epoch <= epoch
    BY <2>1 DEF GenerationOK
  <2> HIDE DEF g
  <2>4. GenerationOK(g)'
    <3>1. PICK k \in Generations : k = g
      BY <2>2
    <3>2. GenerationOK(k)'
      BY <2>1, <3>1, GenerationLasts
    <3> QED
      BY <2>2, <3>1, <3>2 DEF GenerationOK, Lasts
  <2>5. x.phase = "selected" => Lasts(x.root, x.scope, g.token.epoch)'
    <3>1. PICK e \in Nat : e = g.token.epoch
      BY <2>3
    <3>2. x.phase = "selected" => Lasts(x.root, x.scope, e)'
      BY <2>1, <2>3, <3>1, LastingLasts
    <3> QED
      BY <2>2, <3>1, <3>2 DEF Lasts
  <2> QED
    BY <2>1, <2>2, <2>4, <2>5 DEF HeldOK, g
<1>5. ScopeOK(x)'
  BY <1>1, LastingLasts DEF ScopeOK
<1>6. AnswerOK(x)'
  <2>1. CASE epoch' = epoch + 1
    <3>1. x.began # epoch'
      BY <1>1, <1>2, <2>1
    <3> QED
      BY <1>1, <3>1 DEF AnswerOK
  <2>2. CASE Publishes
    <3> DEFINE Of(all) == {y \in all : y.snapshot = x.scope /\ y.means = x.symbol}
    <3>1. epoch' = epoch
      BY <2>2 DEF Publishes
    <3>2. x.phase = "looked" /\ x.began = epoch => Stored(x.symbol, x.handle)'
      BY <1>1, <2>2, StoredLasts DEF AnswerOK
    <3>3. ASSUME x.phase = "done" PROVE Of(rows') = Of(rows)
      <4>1. x.scope \in Nat /\ x.scope <= published /\ published \in Nat
        BY <1>1, <3>3, IndexConstants DEF ScopeOK, Lasts, IndexMoves, Snapshots
      <4>2. x.scope # published + 1
        BY <4>1
      <4>3. \A y \in rows' : y \in rows \/ y.snapshot = published + 1
        BY <2>2 DEF Publishes
      <4>4. rows \subseteq rows'
        BY <2>2 DEF Publishes
      <4> QED
        BY <4>2, <4>3, <4>4
    <3>4. ASSUME x.phase = "done", x.began = epoch
          PROVE  x.answer = {r.means : r \in Of(rows')}
      <4>1. x.answer = {r.means : r \in Of(rows)}
        BY <1>1, <3>4, Zenon DEF AnswerOK
      <4> QED
        BY <3>3, <3>4, <4>1, Zenon
    <3> QED
      BY <1>1, <3>1, <3>2, <3>4 DEF AnswerOK
  <2> QED
    BY <2>1, <2>2 DEF IndexMoves
<1> QED
  BY <1>1, <1>2, <1>3, <1>4, <1>5, <1>6 DEF QueryOK

\* A publication or a prune, whoever is running.
LEMMA IndexStepInv ==
  ASSUME CacheInv, IndexNext, UNCHANGED cacheVars
  PROVE  CacheInv'
<1>1. IndexInv /\ CacheTypes /\ IndexInv' /\ IndexMoves
  BY IndexNextMoves DEF CacheInv
<1>2. /\ generations' = generations /\ current' = current /\ facts' = facts
      /\ symbols' = symbols /\ query' = query
  BY DEF cacheVars
<1>3. CacheTypes'
  BY <1>1, <1>2 DEF CacheTypes
<1>4. current' # 0 => GenerationOK(generations[current])'
  <2> SUFFICES ASSUME current # 0 PROVE GenerationOK(generations[current])'
    BY <1>2
  <2>1. PICK g \in Generations : g = generations[current]
    BY <1>1 DEF CacheTypes
  <2>2. GenerationOK(g)'
    BY <1>1, <2>1, GenerationLasts DEF CacheInv
  <2> QED
    BY <1>2, <2>1, <2>2 DEF GenerationOK, Lasts
<1>5. ASSUME NEW q \in Queries PROVE QueryOK(query[q])'
  <2>1. PICK x \in QueryStates : x = query[q]
    BY <1>1 DEF CacheTypes
  <2>2. QueryOK(x)'
    BY <1>1, <1>2, <2>1, QueryLasts DEF CacheInv
  <2>3. query[q]' = x
    BY <1>2, <2>1
  <2> QED
    BY <2>2, <2>3
<1>6. FactsAreFresh'
  <2>0. /\ FactsAreFresh
        /\ current # 0 => generations[current].token.epoch \in Nat /\ generations[current].token.epoch <= epoch
        /\ epoch \in Nat
        /\ \A q \in Queries : query[q].began \in Nat /\ query[q].began <= epoch
    BY <1>1 DEF CacheInv, IndexMoves, GenerationOK, QueryOK, CacheTypes, QueryStates
  <2>1. CASE epoch' = epoch + 1
    <3>1. current # 0 => generations[current].token.epoch # epoch'
      BY <2>0, <2>1
    <3>2. \A q \in Queries : query[q].began # epoch'
      BY <2>0, <2>1
    <3> QED
      BY <1>2, <2>0, <3>1, <3>2 DEF FactsAreFresh
  <2>2. CASE Publishes
    <3>1. epoch' = epoch
      BY <2>2 DEF Publishes
    <3>2. Fresh(symbols) => Fresh(symbols)'
      BY <1>2, <2>2, FreshLasts DEF Fresh
    <3>3. ASSUME NEW q \in Queries PROVE Fresh(query[q].facts) => Fresh(query[q].facts)'
      BY <1>2, <2>2, FreshLasts DEF Fresh
    <3> QED
      BY <1>2, <2>0, <3>1, <3>2, <3>3 DEF FactsAreFresh
  <2> QED
    BY <1>1, <2>1, <2>2 DEF IndexMoves
<1> QED
  BY <1>1, <1>3, <1>4, <1>5, <1>6 DEF CacheInv

-----------------------------------------------------------------------------
(* Steps of a query.                                                       *)

\* A query's step that changes nothing of the cache.
LEMMA QueryMoves ==
  ASSUME CacheInv, NEW q \in Queries, NEW y \in QueryStates, query' = [query EXCEPT ![q] = y],
         UNCHANGED <<indexVars, generations, current, facts, symbols>>, QueryOK(y),
         y.phase = "read" => Stored(y.symbol, y.handle),
         current = 0 => y.phase \in Asking \cup {"idle"},
         y.began = epoch => /\ y.phase \in Holding \cup {"scoped"} => Fresh(symbols)
                            /\ y.phase \in Facing => Fresh(y.facts)
  PROVE  CacheInv'
<1>1. /\ handle' = handle /\ live' = live /\ rows' = rows /\ head' = head /\ epoch' = epoch
      /\ published' = published /\ generations' = generations /\ current' = current
      /\ facts' = facts /\ symbols' = symbols
  BY DEF indexVars
<1>2. IndexInv' /\ CacheTypes'
  BY <1>1 DEF CacheInv, IndexInv, IndexTypes, HandlesDiffer, RowsAreStored, HeadsAreLive, CacheTypes
<1>3. query'[q] = y /\ \A p \in Queries : p # q => query'[p] = query[p]
  BY DEF CacheInv, CacheTypes
<1>4. \A g : GenerationOK(g) => GenerationOK(g)'
  BY <1>1 DEF GenerationOK, Lasts
<1>5. current' # 0 => GenerationOK(generations[current])'
  BY <1>1, <1>4 DEF CacheInv, GenerationOK, Lasts
<1>6. ASSUME NEW p \in Queries PROVE QueryOK(query[p])'
  <2>1. PICK x : x = query'[p] /\ QueryOK(x)
    BY <1>3 DEF CacheInv
  <2>2. TokenOK(x)' /\ HeldOK(x)' /\ ScopeOK(x)'
    <3>1. TokenOK(x)'
      BY <1>1, <2>1 DEF QueryOK, TokenOK
    <3>2. ScopeOK(x)'
      BY <1>1, <2>1 DEF QueryOK, ScopeOK, Lasts
    <3>3. HeldOK(x)'
      <4>1. PICK k : k = generations[x.generation]
        OBVIOUS
      <4>2. k = generations[x.generation]'
        BY <1>1, <4>1
      <4>3. x.phase \in Holding =>
              /\ x.generation \in Objects /\ GenerationOK(k)
              /\ x.saw <= k.token.heads[x.root] /\ x.began <= k.token.epoch
              /\ x.phase = "selected" => k.token.heads[x.root] <= x.scope /\ Lasts(x.root, x.scope, k.token.epoch)
        BY <2>1, <4>1 DEF QueryOK, HeldOK
      <4>4. GenerationOK(k) => GenerationOK(k)'
        BY <1>4
      <4>5. Lasts(x.root, x.scope, k.token.epoch) => Lasts(x.root, x.scope, k.token.epoch)'
        BY <1>1 DEF Lasts
      <4> QED
        BY <4>2, <4>3, <4>4, <4>5 DEF HeldOK
    <3> QED
      BY <3>1, <3>2, <3>3
  <2>3. AnswerOK(x)'
    BY <1>1, <2>1, Zenon DEF QueryOK, AnswerOK, Stored
  <2>4. QueryOK(x)'
    BY <1>1, <2>1, <2>2, <2>3 DEF QueryOK
  <2> QED
    BY <2>1, <2>4
<1>7. ASSUME NEW f, Fresh(f) PROVE Fresh(f)'
  <2>1. \A s, h : Stored(s, h)' <=> Stored(s, h)
    BY <1>1 DEF Stored
  <2>2. ASSUME NEW p \in Queries, query'[p].phase = "read", query'[p].facts = f
        PROVE  Stored(query'[p].symbol, query'[p].handle)
    BY <1>3, <1>7, <2>2 DEF Fresh
  <2> QED
    BY <1>1, <1>7, <2>1, <2>2 DEF Fresh, Stored
<1>8. FactsAreFresh'
  <2>1. current = 0 => facts[symbols] = {} /\ \A p \in Queries : query'[p].phase \in Asking \cup {"idle"}
    BY <1>3 DEF CacheInv, FactsAreFresh
  <2>2. current # 0 /\ generations[current].token.epoch = epoch => Fresh(symbols)'
    <3>1. current # 0 /\ generations[current].token.epoch = epoch => Fresh(symbols)
      BY DEF CacheInv, FactsAreFresh
    <3> QED
      BY <1>1, <1>7, <3>1 DEF Fresh
  <2>3. ASSUME NEW p \in Queries, query'[p].began = epoch
        PROVE  /\ query'[p].phase \in Holding \cup {"scoped"} => Fresh(symbols)'
               /\ query'[p].phase \in Facing => Fresh(query[p].facts)'
    <3>1. /\ query'[p].phase \in Holding \cup {"scoped"} => Fresh(symbols)
          /\ query'[p].phase \in Facing => Fresh(query'[p].facts)
      BY <1>3, <2>3 DEF CacheInv, FactsAreFresh
    <3>2. Fresh(symbols) => Fresh(symbols)'
      BY <1>1, <1>7 DEF Fresh
    <3>3. PICK f : f = query'[p].facts
      OBVIOUS
    <3> QED
      BY <1>7, <3>1, <3>2, <3>3 DEF Fresh
  <2> QED
    BY <1>1, <2>1, <2>2, <2>3 DEF FactsAreFresh
<1> QED
  BY <1>2, <1>5, <1>6, <1>8 DEF CacheInv

\* What the invariant says of the query that steps.
LEMMA QueryFacts ==
  ASSUME CacheInv, NEW q \in Queries
  PROVE  /\ query \in [Queries -> QueryStates] /\ query[q] \in QueryStates
         /\ query[q].began \in Nat /\ query[q].saw \in Nat /\ query[q].began <= epoch
         /\ query[q].phase # "idle" => query[q].symbol \in Symbols /\ query[q].root \in Roots
         /\ QueryOK(query[q]) /\ TokenOK(query[q]) /\ HeldOK(query[q]) /\ ScopeOK(query[q]) /\ AnswerOK(query[q])
         /\ query[q].phase \notin Asking \cup {"idle"} => current # 0
         /\ query[q].began = epoch =>
              /\ query[q].phase \in Holding \cup {"scoped"} => Fresh(symbols)
              /\ query[q].phase \in Facing => Fresh(query[q].facts)
         /\ epoch \in Nat
<1>1. query \in [Queries -> QueryStates] /\ query[q] \in QueryStates
  BY DEF CacheInv, CacheTypes
<1>2. query[q].began \in Nat /\ query[q].saw \in Nat
  BY <1>1, IndexConstants DEF QueryStates, Snapshots
<1>3. QueryOK(query[q])
  BY DEF CacheInv
<1> QED
  BY <1>1, <1>2, <1>3 DEF CacheInv, QueryOK, FactsAreFresh, IndexInv, IndexTypes

\* The query begins: what it sees is what there is.
LEMMA StartInv ==
  ASSUME CacheInv, NEW q \in Queries, NEW s \in Symbols, NEW r \in Roots, Start(q, s, r)
  PROVE  CacheInv'
<1> DEFINE t == [heads |-> head, epoch |-> Nothing]
           y == [NoQuery EXCEPT !.phase = "heads", !.symbol = s, !.root = r,
                                !.began = epoch, !.saw = head[r], !.token = t]
<1>1. query' = [query EXCEPT ![q] = y] /\ UNCHANGED <<indexVars, generations, current, facts, symbols>>
  BY DEF Start, Move
<1>2. head \in [Roots -> Snapshots] /\ epoch \in Nat /\ \A k \in Roots : head[k] \in Nat
  BY IndexConstants DEF CacheInv, IndexInv, IndexTypes, Snapshots
<1>3. t \in Tokens /\ t.heads = head
  BY <1>2 DEF Tokens
<1> HIDE DEF t
<1>4. /\ y.phase = "heads" /\ y.symbol = s /\ y.root = r /\ y.began = epoch /\ y.saw = head[r]
      /\ y.token = t /\ y.generation = 0 /\ y.scope = Nothing /\ y.facts = 0 /\ y.answer = {} /\ y \in QueryStates
  BY <1>2, <1>3 DEF NoQuery, QueryStates, Phases, Asking
<1> HIDE DEF y
<1>5. TokenOK(y)
  BY <1>2, <1>3, <1>4 DEF TokenOK
<1>6. QueryOK(y)
  BY <1>2, <1>4, <1>5 DEF QueryOK, HeldOK, ScopeOK, AnswerOK, Holding, Facing
<1> QED
  BY <1>1, <1>4, <1>6, QueryMoves DEF Asking, Holding, Facing

\* A query reads the catalog's counts and the prune epoch: its token.
LEMMA ReadCountsInv ==
  ASSUME CacheInv, NEW q \in Queries, ReadCounts(q)
  PROVE  CacheInv'
<1> DEFINE x == query[q]
           t == [x.token EXCEPT !.epoch = epoch]
           y == [x EXCEPT !.phase = "token", !.token = t]
<1>1. x \in QueryStates /\ QueryOK(x) /\ TokenOK(x) /\ ScopeOK(x) /\ x.phase = "heads" /\ epoch \in Nat /\ x.began <= epoch /\ x.began \in Nat
  BY QueryFacts DEF ReadCounts
<1>2. /\ x.token \in Tokens /\ x.token.heads[x.root] = x.saw /\ x.generation = 0 /\ x.facts = 0
      /\ \A r \in Roots : x.token.heads[r] <= head[r]
  BY <1>1 DEF TokenOK, Asking
<1>3. t \in Tokens /\ t.heads = x.token.heads /\ t.epoch = epoch
  BY <1>1, <1>2 DEF Tokens
<1>4. query' = [query EXCEPT ![q] = y] /\ UNCHANGED <<indexVars, generations, current, facts, symbols>>
  BY <1>1 DEF ReadCounts, Move, QueryStates
<1> HIDE DEF t
<1>5. /\ y.phase = "token" /\ y.symbol = x.symbol /\ y.root = x.root /\ y.began = x.began /\ y.saw = x.saw /\ y.answer = x.answer
      /\ y.token = t /\ y.generation = 0 /\ y.scope = x.scope /\ y.facts = 0 /\ y \in QueryStates
  BY <1>1, <1>2, <1>3 DEF QueryStates, Phases, Asking
<1> HIDE DEF y
<1>6. TokenOK(y)
  BY <1>1, <1>2, <1>3, <1>5 DEF TokenOK
<1>7. ScopeOK(y)
  BY <1>1, <1>5 DEF ScopeOK, Facing
<1>8. QueryOK(y)
  BY <1>1, <1>5, <1>6, <1>7 DEF QueryOK, HeldOK, AnswerOK, Holding, Facing
<1> QED
  BY <1>4, <1>5, <1>8, QueryMoves DEF Asking, Holding, Facing

\* The kept generation is used while its token holds; otherwise the kinds are loaded.
LEMMA ValidateInv ==
  ASSUME CacheInv, NEW q \in Queries, Validate(q)
  PROVE  CacheInv'
<1> DEFINE x == query[q]
<1>1. /\ x \in QueryStates /\ QueryOK(x) /\ TokenOK(x) /\ ScopeOK(x) /\ x.phase = "token"
      /\ epoch \in Nat /\ x.began <= epoch /\ x.began \in Nat
  BY QueryFacts DEF Validate
<1>2. UNCHANGED <<indexVars, generations, current, facts, symbols>>
  BY DEF Validate
<1>3. /\ x.token \in Tokens /\ x.token.heads[x.root] = x.saw /\ x.generation = 0 /\ x.facts = 0
      /\ \A r \in Roots : x.token.heads[r] <= head[r]
      /\ x.token.epoch \in Nat /\ x.began <= x.token.epoch /\ x.token.epoch <= epoch
      /\ x.symbol \in Symbols /\ x.root \in Roots
  BY <1>1 DEF QueryOK, TokenOK, Asking
<1>4. CASE TokenHolds(x.token)
  <2> DEFINE y == [x EXCEPT !.phase = "validated", !.generation = current, !.token = Nothing]
  <2>1. query' = [query EXCEPT ![q] = y]
    BY <1>4 DEF Validate, Move
  <2>2. current # 0 /\ generations[current].token = x.token
    BY <1>4 DEF TokenHolds
  <2>3. current \in Objects /\ GenerationOK(generations[current])
    BY <2>2 DEF CacheInv, CacheTypes
  <2>4. /\ y.phase = "validated" /\ y.symbol = x.symbol /\ y.root = x.root /\ y.began = x.began /\ y.saw = x.saw /\ y.answer = x.answer
        /\ y.generation = current /\ y.scope = x.scope /\ y \in QueryStates
    BY <1>1, <2>3 DEF QueryStates, Phases, Holding
  <2> HIDE DEF y
  <2>5. x.saw \in Nat
    BY <1>1, IndexConstants DEF QueryStates, Snapshots
  <2>6. HeldOK(y)
    BY <1>3, <2>2, <2>3, <2>4, <2>5 DEF HeldOK
  <2>7. ScopeOK(y)
    BY <1>1, <2>4 DEF ScopeOK, Facing
  <2>8. QueryOK(y)
    BY <1>1, <1>3, <2>4, <2>6, <2>7 DEF QueryOK, TokenOK, AnswerOK, Asking, Facing
  <2>9. y.began = epoch => Fresh(symbols)
    <3>1. y.began = epoch => generations[current].token.epoch = epoch
      BY <1>1, <1>3, <2>2, <2>4
    <3> QED
      BY <2>2, <3>1 DEF CacheInv, FactsAreFresh
  <2> QED
    BY <1>2, <2>1, <2>2, <2>4, <2>8, <2>9, QueryMoves DEF Asking, Holding, Facing
<1>5. CASE ~TokenHolds(x.token)
  <2> DEFINE y == [x EXCEPT !.phase = "loading"]
  <2>1. query' = [query EXCEPT ![q] = y]
    BY <1>5 DEF Validate, Move
  <2>2. /\ y.phase = "loading" /\ y.symbol = x.symbol /\ y.root = x.root /\ y.began = x.began /\ y.saw = x.saw /\ y.answer = x.answer
        /\ y.token = x.token /\ y.generation = x.generation /\ y.scope = x.scope /\ y.facts = x.facts
        /\ y \in QueryStates
    BY <1>1 DEF QueryStates, Phases, Asking
  <2> HIDE DEF y
  <2>3. TokenOK(y)
    BY <1>1, <1>3, <2>2 DEF TokenOK
  <2>4. ScopeOK(y)
    BY <1>1, <2>2 DEF ScopeOK, Facing
  <2>5. QueryOK(y)
    BY <1>1, <1>3, <2>2, <2>3, <2>4 DEF QueryOK, HeldOK, AnswerOK, Holding, Facing
  <2> QED
    BY <1>2, <2>1, <2>2, <2>5, QueryMoves DEF Asking, Holding, Facing
<1> QED
  BY <1>4, <1>5

\* moduleScopes reads the head under a generation that is no newer, or takes a
\* selection that is no older.
LEMMA SelectInv ==
  ASSUME CacheInv, NEW q \in Queries, Select(q)
  PROVE  CacheInv'
<1> DEFINE x == query[q]
           g == generations[x.generation]
           kept == g.selection[x.root]
<1>1. /\ x \in QueryStates /\ QueryOK(x) /\ HeldOK(x) /\ x.phase = "validated"
      /\ epoch \in Nat /\ x.began <= epoch /\ x.began \in Nat /\ x.saw \in Nat
      /\ x.symbol \in Symbols /\ x.root \in Roots /\ current # 0
      /\ x.began = epoch => Fresh(symbols)
  BY QueryFacts DEF Select, Asking, Holding
<1>2. UNCHANGED <<indexVars, generations, current, facts, symbols>>
  BY DEF Select
<1>3. /\ x.generation \in Objects /\ GenerationOK(g)
      /\ x.saw <= g.token.heads[x.root] /\ x.began <= g.token.epoch
  BY <1>1 DEF HeldOK, Holding
<1>4. /\ g.token.epoch \in Nat /\ g.token.epoch <= epoch /\ g.token.heads[x.root] \in Nat
      /\ g.token.heads[x.root] <= head[x.root]
      /\ kept # Nothing => g.token.heads[x.root] <= kept /\ Lasts(x.root, kept, g.token.epoch)
  <2>1. g.token \in Tokens
    BY <1>3 DEF GenerationOK
  <2>2. g.token.heads[x.root] \in Nat
    BY <1>1, <2>1, IndexConstants DEF Tokens, Snapshots
  <2> HIDE DEF g
  <2> QED
    BY <1>1, <1>3, <2>2 DEF GenerationOK
<1>5. g.selection \in [Roots -> Snapshots \cup {Nothing}]
  BY <1>3 DEF CacheInv, CacheTypes, Generations, Selections
<1>6. CASE kept # Nothing
  <2> DEFINE y == [x EXCEPT !.phase = "scoped", !.scope = kept, !.generation = 0]
  <2>1. query' = [query EXCEPT ![q] = y]
    BY <1>6 DEF Select, Move
  <2> HIDE DEF g
  <2>2. kept \in Snapshots /\ kept \in Nat
    BY <1>1, <1>5, <1>6, IndexConstants DEF Snapshots
  <2> HIDE DEF kept
  <2>3. /\ y.phase = "scoped" /\ y.symbol = x.symbol /\ y.root = x.root /\ y.began = x.began /\ y.saw = x.saw /\ y.answer = x.answer
        /\ y.scope = kept /\ y \in QueryStates
    BY <1>1, <2>2 DEF QueryStates, Phases
  <2> HIDE DEF y
  <2>4. x.saw <= kept
    BY <1>1, <1>3, <1>4, <1>6, <2>2
  <2>5. Lasts(x.root, kept, x.began)
    BY <1>1, <1>3, <1>4, <1>6 DEF Lasts
  <2>6. QueryOK(y)
    BY <1>1, <1>6, <2>3, <2>4, <2>5 DEF QueryOK, TokenOK, HeldOK, ScopeOK, AnswerOK, Asking, Holding, Facing
  <2> QED
    BY <1>1, <1>2, <2>1, <2>3, <2>6, QueryMoves DEF Asking, Holding, Facing
<1>7. CASE kept = Nothing
  <2> DEFINE now == head[x.root]
             y == [x EXCEPT !.phase = "selected", !.scope = now]
  <2>1. query' = [query EXCEPT ![q] = y]
    BY <1>7 DEF Select, Move
  <2>2. now \in Snapshots /\ now \in Nat /\ now # Nothing
    BY <1>1, IndexConstants, QueryConstants DEF CacheInv, IndexInv, IndexTypes, Snapshots
  <2>3. Lasts(x.root, now, x.began) /\ Lasts(x.root, now, g.token.epoch)
    <3>1. now <= published /\ (now # 0 => <<x.root, now>> \in live)
      BY <1>1, Zenon DEF CacheInv, IndexInv, HeadsAreLive
    <3> QED
      BY <2>2, <3>1 DEF Lasts
  <2>4. x.saw <= now /\ g.token.heads[x.root] <= now
    BY <1>1, <1>3, <1>4, <2>2
  <2> HIDE DEF now
  <2>5. /\ y.phase = "selected" /\ y.symbol = x.symbol /\ y.root = x.root /\ y.began = x.began /\ y.saw = x.saw /\ y.answer = x.answer
        /\ y.scope = now /\ y.generation = x.generation /\ y \in QueryStates
    BY <1>1, <2>2 DEF QueryStates, Phases, Holding
  <2> HIDE DEF y
  <2>6. HeldOK(y)
    BY <1>3, <2>3, <2>4, <2>5 DEF HeldOK
  <2>7. QueryOK(y)
    BY <1>1, <2>2, <2>3, <2>4, <2>5, <2>6 DEF QueryOK, TokenOK, ScopeOK, AnswerOK, Asking, Facing
  <2> QED
    BY <1>1, <1>2, <2>1, <2>5, <2>7, QueryMoves DEF Asking, Holding, Facing
<1> QED
  BY <1>6, <1>7

\* newIndexContext takes the symbolFacts of the moment.
LEMMA CaptureInv ==
  ASSUME CacheInv, NEW q \in Queries, Capture(q)
  PROVE  CacheInv'
<1> DEFINE x == query[q]
           y == [x EXCEPT !.phase = "captured", !.facts = symbols]
<1>1. /\ x \in QueryStates /\ QueryOK(x) /\ ScopeOK(x) /\ x.phase = "scoped"
      /\ x.symbol \in Symbols /\ x.root \in Roots /\ current # 0 /\ x.began <= epoch
      /\ x.began = epoch => Fresh(symbols)
  BY QueryFacts DEF Capture, Asking, Holding
<1>2. query' = [query EXCEPT ![q] = y] /\ UNCHANGED <<indexVars, generations, current, facts, symbols>>
  BY DEF Capture, Move
<1>3. symbols \in Objects
  BY DEF CacheInv, CacheTypes
<1>4. /\ y.phase = "captured" /\ y.symbol = x.symbol /\ y.root = x.root /\ y.began = x.began /\ y.saw = x.saw /\ y.answer = x.answer
      /\ y.scope = x.scope /\ y.facts = symbols /\ y \in QueryStates
  BY <1>1, <1>3 DEF QueryStates, Phases, Facing
<1> HIDE DEF y
<1>5. ScopeOK(y)
  BY <1>1, <1>4 DEF ScopeOK
<1>6. QueryOK(y)
  BY <1>1, <1>3, <1>4, <1>5 DEF QueryOK, TokenOK, HeldOK, AnswerOK, Asking, Holding
<1> QED
  BY <1>1, <1>2, <1>4, <1>6, QueryMoves DEF Asking, Holding, Facing

\* A handle that was kept is the symbol's while no prune overlaps the query.
LEMMA HandleKeptInv ==
  ASSUME CacheInv, NEW q \in Queries, HandleKept(q)
  PROVE  CacheInv'
<1> DEFINE x == query[q]
<1>1. /\ x \in QueryStates /\ QueryOK(x) /\ ScopeOK(x) /\ AnswerOK(x) /\ x.phase = "captured"
      /\ x.symbol \in Symbols /\ x.root \in Roots /\ current # 0 /\ x.began <= epoch
      /\ x.began = epoch => Fresh(x.facts)
  BY QueryFacts DEF HandleKept, Asking, Facing
<1>2. UNCHANGED <<indexVars, generations, current, facts, symbols>>
  BY DEF HandleKept
<1>3. PICK pair \in facts[x.facts] :
        pair[1] = x.symbol /\ query' = [query EXCEPT ![q] = [x EXCEPT !.phase = "looked", !.handle = pair[2]]]
  BY DEF HandleKept, Move
<1>4. x.facts \in Objects /\ pair \in Symbols \X (Handles \cup {NoHandle})
  BY <1>1, <1>3 DEF Pairings, AnswerOK, Facing, CacheInv, CacheTypes
<1> DEFINE y == [x EXCEPT !.phase = "looked", !.handle = pair[2]]
<1>5. /\ y.phase = "looked" /\ y.symbol = x.symbol /\ y.root = x.root /\ y.began = x.began /\ y.saw = x.saw /\ y.answer = x.answer
      /\ y.scope = x.scope /\ y.facts = x.facts /\ y.handle = pair[2] /\ y \in QueryStates
  BY <1>1, <1>4 DEF QueryStates, Phases, Facing
<1>6. query' = [query EXCEPT ![q] = y]
  BY <1>3
<1> HIDE DEF y
<1>7. ScopeOK(y)
  BY <1>1, <1>5 DEF ScopeOK, Facing
<1>8. y.began = epoch => Stored(y.symbol, y.handle)
  BY <1>1, <1>3, <1>5 DEF Fresh
<1>9. QueryOK(y)
  BY <1>1, <1>4, <1>5, <1>7, <1>8 DEF QueryOK, TokenOK, HeldOK, AnswerOK, Asking, Holding
<1> QED
  BY <1>1, <1>2, <1>5, <1>6, <1>9, QueryMoves DEF Asking, Holding, Facing

\* A symbol without a row has no rows of snapshots either.
LEMMA ReadHandleInv ==
  ASSUME CacheInv, NEW q \in Queries, ReadHandle(q)
  PROVE  CacheInv'
<1> DEFINE x == query[q]
           s == x.symbol
<1>1. /\ x \in QueryStates /\ QueryOK(x) /\ ScopeOK(x) /\ AnswerOK(x) /\ x.phase = "captured"
      /\ x.symbol \in Symbols /\ x.root \in Roots /\ current # 0 /\ x.began <= epoch
      /\ x.began = epoch => Fresh(x.facts)
  BY QueryFacts DEF ReadHandle, Asking, Facing
<1>2. UNCHANGED <<indexVars, generations, current, facts, symbols>>
  BY DEF ReadHandle
<1>3. x.facts \in Objects /\ handle[s] \in Handles \cup {NoHandle}
  BY <1>1 DEF AnswerOK, Facing, CacheInv, IndexInv, IndexTypes
<1>4. CASE s \in StoredUnder(handle)
  <2> DEFINE y == [x EXCEPT !.phase = "read", !.handle = handle[s]]
  <2>1. query' = [query EXCEPT ![q] = y]
    BY <1>4 DEF ReadHandle, Move
  <2>2. /\ y.phase = "read" /\ y.symbol = x.symbol /\ y.root = x.root /\ y.began = x.began /\ y.saw = x.saw /\ y.answer = x.answer
        /\ y.scope = x.scope /\ y.facts = x.facts /\ y.handle = handle[s] /\ y \in QueryStates
    BY <1>1, <1>3 DEF QueryStates, Phases, Facing
  <2> HIDE DEF y
  <2>3. Stored(y.symbol, y.handle)
    BY <1>1, <1>4, <2>2 DEF Stored, StoredUnder
  <2>4. ScopeOK(y)
    BY <1>1, <2>2 DEF ScopeOK, Facing
  <2>5. QueryOK(y)
    BY <1>1, <1>3, <2>2, <2>4 DEF QueryOK, TokenOK, HeldOK, AnswerOK, Asking, Holding
  <2> QED
    BY <1>1, <1>2, <2>1, <2>2, <2>3, <2>5, QueryMoves DEF Asking, Holding, Facing
<1>5. CASE s \notin StoredUnder(handle)
  <2> DEFINE y == [x EXCEPT !.phase = "done", !.facts = 0]
  <2>1. query' = [query EXCEPT ![q] = y]
    BY <1>5 DEF ReadHandle, Move
  <2>2. /\ y.phase = "done" /\ y.symbol = x.symbol /\ y.root = x.root /\ y.began = x.began /\ y.saw = x.saw /\ y.answer = x.answer
        /\ y.scope = x.scope /\ y \in QueryStates
    BY <1>1, <1>3 DEF QueryStates, Phases
  <2> HIDE DEF y
  <2>3. ScopeOK(y)
    BY <1>1, <2>2 DEF ScopeOK, Facing
  <2>4. {z \in rows : z.snapshot = y.scope /\ z.means = y.symbol} = {}
    <3>1. handle[s] = NoHandle
      BY <1>1, <1>5 DEF StoredUnder
    <3>2. \A z \in rows : handle[z.means] # NoHandle
      BY DEF CacheInv, IndexInv, RowsAreStored
    <3> QED
      BY <2>2, <3>1, <3>2
  <2>5. AnswerOK(y)
    BY <1>1, <2>2, <2>4 DEF AnswerOK, Facing
  <2>6. QueryOK(y)
    BY <1>1, <2>2, <2>3, <2>5 DEF QueryOK, TokenOK, HeldOK, Asking, Holding
  <2> QED
    BY <1>1, <1>2, <2>1, <2>2, <2>6, QueryMoves DEF Asking, Holding, Facing
<1> QED
  BY <1>4, <1>5

\* The handle names the symbol asked for and no other, in every row.
LEMMA ReadPostingsInv ==
  ASSUME CacheInv, NEW q \in Queries, ReadPostings(q)
  PROVE  CacheInv'
<1> DEFINE x == query[q]
           a == {r.means : r \in Names(x.scope, x.handle)}
           y == [x EXCEPT !.phase = "done", !.facts = 0, !.answer = a]
<1>1. /\ x \in QueryStates /\ QueryOK(x) /\ ScopeOK(x) /\ AnswerOK(x) /\ x.phase = "looked"
      /\ x.symbol \in Symbols /\ x.root \in Roots /\ current # 0 /\ x.began <= epoch
  BY QueryFacts DEF ReadPostings, Asking
<1>2. query' = [query EXCEPT ![q] = y] /\ UNCHANGED <<indexVars, generations, current, facts, symbols>>
  BY DEF ReadPostings, Move
<1>3. /\ \A r \in rows : r.means \in Symbols /\ r.handle = handle[r.means] /\ r.handle # NoHandle
      /\ HandlesDiffer
  BY DEF CacheInv, IndexInv, RowsAreStored
<1>4. a \in SUBSET Symbols
  BY <1>3 DEF Names
<1>5. x.began = epoch => a = {r.means : r \in {z \in rows : z.snapshot = x.scope /\ z.means = x.symbol}}
  <2> SUFFICES ASSUME x.began = epoch
               PROVE  Names(x.scope, x.handle) = {z \in rows : z.snapshot = x.scope /\ z.means = x.symbol}
    BY Zenon
  <2>1. Stored(x.symbol, x.handle)
    BY <1>1 DEF AnswerOK
  <2>2. ASSUME NEW z \in rows PROVE z.handle = x.handle <=> z.means = x.symbol
    BY <1>1, <1>3, <2>1 DEF Stored, HandlesDiffer
  <2> QED
    BY <2>2 DEF Names
<1> HIDE DEF a
<1>6. /\ y.phase = "done" /\ y.symbol = x.symbol /\ y.root = x.root /\ y.began = x.began /\ y.saw = x.saw
      /\ y.scope = x.scope /\ y.answer = a /\ y \in QueryStates
  BY <1>1, <1>4 DEF QueryStates, Phases
<1> HIDE DEF y
<1>7. ScopeOK(y)
  BY <1>1, <1>6 DEF ScopeOK, Facing
<1>8. AnswerOK(y)
  <2>1. y.began = epoch => y.answer = {r.means : r \in {z \in rows : z.snapshot = y.scope /\ z.means = y.symbol}}
    BY <1>5, <1>6, Zenon
  <2> QED
    BY <1>6, <2>1 DEF AnswerOK, Facing
<1>9. QueryOK(y)
  BY <1>1, <1>6, <1>7, <1>8 DEF QueryOK, TokenOK, HeldOK, Asking, Holding
<1> QED
  BY <1>1, <1>2, <1>6, <1>9, QueryMoves DEF Asking, Holding, Facing

\* A query that has not been asked holds nothing.
LEMMA NoQueryOK ==
  ASSUME epoch \in Nat
  PROVE  NoQuery \in QueryStates /\ QueryOK(NoQuery) /\ NoQuery.phase = "idle"
<1>1. 0 \in Snapshots
  BY IndexConstants DEF Snapshots
<1>2. NoQuery \in QueryStates
  BY <1>1 DEF NoQuery, QueryStates, Phases
<1>3. /\ NoQuery.phase = "idle" /\ NoQuery.began = 0 /\ NoQuery.scope = Nothing /\ NoQuery.answer = {}
  BY DEF NoQuery
<1> QED
  BY <1>2, <1>3 DEF QueryOK, TokenOK, HeldOK, ScopeOK, AnswerOK, Asking, Holding, Facing

\* The answer is returned, or the error; the query holds nothing any more.
LEMMA ReturnInv ==
  ASSUME CacheInv, NEW q \in Queries, Return(q)
  PROVE  CacheInv'
<1>1. query' = [query EXCEPT ![q] = NoQuery] /\ UNCHANGED <<indexVars, generations, current, facts, symbols>>
  BY DEF Return, Move
<1>2. NoQuery \in QueryStates /\ QueryOK(NoQuery) /\ NoQuery.phase = "idle"
  BY NoQueryOK DEF CacheInv, IndexInv, IndexTypes
<1> QED
  BY <1>1, <1>2, QueryMoves DEF Asking, Holding, Facing

\* A query's step that changes the cache, but neither the token nor the worth of a
\* generation that another query holds.
LEMMA OthersKeep ==
  ASSUME CacheInv, NEW q \in Queries, NEW y, query' = [query EXCEPT ![q] = y], UNCHANGED indexVars,
         QueryOK(y)',
         \A p \in Queries : p # q /\ query[p].phase \in Holding =>
           /\ generations'[query[p].generation].token = generations[query[p].generation].token
           /\ GenerationOK(generations'[query[p].generation])
  PROVE  \A p \in Queries : QueryOK(query[p])'
<1> SUFFICES ASSUME NEW p \in Queries PROVE QueryOK(query[p])'
  OBVIOUS
<1>1. /\ handle' = handle /\ live' = live /\ rows' = rows /\ head' = head /\ epoch' = epoch
      /\ published' = published
  BY DEF indexVars
<1>2. query'[q] = y /\ (p # q => query'[p] = query[p])
  BY DEF CacheInv, CacheTypes
<1>3. CASE p = q
  BY <1>2, <1>3
<1>4. CASE p # q
  <2>1. PICK x : x = query[p] /\ QueryOK(x)
    BY DEF CacheInv
  <2>2. TokenOK(x)' /\ ScopeOK(x)'
    <3>1. TokenOK(x)'
      BY <1>1, <2>1 DEF QueryOK, TokenOK
    <3>2. ScopeOK(x)'
      BY <1>1, <2>1 DEF QueryOK, ScopeOK, Lasts
    <3> QED
      BY <3>1, <3>2
  <2>3. HeldOK(x)'
    <3> SUFFICES ASSUME x.phase \in Holding PROVE HeldOK(x)'
      BY DEF HeldOK
    <3>1. PICK k, n : k = generations[x.generation] /\ n = generations'[x.generation]
      OBVIOUS
    <3>2. n.token = k.token /\ GenerationOK(n)
      BY <1>4, <2>1, <3>1
    <3>3. GenerationOK(n)'
      BY <1>1, <3>2 DEF GenerationOK, Lasts
    <3>4. /\ x.generation \in Objects
          /\ x.saw <= k.token.heads[x.root] /\ x.began <= k.token.epoch
          /\ x.phase = "selected" => k.token.heads[x.root] <= x.scope /\ Lasts(x.root, x.scope, k.token.epoch)
      BY <2>1, <3>1 DEF QueryOK, HeldOK
    <3>5. Lasts(x.root, x.scope, k.token.epoch) => Lasts(x.root, x.scope, k.token.epoch)'
      BY <1>1 DEF Lasts
    <3> QED
      BY <3>1, <3>2, <3>3, <3>4, <3>5 DEF HeldOK
  <2>4. AnswerOK(x)'
    BY <1>1, <2>1, Zenon DEF QueryOK, AnswerOK, Stored
  <2>5. QueryOK(x)'
    BY <1>1, <2>1, <2>2, <2>3, <2>4 DEF QueryOK
  <2> QED
    BY <1>2, <1>4, <2>1, <2>5
<1> QED
  BY <1>3, <1>4

\* A selection is kept under the token it was read after.
LEMMA KeepSelectionInv ==
  ASSUME CacheInv, NEW q \in Queries, KeepSelection(q)
  PROVE  CacheInv'
<1> DEFINE x == query[q]
           g == x.generation
           k == generations[g]
<1>1. /\ x \in QueryStates /\ QueryOK(x) /\ HeldOK(x) /\ ScopeOK(x) /\ AnswerOK(x) /\ x.phase = "selected"
      /\ x.symbol \in Symbols /\ x.root \in Roots /\ current # 0 /\ x.began <= epoch
      /\ x.began = epoch => Fresh(symbols)
  BY QueryFacts DEF KeepSelection, Asking, Holding
<1>0. PICK y : y = [x EXCEPT !.phase = "scoped", !.generation = 0]
  OBVIOUS
<1>2. /\ query' = [query EXCEPT ![q] = y] /\ UNCHANGED <<indexVars, current, facts, symbols>>
      /\ generations' = [generations EXCEPT ![g].selection[x.root] = x.scope]
  BY <1>0 DEF KeepSelection, Move
<1>3. /\ handle' = handle /\ live' = live /\ rows' = rows /\ head' = head /\ epoch' = epoch
      /\ published' = published /\ current' = current /\ facts' = facts /\ symbols' = symbols
  BY <1>2 DEF indexVars
<1>4. /\ g \in Objects /\ GenerationOK(k) /\ x.scope # Nothing /\ x.scope \in Snapshots
      /\ k.token.heads[x.root] <= x.scope /\ Lasts(x.root, x.scope, k.token.epoch)
  BY <1>1 DEF HeldOK, ScopeOK, Holding, Lasts
<1>5. generations \in [Objects -> Generations] /\ k \in Generations
  BY <1>4 DEF CacheInv, CacheTypes
<1>6. /\ k.token \in Tokens \cup {Nothing} /\ k.selection \in Selections
      /\ k.selection \in [Roots -> Snapshots \cup {Nothing}]
  BY <1>5 DEF Generations, Selections
<1>7. /\ generations'[g] = [k EXCEPT !.selection = [k.selection EXCEPT ![x.root] = x.scope]]
      /\ \A i \in Objects : i # g => generations'[i] = generations[i]
  BY <1>2, <1>4, <1>5
<1> DEFINE n == generations'[g]
<1>8. n.token = k.token /\ n.selection = [k.selection EXCEPT ![x.root] = x.scope]
  BY <1>5, <1>7 DEF Generations
<1>9. n.selection \in Selections /\ \A r \in Roots : n.selection[r] = IF r = x.root THEN x.scope ELSE k.selection[r]
  BY <1>1, <1>4, <1>6, <1>8 DEF Selections
<1>10. n \in Generations
  <2>1. PICK c : c = [k.selection EXCEPT ![x.root] = x.scope]
    OBVIOUS
  <2>2. n = [k EXCEPT !.selection = c] /\ c \in Selections
    BY <1>7, <1>8, <1>9, <2>1
  <2> HIDE DEF n
  <2> QED
    BY <1>5, <2>2 DEF Generations
<1>11. generations' \in [Objects -> Generations]
  BY <1>2, <1>5, <1>7, <1>10
<1>12. GenerationOK(n)
  <2> HIDE DEF n, k
  <2> QED
    BY <1>4, <1>8, <1>9 DEF GenerationOK
<1> HIDE DEF n, k
<1>13. /\ y.phase = "scoped" /\ y.symbol = x.symbol /\ y.root = x.root /\ y.began = x.began /\ y.saw = x.saw
       /\ y.answer = x.answer /\ y.scope = x.scope /\ y.facts = x.facts /\ y \in QueryStates
  BY <1>0, <1>1 DEF QueryStates, Phases
<1>14. QueryOK(y)'
  <2>1. ScopeOK(y)
    BY <1>1, <1>13 DEF ScopeOK
  <2>2. ScopeOK(y)'
    BY <1>3, <2>1 DEF ScopeOK, Lasts
  <2> QED
    BY <1>1, <1>3, <1>13, <2>2 DEF QueryOK, TokenOK, HeldOK, AnswerOK, Asking, Holding, Facing
<1>15. \A p \in Queries : QueryOK(query[p])'
  <2>1. ASSUME NEW p \in Queries, p # q, query[p].phase \in Holding
        PROVE  /\ generations'[query[p].generation].token = generations[query[p].generation].token
               /\ GenerationOK(generations'[query[p].generation])
    <3>1. HeldOK(query[p])
      BY QueryFacts
    <3>2. query[p].generation \in Objects /\ GenerationOK(generations[query[p].generation])
      BY <2>1, <3>1 DEF HeldOK
    <3>3. CASE query[p].generation = g
      BY <1>8, <1>12, <3>3 DEF n, k
    <3>4. CASE query[p].generation # g
      BY <1>7, <3>2, <3>4
    <3> QED
      BY <3>3, <3>4
  <2> QED
    BY <1>2, <1>14, <2>1, OthersKeep
<1>16. current' \in Objects /\ generations'[current'].token = generations[current].token /\ GenerationOK(generations[current])'
  <2>1. current \in Objects /\ GenerationOK(generations[current])
    BY <1>1 DEF CacheInv, CacheTypes
  <2>2. GenerationOK(generations'[current]) /\ generations'[current].token = generations[current].token
    BY <1>7, <1>8, <1>12, <2>1 DEF n, k
  <2> QED
    BY <1>3, <2>1, <2>2 DEF GenerationOK, Lasts
<1>17. query'[q] = y /\ \A p \in Queries : p # q => query'[p] = query[p]
  BY <1>2 DEF CacheInv, CacheTypes
<1>18. ASSUME NEW f, Fresh(f) PROVE Fresh(f)'
  BY <1>3, <1>13, <1>17, <1>18 DEF Fresh, Stored
<1>19. FactsAreFresh'
  <2>1. generations[current].token.epoch = epoch => Fresh(symbols)
    BY <1>1 DEF CacheInv, FactsAreFresh
  <2>2. ASSUME NEW p \in Queries, query'[p].began = epoch
        PROVE  /\ query'[p].phase \in Holding \cup {"scoped"} => Fresh(symbols)
               /\ query'[p].phase \in Facing => Fresh(query'[p].facts)
    BY <1>1, <1>13, <1>17, <2>2 DEF CacheInv, FactsAreFresh, Facing
  <2>3. Fresh(symbols) => Fresh(symbols)'
    BY <1>3, <1>18 DEF Fresh
  <2>4. ASSUME NEW p \in Queries, Fresh(query'[p].facts) PROVE Fresh(query[p].facts)'
    <3>1. PICK f : f = query'[p].facts
      OBVIOUS
    <3> QED
      BY <1>18, <2>4, <3>1 DEF Fresh
  <2> QED
    BY <1>1, <1>3, <1>16, <2>1, <2>2, <2>3, <2>4 DEF FactsAreFresh
<1>20. CacheTypes'
  BY <1>2, <1>3, <1>11, <1>13 DEF CacheInv, CacheTypes
<1>21. IndexInv'
  BY <1>3 DEF CacheInv, IndexInv, IndexTypes, HandlesDiffer, RowsAreStored, HeadsAreLive
<1> QED
  BY <1>15, <1>16, <1>19, <1>20, <1>21 DEF CacheInv

\* addHandle: fresh facts never disagree with a handle that was just read.
LEMMA KeepHandleInv ==
  ASSUME CacheInv, NEW q \in Queries, KeepHandle(q)
  PROVE  CacheInv'
<1> DEFINE x == query[q]
           pair == <<x.symbol, x.handle>>
           conflict == \E p \in facts[x.facts] : p # pair /\ (p[1] = pair[1] \/ p[2] = pair[2])
<1>1. /\ x \in QueryStates /\ QueryOK(x) /\ ScopeOK(x) /\ AnswerOK(x) /\ x.phase = "read"
      /\ x.symbol \in Symbols /\ x.root \in Roots /\ current # 0 /\ x.began <= epoch
      /\ x.began = epoch => Fresh(x.facts)
  BY QueryFacts DEF KeepHandle, Asking, Facing
<1>2. x.facts \in Objects /\ facts[x.facts] \in SUBSET Pairings
  BY <1>1 DEF AnswerOK, Facing, CacheInv, CacheTypes
<1>3. ASSUME NEW f, Fresh(f), f = x.facts PROVE Stored(x.symbol, x.handle)
  BY <1>1, <1>3 DEF Fresh
<1>4. UNCHANGED <<indexVars, generations, current, symbols>>
  BY DEF KeepHandle
<1>5. CASE conflict
  <2> DEFINE y == [x EXCEPT !.phase = "conflict"]
  <2>1. query' = [query EXCEPT ![q] = y] /\ facts' = facts
    BY <1>5 DEF KeepHandle, Move
  <2>2. x.began # epoch
    <3> SUFFICES ASSUME x.began = epoch PROVE FALSE
      OBVIOUS
    <3>1. PICK p \in facts[x.facts] : p # pair /\ (p[1] = pair[1] \/ p[2] = pair[2])
      BY <1>5
    <3>2. p \in Symbols \X (Handles \cup {NoHandle}) /\ Stored(p[1], p[2]) /\ Stored(x.symbol, x.handle)
      BY <1>1, <1>2, <1>3, <3>1 DEF Fresh, Pairings
    <3>3. p[1] = x.symbol /\ p[2] = x.handle
      BY <3>1, <3>2 DEF Stored, CacheInv, IndexInv, HandlesDiffer
    <3>4. p = <<p[1], p[2]>>
      BY <3>2
    <3> QED
      BY <3>1, <3>3, <3>4
  <2>3. /\ y.phase = "conflict" /\ y.symbol = x.symbol /\ y.root = x.root /\ y.began = x.began /\ y.saw = x.saw
        /\ y.answer = x.answer /\ y.scope = x.scope /\ y \in QueryStates
    BY <1>1 DEF QueryStates, Phases
  <2> HIDE DEF y
  <2>4. ScopeOK(y)
    BY <1>1, <2>3 DEF ScopeOK, Facing
  <2>5. QueryOK(y)
    BY <1>1, <2>2, <2>3, <2>4 DEF QueryOK, TokenOK, HeldOK, AnswerOK, Asking, Holding, Facing
  <2> QED
    BY <1>1, <1>4, <2>1, <2>2, <2>3, <2>5, QueryMoves DEF Asking, Holding, Facing
<1>6. CASE ~conflict
  <2>0. PICK y : y = [x EXCEPT !.phase = "looked"]
    OBVIOUS
  <2>1. query' = [query EXCEPT ![q] = y] /\ facts' = [facts EXCEPT ![x.facts] = @ \cup {pair}]
    BY <1>6, <2>0 DEF KeepHandle, Move
  <2>2. /\ handle' = handle /\ live' = live /\ rows' = rows /\ head' = head /\ epoch' = epoch
        /\ published' = published /\ generations' = generations /\ current' = current /\ symbols' = symbols
    BY <1>4 DEF indexVars
  <2>3. /\ y.phase = "looked" /\ y.symbol = x.symbol /\ y.root = x.root /\ y.began = x.began /\ y.saw = x.saw
        /\ y.answer = x.answer /\ y.scope = x.scope /\ y.facts = x.facts /\ y.handle = x.handle /\ y \in QueryStates
    BY <1>1, <2>0 DEF QueryStates, Phases, Facing
  <2>4. query'[q] = y /\ \A p \in Queries : p # q => query'[p] = query[p]
    BY <2>1 DEF CacheInv, CacheTypes
  <2>5. \A f \in Objects : facts'[f] = IF f = x.facts THEN facts[f] \cup {pair} ELSE facts[f]
    BY <2>1 DEF CacheInv, CacheTypes
  <2>6. pair \in Pairings
    BY <1>1 DEF Pairings, QueryStates
  <2>7. CacheTypes'
    <3> HIDE DEF pair
    <3>1. facts' \in [Objects -> SUBSET Pairings]
      BY <1>2, <2>1, <2>6 DEF CacheInv, CacheTypes
    <3> QED
      BY <2>1, <2>2, <2>3, <3>1 DEF CacheInv, CacheTypes
  <2>8. QueryOK(y)'
    <3>1. ScopeOK(y)
      BY <1>1, <2>3 DEF ScopeOK, Facing
    <3>2. y.began = epoch => Stored(y.symbol, y.handle)
      BY <1>1, <1>3, <2>3
    <3>3. QueryOK(y)
      BY <1>1, <1>2, <2>3, <3>1, <3>2 DEF QueryOK, TokenOK, HeldOK, AnswerOK, Asking, Holding, Facing
    <3>4. ScopeOK(y)' /\ Stored(y.symbol, y.handle)' = Stored(y.symbol, y.handle)
      BY <2>2, <3>1 DEF ScopeOK, Lasts, Stored
    <3> QED
      BY <2>2, <2>3, <3>3, <3>4 DEF QueryOK, TokenOK, HeldOK, AnswerOK, Asking, Holding, Facing
  <2>9. \A p \in Queries : QueryOK(query[p])'
    <3>1. ASSUME NEW p \in Queries, query[p].phase \in Holding
          PROVE  GenerationOK(generations[query[p].generation])
      BY <3>1, QueryFacts DEF HeldOK
    <3> QED
      BY <1>4, <2>1, <2>2, <2>8, <3>1, OthersKeep
  <2>10. current' # 0 => GenerationOK(generations[current])'
    BY <2>2 DEF CacheInv, GenerationOK, Lasts
  <2>11. ASSUME NEW f \in Objects, Fresh(f) PROVE Fresh(f)'
    <3>1. \A p \in facts'[f] : Stored(p[1], p[2])
      <4>1. \A p \in facts[f] : Stored(p[1], p[2])
        BY <2>11 DEF Fresh
      <4>2. f = x.facts => Stored(pair[1], pair[2])
        BY <1>3, <2>11
      <4> HIDE DEF pair
      <4> QED
        BY <2>5, <4>1, <4>2
    <3>2. ASSUME NEW p \in Queries, query'[p].phase = "read", query'[p].facts = f
          PROVE  Stored(query'[p].symbol, query'[p].handle)
      BY <2>3, <2>4, <2>11, <3>2 DEF Fresh
    <3> QED
      BY <2>2, <3>1, <3>2 DEF Fresh, Stored
  <2>12. FactsAreFresh'
    <3>1. symbols \in Objects /\ (generations[current].token.epoch = epoch => Fresh(symbols))
      BY <1>1 DEF CacheInv, CacheTypes, FactsAreFresh
    <3>2. ASSUME NEW p \in Queries, query'[p].began = epoch
          PROVE  /\ query'[p].phase \in Holding \cup {"scoped"} => Fresh(symbols)
                 /\ query'[p].phase \in Facing => query'[p].facts \in Objects /\ Fresh(query'[p].facts)
      <4>1. CASE p = q
        BY <1>1, <1>2, <2>3, <2>4, <3>2, <4>1 DEF Holding
      <4>2. CASE p # q
        BY <2>4, <3>2, <4>2, QueryFacts DEF AnswerOK
      <4> QED
        BY <4>1, <4>2
    <3>3. Fresh(symbols) => Fresh(symbols)'
      <4>1. PICK f \in Objects : f = symbols
        BY <3>1
      <4> QED
        BY <2>2, <2>11, <4>1 DEF Fresh
    <3>4. ASSUME NEW p \in Queries, query'[p].facts \in Objects, Fresh(query'[p].facts) PROVE Fresh(query[p].facts)'
      <4>1. PICK f \in Objects : f = query'[p].facts
        BY <3>4
      <4> QED
        BY <2>11, <3>4, <4>1 DEF Fresh
    <3> QED
      BY <1>1, <2>2, <3>1, <3>2, <3>3, <3>4 DEF FactsAreFresh
  <2>13. IndexInv'
    BY <2>2 DEF CacheInv, IndexInv, IndexTypes, HandlesDiffer, RowsAreStored, HeadsAreLive
  <2> QED
    BY <2>7, <2>9, <2>10, <2>12, <2>13 DEF CacheInv
<1> QED
  BY <1>5, <1>6

\* A new generation, and new facts when the epoch has moved, in objects that nobody
\* holds.
LEMMA InstallInv ==
  ASSUME CacheInv, NEW q \in Queries, Install(q)
  PROVE  CacheInv'
<1> DEFINE x == query[q]
<1>1. /\ x \in QueryStates /\ QueryOK(x) /\ TokenOK(x) /\ ScopeOK(x) /\ AnswerOK(x) /\ x.phase = "loading"
      /\ x.symbol \in Symbols /\ x.root \in Roots /\ x.began <= epoch /\ x.began \in Nat /\ x.saw \in Nat
      /\ epoch \in Nat
  BY QueryFacts DEF Install
<1>2. /\ x.token \in Tokens /\ x.token.heads[x.root] = x.saw
      /\ \A r \in Roots : x.token.heads[r] <= head[r]
      /\ x.token.epoch \in Nat /\ x.began <= x.token.epoch /\ x.token.epoch <= epoch
      /\ x.generation = 0 /\ x.facts = 0
  BY <1>1 DEF TokenOK, Asking
<1>3. PICK g : g = Unused(HeldGenerations)
  OBVIOUS
<1>4. g \in Objects /\ g # 0 /\ \A p \in Queries : query[p].generation # g
  <2>0. PICK of : of = [p \in Queries |-> query[p].generation]
    OBVIOUS
  <2>1. 0 \in HeldGenerations /\ \A o \in HeldGenerations : o = current \/ \E p \in Queries : o = of[p]
    BY <1>2, <2>0 DEF HeldGenerations
  <2>2. g \in Objects /\ g \notin HeldGenerations
    <3>1. PICK held : held = HeldGenerations
      OBVIOUS
    <3> QED
      BY <1>3, <2>1, <3>1, UnusedIsFree
  <2> QED
    BY <1>2, <2>2 DEF HeldGenerations
<1>5. Unused(HeldFacts) \in Objects /\ Unused(HeldFacts) # symbols
      /\ \A p \in Queries : query[p].facts # Unused(HeldFacts)
  <2>0. PICK of : of = [p \in Queries |-> query[p].facts]
    OBVIOUS
  <2>1. 0 \in HeldFacts /\ \A o \in HeldFacts : o = symbols \/ \E p \in Queries : o = of[p]
    BY <1>2, <2>0 DEF HeldFacts
  <2>2. Unused(HeldFacts) \in Objects /\ Unused(HeldFacts) \notin HeldFacts
    <3>1. PICK held : held = HeldFacts
      OBVIOUS
    <3> QED
      BY <2>1, <3>1, UnusedIsFree
  <2> QED
    BY <2>2 DEF HeldFacts
<1>6. PICK f : f = IF Discards(x.token) THEN Unused(HeldFacts) ELSE symbols
  OBVIOUS
<1>7. PICK n : n = [NoGeneration EXCEPT !.token = x.token]
  OBVIOUS
<1>8. PICK y : y = [x EXCEPT !.phase = "validated", !.generation = g, !.token = Nothing]
  OBVIOUS
<1>9. /\ generations' = [generations EXCEPT ![g] = n] /\ current' = g /\ symbols' = f
      /\ facts' = IF f = symbols THEN facts ELSE [facts EXCEPT ![f] = {}]
      /\ query' = [query EXCEPT ![q] = y] /\ UNCHANGED indexVars
  BY <1>3, <1>6, <1>7, <1>8 DEF Install, Move
<1>10. /\ handle' = handle /\ live' = live /\ rows' = rows /\ head' = head /\ epoch' = epoch
       /\ published' = published
  BY <1>9 DEF indexVars
<1>11. n.token = x.token /\ n.selection \in Selections /\ (\A r \in Roots : n.selection[r] = Nothing) /\ n \in Generations
  BY <1>2, <1>7 DEF NoGeneration, Generations, Selections
<1>12. GenerationOK(n)
  BY <1>2, <1>11 DEF GenerationOK
<1>13. generations'[g] = n /\ \A i \in Objects : i # g => generations'[i] = generations[i]
  BY <1>4, <1>9 DEF CacheInv, CacheTypes
<1>14. /\ y.phase = "validated" /\ y.symbol = x.symbol /\ y.root = x.root /\ y.began = x.began /\ y.saw = x.saw
       /\ y.generation = g /\ y.scope = x.scope /\ y.facts = x.facts /\ y.answer = x.answer /\ y \in QueryStates
  BY <1>1, <1>4, <1>8 DEF QueryStates, Phases, Holding
<1>15. query'[q] = y /\ \A p \in Queries : p # q => query'[p] = query[p]
  BY <1>9 DEF CacheInv, CacheTypes
<1>16. QueryOK(y)'
  <2>1. GenerationOK(n)'
    BY <1>10, <1>12 DEF GenerationOK, Lasts
  <2>2. HeldOK(y)'
    BY <1>1, <1>2, <1>4, <1>11, <1>13, <1>14, <2>1 DEF HeldOK
  <2>3. ScopeOK(y)
    BY <1>1, <1>14 DEF ScopeOK, Facing
  <2>4. ScopeOK(y)'
    BY <1>10, <2>3 DEF ScopeOK, Lasts
  <2> QED
    BY <1>1, <1>10, <1>14, <2>2, <2>4 DEF QueryOK, TokenOK, AnswerOK, Asking, Facing
<1>17. \A p \in Queries : QueryOK(query[p])'
  <2>1. ASSUME NEW p \in Queries, p # q, query[p].phase \in Holding
        PROVE  /\ generations'[query[p].generation].token = generations[query[p].generation].token
               /\ GenerationOK(generations'[query[p].generation])
    <3>1. query[p].generation \in Objects /\ GenerationOK(generations[query[p].generation])
      BY <2>1, QueryFacts DEF HeldOK
    <3> QED
      BY <1>4, <1>13, <3>1
  <2> QED
    BY <1>9, <1>16, <2>1, OthersKeep
<1>18. current' # 0 /\ GenerationOK(generations[current])'
  BY <1>4, <1>9, <1>10, <1>12, <1>13 DEF GenerationOK, Lasts
<1>19. f \in Objects
  BY <1>5, <1>6 DEF CacheInv, CacheTypes
<1>20. CacheTypes'
  <2>1. generations' \in [Objects -> Generations] /\ current' \in Objects
    BY <1>4, <1>9, <1>11 DEF CacheInv, CacheTypes
  <2>2. facts' \in [Objects -> SUBSET Pairings]
    BY <1>9, <1>19 DEF CacheInv, CacheTypes
  <2> QED
    BY <1>9, <1>14, <1>19, <2>1, <2>2 DEF CacheInv, CacheTypes
<1>21. ASSUME NEW o \in Objects, Fresh(o), o = symbols \/ \E p \in Queries : o = query[p].facts
       PROVE  Fresh(o)'
  <2>1. facts'[o] = facts[o]
    BY <1>5, <1>6, <1>9, <1>21 DEF CacheInv, CacheTypes
  <2> QED
    BY <1>10, <1>14, <1>15, <1>21, <2>1 DEF Fresh, Stored
<1>22. f # symbols => Fresh(f)'
  <2> SUFFICES ASSUME f # symbols PROVE Fresh(f)'
    OBVIOUS
  <2>1. facts'[f] = {}
    BY <1>9, <1>19 DEF CacheInv, CacheTypes
  <2>2. \A p \in Queries : query[p].facts # f
    BY <1>5, <1>6
  <2>3. \A p \in Queries : ~(query'[p].phase = "read" /\ query'[p].facts = f)
    BY <1>14, <1>15, <2>2
  <2> QED
    BY <2>1, <2>3 DEF Fresh
<1>23. Fresh(symbols) => Fresh(symbols)'
  <2>1. symbols \in Objects
    BY DEF CacheInv, CacheTypes
  <2>2. CASE f = symbols
    <3>1. PICK o \in Objects : o = symbols
      BY <2>1
    <3> QED
      BY <1>9, <1>21, <2>2, <3>1 DEF Fresh
  <2>3. CASE f # symbols
    BY <1>9, <1>22, <2>3 DEF Fresh
  <2> QED
    BY <2>2, <2>3
<1>24. x.token.epoch = epoch => Fresh(symbols)'
  <2> SUFFICES ASSUME x.token.epoch = epoch PROVE Fresh(symbols)'
    OBVIOUS
  <2>1. CASE f # symbols
    BY <1>9, <1>22, <2>1 DEF Fresh
  <2>2. CASE f = symbols
    <3>1. ~Discards(x.token)
      BY <1>5, <1>6, <2>2
    <3>2. CASE current = 0
      BY <1>23, <3>2 DEF CacheInv, FactsAreFresh, Fresh, Asking
    <3>3. CASE current # 0
      BY <1>23, <3>1, <3>3 DEF CacheInv, FactsAreFresh, Discards
    <3> QED
      BY <3>2, <3>3
  <2> QED
    BY <2>1, <2>2
<1>25. FactsAreFresh'
  <2>1. ASSUME generations'[current'].token.epoch = epoch PROVE Fresh(symbols)'
    BY <1>9, <1>11, <1>13, <1>24, <2>1
  <2>2. ASSUME NEW p \in Queries, query'[p].began = epoch, query'[p].phase \in Holding \cup {"scoped"}
        PROVE  Fresh(symbols)'
    <3>1. CASE p = q
      <4>1. x.token.epoch = epoch
        BY <1>1, <1>2, <1>14, <1>15, <2>2, <3>1
      <4> QED
        BY <1>24, <4>1
    <3>2. CASE p # q
      BY <1>15, <1>23, <2>2, <3>2 DEF CacheInv, FactsAreFresh
    <3> QED
      BY <3>1, <3>2
  <2>3. ASSUME NEW p \in Queries, query'[p].began = epoch, query'[p].phase \in Facing
        PROVE  Fresh(query[p].facts)'
    <3>1. p # q /\ query'[p] = query[p]
      BY <1>14, <1>15, <2>3 DEF Facing
    <3>2. PICK o \in Objects : o = query[p].facts /\ Fresh(o)
      BY <2>3, <3>1, QueryFacts DEF AnswerOK
    <3>3. Fresh(o)'
      BY <1>21, <3>2
    <3> QED
      BY <3>1, <3>2, <3>3 DEF Fresh
  <2> QED
    BY <1>10, <1>18, <2>1, <2>2, <2>3 DEF FactsAreFresh
<1>26. IndexInv'
  BY <1>10 DEF CacheInv, IndexInv, IndexTypes, HandlesDiffer, RowsAreStored, HeadsAreLive
<1> QED
  BY <1>17, <1>18, <1>20, <1>25, <1>26 DEF CacheInv

-----------------------------------------------------------------------------
(* The invariant is one, and says what the properties say.                 *)

\* A cache starts empty.
LEMMA CacheInitInv == CacheInit => CacheInv
<1> SUFFICES ASSUME CacheInit PROVE CacheInv
  OBVIOUS
<1>1. 0 \in Snapshots
  BY IndexConstants DEF Snapshots
<1>2. IndexInv
  BY <1>1 DEF CacheInit, IndexInit, IndexInv, IndexTypes, HandlesDiffer, RowsAreStored, HeadsAreLive
<1>3. epoch \in Nat
  BY <1>2 DEF IndexInv, IndexTypes
<1>4. 1 \in Objects
  BY QueryConstants, FS_CardinalityType DEF Objects
<1>5. NoGeneration \in Generations
  BY DEF NoGeneration, Generations, Selections
<1>6. \A q \in Queries : query[q] = NoQuery /\ query[q].phase = "idle"
  BY DEF CacheInit, NoQuery
<1>7. CacheTypes
  BY <1>3, <1>4, <1>5, NoQueryOK DEF CacheInit, CacheTypes
<1>8. \A q \in Queries : QueryOK(query[q])
  BY <1>3, <1>6, NoQueryOK
<1>9. FactsAreFresh
  BY <1>4, <1>6 DEF CacheInit, FactsAreFresh, Holding, Facing
<1> QED
  BY <1>2, <1>7, <1>8, <1>9 DEF CacheInit, CacheInv

\* Every step of the database and of a query keeps the invariant.
LEMMA CacheStepInv == CacheInv /\ [CacheNext]_vars => CacheInv'
<1> SUFFICES ASSUME CacheInv, [CacheNext]_vars PROVE CacheInv'
  OBVIOUS
<1>1. CASE IndexNext /\ UNCHANGED cacheVars
  BY <1>1, IndexStepInv
<1>2. CASE \E q \in Queries : RunQuery(q)
  <2>1. PICK q \in Queries : RunQuery(q)
    BY <1>2
  <2>2. ASSUME NEW s \in AsksFor[q], NEW r \in Roots, Start(q, s, r) PROVE CacheInv'
    BY <2>2, StartInv, QueryConstants
  <2> QED
    BY <2>1, <2>2, ReadCountsInv, ValidateInv, InstallInv, SelectInv, KeepSelectionInv, CaptureInv,
       HandleKeptInv, ReadHandleInv, KeepHandleInv, ReadPostingsInv, ReturnInv
       DEF RunQuery
<1>3. CASE UNCHANGED vars
  <2>1. UNCHANGED indexVars /\ UNCHANGED cacheVars
    BY <1>3 DEF vars
  <2>2. /\ handle' = handle /\ live' = live /\ rows' = rows /\ head' = head /\ epoch' = epoch
        /\ published' = published /\ generations' = generations /\ current' = current
        /\ facts' = facts /\ symbols' = symbols /\ query' = query
    BY <2>1 DEF indexVars, cacheVars
  <2>3. IndexInv' /\ FactsAreFresh'
    BY <2>2 DEF CacheInv, IndexInv, IndexTypes, HandlesDiffer, RowsAreStored, HeadsAreLive,
                FactsAreFresh, Fresh, Stored
  <2>4. CacheTypes' /\ (current # 0 => GenerationOK(generations[current]))'
    BY <2>2 DEF CacheInv, CacheTypes, GenerationOK, Lasts
  <2>5. ASSUME NEW q \in Queries PROVE QueryOK(query[q])'
    <3>1. PICK x : x = query'[q] /\ QueryOK(x)
      BY <2>2 DEF CacheInv
    <3>2. QueryOK(x)'
      BY <2>2, <3>1 DEF QueryOK, TokenOK, HeldOK, ScopeOK, AnswerOK, GenerationOK, Lasts, Fresh, Stored
    <3> QED
      BY <3>1, <3>2
  <2> QED
    BY <2>3, <2>4, <2>5 DEF CacheInv
<1> QED
  BY <1>1, <1>2, <1>3 DEF CacheNext

\* CacheInv holds in every state: the index is sound, and a kept generation, kept
\* facts and a running query are as old as the tokens and the epoch they go by say.
THEOREM CacheInvariant == CacheSpec => []CacheInv
  BY CacheInitInv, CacheStepInv, PTL DEF CacheSpec

\* A query that no prune overlaps is answered as if nothing were cached, and never
\* meets two symbols under one handle (indexCache, handlesOf, addHandle), whatever
\* publishers, pruners and other queries do.
THEOREM CachedHandlesStayCurrent == CacheSpec => []CachedHandlesAreCurrent
<1>1. ASSUME CacheInv PROVE CachedHandlesAreCurrent
  <2>1. ASSUME NEW q \in Queries, query[q].phase = "done", Undisturbed(q)
        PROVE  /\ query[q].scope # 0 => <<query[q].root, query[q].scope>> \in live
               /\ query[q].answer = {r.means : r \in {x \in rows : x.snapshot = query[q].scope /\ x.means = query[q].symbol}}
    <3>1. ScopeOK(query[q]) /\ AnswerOK(query[q]) /\ query[q].began = epoch
      BY <1>1, <2>1, QueryFacts DEF Undisturbed
    <3>2. query[q].scope # 0 => <<query[q].root, query[q].scope>> \in live
      BY <2>1, <3>1 DEF ScopeOK, Lasts
    <3>3. query[q].answer = {r.means : r \in {x \in rows : x.snapshot = query[q].scope /\ x.means = query[q].symbol}}
      BY <2>1, <3>1, Zenon DEF AnswerOK
    <3> QED
      BY <3>2, <3>3
  <2>2. ASSUME NEW q \in Queries, query[q].phase = "conflict" PROVE ~Undisturbed(q)
    BY <1>1, <2>2, QueryFacts DEF AnswerOK, Undisturbed
  <2> QED
    BY <2>1, <2>2, Zenon DEF CachedHandlesAreCurrent, QueriesAnswerTheirSymbol, HandlesNeverConflict
<1> QED
  BY <1>1, CacheInvariant, PTL

\* A query reads the head there was when it began, or a later one, whichever
\* generation's selection it takes (indexCache.current, moduleScopes).
THEOREM SelectionsStayCurrent == CacheSpec => []SelectionsAreCurrent
<1>1. ASSUME CacheInv PROVE SelectionsAreCurrent
  <2>1. ASSUME NEW q \in Queries, query[q].scope # Nothing PROVE query[q].scope >= query[q].saw
    <3>1. ScopeOK(query[q]) /\ query[q].saw \in Nat
      BY <1>1, QueryFacts
    <3>2. query[q].scope \in Nat /\ query[q].saw <= query[q].scope
      BY <2>1, <3>1, IndexConstants DEF ScopeOK, Lasts, Snapshots
    <3> QED
      BY <3>1, <3>2
  <2> QED
    BY <2>1 DEF SelectionsAreCurrent
<1> QED
  BY <1>1, CacheInvariant, PTL
=============================================================================
