------------------------ MODULE SymbolHandlesProofs ------------------------
(***************************************************************************)
(* What symbol handles promise, for every set of symbols, packages,        *)
(* modules, roots and publishers and every capacity of a handle's fields;  *)
(* and that the allocator implements the index its readers see.            *)
(***************************************************************************)
EXTENDS SymbolHandles, FiniteSetTheorems, TLAPS

-----------------------------------------------------------------------------
(* The inductive invariant.                                                *)

\* Numbers of modules, registered or about to be: each is one module's, and the
\* reserved ones are their modules'.
ModulesDiffer(numbers) ==
  /\ \A m, n \in Modules : numbers[m] = numbers[n] /\ numbers[m] # Unnumbered => m = n
  /\ \A m \in Modules : numbers[m] # Unnumbered =>
       IF m \in DOMAIN Reserved THEN numbers[m] = Reserved[m] ELSE FirstAllocated <= numbers[m]

\* Numbers of packages: each is one package's of the module.
PackagesDiffer(numbers) ==
  \A k, j \in Packages :
    ModuleOf[k] = ModuleOf[j] /\ numbers[k] = numbers[j] /\ numbers[k] # Unnumbered => k = j

\* The registries once a call's numbers are in.
ModulesWith(t) == [m \in Modules |-> IF t.modules[m] = Unnumbered THEN modules[m] ELSE t.modules[m]]
PackagesWith(t) == [k \in Packages |-> IF t.packages[k] = Unnumbered THEN packages[k] ELSE t.packages[k]]

\* A handle is made of its symbol's numbers, and they are there.
MadeOf(h, s, moduleNumbers, packageNumbers) ==
  LET k == PackageOf[s] IN
  /\ packageNumbers[k] # Unnumbered /\ moduleNumbers[ModuleOf[k]] # Unnumbered
  /\ h[1] = moduleNumbers[ModuleOf[k]] /\ h[2] = packageNumbers[k] /\ h[3] = BucketOf[s]

HandlesDiffer(h) == \A s, u \in Symbols : h[s] = h[u] /\ h[s] # NoHandle => s = u

\* What a publication is about to write is sound by itself.
Assigned(t) ==
  /\ ModulesDiffer(t.modules) /\ PackagesDiffer(t.packages) /\ HandlesDiffer(t.assigned)
  /\ \A s \in Symbols : t.assigned[s] # NoHandle =>
       /\ MadeOf(t.assigned[s], s, ModulesWith(t), PackagesWith(t))
       /\ Owner[s] # None => t.assigned[Owner[s]] # NoHandle
  /\ \A s \in t.req.docs : t.assigned[s] # NoHandle
  /\ \A s \in t.req.facts : t.assigned[s] # NoHandle \/ t.found[s] # NoHandle

CallOK(t) ==
  /\ t.phase # "idle" => t.req \in RequestType
  /\ t.phase = "assigned" => Assigned(t)

\* What a prune is about to delete is still there, and no head.
Planned ==
  pruner.phase = "planned" =>
    /\ pruner.snapshots # {} /\ pruner.snapshots \subseteq live /\ pruner.orphans \subseteq Stored
    /\ \E root \in Roots : \A x \in pruner.snapshots : x[1] = root /\ x[2] # head[root]

SnapshotsAreCounted ==
  /\ \A x \in live : x[2] <= published
  /\ \A r \in Roots : head[r] <= published

HandleInv ==
  /\ TypeOK /\ ModulesDiffer(modules) /\ PackagesDiffer(packages) /\ HandlesDiffer(handle)
  /\ \A s \in Symbols : handle[s] # NoHandle => MadeOf(handle[s], s, modules, packages)
  /\ \A r \in rows : r.kind = "document" => handle[r.means] = r.handle
  /\ \A s \in Symbols : handle[s] # NoHandle /\ Owner[s] # None => handle[Owner[s]] # NoHandle
  /\ \A p \in Publishers : CallOK(call[p])
  /\ Planned /\ SnapshotsAreCounted

-----------------------------------------------------------------------------
(* Numbers.                                                                *)

\* A set of integers with a bound has a largest.
LEMMA LargestIsLargest ==
  ASSUME NEW N \in Nat, NEW S \in SUBSET (-1..N), S # {}
  PROVE  Largest(S) \in S /\ \A k \in S : k <= Largest(S)
<1> DEFINE R == {x \in Nat \X Nat : x[1] < x[2]}
           T == {n \in Nat : N - n \in S}
<1>1. IsWellFoundedOn(R, Nat)
  <2>1. OpToRel(<, Nat) = R
    BY Zenon DEF OpToRel
  <2> QED
    BY <2>1, NatLessThanWellFounded, Zenon
<1>2. T \in SUBSET Nat /\ T # {}
  <2>1. PICK k \in S : TRUE
    OBVIOUS
  <2>2. N - k \in Nat /\ N - (N - k) = k
    BY <2>1
  <2> QED
    BY <2>1, <2>2
<1>3. PICK n \in T : \A k \in T : <<k, n>> \notin R
  BY <1>1, <1>2, WFMin
<1>4. N - n \in S
  OBVIOUS
<1>5. ASSUME NEW k \in S PROVE k <= N - n
  <2>1. N - k \in T /\ k \in Int
    BY <1>2
  <2>2. ~(N - k < n)
    BY <1>3, <2>1
  <2> QED
    BY <2>1, <2>2
<1>6. \E m \in S : \A k \in S : k <= m
  BY <1>4, <1>5
<1> QED
  BY <1>6 DEF Largest

\* Places in key order are numbers, and two members of a set have two.
LEMMA PlacesDiffer ==
  ASSUME NEW S \in SUBSET DOMAIN Order
  PROVE  /\ \A x \in DOMAIN Order : Place(x, S) \in Nat
         /\ \A x, z \in S : Place(x, S) = Place(z, S) => x = z
<1> DEFINE Before(x) == {y \in S : Order[y] < Order[x]}
<1>1. \A x \in DOMAIN Order : Order[x] \in Nat
  BY HandleConstants
<1>2. ASSUME NEW x \in DOMAIN Order
      PROVE  IsFiniteSet(Before(x)) /\ Cardinality(Before(x)) \in Nat
  <2> DEFINE f == [y \in Before(x) |-> Order[y]]
             T == 0..(Order[x] - 1)
  <2>1. f \in [Before(x) -> T]
    BY <1>1
  <2>2. \A y, z \in Before(x) : f[y] = f[z] => y = z
    BY HandleConstants
  <2>3. f \in Injection(Before(x), T)
    BY <2>1, <2>2 DEF Injection, IsInjective
  <2>4. IsFiniteSet(T)
    BY <1>1, FS_Interval
  <2>5. IsFiniteSet(Before(x))
    BY <2>3, <2>4, FS_Injection
  <2> QED
    BY <2>5, FS_CardinalityType
<1>3. ASSUME NEW x \in S, NEW z \in S, Order[x] < Order[z]
      PROVE  Cardinality(Before(x)) < Cardinality(Before(z))
  <2>1. Before(x) \in SUBSET Before(z) /\ x \in Before(z) /\ x \notin Before(x)
    BY <1>1, <1>3
  <2>2. Before(x) # Before(z)
    BY <2>1
  <2>3. /\ Cardinality(Before(x)) <= Cardinality(Before(z))
        /\ Cardinality(Before(z)) = Cardinality(Before(x)) => Before(z) = Before(x)
    BY <1>2, <2>1, FS_Subset
  <2> HIDE DEF Before
  <2> QED
    BY <1>2, <2>2, <2>3
<1>4. \A x, z \in S : x # z => Order[x] < Order[z] \/ Order[z] < Order[x]
  BY <1>1, HandleConstants
<1>5. \A x : Place(x, S) = Cardinality(Before(x))
  BY DEF Place
<1> HIDE DEF Before
<1> QED
  BY <1>2, <1>3, <1>4, <1>5

\* resolveModules: the new numbers differ from each other and from what is stored.
LEMMA ModulesAreNumbered ==
  ASSUME modules \in [Modules -> -1..MaxModule], ModulesDiffer(modules),
         NEW needed \in SUBSET Symbols, NEW numbers, numbers = NumberedModules(needed)
  PROVE  /\ numbers \in [Modules -> Int] /\ ModulesDiffer(numbers)
         /\ \A m \in Modules : numbers[m] >= -1 /\ (modules[m] # Unnumbered => numbers[m] = modules[m])
         /\ \A s \in needed : numbers[ModuleOf[PackageOf[s]]] # Unnumbered
<1> DEFINE used == {ModuleOf[PackageOf[s]] : s \in needed}
           missing == {m \in used : modules[m] = Unnumbered /\ m \notin DOMAIN Reserved}
           stored == {modules[m] : m \in Modules}
           next == Largest({Largest(stored) + 1, FirstAllocated})
<1>1. used \in SUBSET Modules /\ missing \in SUBSET DOMAIN Order /\ missing \in SUBSET Modules
  BY HandleConstants
<1>2. \A m \in Modules : numbers[m] = CASE m \in missing -> next + Place(m, missing)
                                        [] m \in used \cap DOMAIN Reserved -> Reserved[m]
                                        [] OTHER -> modules[m]
  BY DEF NumberedModules
<1>3. ASSUME Modules # {}
      PROVE  next \in Nat /\ FirstAllocated <= next /\ \A m \in Modules : modules[m] < next
  <2>1. MaxModule \in Nat /\ FirstAllocated \in Nat
    BY HandleConstants
  <2>2. stored \in SUBSET (-1..MaxModule) /\ stored # {}
    BY <1>3
  <2>3. Largest(stored) \in stored /\ \A k \in stored : k <= Largest(stored)
    BY <2>1, <2>2, LargestIsLargest
  <2> DEFINE l == Largest(stored)
             two == {l + 1, FirstAllocated}
  <2>4. l \in -1..MaxModule
    BY <2>2, <2>3
  <2>5. \A m \in Modules : modules[m] <= l
    BY <2>3
  <2> HIDE DEF l, stored
  <2>6. two \in SUBSET (-1..(MaxModule + 1 + FirstAllocated)) /\ two # {}
    BY <2>1, <2>4
  <2>7. Largest(two) \in two /\ \A k \in two : k <= Largest(two)
    BY <2>1, <2>6, LargestIsLargest
  <2>8. Largest(two) = next
    BY DEF l
  <2>9. Largest(two) \in Nat /\ l + 1 <= Largest(two) /\ FirstAllocated <= Largest(two)
    BY <2>1, <2>4, <2>7
  <2> HIDE DEF two, next
  <2>10. next \in Nat /\ l + 1 <= next /\ FirstAllocated <= next
    BY <2>8, <2>9
  <2>11. ASSUME NEW m \in Modules PROVE modules[m] < next
    BY <2>4, <2>5, <2>10
  <2> QED
    BY <2>10, <2>11
<1> HIDE DEF next, stored
<1> DEFINE Missing(m) == numbers[m] = next + Place(m, missing) /\ m \notin DOMAIN Reserved
           Fixed(m) == m \in DOMAIN Reserved /\ numbers[m] = Reserved[m]
           Kept(m) == numbers[m] = modules[m]
<1>4. /\ \A m \in missing : Place(m, missing) \in Nat
      /\ \A m, n \in missing : Place(m, missing) = Place(n, missing) => m = n
  BY <1>1, PlacesDiffer
<1>5. ASSUME NEW m \in Modules
      PROVE  \/ m \in missing /\ Missing(m) /\ modules[m] = Unnumbered
             \/ m \notin missing /\ Fixed(m)
             \/ m \notin missing /\ Kept(m)
  BY <1>2
<1>6. \A m \in DOMAIN Reserved : Reserved[m] \in Nat /\ Reserved[m] < FirstAllocated
  BY HandleConstants
<1>7. \A m \in Modules : modules[m] \in Int /\ modules[m] >= -1
  BY HandleConstants
<1>8. ASSUME NEW m \in Modules
      PROVE  /\ numbers[m] \in Int /\ numbers[m] >= -1
             /\ modules[m] # Unnumbered => numbers[m] = modules[m]
             /\ m \in used => numbers[m] # Unnumbered
             /\ numbers[m] # Unnumbered =>
                  IF m \in DOMAIN Reserved THEN numbers[m] = Reserved[m] ELSE FirstAllocated <= numbers[m]
  <2>1. modules[m] # Unnumbered =>
          IF m \in DOMAIN Reserved THEN modules[m] = Reserved[m] ELSE FirstAllocated <= modules[m]
    BY DEF ModulesDiffer
  <2>2. CASE m \in missing /\ Missing(m) /\ modules[m] = Unnumbered
    <3>1. PICK i \in Nat : i = Place(m, missing)
      BY <1>4, <2>2
    <3>2. next \in Nat /\ FirstAllocated <= next /\ FirstAllocated \in Nat /\ numbers[m] = next + i
      BY <1>3, <2>2, <3>1, HandleConstants
    <3> QED
      BY <2>2, <3>2 DEF Unnumbered
  <2>3. CASE Fixed(m)
    BY <1>6, <2>1, <2>3 DEF Unnumbered
  <2>4. CASE m \notin missing /\ Kept(m) /\ ~Fixed(m)
    <3>1. m \in used => modules[m] # Unnumbered
      <4> SUFFICES ASSUME m \in used, modules[m] = Unnumbered PROVE FALSE
        OBVIOUS
      <4>1. m \in DOMAIN Reserved
        BY <2>4
      <4> QED
        BY <1>2, <2>4, <4>1
    <3> QED
      BY <1>7, <2>1, <2>4, <3>1
  <2> QED
    BY <1>5, <2>2, <2>3, <2>4
<1>9. ASSUME NEW m \in Modules, NEW n \in Modules, numbers[m] = numbers[n], numbers[m] # Unnumbered
      PROVE  m = n
  <2>1. CASE m \in DOMAIN Reserved \/ n \in DOMAIN Reserved
    BY <1>6, <1>8, <1>9, <2>1, HandleConstants
  <2>2. CASE m \notin DOMAIN Reserved /\ n \notin DOMAIN Reserved
    <3>1. CASE m \in missing /\ n \in missing
      <4>1. numbers[m] = next + Place(m, missing) /\ numbers[n] = next + Place(n, missing)
        BY <1>5, <3>1
      <4>2. next \in Nat /\ Place(m, missing) \in Nat /\ Place(n, missing) \in Nat
        BY <1>3, <1>4, <3>1
      <4>3. PICK i, j : i = Place(m, missing) /\ j = Place(n, missing)
        OBVIOUS
      <4>4. next + i = next + j /\ i \in Nat /\ j \in Nat
        BY <1>9, <4>1, <4>2, <4>3
      <4>5. i = j
        BY <4>2, <4>4
      <4> QED
        BY <1>4, <3>1, <4>3, <4>5
    <3>2. CASE m \notin missing /\ n \notin missing
      BY <1>5, <1>9, <2>2, <3>2 DEF ModulesDiffer
    <3>3. ASSUME NEW a \in missing, NEW b \in Modules, b \notin missing, b \notin DOMAIN Reserved
          PROVE  numbers[a] # numbers[b]
      <4>1. numbers[a] = next + Place(a, missing) /\ numbers[b] = modules[b]
        BY <1>1, <1>5, <3>3
      <4>2. next \in Nat /\ Place(a, missing) \in Nat /\ modules[b] < next /\ modules[b] \in Int
        BY <1>3, <1>4, <1>7
      <4> QED
        BY <4>1, <4>2
    <3> QED
      BY <1>9, <2>2, <3>1, <3>2, <3>3
  <2> QED
    BY <2>1, <2>2
<1>10. numbers \in [Modules -> Int]
  <2>1. numbers = [m \in Modules |-> numbers[m]]
    BY DEF NumberedModules
  <2> QED
    BY <1>8, <2>1
<1>11. \A s \in needed : ModuleOf[PackageOf[s]] \in used /\ ModuleOf[PackageOf[s]] \in Modules
  BY <1>1
<1> QED
  BY <1>8, <1>9, <1>10, <1>11 DEF ModulesDiffer

\* resolvePackages: likewise, among the packages of a module.
LEMMA PackagesAreNumbered ==
  ASSUME packages \in [Packages -> -1..MaxPackage], PackagesDiffer(packages),
         NEW needed \in SUBSET Symbols, NEW numbers, numbers = NumberedPackages(needed)
  PROVE  /\ numbers \in [Packages -> Int] /\ PackagesDiffer(numbers)
         /\ \A k \in Packages : numbers[k] >= -1 /\ (packages[k] # Unnumbered => numbers[k] = packages[k])
         /\ \A s \in needed : numbers[PackageOf[s]] # Unnumbered
<1> DEFINE missing == {k \in {PackageOf[s] : s \in needed} : packages[k] = Unnumbered}
           siblings(k) == {j \in Packages : ModuleOf[j] = ModuleOf[k]}
           next(k) == Largest({packages[j] : j \in siblings(k)}) + 1
           place(k) == Place(k, missing \cap siblings(k))
<1>1. missing \in SUBSET Packages /\ Packages \in SUBSET DOMAIN Order
  BY HandleConstants
<1>2. \A k \in Packages : numbers[k] = IF k \in missing THEN next(k) + place(k) ELSE packages[k]
  BY DEF NumberedPackages
<1>3. ASSUME NEW k \in Packages
      PROVE  next(k) \in Nat /\ \A j \in siblings(k) : packages[j] < next(k)
  <2> DEFINE stored == {packages[j] : j \in siblings(k)}
  <2>1. MaxPackage \in Nat
    BY HandleConstants
  <2>2. stored \in SUBSET (-1..MaxPackage) /\ stored # {}
    OBVIOUS
  <2>3. Largest(stored) \in stored /\ \A n \in stored : n <= Largest(stored)
    BY <2>1, <2>2, LargestIsLargest
  <2> DEFINE l == Largest(stored)
  <2>4. l \in -1..MaxPackage /\ next(k) = l + 1
    BY <2>2, <2>3
  <2>5. \A j \in siblings(k) : packages[j] <= l /\ packages[j] \in Int
    BY <2>3
  <2> HIDE DEF l, stored, next, siblings
  <2> QED
    BY <2>1, <2>4, <2>5
<1>4. ASSUME NEW k \in Packages
      PROVE  /\ place(k) \in Nat
             /\ \A j \in missing : j \in siblings(k) /\ k \in missing /\ place(j) = place(k) => j = k
  <2> DEFINE among == missing \cap siblings(k)
  <2>1. among \in SUBSET DOMAIN Order /\ k \in DOMAIN Order
    BY <1>1
  <2>2. Place(k, among) \in Nat /\ \A x, z \in among : Place(x, among) = Place(z, among) => x = z
    BY <2>1, PlacesDiffer
  <2>3. \A j \in siblings(k) : place(j) = Place(j, among)
    BY <1>1
  <2>4. k \in siblings(k)
    OBVIOUS
  <2> QED
    BY <2>2, <2>3, <2>4
<1>5. \A k \in Packages : packages[k] \in Int /\ packages[k] >= -1
  BY HandleConstants
<1>6. \A j, k \in Packages : ModuleOf[j] = ModuleOf[k] => j \in siblings(k) /\ next(j) = next(k)
  OBVIOUS
<1>7. \A k \in Packages : k \in missing => packages[k] = Unnumbered
  OBVIOUS
<1>8. \A s \in needed : PackageOf[s] \in Packages /\ (packages[PackageOf[s]] = Unnumbered => PackageOf[s] \in missing)
  BY HandleConstants
<1>9. numbers = [k \in Packages |-> numbers[k]]
  BY DEF NumberedPackages
<1> HIDE DEF missing, next, place, siblings
<1>10. ASSUME NEW k \in Packages
       PROVE  /\ numbers[k] \in Int /\ numbers[k] >= -1
              /\ packages[k] # Unnumbered => numbers[k] = packages[k]
              /\ k \in missing => numbers[k] # Unnumbered
  <2>1. CASE k \in missing
    <3>1. next(k) \in Nat /\ place(k) \in Nat /\ numbers[k] = next(k) + place(k)
      BY <1>2, <1>3, <1>4, <2>1
    <3>2. numbers[k] \in Nat
      BY <3>1
    <3> QED
      BY <1>7, <2>1, <3>2 DEF Unnumbered
  <2>2. CASE k \notin missing
    BY <1>2, <1>5, <2>2
  <2> QED
    BY <2>1, <2>2
<1>11. ASSUME NEW k \in Packages, NEW j \in Packages, ModuleOf[k] = ModuleOf[j], numbers[k] = numbers[j],
              numbers[k] # Unnumbered
       PROVE  k = j
  <2>1. CASE k \in missing /\ j \in missing
    <3>1. /\ numbers[k] = next(k) + place(k) /\ numbers[j] = next(k) + place(j)
          /\ next(k) \in Nat /\ place(k) \in Nat /\ place(j) \in Nat
      BY <1>2, <1>3, <1>4, <1>6, <1>11, <2>1
    <3>2. PICK a, b : a = place(k) /\ b = place(j)
      OBVIOUS
    <3>3. a \in Nat /\ b \in Nat /\ next(k) + a = next(k) + b
      BY <1>11, <3>1, <3>2
    <3>4. a = b
      BY <3>1, <3>3
    <3> QED
      BY <1>4, <1>6, <1>11, <2>1, <3>2, <3>4
  <2>2. CASE k \notin missing /\ j \notin missing
    BY <1>2, <1>11, <2>2 DEF PackagesDiffer
  <2>3. ASSUME NEW a \in Packages, NEW b \in Packages, a \in missing, b \notin missing, ModuleOf[a] = ModuleOf[b]
        PROVE  numbers[a] # numbers[b]
    <3>1. /\ numbers[a] = next(a) + place(a) /\ numbers[b] = packages[b] /\ next(a) \in Nat
          /\ place(a) \in Nat /\ packages[b] < next(a) /\ packages[b] \in Int
      BY <1>2, <1>3, <1>4, <1>5, <1>6, <2>3
    <3> QED
      BY <3>1
  <2> QED
    BY <1>11, <2>1, <2>2, <2>3
<1>12. numbers \in [Packages -> Int]
  BY <1>9, <1>10
<1>13. ASSUME NEW s \in needed PROVE numbers[PackageOf[s]] # Unnumbered
  BY <1>8, <1>10
<1> QED
  BY <1>10, <1>11, <1>12, <1>13 DEF PackagesDiffer

\* A handle has four fields; no handle has none.
LEMMA HandleFields ==
  /\ \A a, b, c, d : <<a, b, c, d>> # NoHandle
  /\ \A h \in Handles : h # NoHandle /\ h = <<h[1], h[2], h[3], h[4]>>
       /\ h[1] \in 0..MaxModule /\ h[2] \in 0..MaxPackage /\ h[3] \in Buckets /\ h[4] \in 0..MaxLocal
  /\ \A a \in 0..MaxModule, b \in 0..MaxPackage, c \in Buckets, d \in 0..MaxLocal : <<a, b, c, d>> \in Handles
<1>1. ASSUME NEW a, NEW b, NEW c, NEW d PROVE <<a, b, c, d>> # NoHandle
  BY DEF NoHandle
<1>2. ASSUME NEW h \in Handles
      PROVE  /\ h = <<h[1], h[2], h[3], h[4]>>
             /\ h[1] \in 0..MaxModule /\ h[2] \in 0..MaxPackage /\ h[3] \in Buckets /\ h[4] \in 0..MaxLocal
  BY DEF Handles
<1> QED
  BY <1>1, <1>2 DEF Handles

\* The first local past those stored in a bucket.
PastLocals(m, k, b) ==
  LET locals == {handle[t][4] : t \in {u \in Stored : /\ handle[u][1] = m
                                                      /\ handle[u][2] = k
                                                      /\ handle[u][3] = b}}
  IN IF locals = {} THEN 0 ELSE Largest(locals) + 1

\* firstFree, when the package is not new.
LEMMA FirstFreeIsFree ==
  ASSUME handle \in [Symbols -> Handles \cup {NoHandle}], NEW m, NEW k, NEW b
  PROVE  /\ PastLocals(m, k, b) \in Nat
         /\ \A u \in Symbols :
              handle[u] # NoHandle /\ handle[u][1] = m /\ handle[u][2] = k /\ handle[u][3] = b
                => handle[u][4] < PastLocals(m, k, b)
<1> DEFINE locals == {handle[t][4] : t \in {u \in Stored : /\ handle[u][1] = m
                                                           /\ handle[u][2] = k
                                                           /\ handle[u][3] = b}}
<1>1. PastLocals(m, k, b) = IF locals = {} THEN 0 ELSE Largest(locals) + 1
  BY DEF PastLocals
<1>2. \A u \in Stored : u \in Symbols /\ handle[u][4] \in 0..MaxLocal
  BY HandleFields DEF Stored
<1>3. locals \in SUBSET (-1..MaxLocal) /\ locals \in SUBSET Nat /\ MaxLocal \in Nat
  BY <1>2, HandleConstants
<1>4. ASSUME NEW u \in Symbols, handle[u] # NoHandle, handle[u][1] = m, handle[u][2] = k, handle[u][3] = b
      PROVE  handle[u][4] \in locals
  BY <1>4 DEF Stored
<1> HIDE DEF locals
<1>5. locals # {} => Largest(locals) \in locals /\ \A n \in locals : n <= Largest(locals)
  BY <1>3, LargestIsLargest
<1>6. ASSUME locals # {} PROVE Largest(locals) + 1 \in Nat /\ \A n \in locals : n < Largest(locals) + 1
  <2>1. PICK l : l = Largest(locals)
    OBVIOUS
  <2>2. l \in Nat /\ \A n \in locals : n <= l /\ n \in Nat
    BY <1>3, <1>5, <1>6, <2>1
  <2> QED
    BY <2>1, <2>2
<1> QED
  BY <1>1, <1>4, <1>6

\* To each symbol needed a handle made of the symbol's numbers, and to no two the same.
HandlesFit(assigned, needed, numbers, packageNumbers) ==
  /\ assigned = [s \in Symbols |-> assigned[s]]
  /\ \A s \in Symbols : assigned[s] # NoHandle <=> s \in needed
  /\ \A s \in needed : /\ MadeOf(assigned[s], s, numbers, packageNumbers) /\ assigned[s][4] \in Nat
                       /\ assigned[s] = <<assigned[s][1], assigned[s][2], assigned[s][3], assigned[s][4]>>
  /\ HandlesDiffer(assigned)

\* What a call assigns fits.
LEMMA HandlesAreAssigned ==
  ASSUME handle \in [Symbols -> Handles \cup {NoHandle}], HandlesDiffer(handle),
         \A s \in Symbols : handle[s] # NoHandle => MadeOf(handle[s], s, modules, packages),
         NEW needed \in SUBSET Symbols, NEW numbers, NEW packageNumbers,
         ModulesDiffer(numbers), PackagesDiffer(packageNumbers),
         \A m \in Modules : modules[m] # Unnumbered => numbers[m] = modules[m],
         \A k \in Packages : packages[k] # Unnumbered => packageNumbers[k] = packages[k],
         \A s \in needed : numbers[ModuleOf[PackageOf[s]]] # Unnumbered /\ packageNumbers[PackageOf[s]] # Unnumbered,
         NEW assigned, assigned = AssignedHandles(needed, numbers, packageNumbers)
  PROVE  HandlesFit(assigned, needed, numbers, packageNumbers)
<1> DEFINE SameBucket(s, t) == PackageOf[s] = PackageOf[t] /\ BucketOf[s] = BucketOf[t]
           new == needed \ Stored
           module(s) == numbers[ModuleOf[PackageOf[s]]]
           package(s) == packageNumbers[PackageOf[s]]
           first(s) == FirstFree(module(s), package(s), BucketOf[s], packages[PackageOf[s]] = Unnumbered)
           place(s) == Place(s, {t \in new : SameBucket(s, t)})
           local(s) == first(s) + place(s)
<1>1. /\ assigned = [s \in Symbols |-> assigned[s]]
      /\ \A s \in new : assigned[s] = <<module(s), package(s), BucketOf[s], local(s)>>
      /\ \A s \in needed \cap Stored : assigned[s] = handle[s]
      /\ \A s \in Symbols \ needed : assigned[s] = NoHandle
  <2>1. assigned = [s \in Symbols |->
                      CASE s \in new -> <<module(s), package(s), BucketOf[s], local(s)>>
                        [] s \in needed \cap Stored -> handle[s]
                        [] OTHER -> NoHandle]
    BY Zenon DEF AssignedHandles
  <2> DEFINE Fresh(s) == <<module(s), package(s), BucketOf[s], local(s)>>
  <2>2. assigned = [s \in Symbols |-> CASE s \in new -> Fresh(s)
                                        [] s \in needed \cap Stored -> handle[s]
                                        [] OTHER -> NoHandle]
    BY <2>1, Zenon
  <2> HIDE DEF Fresh
  <2>3. \A s \in new : assigned[s] = Fresh(s)
    BY <2>2
  <2>4. \A s \in Symbols : /\ s \in needed \cap Stored => assigned[s] = handle[s]
                           /\ s \notin needed => assigned[s] = NoHandle
    BY <2>2
  <2> QED
    BY <2>2, <2>3, <2>4 DEF Fresh, Stored
<1>2. /\ PackageOf \in [Symbols -> Packages] /\ ModuleOf \in [Packages -> Modules]
      /\ Symbols \in SUBSET DOMAIN Order
  BY HandleConstants
<1>3. ASSUME NEW s
      PROVE  first(s) = IF packages[PackageOf[s]] = Unnumbered THEN 0
                        ELSE PastLocals(module(s), package(s), BucketOf[s])
  BY DEF FirstFree, PastLocals
<1> HIDE DEF first
<1>4. ASSUME NEW s \in new PROVE first(s) \in Nat /\ place(s) \in Nat /\ local(s) \in Nat
  <2>1. first(s) \in Nat
    BY <1>3, FirstFreeIsFree
  <2>2. place(s) \in Nat
    BY <1>2, PlacesDiffer
  <2> QED
    BY <2>1, <2>2
<1>5. ASSUME NEW s \in Symbols, NEW t \in Symbols, SameBucket(s, t)
      PROVE  first(s) = first(t) /\ {u \in new : SameBucket(s, u)} = {u \in new : SameBucket(t, u)}
  BY <1>3, <1>5
<1>6. ASSUME NEW s \in new, NEW t \in new, SameBucket(s, t), place(s) = place(t)
      PROVE  s = t
  <2> DEFINE among == {u \in new : SameBucket(s, u)}
  <2>1. among \in SUBSET DOMAIN Order /\ s \in among /\ t \in among
    BY <1>2, <1>6
  <2>2. Place(s, among) = Place(t, among)
    BY <1>5, <1>6
  <2> HIDE DEF among
  <2> QED
    BY <2>1, <2>2, PlacesDiffer
<1>7. ASSUME NEW s \in Symbols, handle[s] # NoHandle
      PROVE  handle[s] \in Handles /\ MadeOf(handle[s], s, numbers, packageNumbers) /\ packages[PackageOf[s]] # Unnumbered
  BY <1>2, <1>7 DEF MadeOf
<1>8. ASSUME NEW s \in new
      PROVE  /\ assigned[s] = <<module(s), package(s), BucketOf[s], local(s)>>
             /\ assigned[s] # NoHandle /\ MadeOf(assigned[s], s, numbers, packageNumbers) /\ assigned[s][4] = local(s)
  <2>1. assigned[s] = <<module(s), package(s), BucketOf[s], local(s)>>
    BY <1>1, <1>8, Zenon
  <2>2. assigned[s] # NoHandle
    BY <2>1, HandleFields
  <2> QED
    BY <2>1, <2>2 DEF MadeOf
<1>9. ASSUME NEW s \in needed \cap Stored
      PROVE  assigned[s] = handle[s] /\ handle[s] # NoHandle
  BY <1>1 DEF Stored
<1> HIDE DEF place
<1>10. ASSUME NEW s \in needed
      PROVE  /\ MadeOf(assigned[s], s, numbers, packageNumbers) /\ assigned[s][4] \in Nat
             /\ assigned[s] = <<assigned[s][1], assigned[s][2], assigned[s][3], assigned[s][4]>>
             /\ assigned[s] # NoHandle
  <2>1. CASE s \in new
    <3>1. PICK a, b, c, d : assigned[s] = <<a, b, c, d>>
      BY <1>8, <2>1
    <3>2. assigned[s] = <<assigned[s][1], assigned[s][2], assigned[s][3], assigned[s][4]>>
      BY <3>1
    <3> QED
      BY <1>4, <1>8, <2>1, <3>2
  <2>2. CASE s \notin new
    <3>1. s \in needed \cap Stored /\ handle[s] \in Handles
      BY <1>7, <1>9, <2>2
    <3> QED
      BY <1>7, <1>9, <3>1, HandleFields
  <2> QED
    BY <2>1, <2>2
<1>11. ASSUME NEW s \in needed, NEW t \in needed, assigned[s] = assigned[t]
       PROVE  SameBucket(s, t)
  <2>1. module(s) = module(t) /\ module(s) # Unnumbered
    BY <1>10, <1>11 DEF MadeOf
  <2>2. package(s) = package(t) /\ package(s) # Unnumbered /\ BucketOf[s] = BucketOf[t]
    BY <1>10, <1>11 DEF MadeOf
  <2>3. ModuleOf[PackageOf[s]] = ModuleOf[PackageOf[t]]
    BY <1>2, <2>1 DEF ModulesDiffer
  <2>4. PackageOf[s] = PackageOf[t]
    BY <1>2, <2>2, <2>3 DEF PackagesDiffer
  <2> QED
    BY <2>2, <2>4
<1>12. ASSUME NEW s \in needed \cap Stored, NEW t \in new PROVE assigned[s] # assigned[t]
  <2> SUFFICES ASSUME assigned[s] = assigned[t] PROVE FALSE
    OBVIOUS
  <2>1. SameBucket(s, t)
    BY <1>11
  <2>2. /\ assigned[s] = handle[s] /\ handle[s] # NoHandle /\ handle[s] \in Handles
        /\ packages[PackageOf[t]] # Unnumbered
        /\ handle[s][1] = module(s) /\ handle[s][2] = package(s) /\ handle[s][3] = BucketOf[s]
    BY <1>7, <1>9, <2>1 DEF MadeOf
  <2>3. module(s) = module(t) /\ package(s) = package(t) /\ BucketOf[s] = BucketOf[t]
    BY <2>1
  <2>4. handle[s][4] < first(t)
    <3>1. first(t) = PastLocals(module(t), package(t), BucketOf[t])
      BY <1>3, <2>2
    <3>2. PICK m, k, b : m = module(t) /\ k = package(t) /\ b = BucketOf[t]
      OBVIOUS
    <3>3. s \in Symbols /\ handle[s] # NoHandle /\ handle[s][1] = m /\ handle[s][2] = k /\ handle[s][3] = b
      BY <2>2, <2>3, <3>2
    <3>4. first(t) = PastLocals(m, k, b)
      BY <3>1, <3>2
    <3> QED
      BY <3>3, <3>4, FirstFreeIsFree
  <2>5. handle[s][4] \in Nat /\ handle[s][4] = first(t) + place(t)
    <3>1. assigned[t][4] = first(t) + place(t)
      BY <1>8
    <3>2. handle[s][4] \in Nat
      BY <2>2, HandleFields
    <3> QED
      BY <2>2, <3>1, <3>2
  <2>6. first(t) \in Nat /\ place(t) \in Nat
    BY <1>4
  <2> QED
    BY <2>4, <2>5, <2>6
<1>13. ASSUME NEW s \in new, NEW t \in new, assigned[s] = assigned[t] PROVE s = t
  <2>1. SameBucket(s, t) /\ local(s) = local(t)
    BY <1>8, <1>11, <1>13
  <2>2. PICK f, i, j : f = first(s) /\ i = place(s) /\ j = place(t)
    OBVIOUS
  <2>3. first(t) = f
    BY <1>5, <2>1, <2>2
  <2>4. f + i = f + j /\ f \in Nat /\ i \in Nat /\ j \in Nat
    BY <1>4, <2>1, <2>2, <2>3
  <2>5. i = j
    BY <2>4
  <2> QED
    BY <1>6, <2>1, <2>2, <2>5 DEF place
<1>14. ASSUME NEW s \in needed \cap Stored, NEW t \in needed \cap Stored, assigned[s] = assigned[t] PROVE s = t
  BY <1>9, <1>14 DEF HandlesDiffer
<1>15. \A s \in Symbols : assigned[s] # NoHandle <=> s \in needed
  <2>1. \A s \in Symbols : s \notin needed => assigned[s] = NoHandle
    BY <1>1
  <2> QED
    BY <1>10, <2>1
<1>16. HandlesDiffer(assigned)
  <2> SUFFICES ASSUME NEW s \in Symbols, NEW t \in Symbols, assigned[s] = assigned[t], assigned[s] # NoHandle
               PROVE  s = t
    BY DEF HandlesDiffer
  <2>1. s \in needed /\ t \in needed
    BY <1>15
  <2>2. (s \in new \/ s \in needed \cap Stored) /\ (t \in new \/ t \in needed \cap Stored)
    BY <2>1
  <2> HIDE DEF new
  <2> QED
    BY <1>12, <1>13, <1>14, <2>2
<1> QED
  BY <1>1, <1>10, <1>15, <1>16 DEF HandlesFit

\* Owners of what WithOwners returns are there too.
LEMMA OwnersAreIncluded ==
  ASSUME NEW S \in SUBSET Symbols
  PROVE  /\ S \subseteq WithOwners(S) /\ WithOwners(S) \in SUBSET Symbols
         /\ \A s \in WithOwners(S) : Owner[s] # None => Owner[s] \in WithOwners(S)
<1>1. \A T \in SUBSET Symbols : OwnersOf(T) \in SUBSET Symbols
  BY HandleConstants DEF OwnersOf
<1>2. WithOwners(S) \in SUBSET Symbols /\ S \subseteq WithOwners(S)
  BY <1>1 DEF WithOwners
<1>3. WithOwners(WithOwners(S)) = WithOwners(S)
  BY HandleConstants
<1>4. OwnersOf(WithOwners(S)) \subseteq WithOwners(S)
  BY <1>3 DEF WithOwners
<1> QED
  BY <1>2, <1>4 DEF OwnersOf

-----------------------------------------------------------------------------
(* Steps of a publication.                                                 *)

\* A step that writes nothing.
LEMMA CallMoves ==
  ASSUME HandleInv, NEW p \in Publishers, NEW y \in Calls, call' = [call EXCEPT ![p] = y],
         UNCHANGED <<tables, pruner>>, CallOK(y)
  PROVE  HandleInv'
<1>1. /\ modules' = modules /\ packages' = packages /\ handle' = handle /\ live' = live /\ rows' = rows
      /\ head' = head /\ epoch' = epoch /\ published' = published /\ pruner' = pruner
  BY DEF tables
<1>2. TypeOK'
  BY <1>1 DEF HandleInv, TypeOK
<1>3. ASSUME NEW q \in Publishers PROVE CallOK(call[q])'
  <2>1. PICK t : t = call'[q] /\ CallOK(t)
    BY DEF HandleInv, TypeOK
  <2>2. CallOK(t)'
    BY <1>1, <2>1, SMTT(60) DEF CallOK, Assigned, ModulesWith, PackagesWith, ModulesDiffer, PackagesDiffer, HandlesDiffer, MadeOf
  <2> QED
    BY <2>1, <2>2
<1>4. Planned' /\ SnapshotsAreCounted'
  BY <1>1 DEF HandleInv, Planned, SnapshotsAreCounted, Stored
<1>5. /\ (ModulesDiffer(modules) /\ PackagesDiffer(packages) /\ HandlesDiffer(handle))'
      /\ (\A s \in Symbols : handle[s] # NoHandle => MadeOf(handle[s], s, modules, packages))'
  BY <1>1 DEF HandleInv, ModulesDiffer, PackagesDiffer, HandlesDiffer, MadeOf
<1>6. /\ (\A r \in rows : r.kind = "document" => handle[r.means] = r.handle)'
      /\ (\A s \in Symbols : handle[s] # NoHandle /\ Owner[s] # None => handle[Owner[s]] # NoHandle)'
  BY <1>1 DEF HandleInv
<1> QED
  BY <1>2, <1>3, <1>4, <1>5, <1>6 DEF HandleInv

\* A publisher with nothing under way holds nothing.
LEMMA IdleIsOK == Idle \in Calls /\ CallOK(Idle) /\ Idle.phase = "idle"
<1>1. -1 \in -1..MaxModule /\ -1 \in -1..MaxPackage /\ 0 \in 0..AllocationAttempts
  BY HandleConstants
<1>2. Idle \in Calls
  BY <1>1 DEF Idle, Calls, Unnumbered
<1>3. Idle.phase = "idle"
  BY DEF Idle
<1> QED
  BY <1>2, <1>3 DEF CallOK

\* A publication is asked for.
LEMMA RequestInv ==
  ASSUME HandleInv, NEW p \in Publishers, NEW req \in Requests, Request(p, req)
  PROVE  HandleInv'
<1>1. PICK y : y = [Idle EXCEPT !.phase = "requested", !.req = req, !.attempt = 1]
  OBVIOUS
<1>2. req \in RequestType /\ 1 \in 0..AllocationAttempts
  BY HandleConstants
<1>3. y \in Calls /\ y.phase = "requested" /\ y.req = req
  BY <1>1, <1>2, IdleIsOK DEF Calls
<1>4. CallOK(y)
  BY <1>2, <1>3 DEF CallOK
<1> QED
  BY <1>1, <1>3, <1>4, CallMoves DEF Request

\* A publication ends.
LEMMA FinishInv ==
  ASSUME HandleInv, NEW p \in Publishers, Finish(p), UNCHANGED <<tables, pruner>>
  PROVE  HandleInv'
  BY IdleIsOK, CallMoves DEF Finish

\* A publication that lost its handles to another starts over, or gives up.
LEMMA AllocationLostInv ==
  ASSUME HandleInv, NEW p \in Publishers, AllocationLost(p)
  PROVE  HandleInv'
<1> DEFINE t == call[p]
<1>1. t \in Calls /\ CallOK(t) /\ t.phase = "assigned" /\ UNCHANGED <<tables, pruner>>
  BY DEF AllocationLost, HandleInv, TypeOK
<1>2. CASE t.attempt < AllocationAttempts
  <2>1. PICK y : y = [Idle EXCEPT !.phase = "requested", !.req = t.req, !.attempt = t.attempt + 1]
    OBVIOUS
  <2>2. t.req \in RequestType /\ t.attempt + 1 \in 0..AllocationAttempts
    BY <1>1, <1>2, HandleConstants DEF CallOK, Calls
  <2>3. y \in Calls /\ y.phase = "requested" /\ y.req = t.req
    BY <2>1, <2>2, IdleIsOK DEF Calls
  <2>4. CallOK(y)
    BY <2>2, <2>3 DEF CallOK
  <2>5. call' = [call EXCEPT ![p] = y]
    BY <1>2, <2>1 DEF AllocationLost
  <2> QED
    BY <1>1, <2>3, <2>4, <2>5, CallMoves
<1>3. CASE ~(t.attempt < AllocationAttempts)
  <2>1. Finish(p)
    BY <1>3 DEF AllocationLost, Finish
  <2> QED
    BY <1>1, <2>1, FinishInv
<1> QED
  BY <1>2, <1>3

\* AssignSymbolHandles and ensureSymbols' reads.
LEMMA AssignInv ==
  ASSUME HandleInv, NEW p \in Publishers, Assign(p)
  PROVE  HandleInv'
<1> DEFINE x == call[p]
           req == x.req
           named == WithOwners(req.docs)
           read == (req.facts \ named) \cap Stored
           needed == named \cup WithOwners(req.facts \ (named \cup Stored))
<1>1. PICK numbers, packageNumbers, assigned :
        /\ numbers = NumberedModules(needed) /\ packageNumbers = NumberedPackages(needed)
        /\ assigned = AssignedHandles(needed, numbers, packageNumbers)
  OBVIOUS
<1>2. x \in Calls /\ CallOK(x) /\ x.phase = "requested" /\ UNCHANGED <<tables, pruner>>
  BY DEF Assign, HandleInv, TypeOK
<1>3. req \in RequestType /\ req.docs \in SUBSET Symbols /\ req.facts \in SUBSET Symbols
  BY <1>2 DEF CallOK, RequestType
<1>4. CASE Overflows(numbers, packageNumbers, assigned)
  <2>1. Finish(p)
    BY <1>1, <1>4 DEF Assign
  <2> QED
    BY <1>2, <2>1, FinishInv
<1>5. CASE ~Overflows(numbers, packageNumbers, assigned)
  <2>1. PICK ms, ks, found :
          /\ ms = [m \in Modules |-> IF modules[m] = Unnumbered THEN numbers[m] ELSE Unnumbered]
          /\ ks = [k \in Packages |-> IF packages[k] = Unnumbered THEN packageNumbers[k] ELSE Unnumbered]
          /\ found = [s \in Symbols |-> IF s \in read THEN handle[s] ELSE NoHandle]
    OBVIOUS
  <2>2. PICK y : y = [x EXCEPT !.phase = "assigned", !.assigned = assigned, !.modules = ms,
                               !.packages = ks, !.found = found]
    OBVIOUS
  <2>3. call' = [call EXCEPT ![p] = y]
    BY <1>1, <1>5, <2>1, <2>2, ZenonT(40) DEF Assign
  <2>4. /\ named \in SUBSET Symbols /\ req.docs \subseteq named
        /\ \A s \in named : Owner[s] # None => Owner[s] \in named
    BY <1>3, OwnersAreIncluded
  <2> DEFINE others == WithOwners(req.facts \ (named \cup Stored))
  <2>5. /\ others \in SUBSET Symbols /\ req.facts \ (named \cup Stored) \subseteq others
        /\ \A s \in others : Owner[s] # None => Owner[s] \in others
    <3>1. PICK S \in SUBSET Symbols : S = req.facts \ (named \cup Stored)
      BY <1>3
    <3> QED
      BY <3>1, OwnersAreIncluded
  <2> HIDE DEF named, others
  <2>6. /\ needed \in SUBSET Symbols /\ req.docs \subseteq needed /\ req.facts \subseteq needed \cup read
        /\ \A s \in needed : Owner[s] # None => Owner[s] \in needed
    BY <2>4, <2>5 DEF others
  <2> HIDE DEF needed, read
  <2>7. PICK needs \in SUBSET Symbols : needs = needed
    BY <2>6
  <2>8. /\ modules \in [Modules -> -1..MaxModule] /\ ModulesDiffer(modules)
        /\ packages \in [Packages -> -1..MaxPackage] /\ PackagesDiffer(packages)
        /\ handle \in [Symbols -> Handles \cup {NoHandle}] /\ HandlesDiffer(handle)
        /\ \A s \in Symbols : handle[s] # NoHandle => MadeOf(handle[s], s, modules, packages)
    BY DEF HandleInv, TypeOK
  <2>9. /\ numbers \in [Modules -> Int] /\ ModulesDiffer(numbers)
        /\ \A m \in Modules : numbers[m] >= -1 /\ (modules[m] # Unnumbered => numbers[m] = modules[m])
        /\ \A s \in needed : numbers[ModuleOf[PackageOf[s]]] # Unnumbered
    BY <1>1, <2>7, <2>8, ModulesAreNumbered
  <2>10. /\ packageNumbers \in [Packages -> Int] /\ PackagesDiffer(packageNumbers)
         /\ \A k \in Packages : packageNumbers[k] >= -1
                                /\ (packages[k] # Unnumbered => packageNumbers[k] = packages[k])
         /\ \A s \in needed : packageNumbers[PackageOf[s]] # Unnumbered
    BY <1>1, <2>7, <2>8, PackagesAreNumbered
  <2>11. /\ assigned = [s \in Symbols |-> assigned[s]]
         /\ \A s \in Symbols : assigned[s] # NoHandle <=> s \in needed
         /\ \A s \in needed : MadeOf(assigned[s], s, numbers, packageNumbers) /\ assigned[s][4] \in Nat
                              /\ assigned[s] = <<assigned[s][1], assigned[s][2], assigned[s][3], assigned[s][4]>>
         /\ HandlesDiffer(assigned)
    <3>1. assigned = AssignedHandles(needs, numbers, packageNumbers)
      BY <1>1, <2>7
    <3>2. /\ \A m \in Modules : modules[m] # Unnumbered => numbers[m] = modules[m]
          /\ \A k \in Packages : packages[k] # Unnumbered => packageNumbers[k] = packages[k]
          /\ \A s \in needs : /\ numbers[ModuleOf[PackageOf[s]]] # Unnumbered
                              /\ packageNumbers[PackageOf[s]] # Unnumbered
      BY <2>7, <2>9, <2>10
    <3>3. HandlesFit(assigned, needs, numbers, packageNumbers)
      BY <2>8, <2>9, <2>10, <3>1, <3>2, HandlesAreAssigned
    <3> QED
      BY <2>7, <3>3 DEF HandlesFit
  <2>12. ms \in [Modules -> -1..MaxModule] /\ ks \in [Packages -> -1..MaxPackage]
    <3>1. \A m \in Modules : numbers[m] \in -1..MaxModule
      BY <1>5, <2>9, HandleConstants DEF Overflows
    <3>2. \A k \in Packages : packageNumbers[k] \in -1..MaxPackage
      BY <1>5, <2>10, HandleConstants DEF Overflows
    <3>3. -1 \in -1..MaxModule /\ -1 \in -1..MaxPackage
      BY HandleConstants
    <3> QED
      BY <2>1, <3>1, <3>2, <3>3 DEF Unnumbered
  <2>13. assigned \in [Symbols -> Handles \cup {NoHandle}]
    <3> SUFFICES ASSUME NEW s \in needed PROVE assigned[s] \in Handles
      BY <2>11
    <3>1. PICK a, b, c, d : a = assigned[s][1] /\ b = assigned[s][2] /\ c = assigned[s][3] /\ d = assigned[s][4]
      OBVIOUS
    <3>2. s \in Symbols /\ PackageOf[s] \in Packages /\ ModuleOf[PackageOf[s]] \in Modules
      BY <2>6, HandleConstants
    <3>3. /\ a = numbers[ModuleOf[PackageOf[s]]] /\ b = packageNumbers[PackageOf[s]] /\ c = BucketOf[s] /\ d \in Nat
          /\ assigned[s] = <<a, b, c, d>> /\ assigned[s] # NoHandle
          /\ a # Unnumbered /\ b # Unnumbered
      BY <2>11, <3>1, <3>2 DEF MadeOf
    <3>4. a <= MaxModule /\ b <= MaxPackage /\ d <= MaxLocal
      <4>1. numbers[ModuleOf[PackageOf[s]]] <= MaxModule /\ packageNumbers[PackageOf[s]] <= MaxPackage
        BY <1>5, <2>9, <2>10, <3>2, HandleConstants DEF Overflows
      <4>2. ~(d > MaxLocal)
        BY <1>5, <3>1, <3>2, <3>3 DEF Overflows
      <4> QED
        BY <3>3, <4>1, <4>2, HandleConstants
    <3>5. a \in 0..MaxModule /\ b \in 0..MaxPackage /\ d \in 0..MaxLocal /\ c \in Buckets
      BY <2>9, <2>10, <3>2, <3>3, <3>4, HandleConstants DEF Buckets, Unnumbered
    <3> QED
      BY <3>3, <3>5, HandleFields
  <2>14. found \in [Symbols -> Handles \cup {NoHandle}]
    BY <2>1, <2>8
  <2>15. /\ y \in Calls /\ y.phase = "assigned" /\ y.req = req /\ y.modules = ms /\ y.packages = ks
         /\ y.assigned = assigned /\ y.found = found
    BY <1>2, <2>2, <2>12, <2>13, <2>14 DEF Calls
  <2>16. /\ \A m \in Modules : ModulesWith(y)[m] = numbers[m]
         /\ \A k \in Packages : PackagesWith(y)[k] = packageNumbers[k]
    BY <2>1, <2>9, <2>10, <2>15 DEF ModulesWith, PackagesWith
  <2>17. ModulesDiffer(ms) /\ PackagesDiffer(ks)
    BY <2>1, <2>9, <2>10 DEF ModulesDiffer, PackagesDiffer
  <2>18. ASSUME NEW s \in Symbols, assigned[s] # NoHandle
         PROVE  /\ MadeOf(assigned[s], s, ModulesWith(y), PackagesWith(y))
                /\ Owner[s] # None => assigned[Owner[s]] # NoHandle
    <3>1. s \in needed /\ PackageOf[s] \in Packages /\ ModuleOf[PackageOf[s]] \in Modules
      BY <2>11, <2>18, HandleConstants
    <3>2. MadeOf(assigned[s], s, ModulesWith(y), PackagesWith(y))
      BY <2>11, <2>16, <3>1 DEF MadeOf
    <3> QED
      BY <2>6, <2>11, <3>1, <3>2
  <2>19. \A s \in req.facts : assigned[s] # NoHandle \/ found[s] # NoHandle
    BY <1>3, <2>1, <2>6, <2>11 DEF read, Stored
  <2>20. Assigned(y)
    BY <1>3, <2>6, <2>11, <2>15, <2>17, <2>18, <2>19 DEF Assigned
  <2>21. CallOK(y)
    BY <1>3, <2>15, <2>20 DEF CallOK
  <2> QED
    BY <1>2, <2>3, <2>15, <2>21, CallMoves
<1> QED
  BY <1>4, <1>5

\* A call's numbers and handles stay sound while the registries only grow.
LEMMA CallsKeep ==
  ASSUME NEW t, CallOK(t), PackageOf \in [Symbols -> Packages], ModuleOf \in [Packages -> Modules],
         \A m \in Modules : modules[m] # Unnumbered => modules'[m] = modules[m],
         \A k \in Packages : packages[k] # Unnumbered => packages'[k] = packages[k]
  PROVE  CallOK(t)'
<1>1. SUFFICES ASSUME t.phase = "assigned", Assigned(t) PROVE Assigned(t)'
  BY DEF CallOK
<1>2. /\ (ModulesDiffer(t.modules) /\ PackagesDiffer(t.packages) /\ HandlesDiffer(t.assigned))'
      /\ (\A s \in t.req.docs : t.assigned[s] # NoHandle)'
      /\ (\A s \in t.req.facts : t.assigned[s] # NoHandle \/ t.found[s] # NoHandle)'
  BY <1>1 DEF Assigned, ModulesDiffer, PackagesDiffer, HandlesDiffer
<1>3. ASSUME NEW s \in Symbols, t.assigned[s] # NoHandle
      PROVE  /\ MadeOf(t.assigned[s], s, ModulesWith(t), PackagesWith(t))'
             /\ Owner[s] # None => t.assigned[Owner[s]] # NoHandle
  <2>1. PackageOf[s] \in Packages /\ ModuleOf[PackageOf[s]] \in Modules
    OBVIOUS
  <2>2. MadeOf(t.assigned[s], s, ModulesWith(t), PackagesWith(t)) /\ (Owner[s] # None => t.assigned[Owner[s]] # NoHandle)
    BY <1>1, <1>3 DEF Assigned
  <2> QED
    BY <2>1, <2>2 DEF MadeOf, ModulesWith, PackagesWith
<1> QED
  BY <1>2, <1>3 DEF Assigned

\* The rows of a new snapshot are its own, and its documents' name what the call
\* assigns or what the head it inherits from named.
LEMMA NewRowsAreTheirs ==
  ASSUME HandleInv, NEW t \in Calls, t.req \in RequestType, Assigned(t), published < MaxPublications,
         NEW r \in NewRows(t)
  PROVE  /\ r \in RowType /\ r.root = t.req.root /\ r.snapshot = published + 1
         /\ r.kind = "document" =>
              \/ r.means \in t.req.docs /\ r.handle = t.assigned[r.means]
              \/ handle[r.means] = r.handle
<1> DEFINE named(s) == IF t.assigned[s] # NoHandle THEN t.assigned[s] ELSE t.found[s]
<1>1. published + 1 \in 1..MaxPublications /\ rows \subseteq RowType
  BY HandleConstants DEF HandleInv, TypeOK
<1>2. /\ t.req.root \in Roots /\ t.req.docs \in SUBSET Symbols /\ t.req.facts \in SUBSET Symbols
      /\ t.assigned \in [Symbols -> Handles \cup {NoHandle}] /\ t.found \in [Symbols -> Handles \cup {NoHandle}]
  BY DEF RequestType, Calls
<1>3. CASE \E q \in rows : /\ q.root = t.req.root /\ q.kind = "document"
                           /\ r = [q EXCEPT !.snapshot = published + 1]
  <2>1. PICK q \in rows : /\ q.root = t.req.root /\ q.kind = "document"
                          /\ r = [q EXCEPT !.snapshot = published + 1]
    BY <1>3
  <2>2. q \in RowType /\ handle[q.means] = q.handle
    BY <1>1, <2>1 DEF HandleInv
  <2>3. /\ r \in RowType /\ r.root = q.root /\ r.kind = q.kind /\ r.handle = q.handle /\ r.means = q.means
        /\ r.snapshot = published + 1
    BY <1>1, <2>1, <2>2 DEF RowType
  <2> QED
    BY <2>1, <2>2, <2>3
<1>4. CASE \E s \in t.req.docs : r = [root |-> t.req.root, snapshot |-> published + 1, kind |-> "document",
                                      handle |-> named(s), means |-> s]
  <2>1. PICK s \in t.req.docs : r = [root |-> t.req.root, snapshot |-> published + 1, kind |-> "document",
                                     handle |-> named(s), means |-> s]
    BY <1>4
  <2>2. t.assigned[s] # NoHandle /\ s \in Symbols /\ named(s) = t.assigned[s] /\ t.assigned[s] \in Handles
    BY <1>2 DEF Assigned
  <2> QED
    BY <1>1, <1>2, <2>1, <2>2 DEF RowType, RowKinds
<1>5. CASE \E s \in t.req.facts : r = [root |-> t.req.root, snapshot |-> published + 1, kind |-> "implements",
                                       handle |-> named(s), means |-> s]
  <2>1. PICK s \in t.req.facts : r = [root |-> t.req.root, snapshot |-> published + 1, kind |-> "implements",
                                      handle |-> named(s), means |-> s]
    BY <1>5
  <2>2. s \in Symbols /\ named(s) \in Handles
    BY <1>2 DEF Assigned
  <2> QED
    BY <1>1, <1>2, <2>1, <2>2 DEF RowType, RowKinds
<1> QED
  BY <1>3, <1>4, <1>5 DEF NewRows, RowsIn

\* What a commit leaves: the registries and handles of the call it ends are in, and
\* nothing that was stored changed.
LEMMA CommitWrites ==
  ASSUME HandleInv, NEW p \in Publishers, Commit(p), NEW t, t = call[p]
  PROVE  /\ t \in Calls /\ t.req \in RequestType /\ Assigned(t) /\ CallOK(t)
         /\ modules' = ModulesWith(t) /\ packages' = PackagesWith(t)
         /\ \A m \in Modules : modules[m] # Unnumbered => modules'[m] = modules[m]
         /\ \A k \in Packages : packages[k] # Unnumbered => packages'[k] = packages[k]
         /\ handle' \in [Symbols -> Handles \cup {NoHandle}]
         /\ \A s \in Symbols : handle'[s] = IF handle[s] # NoHandle THEN handle[s] ELSE t.assigned[s]
         /\ \A s \in Symbols : t.assigned[s] # NoHandle => handle'[s] = t.assigned[s]
         /\ HandlesDiffer(handle')
<1>1. /\ t \in Calls /\ CallOK(t) /\ t.phase = "assigned" /\ t.req \in RequestType /\ Assigned(t)
      /\ ~ModuleTaken(t) /\ ~PackageTaken(t) /\ ~HandleTaken(t) /\ ~HandleDiffers(t)
  BY DEF Commit, HandleInv, TypeOK, CallOK, AllocationConflict
<1>2. modules' = ModulesWith(t) /\ packages' = PackagesWith(t)
  BY DEF Commit, ModulesWith, PackagesWith
<1>3. \A m \in Modules : modules[m] # Unnumbered => modules'[m] = modules[m]
  BY <1>1, <1>2 DEF ModulesWith, ModuleTaken
<1>4. \A k \in Packages : packages[k] # Unnumbered => packages'[k] = packages[k]
  BY <1>1, <1>2 DEF PackagesWith, PackageTaken
<1>5. /\ handle \in [Symbols -> Handles \cup {NoHandle}] /\ t.assigned \in [Symbols -> Handles \cup {NoHandle}]
      /\ HandlesDiffer(handle) /\ HandlesDiffer(t.assigned)
  BY <1>1 DEF HandleInv, TypeOK, Calls, Assigned
<1>6. /\ handle' \in [Symbols -> Handles \cup {NoHandle}]
      /\ \A s \in Symbols : handle'[s] = IF handle[s] # NoHandle THEN handle[s] ELSE t.assigned[s]
  BY <1>5 DEF Commit, Stored
<1>7. \A s \in Symbols : t.assigned[s] # NoHandle => handle'[s] = t.assigned[s]
  BY <1>1, <1>6 DEF HandleDiffers
<1>8. ASSUME NEW s \in Symbols, NEW u \in Symbols, handle'[s] = handle'[u], handle'[s] # NoHandle
      PROVE  s = u
  <2>1. ASSUME NEW v \in Symbols, NEW w \in Symbols, v # w, handle[v] = NoHandle, handle[w] # NoHandle
        PROVE  handle'[v] # handle'[w] \/ handle'[v] = NoHandle
    BY <1>1, <1>6, <2>1 DEF HandleTaken
  <2>2. CASE handle[s] # NoHandle /\ handle[u] # NoHandle
    BY <1>5, <1>6, <1>8, <2>2 DEF HandlesDiffer
  <2>3. CASE handle[s] = NoHandle /\ handle[u] = NoHandle
    BY <1>5, <1>6, <1>8, <2>3 DEF HandlesDiffer
  <2> QED
    BY <1>8, <2>1, <2>2, <2>3
<1>9. HandlesDiffer(handle')
  BY <1>8 DEF HandlesDiffer
<1> QED
  BY <1>1, <1>2, <1>3, <1>4, <1>6, <1>7, <1>9

\* A publication commits its rows with the handles it assigned.
LEMMA CommitInv ==
  ASSUME HandleInv, NEW p \in Publishers, Commit(p)
  PROVE  HandleInv'
<1>1. PICK t : t = call[p]
  OBVIOUS
<1>2. /\ t \in Calls /\ t.req \in RequestType /\ Assigned(t) /\ CallOK(t)
      /\ modules' = ModulesWith(t) /\ packages' = PackagesWith(t)
      /\ \A m \in Modules : modules[m] # Unnumbered => modules'[m] = modules[m]
      /\ \A k \in Packages : packages[k] # Unnumbered => packages'[k] = packages[k]
      /\ handle' \in [Symbols -> Handles \cup {NoHandle}]
      /\ \A s \in Symbols : handle'[s] = IF handle[s] # NoHandle THEN handle[s] ELSE t.assigned[s]
      /\ \A s \in Symbols : t.assigned[s] # NoHandle => handle'[s] = t.assigned[s]
      /\ HandlesDiffer(handle')
  BY <1>1, CommitWrites
<1>3. /\ published < MaxPublications /\ ~ModuleTaken(t) /\ ~PackageTaken(t)
      /\ live' = live \cup {<<t.req.root, published + 1>>} /\ rows' = rows \cup NewRows(t)
      /\ head' = [head EXCEPT ![t.req.root] = published + 1] /\ published' = published + 1
      /\ call' = [call EXCEPT ![p] = Idle] /\ epoch' = epoch /\ pruner' = pruner
  BY <1>1 DEF Commit, Finish, AllocationConflict
<1>4. /\ PackageOf \in [Symbols -> Packages] /\ ModuleOf \in [Packages -> Modules]
      /\ Owner \in [Symbols -> Symbols \cup {None}] /\ None \notin Symbols /\ MaxPublications \in Nat
  BY HandleConstants
<1>5. /\ modules \in [Modules -> -1..MaxModule] /\ packages \in [Packages -> -1..MaxPackage]
      /\ t.modules \in [Modules -> -1..MaxModule] /\ t.packages \in [Packages -> -1..MaxPackage]
      /\ ModulesDiffer(modules) /\ PackagesDiffer(packages)
      /\ ModulesDiffer(t.modules) /\ PackagesDiffer(t.packages)
  BY <1>2 DEF HandleInv, TypeOK, Calls, Assigned
<1>6. modules' \in [Modules -> -1..MaxModule] /\ ModulesDiffer(modules')
  <2>1. \A m \in Modules : modules'[m] = IF t.modules[m] = Unnumbered THEN modules[m] ELSE t.modules[m]
    BY <1>2 DEF ModulesWith
  <2>2. \A m, n \in Modules : t.modules[m] # Unnumbered /\ modules[n] # Unnumbered
                               => n # m /\ modules[n] # t.modules[m]
    BY <1>3 DEF ModuleTaken
  <2>3. modules' \in [Modules -> -1..MaxModule]
    BY <1>2, <1>5 DEF ModulesWith
  <2> QED
    BY <1>5, <2>1, <2>2, <2>3 DEF ModulesDiffer
<1>7. packages' \in [Packages -> -1..MaxPackage] /\ PackagesDiffer(packages')
  <2>1. \A k \in Packages : packages'[k] = IF t.packages[k] = Unnumbered THEN packages[k] ELSE t.packages[k]
    BY <1>2 DEF PackagesWith
  <2>2. \A k, j \in Packages : t.packages[k] # Unnumbered /\ packages[j] # Unnumbered
                               => j # k /\ (ModuleOf[j] = ModuleOf[k] => packages[j] # t.packages[k])
    BY <1>3 DEF PackageTaken
  <2>3. packages' \in [Packages -> -1..MaxPackage]
    BY <1>2, <1>5 DEF PackagesWith
  <2> QED
    BY <1>5, <2>1, <2>2, <2>3 DEF PackagesDiffer
<1>8. ASSUME NEW s \in Symbols, handle'[s] # NoHandle
      PROVE  /\ MadeOf(handle'[s], s, modules', packages')
             /\ Owner[s] # None => handle'[Owner[s]] # NoHandle
  <2>1. PackageOf[s] \in Packages /\ ModuleOf[PackageOf[s]] \in Modules /\ (Owner[s] # None => Owner[s] \in Symbols)
    BY <1>4
  <2>2. CASE handle[s] # NoHandle
    <3>1. MadeOf(handle[s], s, modules, packages) /\ (Owner[s] # None => handle[Owner[s]] # NoHandle)
      BY <2>2 DEF HandleInv
    <3> QED
      BY <1>2, <2>1, <2>2, <3>1 DEF MadeOf
  <2>3. CASE handle[s] = NoHandle
    <3>1. /\ MadeOf(t.assigned[s], s, ModulesWith(t), PackagesWith(t)) /\ handle'[s] = t.assigned[s]
          /\ Owner[s] # None => t.assigned[Owner[s]] # NoHandle
      BY <1>2, <1>8, <2>3 DEF Assigned
    <3> QED
      BY <1>2, <2>1, <3>1
  <2> QED
    BY <2>2, <2>3
<1>9. rows' \subseteq RowType
  BY <1>2, <1>3, NewRowsAreTheirs DEF HandleInv, TypeOK
<1>10. ASSUME NEW r \in rows', r.kind = "document" PROVE handle'[r.means] = r.handle
  <2>1. r \in RowType /\ r.means \in Symbols /\ r.handle \in Handles /\ r.handle # NoHandle
    BY <1>9, HandleFields DEF RowType
  <2>2. CASE handle[r.means] = r.handle
    BY <1>2, <2>1, <2>2
  <2>3. CASE r.means \in t.req.docs /\ r.handle = t.assigned[r.means]
    BY <1>2, <2>1, <2>3
  <2> QED
    BY <1>2, <1>3, <1>10, <2>2, <2>3, NewRowsAreTheirs DEF HandleInv
<1>11. ASSUME NEW q \in Publishers PROVE CallOK(call[q])'
  <2>1. PICK c : c = call'[q] /\ CallOK(c)
    BY <1>3, IdleIsOK DEF HandleInv, TypeOK
  <2>2. CallOK(c)'
    BY <1>2, <1>4, <2>1, CallsKeep
  <2> QED
    BY <2>1, <2>2
<1>12. /\ live' \subseteq Roots \X (1..MaxPublications) /\ head' \in [Roots -> 0..MaxPublications]
       /\ published' \in 0..MaxPublications /\ epoch' \in Nat /\ call' \in [Publishers -> Calls] /\ SnapshotsAreCounted'
  <2>1. published \in 0..MaxPublications /\ live \subseteq Roots \X (1..MaxPublications)
        /\ head \in [Roots -> 0..MaxPublications] /\ t.req.root \in Roots /\ epoch \in Nat /\ call \in [Publishers -> Calls]
        /\ SnapshotsAreCounted
    BY <1>2 DEF HandleInv, TypeOK, RequestType
  <2>2. published + 1 \in 1..MaxPublications /\ published + 1 \in 0..MaxPublications
    BY <1>3, <1>4, <2>1
  <2>3. ASSUME NEW x \in live' PROVE x \in Roots \X (1..MaxPublications) /\ x[2] <= published + 1
    <3>1. CASE x \in live
      BY <1>4, <2>1, <3>1 DEF SnapshotsAreCounted
    <3>2. CASE x = <<t.req.root, published + 1>>
      BY <2>1, <2>2, <3>2
    <3> QED
      BY <1>3, <3>1, <3>2
  <2>4. ASSUME NEW r \in Roots PROVE head'[r] <= published + 1 /\ head'[r] \in 0..MaxPublications
    BY <1>3, <1>4, <2>1, <2>2 DEF SnapshotsAreCounted
  <2>5. head' = [r \in Roots |-> head'[r]]
    BY <1>3, <2>1
  <2>6. call' \in [Publishers -> Calls]
    BY <1>3, <2>1, IdleIsOK
  <2> QED
    BY <1>3, <2>1, <2>2, <2>3, <2>4, <2>5, <2>6 DEF SnapshotsAreCounted
<1>13. Planned'
  <2>1. SUFFICES ASSUME pruner.phase = "planned"
                 PROVE  /\ pruner.snapshots # {} /\ pruner.snapshots \subseteq live' /\ pruner.orphans \subseteq Stored'
                        /\ \E root \in Roots : \A x \in pruner.snapshots : x[1] = root /\ x[2] # head'[root]
    BY <1>3 DEF Planned
  <2>2. PICK root \in Roots : \A x \in pruner.snapshots : x[1] = root /\ x[2] # head[root]
    BY <2>1 DEF HandleInv, Planned
  <2>3. pruner.snapshots # {} /\ pruner.snapshots \subseteq live /\ pruner.orphans \subseteq Stored
    BY <2>1 DEF HandleInv, Planned
  <2>4. Stored \subseteq Stored'
    BY <1>2 DEF Stored
  <2>5. ASSUME NEW x \in pruner.snapshots PROVE x[2] # head'[root]
    <3>1. x[2] <= published /\ x[2] \in Nat /\ published \in Nat /\ x[2] # head[root] /\ head \in [Roots -> 0..MaxPublications]
      BY <1>4, <2>2, <2>3 DEF HandleInv, TypeOK, SnapshotsAreCounted
    <3>2. x[2] # published + 1
      BY <3>1
    <3> QED
      BY <1>3, <3>1, <3>2
  <2> QED
    BY <1>3, <2>2, <2>3, <2>4, <2>5
<1>14. TypeOK'
  BY <1>2, <1>3, <1>6, <1>7, <1>9, <1>12 DEF HandleInv, TypeOK
<1>15. /\ (ModulesDiffer(modules) /\ PackagesDiffer(packages) /\ HandlesDiffer(handle))'
       /\ (\A s \in Symbols : handle[s] # NoHandle => MadeOf(handle[s], s, modules, packages))'
  BY <1>2, <1>6, <1>7, <1>8 DEF ModulesDiffer, PackagesDiffer, HandlesDiffer, MadeOf
<1> QED
  BY <1>8, <1>10, <1>11, <1>12, <1>13, <1>14, <1>15 DEF HandleInv

-----------------------------------------------------------------------------
(* Steps of a prune.                                                       *)

\* A step that moves the pruner alone.
LEMMA PrunerMoves ==
  ASSUME HandleInv, UNCHANGED <<tables, call>>,
         pruner' \in [phase : {"idle", "planned"}, snapshots : SUBSET (Roots \X (1..MaxPublications)),
                      orphans : SUBSET Symbols],
         Planned'
  PROVE  HandleInv'
<1>1. /\ modules' = modules /\ packages' = packages /\ handle' = handle /\ live' = live /\ rows' = rows
      /\ head' = head /\ epoch' = epoch /\ published' = published /\ call' = call
  BY DEF tables
<1>2. TypeOK' /\ SnapshotsAreCounted'
  BY <1>1 DEF HandleInv, TypeOK, SnapshotsAreCounted
<1>3. ASSUME NEW q \in Publishers PROVE CallOK(call[q])'
  BY <1>1 DEF HandleInv, CallOK, Assigned, ModulesWith, PackagesWith, ModulesDiffer, PackagesDiffer, HandlesDiffer, MadeOf
<1>4. /\ (ModulesDiffer(modules) /\ PackagesDiffer(packages) /\ HandlesDiffer(handle))'
      /\ (\A s \in Symbols : handle[s] # NoHandle => MadeOf(handle[s], s, modules, packages))'
      /\ (\A r \in rows : r.kind = "document" => handle[r.means] = r.handle)'
      /\ (\A s \in Symbols : handle[s] # NoHandle /\ Owner[s] # None => handle[Owner[s]] # NoHandle)'
  BY <1>1 DEF HandleInv, ModulesDiffer, PackagesDiffer, HandlesDiffer, MadeOf
<1> QED
  BY <1>2, <1>3, <1>4 DEF HandleInv

\* A plan deletes superseded snapshots of one root and stored symbols.
LEMMA PrunePlanInv ==
  ASSUME HandleInv, NEW root \in Roots, PrunePlan(root)
  PROVE  HandleInv'
<1> DEFINE old == {x \in live : x[1] = root /\ x[2] # head[root]}
           orphans == WithoutOwners(Orphans(RowsIn(old)))
<1>1. /\ old # {} /\ pruner' = [phase |-> "planned", snapshots |-> old, orphans |-> orphans]
      /\ UNCHANGED <<tables, call>> /\ head' = head /\ live' = live /\ handle' = handle
  BY DEF PrunePlan, tables
<1>2. orphans \subseteq Stored
  BY DEF WithoutOwners, Orphans
<1>3. old \subseteq live /\ live \subseteq Roots \X (1..MaxPublications)
  BY DEF HandleInv, TypeOK
<1>4. \A x \in old : x[1] = root /\ x[2] # head[root]
  OBVIOUS
<1> HIDE DEF old, orphans
<1>5. Planned'
  BY <1>1, <1>2, <1>3, <1>4 DEF Planned, Stored
<1>6. pruner' \in [phase : {"idle", "planned"}, snapshots : SUBSET (Roots \X (1..MaxPublications)),
                   orphans : SUBSET Symbols]
  BY <1>1, <1>2, <1>3 DEF Stored
<1> QED
  BY <1>1, <1>5, <1>6, PrunerMoves

\* A prune ends, or was refused.
LEMMA PruneEndInv ==
  ASSUME HandleInv, PruneEnd
  PROVE  HandleInv'
<1>1. pruner' = NoPrune /\ UNCHANGED <<tables, call>>
  BY DEF PruneEnd
<1>2. Planned'
  BY <1>1 DEF Planned, NoPrune
<1> QED
  BY <1>1, <1>2, PrunerMoves DEF NoPrune

\* A prune that no row and no stored symbol's owner refuses.
LEMMA PruneApplyInv ==
  ASSUME HandleInv, PruneApply
  PROVE  HandleInv'
<1>1. /\ ~PruneRefused /\ live' = live \ pruner.snapshots /\ rows' = rows \ RowsIn(pruner.snapshots)
      /\ handle' = [s \in Symbols |-> IF s \in pruner.orphans THEN NoHandle ELSE handle[s]]
      /\ epoch' = epoch + 1 /\ pruner' = NoPrune
      /\ modules' = modules /\ packages' = packages /\ head' = head /\ published' = published /\ call' = call
  BY DEF PruneApply
<1>2. handle \in [Symbols -> Handles \cup {NoHandle}]
  BY DEF HandleInv, TypeOK
<1>3. /\ handle' \in [Symbols -> Handles \cup {NoHandle}]
      /\ \A s \in Symbols : handle'[s] # NoHandle => handle'[s] = handle[s] /\ s \notin pruner.orphans
      /\ \A s \in Symbols : s \notin pruner.orphans => handle'[s] = handle[s]
  BY <1>1, <1>2
<1>4. TypeOK' /\ SnapshotsAreCounted' /\ Planned'
  BY <1>1, <1>3 DEF HandleInv, TypeOK, SnapshotsAreCounted, Planned, NoPrune
<1>5. ASSUME NEW q \in Publishers PROVE CallOK(call[q])'
  BY <1>1 DEF HandleInv, CallOK, Assigned, ModulesWith, PackagesWith, ModulesDiffer, PackagesDiffer, HandlesDiffer, MadeOf
<1>6. ASSUME NEW r \in rows', r.kind = "document" PROVE handle'[r.means] = r.handle
  <2>1. r \in rows \ RowsIn(pruner.snapshots) /\ handle[r.means] = r.handle /\ r.means \in Symbols
    BY <1>1, <1>6 DEF HandleInv, TypeOK, RowType
  <2>2. r.means \notin pruner.orphans
    BY <1>1, <2>1 DEF PruneRefused
  <2> QED
    BY <1>3, <2>1, <2>2
<1>7. ASSUME NEW s \in Symbols, handle'[s] # NoHandle, Owner[s] # None PROVE handle'[Owner[s]] # NoHandle
  <2>1. handle[s] # NoHandle /\ s \notin pruner.orphans /\ handle[Owner[s]] # NoHandle /\ Owner[s] \in Symbols
    BY <1>3, <1>7, HandleConstants DEF HandleInv
  <2>2. Owner[s] \notin pruner.orphans
    BY <1>1, <2>1 DEF PruneRefused, Stored
  <2> QED
    BY <1>3, <2>1, <2>2
<1>8. /\ (ModulesDiffer(modules) /\ PackagesDiffer(packages) /\ HandlesDiffer(handle))'
      /\ (\A s \in Symbols : handle[s] # NoHandle => MadeOf(handle[s], s, modules, packages))'
  BY <1>1, <1>3 DEF HandleInv, ModulesDiffer, PackagesDiffer, HandlesDiffer, MadeOf
<1> QED
  BY <1>4, <1>5, <1>6, <1>7, <1>8 DEF HandleInv

-----------------------------------------------------------------------------
(* The theorems.                                                           *)

\* The index starts empty.
LEMMA HandleInitInv == Init => HandleInv
<1> SUFFICES ASSUME Init PROVE HandleInv
  OBVIOUS
<1>1. -1 \in -1..MaxModule /\ -1 \in -1..MaxPackage /\ 0 \in 0..MaxPublications
  BY HandleConstants
<1>2. TypeOK
  BY <1>1, IdleIsOK DEF Init, TypeOK, Unnumbered, NoPrune
<1>3. \A p \in Publishers : CallOK(call[p])
  BY IdleIsOK DEF Init
<1>4. ModulesDiffer(modules) /\ PackagesDiffer(packages) /\ HandlesDiffer(handle) /\ Planned /\ SnapshotsAreCounted
  BY HandleConstants DEF Init, ModulesDiffer, PackagesDiffer, HandlesDiffer, Planned, SnapshotsAreCounted, NoPrune
<1> QED
  BY <1>2, <1>3, <1>4 DEF HandleInv, Init

\* Every step of an index run, of its retries and of a prune keeps the invariant.
LEMMA HandleStepInv == HandleInv /\ [Next]_handleVars => HandleInv'
<1> SUFFICES ASSUME HandleInv, [Next]_handleVars PROVE HandleInv'
  OBVIOUS
<1>1. ASSUME NEW p \in Publishers, NEW req \in Requests, Request(p, req) PROVE HandleInv'
  BY <1>1, RequestInv
<1>2. ASSUME NEW p \in Publishers, Assign(p) PROVE HandleInv'
  BY <1>2, AssignInv
<1>3. ASSUME NEW p \in Publishers, Commit(p) PROVE HandleInv'
  BY <1>3, CommitInv
<1>4. ASSUME NEW p \in Publishers, AllocationLost(p) PROVE HandleInv'
  BY <1>4, AllocationLostInv
<1>5. ASSUME NEW p \in Publishers, Abort(p) PROVE HandleInv'
  BY <1>5, FinishInv DEF Abort
<1>6. ASSUME NEW root \in Roots, PrunePlan(root) PROVE HandleInv'
  BY <1>6, PrunePlanInv
<1>7. CASE PruneApply
  BY <1>7, PruneApplyInv
<1>8. CASE PruneEnd
  BY <1>8, PruneEndInv
<1>9. CASE UNCHANGED handleVars
  <2>1. UNCHANGED <<tables, call>> /\ pruner' = pruner /\ head' = head /\ live' = live /\ handle' = handle
    BY <1>9 DEF handleVars, tables
  <2>2. Planned'
    BY <2>1 DEF HandleInv, Planned, Stored
  <2> QED
    BY <2>1, <2>2, PrunerMoves DEF HandleInv, TypeOK
<1> QED
  BY <1>1, <1>2, <1>3, <1>4, <1>5, <1>6, <1>7, <1>8, <1>9 DEF Next

\* The invariant holds at all times.
THEOREM HandleInvariant == Spec => []HandleInv
  BY HandleInitInv, HandleStepInv, PTL DEF Spec

\* Whatever is published, raced for, retried and pruned, a stored handle names one
\* symbol and is made of its module's, package's and bucket's numbers.
THEOREM StoredHandlesAreSound == Spec => []HandlesAreSound
<1>1. ASSUME HandleInv PROVE HandlesAreSound
  <2>1. /\ TypeOK /\ ModulesDiffer(modules) /\ PackagesDiffer(packages) /\ HandlesDiffer(handle)
        /\ \A s \in Symbols : handle[s] # NoHandle => MadeOf(handle[s], s, modules, packages)
    BY <1>1 DEF HandleInv
  <2>2. \A m \in DOMAIN Reserved : modules[m] \in {Unnumbered, Reserved[m]}
    BY <2>1, HandleConstants DEF ModulesDiffer
  <2> QED
    BY <2>1, <2>2 DEF HandlesAreSound, HandlesIdentify, ModulesDiffer, PackagesDiffer, HandlesDiffer, MadeOf, Stored
<1> QED
  BY <1>1, HandleInvariant, PTL

\* A posting's handle is its symbol's for as long as the posting's snapshot is there,
\* and a stored symbol's owner is stored.
THEOREM DocumentsKeepTheirSymbols == Spec => []DocumentsMeanTheirSymbols
<1>1. HandleInv => DocumentsMeanTheirSymbols
  BY HandleConstants DEF HandleInv, DocumentsMeanTheirSymbols, Stored
<1> QED
  BY <1>1, HandleInvariant, PTL

-----------------------------------------------------------------------------
(* The allocator implements the index.                                     *)

Seen(r) == [root |-> r.root, snapshot |-> r.snapshot, handle |-> r.handle, means |-> r.means]

\* A commit is a publication of the index: it names stored symbols by their handles,
\* and gives new symbols handles that no symbol has.
LEMMA CommitPublishes ==
  ASSUME HandleInv, NEW p \in Publishers, Commit(p)
  PROVE  Index!IndexNext
<1>1. PICK t : t = call[p]
  OBVIOUS
<1>2. /\ t \in Calls /\ t.req \in RequestType /\ Assigned(t)
      /\ handle' \in [Symbols -> Handles \cup {NoHandle}]
      /\ \A s \in Symbols : handle'[s] = IF handle[s] # NoHandle THEN handle[s] ELSE t.assigned[s]
      /\ \A s \in Symbols : t.assigned[s] # NoHandle => handle'[s] = t.assigned[s]
      /\ HandlesDiffer(handle')
  BY <1>1, CommitWrites
<1>3. /\ published < MaxPublications
      /\ live' = live \cup {<<t.req.root, published + 1>>} /\ rows' = rows \cup NewRows(t)
      /\ head' = [head EXCEPT ![t.req.root] = published + 1] /\ published' = published + 1 /\ epoch' = epoch
  BY <1>1 DEF Commit
<1>4. PICK root \in Roots : root = t.req.root
  BY <1>2 DEF RequestType
<1>5. PICK new : new = {r \in NewRows(t) : r.kind = "document"}
  OBVIOUS
<1>6. PICK named : named = {r.means : r \in new}
  OBVIOUS
<1>7. ASSUME NEW r \in new
      PROVE  /\ r \in RowType /\ r.root = root /\ r.snapshot = published + 1 /\ r.means \in Symbols
             /\ handle'[r.means] = r.handle /\ r.handle # NoHandle
  <2>1. /\ r \in RowType /\ r.root = root /\ r.snapshot = published + 1
        /\ \/ r.means \in t.req.docs /\ r.handle = t.assigned[r.means]
           \/ handle[r.means] = r.handle
    BY <1>2, <1>3, <1>4, <1>5, NewRowsAreTheirs
  <2>2. r.means \in Symbols /\ r.handle # NoHandle
    BY <2>1, HandleFields DEF RowType
  <2> QED
    BY <1>2, <2>1, <2>2
<1>8. named \in SUBSET Symbols /\ \A s \in named : handle'[s] # NoHandle
  BY <1>6, <1>7
<1>9. PICK wrote : wrote = {[root |-> root, snapshot |-> published + 1, handle |-> handle'[s], means |-> s] : s \in named}
  OBVIOUS
<1>10. \A r \in new : Seen(r) = [root |-> root, snapshot |-> published + 1, handle |-> handle'[r.means], means |-> r.means]
  BY <1>7 DEF Seen
<1>11. DocumentRows' = DocumentRows \cup wrote
  <2>1. {q \in rows' : q.kind = "document"} = {q \in rows : q.kind = "document"} \cup new
    BY <1>3, <1>5
  <2>2. /\ DocumentRows' = {Seen(r) : r \in {q \in rows' : q.kind = "document"}}
        /\ DocumentRows = {Seen(r) : r \in {q \in rows : q.kind = "document"}}
    BY Zenon DEF DocumentRows, Seen
  <2>3. wrote = {Seen(r) : r \in new}
    BY <1>6, <1>9, <1>10
  <2> HIDE DEF Seen
  <2> QED
    BY <2>1, <2>2, <2>3
<1>12. Index!PublishSnapshot(root, named)
  <2>1. \A s \in Symbols : handle[s] # NoHandle => handle'[s] = handle[s]
    BY <1>2
  <2> QED
    BY <1>2, <1>3, <1>4, <1>8, <1>9, <1>11, <2>1 DEF Index!PublishSnapshot, Index!StoredUnder, HandlesDiffer
<1> QED
  BY <1>8, <1>12 DEF Index!IndexNext

\* A prune that is applied removes superseded snapshots of one root, and symbols that
\* no document names.
LEMMA PruneApplyPrunes ==
  ASSUME HandleInv, PruneApply
  PROVE  Index!IndexNext
<1>1. PICK gone, orphans : gone = pruner.snapshots /\ orphans = pruner.orphans
  OBVIOUS
<1>2. /\ pruner.phase = "planned" /\ ~PruneRefused /\ live' = live \ gone /\ rows' = rows \ RowsIn(gone)
      /\ handle' = [s \in Symbols |-> IF s \in orphans THEN NoHandle ELSE handle[s]]
      /\ epoch' = epoch + 1 /\ head' = head /\ published' = published
  BY <1>1 DEF PruneApply
<1>3. PICK root \in Roots : \A x \in gone : x[1] = root /\ x[2] # head[root]
  BY <1>1, <1>2 DEF HandleInv, Planned
<1>4. gone # {} /\ gone \in SUBSET live /\ orphans \in SUBSET Index!StoredUnder(handle)
  BY <1>1, <1>2 DEF HandleInv, Planned, Stored, Index!StoredUnder
<1>5. DocumentRows' = {r \in DocumentRows : <<r.root, r.snapshot>> \notin gone}
  <2>1. {q \in rows' : q.kind = "document"} = {q \in rows : q.kind = "document" /\ <<q.root, q.snapshot>> \notin gone}
    BY <1>2 DEF RowsIn
  <2>2. /\ DocumentRows' = {Seen(r) : r \in {q \in rows' : q.kind = "document"}}
        /\ DocumentRows = {Seen(r) : r \in {q \in rows : q.kind = "document"}}
    BY Zenon DEF DocumentRows, Seen
  <2>3. \A r : Seen(r).root = r.root /\ Seen(r).snapshot = r.snapshot
    BY DEF Seen
  <2> HIDE DEF Seen
  <2> QED
    BY <2>1, <2>2, <2>3
<1>6. ASSUME NEW s \in orphans, NEW r \in DocumentRows' PROVE r.handle # handle[s]
  <2>1. PICK q \in rows' : r.handle = q.handle
    BY DEF DocumentRows
  <2> QED
    BY <1>1, <1>2, <2>1 DEF PruneRefused
<1>7. Index!PruneSnapshots(root, gone, orphans)
  BY <1>2, <1>3, <1>4, <1>5, <1>6 DEF Index!PruneSnapshots
<1> QED
  BY <1>4, <1>7 DEF Index!IndexNext

\* Every other step is invisible.
LEMMA HandleStepIndex == HandleInv /\ [Next]_handleVars => [Index!IndexNext]_Index!indexVars
<1> SUFFICES ASSUME HandleInv, [Next]_handleVars PROVE [Index!IndexNext]_Index!indexVars
  OBVIOUS
<1>1. ASSUME UNCHANGED tables PROVE UNCHANGED Index!indexVars
  BY <1>1 DEF tables, Index!indexVars, DocumentRows
<1>2. ASSUME NEW p \in Publishers, Commit(p) PROVE Index!IndexNext
  BY <1>2, CommitPublishes
<1>3. ASSUME PruneApply PROVE Index!IndexNext
  BY <1>3, PruneApplyPrunes
<1>4. ASSUME NEW p \in Publishers,
             (\E req \in Requests : Request(p, req)) \/ Assign(p) \/ AllocationLost(p) \/ Abort(p)
      PROVE  UNCHANGED tables
  BY <1>4 DEF Request, Assign, AllocationLost, Abort
<1>5. ASSUME (\E root \in Roots : PrunePlan(root)) \/ PruneEnd \/ UNCHANGED handleVars
      PROVE  UNCHANGED tables
  BY <1>5 DEF PrunePlan, PruneEnd, handleVars, tables
<1> QED
  BY <1>1, <1>2, <1>3, <1>4, <1>5 DEF Next

\* Readers of the index see publications of named snapshots and prunes of superseded
\* ones, and nothing of how handles are numbered, raced for and retried.
THEOREM SymbolHandlesImplementIndex == Spec => ImplementsIndex
<1>1. Init => Index!IndexInit
  BY DEF Init, Index!IndexInit, DocumentRows
<1> QED
  BY <1>1, HandleStepIndex, HandleInvariant, PTL DEF Spec, ImplementsIndex, Index!IndexSpec

=============================================================================
