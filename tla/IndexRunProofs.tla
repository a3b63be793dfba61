---------------------------- MODULE IndexRunProofs ----------------------------
(***************************************************************************)
(* What index runs publish is of the sources they read, and an index that  *)
(* is reused is what indexing would have produced: for every number of     *)
(* modules, runs, attempts and edits, while no edit restores a version.    *)
(* Then the historical revisions.                                          *)
(***************************************************************************)
EXTENDS IndexRun, RevisionIndex, FiniteSetTheorems, SequenceTheorems, WellFoundedInduction, TLAPS

-----------------------------------------------------------------------------
(* The inductive invariant.  What a run knows is said of tables dk (the    *)
(* sources on disk) and sn (the snapshots), which only grow.               *)

Places == {"idle", "catalog", "heads", "reused", "work", "saving", "storing", "joined", "done"}
FrameSteps == {"read", "deps", "extract", "publish"}
Shapes == {None} \cup {Shape[v] : v \in Versions}
Inputs == [Modules -> Versions \cup {None}]
SnapRows ==
  [module : Modules, content : Versions, links : [Modules -> Nat], seen : [Modules -> Shapes], run : Runs]
Frames ==
  [module : Modules, step : FrameSteps, content : Versions \cup {None}, links : [Modules -> Nat],
   reuse : Nat, base : Nat, seen : [Modules -> Shapes]]

\* The height of a module above those that require nothing.
Height == CHOOSE h \in [Modules -> 1..Cardinality(Modules)] :
            \A m \in Modules : \A d \in Deps[m] : h[d] < h[m]

\* Numbers of snapshots, each of the module it is listed for.
Points(f, sn) == \A m \in Modules : f[m] \in 0..Len(sn) /\ (f[m] # 0 => sn[f[m]].module = m)

\* A snapshot is of sources that were on disk, linked to a snapshot of every local
\* dependency, whose sources its type facts were checked against.
SnapOK(i, dk, sn) ==
  /\ sn[i].content <= dk[sn[i].module]
  /\ Points(sn[i].links, sn)
  /\ \A d \in Deps[sn[i].module] :
       sn[i].links[d] # 0 /\ sn[i].seen[d] = Shape[sn[sn[i].links[d]].content]

\* The shape seen of d is that of a version no older than least, nor than what the
\* checkpoint's inputs say of d.
Seen(me, dk, seen, d, least) ==
  \E w \in Versions :
    /\ least <= w /\ w <= dk[d] /\ seen[d] = Shape[w]
    /\ me.eligible => me.inputs[d] # None /\ me.inputs[d] <= w

\* A frame of the stack: what it discovered, linked, and is about to publish.
FrameOK(me, f, dk, sn) ==
  /\ Points(f.links, sn)
  /\ f.step # "publish" => f.reuse = 0
  /\ f.step # "read" =>
       /\ f.content \in Versions /\ f.content <= dk[f.module]
       /\ me.eligible => /\ me.inputs[f.module] # None /\ me.inputs[f.module] <= f.content
                         /\ \A d \in Needs(f.module) : me.inputs[d] # None
  /\ f.step \in {"extract", "publish"} => \A d \in Deps[f.module] : f.links[d] # 0
  /\ f.step = "publish" /\ f.reuse = 0 =>
       /\ \A d \in Deps[f.module] : Seen(me, dk, f.seen, d, sn[f.links[d]].content)
       /\ \A s \in Siblings[f.module] : Seen(me, dk, f.seen, s, 0)
  /\ f.step = "publish" /\ f.reuse # 0 =>
       /\ f.reuse \in 1..Len(sn) /\ sn[f.reuse].module = f.module
       /\ sn[f.reuse].content = f.content /\ sn[f.reuse].links = f.links
       /\ \A s \in Siblings[f.module] : Seen(me, dk, sn[f.reuse].seen, s, 0)

\* The frames of a target: each is of a module its caller needs, that the run remembers
\* nothing of, and only the last one works.
StackOK(me) ==
  /\ me.stack # <<>> => me.left # <<>> /\ me.stack[Len(me.stack)].module = me.left[1]
  /\ \A i \in 1..Len(me.stack) :
       /\ i > 1 => me.stack[i].step = "deps"
       /\ i < Len(me.stack) => me.memo[me.stack[i].module] = 0
       /\ \A d \in Modules : me.stack[i].links[d] # 0 => me.memo[d] = me.stack[i].links[d]
       /\ \A j \in 1..Len(me.stack) : i < j => Height[me.stack[i].module] < Height[me.stack[j].module]

\* What the run remembers or reports of a module is of sources no older than its inputs.
Fresh(me, i, m, sn) == me.inputs[m] # None /\ me.inputs[m] <= sn[i].content
MemoOK(me, sn) ==
  /\ Points(me.memo, sn)
  /\ me.eligible => \A m \in Modules : me.memo[m] # 0 => Fresh(me, me.memo[m], m, sn)
Good(me, m, dk, sn) ==
  /\ me.results[m] # 0 /\ Fresh(me, me.results[m], m, sn)
  /\ \A d \in Needs(m) : Seen(me, dk, sn[me.results[m]].seen, d, 0)

\* The targets left are the last ones, and the others are done.
LeftOK(me, key) ==
  /\ Len(me.left) <= Len(key)
  /\ \A i \in 1..Len(me.left) : me.left[i] = key[Len(key) - Len(me.left) + i]
DoneOK(me, key, dk, sn) ==
  me.eligible /\ me.failed = {} => \A t \in 1..(Len(key) - Len(me.left)) : Good(me, key[t], dk, sn)

\* Results that are what indexing the sources in inputs would produce.
Current(key, results, inputs, sn) ==
  \A t \in 1..Len(key) :
    /\ results[key[t]] # 0 /\ sn[results[key[t]]].content = inputs[key[t]]
    /\ \A d \in Needs(key[t]) : inputs[d] # None /\ sn[results[key[t]]].seen[d] = Shape[inputs[d]]
CheckpointOK(key, c, sn) ==
  /\ c.results \in [Modules -> Nat] /\ Points(c.results, sn)
  /\ Current(key, c.results, c.inputs, sn)

WorkOK(me, key, dk, sn) ==
  /\ \A m \in Modules : me.inputs[m] # None => me.inputs[m] <= dk[m]
  /\ MemoOK(me, sn) /\ StackOK(me)
  /\ \A i \in 1..Len(me.stack) : FrameOK(me, me.stack[i], dk, sn)
  /\ LeftOK(me, key) /\ DoneOK(me, key, dk, sn)

RunOK(me, key, dk, sn) ==
  /\ Points(me.results, sn) /\ Points(me.memo, sn)
  /\ me.pc = "work" => WorkOK(me, key, dk, sn)
  /\ me.pc \in {"saving", "storing"} => Current(key, me.results, me.inputs, sn)
  /\ me.pc \in {"catalog", "heads"} => CheckpointOK(key, me.of, sn)
  /\ me.pc = "heads" => me.read = me.of.inputs
  /\ me.pc = "reused" => Current(key, me.results, me.read, sn)
  /\ me.pc = "joined" => me.of \in Runs

\* What a run is made of.
Shaped(me) ==
  me = [pc |-> me.pc, left |-> me.left, stack |-> me.stack, memo |-> me.memo, attempt |-> me.attempt,
        inputs |-> me.inputs, eligible |-> me.eligible, read |-> me.read, results |-> me.results,
        failed |-> me.failed, of |-> me.of]
IsRun(me) ==
  /\ Shaped(me)
  /\ me.pc \in Places /\ me.left \in Seq(Modules) /\ me.stack \in Seq(Frames) /\ me.memo \in [Modules -> Nat]
  /\ me.attempt \in 1..IndexAttempts /\ me.inputs \in Inputs /\ me.eligible \in BOOLEAN
  /\ me.results \in [Modules -> Nat] /\ me.failed \subseteq Modules

\* How often something has changed that a run did not change itself.
Others(r, sn) == {i \in DOMAIN sn : sn[i].run # r}
Changes(r, e, sn) == e + Cardinality(Others(r, sn))

\* Nothing has changed since the attempt at hand began: hd is what the heads are.
FrameSteady(f, hd, dk) ==
  /\ f.step # "read" => f.content = dk[f.module]
  /\ f.step = "publish" => IF f.reuse # 0 THEN hd[f.module] = f.reuse ELSE f.base \in {0, hd[f.module]}
Steady(me, hd, dk, sn) ==
  /\ \A m \in Modules : me.memo[m] # 0 => hd[m] = me.memo[m] /\ sn[me.memo[m]].content = dk[m]
  /\ \A i \in 1..Len(me.stack) : FrameSteady(me.stack[i], hd, dk)

\* Every attempt but the one at hand, and every one of a failed target, met a change;
\* n is how many there were.
Counted(r, me, n, hd, dk, sn) ==
  /\ me.failed # {} => n >= IndexAttempts
  /\ me.pc \in {"idle", "catalog", "heads", "reused", "joined"} => me.failed = {} /\ Others(r, sn) = DOMAIN sn
  /\ me.pc = "work" => n >= me.attempt - 1 /\ (n = me.attempt - 1 => Steady(me, hd, dk, sn))

IndexInv ==
  /\ disk \in [Modules -> Versions] /\ edits \in 0..MaxEdits
  /\ heads \in [Modules -> Nat] /\ Points(heads, snaps)
  /\ snaps \in Seq(SnapRows) /\ \A i \in DOMAIN snaps : SnapOK(i, disk, snaps)
  /\ \A k \in Keys : checkpoints[k] # None => CheckpointOK(k, checkpoints[k], snaps)
  /\ DOMAIN run = Runs
  /\ \A r \in Runs : IsRun(run[r]) /\ RunOK(run[r], Targets[r], disk, snaps)
                 /\ Counted(r, run[r], Changes(r, edits, snaps), heads, disk, snaps)

\* A later state of a run: it may have observed more.
Later(me, next) ==
  /\ next.eligible => me.eligible
  /\ \A m \in Modules : me.inputs[m] # None => next.inputs[m] = me.inputs[m]

\* It has observed more, in the checkouts as they are, and is otherwise as it was.
Observing(me, o, dk) ==
  /\ Later(me, o)
  /\ o.pc = me.pc /\ o.left = me.left /\ o.stack = me.stack /\ o.memo = me.memo
  /\ o.attempt = me.attempt /\ o.results = me.results /\ o.failed = me.failed
  /\ \A m \in Modules : o.inputs[m] # None => o.inputs[m] = me.inputs[m] \/ o.inputs[m] = dk[m]

\* It goes on with the same target: what it published and counted is the same.
GoesOn(me, new, hd, dk, sn) ==
  /\ new.pc = me.pc /\ new.attempt = me.attempt /\ new.failed = me.failed
  /\ new.results = me.results /\ new.memo = me.memo
  /\ Steady(me, hd, dk, sn) => Steady(new, hd, dk, sn)

\* What a frame linked is what the run remembers.
Linked(me, f) == \A d \in Modules : f.links[d] # 0 => me.memo[d] = f.links[d]

\* The module a run begins with: a target, or what the frame on top requires.
Begins(me, d) ==
  \/ me.stack = <<>> /\ me.left # <<>> /\ d = me.left[1]
  \/ me.stack # <<>> /\ me.stack[1].step = "deps" /\ me.memo[d] = 0 /\ d \in Deps[me.stack[1].module]

\* Run r is about to publish module m, with the frame top.
Publishing(r, me, top, m) ==
  /\ me = run[r] /\ me.pc = "work" /\ me.stack # <<>>
  /\ top = me.stack[1] /\ top.step = "publish" /\ m = top.module /\ m \in Modules

\* A snapshot more.
Adds(sn, row, sn2) == sn \in Seq(SnapRows) /\ row \in SnapRows /\ sn2 = Append(sn, row)

\* A working run that is sound, and counted.
Works(r, me, key, n, hd, dk, sn) ==
  /\ key \in Seq(Modules) /\ n \in Nat /\ dk \in [Modules -> Versions] /\ sn \in Seq(SnapRows)
  /\ IsRun(me) /\ me.pc = "work" /\ WorkOK(me, key, dk, sn) /\ Points(me.results, sn)
  /\ Counted(r, me, n, hd, dk, sn)

\* Snapshot id is of module m as it is on disk, in sn2, and has become its head, in hd2.
Confirms(me, m, id, hd, hd2, dk, sn2) ==
  /\ sn2 \in Seq(SnapRows) /\ m \in Modules /\ m = me.stack[1].module /\ me.stack # <<>>
  /\ id \in 1..Len(sn2) /\ sn2[id].module = m /\ sn2[id].content = dk[m]
  /\ me.eligible => me.inputs[m] # None
  /\ \A x \in Needs(m) : Seen(me, dk, sn2[id].seen, x, 0)
  /\ hd2[m] = id /\ \A x \in Modules : x # m => hd2[x] = hd[x]

\* Sources only become newer, and snapshots stay.
NewerDisk(dk, dk2) == \A m \in Modules : dk[m] <= dk2[m]
Grown(sn, sn2) == Len(sn) <= Len(sn2) /\ \A i \in 1..Len(sn) : sn2[i] = sn[i]

-----------------------------------------------------------------------------
(* Sequences.                                                              *)

\* What is pushed is on top, and the others stay below.
LEMMA Pushed ==
  ASSUME NEW S, NEW x \in S, NEW s \in Seq(S)
  PROVE  /\ <<x>> \o s \in Seq(S) /\ Len(<<x>> \o s) = Len(s) + 1
         /\ (<<x>> \o s)[1] = x /\ \A i \in 1..Len(s) : (<<x>> \o s)[i + 1] = s[i]
<1>1. <<x>> \in Seq(S) /\ Len(<<x>>) = 1 /\ Len(s) \in Nat
  OBVIOUS
<1>2. <<x>> \o s \in Seq(S) /\ Len(<<x>> \o s) = Len(s) + 1
  BY <1>1, ConcatProperties
<1>3. \A i \in 1..(Len(s) + 1) : (<<x>> \o s)[i] = IF i <= 1 THEN <<x>>[i] ELSE s[i - 1]
  BY <1>1, ConcatProperties
<1>4. (<<x>> \o s)[1] = x
  BY <1>1, <1>3
<1>5. ASSUME NEW i \in 1..Len(s) PROVE (<<x>> \o s)[i + 1] = s[i]
  <2>1. i + 1 \in 1..(Len(s) + 1) /\ ~(i + 1 <= 1) /\ (i + 1) - 1 = i
    BY <1>1
  <2> QED BY <1>3, <2>1
<1> QED BY <1>2, <1>4, <1>5

\* What is below the top.
LEMMA Below ==
  ASSUME NEW S, NEW s \in Seq(S), s # <<>>
  PROVE  /\ Head(s) = s[1] /\ s[1] \in S /\ Len(s) \in Nat \ {0} /\ Tail(s) \in Seq(S) /\ Len(Tail(s)) = Len(s) - 1
         /\ \A i \in 1..(Len(s) - 1) : Tail(s)[i] = s[i + 1]
BY HeadTailProperties

\* What replaces the top.
LEMMA Replaced ==
  ASSUME NEW S, NEW x \in S, NEW s \in Seq(S), s # <<>>, NEW t, t = <<x>> \o Tail(s)
  PROVE  /\ t \in Seq(S) /\ Len(t) = Len(s) /\ t # <<>>
         /\ t[1] = x /\ \A i \in 2..Len(s) : t[i] = s[i]
<1>1. Tail(s) \in Seq(S) /\ Len(Tail(s)) = Len(s) - 1 /\ Len(s) \in Nat \ {0}
  BY Below
<1>2. t \in Seq(S) /\ Len(t) = Len(s) /\ t[1] = x
  BY <1>1, Pushed
<1>3. ASSUME NEW i \in 2..Len(s) PROVE t[i] = s[i]
  <2>1. PICK j \in 1..(Len(s) - 1) : i = j + 1
    <3>1. i - 1 \in 1..(Len(s) - 1) /\ i = (i - 1) + 1
      BY <1>1
    <3> QED BY <3>1
  <2>2. t[j + 1] = Tail(s)[j]
    BY <1>1, Pushed
  <2>3. Tail(s)[j] = s[j + 1]
    BY Below
  <2> QED BY <2>1, <2>2, <2>3
<1>4. t # <<>>
  BY <1>1, <1>2
<1> QED BY <1>2, <1>3, <1>4

-----------------------------------------------------------------------------
(* What only grows.                                                        *)

\* A module is higher than those it requires.
LEMMA HeightIs ==
  /\ Height \in [Modules -> 1..Cardinality(Modules)]
  /\ \A m \in Modules : \A d \in Deps[m] : Height[d] < Height[m]
BY IndexRunConstants DEF Height

\* What a module needs are modules, and versions are numbers.
LEMMA NeedsAre ==
  /\ \A m \in Modules : Deps[m] \subseteq Modules /\ Siblings[m] \subseteq Modules /\ Needs(m) \subseteq Modules
  /\ (\A v \in Versions : v \in Nat /\ v \in Int) /\ None \notin Versions /\ MaxEdits \in Nat
BY IndexRunConstants DEF Needs, Versions

LEMMA PointsStay ==
  ASSUME NEW f, NEW sn, NEW sn2, Points(f, sn), Grown(sn, sn2), Len(sn) \in Nat, Len(sn2) \in Nat
  PROVE  Points(f, sn2)
BY DEF Points, Grown

LEMMA SeenStays ==
  ASSUME NEW me, NEW next, NEW dk, NEW dk2, NEW seen, NEW d \in Modules, NEW least,
         Seen(me, dk, seen, d, least), Later(me, next), NewerDisk(dk, dk2),
         dk[d] \in Versions, dk2[d] \in Versions
  PROVE  Seen(next, dk2, seen, d, least)
<1>1. PICK w \in Versions : /\ least <= w /\ w <= dk[d] /\ seen[d] = Shape[w]
                            /\ me.eligible => me.inputs[d] # None /\ me.inputs[d] <= w
  BY DEF Seen
<1>2. w <= dk2[d]
  <2>1. dk[d] <= dk2[d]
    BY DEF NewerDisk
  <2>2. w \in Int /\ dk[d] \in Int /\ dk2[d] \in Int
    BY NeedsAre
  <2> QED BY <1>1, <2>1, <2>2
<1>3. next.eligible => next.inputs[d] # None /\ next.inputs[d] <= w
  BY <1>1 DEF Later
<1> QED BY <1>1, <1>2, <1>3 DEF Seen

\* Frames stay as they are.
LEMMA FrameStays ==
  ASSUME NEW me, NEW next, NEW f \in Frames, NEW dk \in [Modules -> Versions], NEW dk2 \in [Modules -> Versions],
         NEW sn \in Seq(SnapRows), NEW sn2 \in Seq(SnapRows),
         FrameOK(me, f, dk, sn), Later(me, next), NewerDisk(dk, dk2), Grown(sn, sn2)
  PROVE  FrameOK(next, f, dk2, sn2)
<1>1. /\ f.module \in Modules /\ f.links \in [Modules -> Nat]
      /\ Len(sn) \in Nat /\ Len(sn2) \in Nat /\ DOMAIN sn = 1..Len(sn)
  BY DEF Frames
<1>2. Points(f.links, sn) /\ Points(f.links, sn2)
  BY <1>1, PointsStay DEF FrameOK
<1>3. f.step # "read" => /\ f.content \in Versions /\ f.content <= dk2[f.module]
                         /\ next.eligible => /\ next.inputs[f.module] # None /\ next.inputs[f.module] <= f.content
                                             /\ \A d \in Needs(f.module) : next.inputs[d] # None
  <2>1. SUFFICES ASSUME f.step # "read"
                 PROVE  /\ f.content \in Versions /\ f.content <= dk2[f.module]
                        /\ next.eligible => /\ next.inputs[f.module] # None /\ next.inputs[f.module] <= f.content
                                            /\ \A d \in Needs(f.module) : next.inputs[d] # None
    OBVIOUS
  <2>2. /\ f.content \in Versions /\ f.content <= dk[f.module]
        /\ me.eligible => /\ me.inputs[f.module] # None /\ me.inputs[f.module] <= f.content
                          /\ \A d \in Needs(f.module) : me.inputs[d] # None
    BY <2>1 DEF FrameOK
  <2>3. f.content <= dk2[f.module]
    <3>1. dk[f.module] <= dk2[f.module]
      BY <1>1 DEF NewerDisk
    <3>2. f.content \in Int /\ dk[f.module] \in Int /\ dk2[f.module] \in Int
      BY <1>1, <2>2, NeedsAre
    <3> QED BY <2>2, <3>1, <3>2
  <2>4. next.eligible => /\ next.inputs[f.module] # None /\ next.inputs[f.module] <= f.content
                         /\ \A d \in Needs(f.module) : next.inputs[d] # None
    BY <1>1, <2>2, NeedsAre DEF Later
  <2> QED BY <2>2, <2>3, <2>4
<1>4. f.step = "publish" /\ f.reuse = 0 =>
       /\ \A d \in Deps[f.module] : Seen(next, dk2, f.seen, d, sn2[f.links[d]].content)
       /\ \A s \in Siblings[f.module] : Seen(next, dk2, f.seen, s, 0)
  <2>1. SUFFICES ASSUME f.step = "publish", f.reuse = 0
                 PROVE  /\ \A d \in Deps[f.module] : Seen(next, dk2, f.seen, d, sn2[f.links[d]].content)
                        /\ \A s \in Siblings[f.module] : Seen(next, dk2, f.seen, s, 0)
    OBVIOUS
  <2>2. ASSUME NEW d \in Deps[f.module] PROVE Seen(next, dk2, f.seen, d, sn2[f.links[d]].content)
    <3>1. d \in Modules /\ f.links[d] # 0 /\ Seen(me, dk, f.seen, d, sn[f.links[d]].content)
      BY <1>1, <2>1, NeedsAre DEF FrameOK
    <3>2. f.links[d] \in 1..Len(sn)
      BY <1>1, <1>2, <3>1 DEF Points
    <3>3. sn2[f.links[d]] = sn[f.links[d]]
      BY <3>2 DEF Grown
    <3>4. dk[d] \in Versions /\ dk2[d] \in Versions
      BY <3>1
    <3>5. Seen(next, dk2, f.seen, d, sn[f.links[d]].content)
      BY <3>1, <3>4, SeenStays
    <3> QED BY <3>3, <3>5
  <2>3. ASSUME NEW s \in Siblings[f.module] PROVE Seen(next, dk2, f.seen, s, 0)
    <3>1. s \in Modules /\ Seen(me, dk, f.seen, s, 0)
      BY <1>1, <2>1, NeedsAre DEF FrameOK
    <3>2. dk[s] \in Versions /\ dk2[s] \in Versions
      BY <3>1
    <3> QED BY <3>1, <3>2, SeenStays
  <2> QED BY <2>2, <2>3
<1>5. f.step = "publish" /\ f.reuse # 0 =>
       /\ f.reuse \in 1..Len(sn2) /\ sn2[f.reuse].module = f.module
       /\ sn2[f.reuse].content = f.content /\ sn2[f.reuse].links = f.links
       /\ \A s \in Siblings[f.module] : Seen(next, dk2, sn2[f.reuse].seen, s, 0)
  <2>1. SUFFICES ASSUME f.step = "publish", f.reuse # 0
                 PROVE  /\ f.reuse \in 1..Len(sn2) /\ sn2[f.reuse].module = f.module
                        /\ sn2[f.reuse].content = f.content /\ sn2[f.reuse].links = f.links
                        /\ \A s \in Siblings[f.module] : Seen(next, dk2, sn2[f.reuse].seen, s, 0)
    OBVIOUS
  <2>2. /\ f.reuse \in 1..Len(sn) /\ sn[f.reuse].module = f.module
        /\ sn[f.reuse].content = f.content /\ sn[f.reuse].links = f.links
        /\ \A s \in Siblings[f.module] : Seen(me, dk, sn[f.reuse].seen, s, 0)
    BY <2>1 DEF FrameOK
  <2>3. sn2[f.reuse] = sn[f.reuse] /\ f.reuse \in 1..Len(sn2)
    BY <1>1, <2>2 DEF Grown
  <2>4. ASSUME NEW s \in Siblings[f.module] PROVE Seen(next, dk2, sn[f.reuse].seen, s, 0)
    <3>1. s \in Modules /\ Seen(me, dk, sn[f.reuse].seen, s, 0)
      BY <1>1, <2>2, NeedsAre
    <3>2. dk[s] \in Versions /\ dk2[s] \in Versions
      BY <3>1
    <3> QED BY <3>1, <3>2, SeenStays
  <2> QED BY <2>2, <2>3, <2>4
<1>6. (f.step # "publish" => f.reuse = 0) /\ (f.step \in {"extract", "publish"} => \A d \in Deps[f.module] : f.links[d] # 0)
  BY DEF FrameOK
<1> QED BY <1>2, <1>3, <1>4, <1>5, <1>6 DEF FrameOK

\* A snapshot stays as it is, whatever follows.
LEMMA SnapStays ==
  ASSUME NEW dk \in [Modules -> Versions], NEW dk2 \in [Modules -> Versions],
         NEW sn \in Seq(SnapRows), NEW sn2 \in Seq(SnapRows), NEW i \in 1..Len(sn),
         SnapOK(i, dk, sn), NewerDisk(dk, dk2), Grown(sn, sn2)
  PROVE  SnapOK(i, dk2, sn2)
<1>1. Len(sn) \in Nat /\ Len(sn2) \in Nat /\ sn[i] \in SnapRows /\ sn2[i] = sn[i]
  BY DEF Grown
<1>2. sn[i].module \in Modules /\ sn[i].content \in Versions /\ sn[i].links \in [Modules -> Nat]
  BY <1>1 DEF SnapRows
<1>3. sn[i].content <= dk2[sn[i].module]
  <2>1. sn[i].content <= dk[sn[i].module] /\ dk[sn[i].module] <= dk2[sn[i].module]
    BY <1>2 DEF SnapOK, NewerDisk
  <2>2. sn[i].content \in Int /\ dk[sn[i].module] \in Int /\ dk2[sn[i].module] \in Int
    BY <1>2, NeedsAre
  <2> QED BY <2>1, <2>2
<1>4. Points(sn[i].links, sn) /\ Points(sn[i].links, sn2)
  BY <1>1, PointsStay DEF SnapOK
<1>5. ASSUME NEW d \in Deps[sn[i].module]
      PROVE  sn[i].links[d] # 0 /\ sn[i].seen[d] = Shape[sn2[sn[i].links[d]].content]
  <2>1. d \in Modules /\ sn[i].links[d] # 0 /\ sn[i].seen[d] = Shape[sn[sn[i].links[d]].content]
    BY <1>2, NeedsAre DEF SnapOK
  <2>2. sn[i].links[d] \in 1..Len(sn)
    BY <1>1, <1>4, <2>1 DEF Points
  <2> QED BY <2>1, <2>2 DEF Grown
<1> QED BY <1>1, <1>3, <1>4, <1>5 DEF SnapOK

\* Results that were current stay so, and so does a checkpoint.
LEMMA CurrentStays ==
  ASSUME NEW key \in Seq(Modules), NEW results, NEW inputs, NEW sn \in Seq(SnapRows), NEW sn2 \in Seq(SnapRows),
         Points(results, sn), Current(key, results, inputs, sn), Grown(sn, sn2)
  PROVE  Current(key, results, inputs, sn2)
<1>1. ASSUME NEW t \in 1..Len(key) PROVE sn2[results[key[t]]] = sn[results[key[t]]]
  <2>1. key[t] \in Modules /\ results[key[t]] # 0 /\ Len(sn) \in Nat
    BY DEF Current
  <2>2. results[key[t]] \in 1..Len(sn)
    BY <2>1 DEF Points
  <2> QED BY <2>2 DEF Grown
<1> QED BY <1>1 DEF Current

LEMMA CheckpointStays ==
  ASSUME NEW key \in Seq(Modules), NEW c, NEW sn \in Seq(SnapRows), NEW sn2 \in Seq(SnapRows),
         CheckpointOK(key, c, sn), Grown(sn, sn2)
  PROVE  CheckpointOK(key, c, sn2)
<1>1. Len(sn) \in Nat /\ Len(sn2) \in Nat
  OBVIOUS
<1>2. Points(c.results, sn) /\ Current(key, c.results, c.inputs, sn) /\ c.results \in [Modules -> Nat]
  BY DEF CheckpointOK
<1>3. Points(c.results, sn2)
  BY <1>1, <1>2, PointsStay
<1>4. Current(key, c.results, c.inputs, sn2)
  BY <1>2, CurrentStays
<1> QED BY <1>2, <1>3, <1>4 DEF CheckpointOK

\* A result that is good stays good.
LEMMA GoodStays ==
  ASSUME NEW me, NEW next, NEW m \in Modules, NEW dk \in [Modules -> Versions], NEW dk2 \in [Modules -> Versions],
         NEW sn \in Seq(SnapRows), NEW sn2 \in Seq(SnapRows),
         Points(me.results, sn), Good(me, m, dk, sn), next.results[m] = me.results[m],
         Later(me, next), NewerDisk(dk, dk2), Grown(sn, sn2)
  PROVE  Good(next, m, dk2, sn2)
<1>1. PICK id : id = me.results[m]
  OBVIOUS
<1>2. id # 0 /\ me.inputs[m] # None /\ me.inputs[m] <= sn[id].content
  BY <1>1 DEF Good, Fresh
<1>3. id \in 1..Len(sn)
  BY <1>1, <1>2 DEF Points
<1>4. sn2[id] = sn[id]
  BY <1>3 DEF Grown
<1>5. next.inputs[m] = me.inputs[m]
  BY <1>2 DEF Later
<1>6. Fresh(next, id, m, sn2)
  BY <1>2, <1>4, <1>5 DEF Fresh
<1>7. ASSUME NEW d \in Needs(m) PROVE Seen(next, dk2, sn2[id].seen, d, 0)
  <2>1. d \in Modules /\ Seen(me, dk, sn[id].seen, d, 0)
    BY <1>1, NeedsAre DEF Good
  <2>2. dk[d] \in Versions /\ dk2[d] \in Versions
    BY <2>1
  <2>3. Seen(next, dk2, sn[id].seen, d, 0)
    BY <2>1, <2>2, SeenStays
  <2> QED BY <1>4, <2>3
<1> QED BY <1>1, <1>2, <1>6, <1>7 DEF Good

\* What a run remembers stays as fresh as it was.
LEMMA MemoStays ==
  ASSUME NEW me, NEW next, NEW sn \in Seq(SnapRows), NEW sn2 \in Seq(SnapRows),
         MemoOK(me, sn), next.memo = me.memo, Later(me, next), Grown(sn, sn2)
  PROVE  MemoOK(next, sn2)
<1>1. Len(sn) \in Nat /\ Len(sn2) \in Nat
  OBVIOUS
<1>2. Points(me.memo, sn) /\ Points(next.memo, sn2)
  BY <1>1, PointsStay DEF MemoOK
<1>3. ASSUME next.eligible, NEW m \in Modules, next.memo[m] # 0 PROVE Fresh(next, next.memo[m], m, sn2)
  <2>1. PICK id : id = me.memo[m]
    OBVIOUS
  <2>2. id # 0 /\ me.inputs[m] # None /\ me.inputs[m] <= sn[id].content
    BY <1>3, <2>1 DEF MemoOK, Fresh, Later
  <2>3. id \in 1..Len(sn)
    BY <1>1, <1>2, <2>1, <2>2 DEF Points
  <2>4. sn2[id] = sn[id] /\ next.inputs[m] = me.inputs[m]
    BY <2>2, <2>3 DEF Grown, Later
  <2> QED BY <2>1, <2>2, <2>4 DEF Fresh
<1> QED BY <1>2, <1>3 DEF MemoOK

LEMMA LaterSelf == \A me : Later(me, me)
BY DEF Later

LEMMA GrownSelf == \A sn, dk : (dk \in [Modules -> Versions] => NewerDisk(dk, dk)) /\ (sn \in Seq(SnapRows) => Grown(sn, sn))
<1>1. ASSUME NEW dk \in [Modules -> Versions] PROVE NewerDisk(dk, dk)
  <2>1. \A m \in Modules : dk[m] \in Int
    BY NeedsAre
  <2> QED BY <2>1 DEF NewerDisk
<1>2. ASSUME NEW sn \in Seq(SnapRows) PROVE Grown(sn, sn)
  BY DEF Grown
<1> QED BY <1>1, <1>2

\* Whatever happens beside a run, what it knows stays true.
LEMMA RunStays ==
  ASSUME NEW me, NEW key \in Seq(Modules), NEW dk \in [Modules -> Versions], NEW dk2 \in [Modules -> Versions],
         NEW sn \in Seq(SnapRows), NEW sn2 \in Seq(SnapRows),
         IsRun(me), RunOK(me, key, dk, sn), NewerDisk(dk, dk2), Grown(sn, sn2)
  PROVE  RunOK(me, key, dk2, sn2)
<1>1. Later(me, me) /\ Len(sn) \in Nat /\ Len(sn2) \in Nat
  BY LaterSelf
<1>2. Points(me.results, sn) /\ Points(me.memo, sn) /\ Points(me.results, sn2) /\ Points(me.memo, sn2)
  BY <1>1, PointsStay DEF RunOK
<1>3. ASSUME me.pc = "work" PROVE WorkOK(me, key, dk2, sn2)
  <2>1. WorkOK(me, key, dk, sn)
    BY <1>3 DEF RunOK
  <2>2. ASSUME NEW m \in Modules, me.inputs[m] # None PROVE me.inputs[m] <= dk2[m]
    <3>1. me.inputs[m] <= dk[m] /\ dk[m] <= dk2[m]
      BY <2>1, <2>2 DEF WorkOK, NewerDisk
    <3>2. me.inputs[m] \in Int /\ dk[m] \in Int /\ dk2[m] \in Int
      BY <2>2, NeedsAre DEF IsRun, Inputs
    <3> QED BY <3>1, <3>2
  <2>3. MemoOK(me, sn2)
    BY <1>1, <2>1, MemoStays DEF WorkOK
  <2>4. ASSUME NEW i \in 1..Len(me.stack) PROVE FrameOK(me, me.stack[i], dk2, sn2)
    <3>1. me.stack[i] \in Frames /\ FrameOK(me, me.stack[i], dk, sn)
      BY <2>1 DEF WorkOK, IsRun
    <3> QED BY <1>1, <3>1, FrameStays
  <2>5. DoneOK(me, key, dk2, sn2)
    <3>1. ASSUME me.eligible, me.failed = {}, NEW t \in 1..(Len(key) - Len(me.left)) PROVE Good(me, key[t], dk2, sn2)
      <4>1. Good(me, key[t], dk, sn)
        BY <2>1, <3>1 DEF WorkOK, DoneOK
      <4>2. key[t] \in Modules
        <5>1. Len(me.left) \in Nat /\ Len(key) \in Nat
          BY DEF IsRun
        <5>2. t \in 1..Len(key)
          BY <5>1
        <5> QED BY <5>2
      <4> QED BY <1>1, <1>2, <4>1, <4>2, GoodStays
    <3> QED BY <3>1 DEF DoneOK
  <2> QED BY <2>1, <2>2, <2>3, <2>4, <2>5 DEF WorkOK
<1>4. me.pc \in {"saving", "storing"} => Current(key, me.results, me.inputs, sn2)
  BY <1>2, CurrentStays DEF RunOK
<1>5. me.pc \in {"catalog", "heads"} => CheckpointOK(key, me.of, sn2)
  BY CheckpointStays DEF RunOK
<1>6. me.pc = "reused" => Current(key, me.results, me.read, sn2)
  BY <1>2, CurrentStays DEF RunOK
<1> QED BY <1>2, <1>3, <1>4, <1>5, <1>6 DEF RunOK

-----------------------------------------------------------------------------
(* The parts of the invariant a step works on.                             *)

\* What was there before a step of run r.
LEMMA Before ==
  ASSUME IndexInv, NEW r \in Runs
  PROVE  /\ disk \in [Modules -> Versions] /\ edits \in Nat /\ heads \in [Modules -> Nat] /\ Points(heads, snaps)
         /\ snaps \in Seq(SnapRows) /\ Len(snaps) \in Nat /\ DOMAIN snaps = 1..Len(snaps)
         /\ \A i \in 1..Len(snaps) : SnapOK(i, disk, snaps)
         /\ Targets[r] \in Seq(Modules) /\ Targets[r] \in Keys /\ IsRun(run[r]) /\ RunOK(run[r], Targets[r], disk, snaps)
         /\ Counted(r, run[r], Changes(r, edits, snaps), heads, disk, snaps)
<1>1. edits \in Nat
  BY NeedsAre DEF IndexInv
<1>2. snaps \in Seq(SnapRows) /\ Len(snaps) \in Nat /\ DOMAIN snaps = 1..Len(snaps)
  BY DEF IndexInv
<1>3. Targets[r] \in Seq(Modules) /\ Targets[r] \in Keys
  BY IndexRunConstants DEF Keys, Key
<1> QED BY <1>1, <1>2, <1>3 DEF IndexInv

\* A step of run r that changes nothing but the run keeps the invariant when it keeps
\* the run's own part.
LEMMA OwnStep ==
  ASSUME IndexInv, NEW r \in Runs, NEW new, Set(r, new), UNCHANGED <<disk, edits, heads, snaps, checkpoints>>,
         IsRun(new), RunOK(new, Targets[r], disk, snaps),
         Counted(r, new, Changes(r, edits, snaps), heads, disk, snaps)
  PROVE  IndexInv'
<1>1. DOMAIN run' = Runs /\ \A q \in Runs : run'[q] = IF q = r THEN new ELSE run[q]
  BY DEF Set, IndexInv
<1>2. /\ disk' \in [Modules -> Versions] /\ edits' \in 0..MaxEdits
      /\ heads' \in [Modules -> Nat] /\ Points(heads', snaps')
      /\ snaps' \in Seq(SnapRows) /\ \A i \in DOMAIN snaps' : SnapOK(i, disk', snaps')
      /\ \A k \in Keys : checkpoints'[k] # None => CheckpointOK(k, checkpoints'[k], snaps')
  BY DEF IndexInv
<1>3. ASSUME NEW q \in Runs
      PROVE  /\ IsRun(run'[q]) /\ RunOK(run'[q], Targets[q], disk', snaps')
             /\ Counted(q, run'[q], Changes(q, edits', snaps'), heads', disk', snaps')
  <2>1. CASE q = r
    BY <1>1, <2>1
  <2>2. CASE q # r
    BY <1>1, <2>2, Before
  <2> QED BY <2>1, <2>2
<1> QED BY <1>1, <1>2, <1>3 DEF IndexInv

\* The first fingerprints that count.
LEMMA ObservedIs ==
  ASSUME NEW me, IsRun(me), disk \in [Modules -> Versions], NEW watched \in SUBSET Modules,
         NEW o, o = Observed(me, watched)
  PROVE  IsRun(o) /\ Observing(me, o, disk) /\ (o.eligible => \A m \in watched : o.inputs[m] # None)
<1>1. CASE ~me.eligible
  <2>1. o = me
    BY <1>1 DEF Observed
  <2> QED BY <1>1, <2>1, LaterSelf DEF Observing
<1>2. CASE me.eligible /\ ~(watched \subseteq Tracked)
  <2>1. o = [me EXCEPT !.eligible = FALSE]
    BY <1>2 DEF Observed
  <2>2. /\ Shaped(o) /\ o.pc = me.pc /\ o.left = me.left /\ o.stack = me.stack /\ o.memo = me.memo /\ o.attempt = me.attempt
        /\ o.results = me.results /\ o.failed = me.failed
        /\ o.inputs = me.inputs /\ o.eligible = FALSE
    BY <2>1 DEF IsRun, Shaped
  <2> QED BY <2>2 DEF IsRun, Later, Observing
<1>3. CASE me.eligible /\ watched \subseteq Tracked
  <2>1. PICK inputs : inputs = [m \in Modules |-> IF m \in watched /\ me.inputs[m] = None THEN disk[m] ELSE me.inputs[m]]
    OBVIOUS
  <2>2. o = [me EXCEPT !.inputs = inputs]
    BY <1>3, <2>1 DEF Observed
  <2>3. /\ Shaped(o) /\ o.pc = me.pc /\ o.left = me.left /\ o.stack = me.stack /\ o.memo = me.memo /\ o.attempt = me.attempt
        /\ o.results = me.results /\ o.failed = me.failed
        /\ o.inputs = inputs /\ o.eligible = me.eligible
    BY <2>2 DEF IsRun, Shaped
  <2>4. inputs \in Inputs
    BY <2>1 DEF IsRun, Inputs
  <2>5. \A m \in watched : inputs[m] # None
    BY <2>1, NeedsAre
  <2>6. \A m \in Modules : /\ me.inputs[m] # None => inputs[m] = me.inputs[m]
                           /\ inputs[m] = me.inputs[m] \/ inputs[m] = disk[m]
    BY <2>1
  <2>7. IsRun(o)
    BY <2>3, <2>4 DEF IsRun
  <2> QED BY <2>3, <2>5, <2>6, <2>7 DEF Later, Observing
<1> QED BY <1>1, <1>2, <1>3

\* A step of a working run that neither counts an attempt nor fails a target.
LEMMA StillCounted ==
  ASSUME NEW r, NEW me, NEW new, NEW n, NEW hd, NEW dk, NEW sn,
         Counted(r, me, n, hd, dk, sn), me.pc = "work", GoesOn(me, new, hd, dk, sn)
  PROVE  Counted(r, new, n, hd, dk, sn)
BY DEF Counted, GoesOn

\* A working run that may have observed more, and whose frames are sound, works as before.
LEMMA WorkMoves ==
  ASSUME NEW me, NEW o, NEW key \in Seq(Modules), NEW dk \in [Modules -> Versions], NEW sn \in Seq(SnapRows),
         IsRun(me), WorkOK(me, key, dk, sn), Points(me.results, sn), Later(me, o),
         o.left = me.left, o.memo = me.memo, o.results = me.results, o.failed = me.failed,
         \A m \in Modules : o.inputs[m] # None => o.inputs[m] = me.inputs[m] \/ o.inputs[m] = dk[m],
         StackOK(o), \A i \in 1..Len(o.stack) : FrameOK(o, o.stack[i], dk, sn)
  PROVE  WorkOK(o, key, dk, sn)
<1>1. NewerDisk(dk, dk) /\ Grown(sn, sn)
  BY GrownSelf
<1>2. \A m \in Modules : o.inputs[m] # None => o.inputs[m] <= dk[m]
  <2>1. \A m \in Modules : dk[m] \in Int
    BY NeedsAre
  <2> QED BY <2>1 DEF WorkOK
<1>3. MemoOK(o, sn)
  <2>1. MemoOK(me, sn)
    BY DEF WorkOK
  <2> QED BY <1>1, <2>1, MemoStays
<1>4. LeftOK(o, key)
  BY DEF WorkOK, LeftOK
<1>5. DoneOK(o, key, dk, sn)
  <2>1. ASSUME o.eligible, o.failed = {}, NEW t \in 1..(Len(key) - Len(o.left)) PROVE Good(o, key[t], dk, sn)
    <3>1. Good(me, key[t], dk, sn)
      BY <2>1 DEF WorkOK, DoneOK, Later
    <3>2. key[t] \in Modules
      <4>1. Len(o.left) \in Nat /\ Len(key) \in Nat
        BY DEF IsRun
      <4>2. t \in 1..Len(key)
        BY <4>1
      <4> QED BY <4>2
    <3> QED BY <1>1, <3>1, <3>2, GoodStays
  <2> QED BY <2>1 DEF DoneOK
<1> QED BY <1>2, <1>3, <1>4, <1>5 DEF WorkOK

\* A working run that observed more works as before.
LEMMA WorkObserved ==
  ASSUME NEW me, NEW o, NEW key \in Seq(Modules), NEW dk \in [Modules -> Versions], NEW sn \in Seq(SnapRows), NEW hd,
         IsRun(me), WorkOK(me, key, dk, sn), Points(me.results, sn), Observing(me, o, dk)
  PROVE  WorkOK(o, key, dk, sn) /\ Points(o.results, sn) /\ GoesOn(me, o, hd, dk, sn)
<1>1. NewerDisk(dk, dk) /\ Grown(sn, sn)
  BY GrownSelf
<1>2. /\ Later(me, o)
      /\ o.pc = me.pc /\ o.left = me.left /\ o.stack = me.stack /\ o.memo = me.memo
      /\ o.attempt = me.attempt /\ o.results = me.results /\ o.failed = me.failed
      /\ \A m \in Modules : o.inputs[m] # None => o.inputs[m] = me.inputs[m] \/ o.inputs[m] = dk[m]
  BY DEF Observing
<1>3. StackOK(o)
  <2>1. StackOK(me)
    BY DEF WorkOK
  <2> QED BY <1>2, <2>1 DEF StackOK
<1>4. ASSUME NEW i \in 1..Len(o.stack) PROVE FrameOK(o, o.stack[i], dk, sn)
  <2>1. me.stack[i] \in Frames /\ FrameOK(me, me.stack[i], dk, sn)
    BY <1>2 DEF WorkOK, IsRun
  <2> QED BY <1>1, <1>2, <2>1, FrameStays
<1>5. WorkOK(o, key, dk, sn)
  BY <1>2, <1>3, <1>4, WorkMoves
<1>6. GoesOn(me, o, hd, dk, sn)
  BY <1>2 DEF GoesOn, Steady
<1> QED BY <1>2, <1>5, <1>6

\* A run whose top frame is replaced by a sound one of the same module works as before.
LEMMA TopWorks ==
  ASSUME NEW me, NEW new, NEW key \in Seq(Modules), NEW dk \in [Modules -> Versions], NEW sn \in Seq(SnapRows),
         NEW hd, IsRun(me), WorkOK(me, key, dk, sn), Points(me.results, sn), me.stack # <<>>,
         NEW f \in Frames, f.module = me.stack[1].module, FrameOK(me, f, dk, sn), Linked(me, f),
         FrameSteady(me.stack[1], hd, dk) => FrameSteady(f, hd, dk), new = SetTop(me, f)
  PROVE  IsRun(new) /\ WorkOK(new, key, dk, sn) /\ GoesOn(me, new, hd, dk, sn)
<1>1. PICK stack : stack = <<f>> \o Tail(me.stack)
  OBVIOUS
<1>2. me.stack \in Seq(Frames) /\ Len(me.stack) \in Nat /\ me.left \in Seq(Modules)
  BY DEF IsRun
<1>3. /\ stack \in Seq(Frames) /\ Len(stack) = Len(me.stack) /\ stack # <<>>
      /\ stack[1] = f /\ \A i \in 2..Len(me.stack) : stack[i] = me.stack[i]
  BY <1>1, <1>2, Replaced
<1>4. /\ Shaped(new) /\ new.stack = stack /\ new.pc = me.pc /\ new.left = me.left /\ new.memo = me.memo
      /\ new.attempt = me.attempt /\ new.inputs = me.inputs /\ new.eligible = me.eligible
      /\ new.results = me.results /\ new.failed = me.failed
  BY <1>1 DEF IsRun, Shaped, SetTop
<1>5. IsRun(new)
  BY <1>3, <1>4 DEF IsRun
<1>6. Later(me, new) /\ NewerDisk(dk, dk) /\ Grown(sn, sn)
  BY <1>4, GrownSelf DEF Later
<1>7. \A i \in 1..Len(stack) : /\ stack[i].module = me.stack[i].module
                               /\ (stack[i] = f /\ i = 1) \/ (stack[i] = me.stack[i] /\ i > 1 /\ i \in 2..Len(me.stack))
  <2>1. SUFFICES ASSUME NEW i \in 1..Len(stack)
                 PROVE  /\ stack[i].module = me.stack[i].module
                        /\ (stack[i] = f /\ i = 1) \/ (stack[i] = me.stack[i] /\ i > 1 /\ i \in 2..Len(me.stack))
    OBVIOUS
  <2>2. CASE i = 1
    BY <1>3, <2>2
  <2>3. CASE i # 1
    <3>1. i > 1 /\ i \in 2..Len(me.stack)
      BY <1>2, <1>3, <2>3
    <3>2. stack[i] = me.stack[i]
      BY <1>3, <3>1
    <3> QED BY <3>1, <3>2
  <2> QED BY <2>2, <2>3
<1>8. StackOK(me) /\ Len(me.stack) \in 1..Len(stack)
  BY <1>2, <1>3 DEF WorkOK
<1>9. StackOK(new)
  <2>1. new.left # <<>> /\ new.stack[Len(new.stack)].module = new.left[1]
    BY <1>3, <1>4, <1>7, <1>8 DEF StackOK
  <2>2. ASSUME NEW i \in 1..Len(stack)
        PROVE  /\ i > 1 => stack[i].step = "deps"
               /\ i < Len(stack) => me.memo[stack[i].module] = 0
               /\ \A d \in Modules : stack[i].links[d] # 0 => me.memo[d] = stack[i].links[d]
               /\ \A j \in 1..Len(stack) : i < j => Height[stack[i].module] < Height[stack[j].module]
    <3>1. \A j \in 1..Len(stack) : i < j => Height[stack[i].module] < Height[stack[j].module]
      BY <1>3, <1>7, <1>8 DEF StackOK
    <3>2. i < Len(stack) => me.memo[stack[i].module] = 0
      BY <1>3, <1>7, <1>8 DEF StackOK
    <3>3. CASE i = 1
      BY <1>3, <3>1, <3>2, <3>3 DEF Linked
    <3>4. CASE i # 1
      BY <1>3, <1>7, <1>8, <3>1, <3>2, <3>4 DEF StackOK
    <3> QED BY <3>3, <3>4
  <2> QED BY <1>4, <2>1, <2>2 DEF StackOK
<1>10. ASSUME NEW i \in 1..Len(new.stack) PROVE FrameOK(new, new.stack[i], dk, sn)
  <2>1. new.stack[i] \in Frames /\ FrameOK(me, new.stack[i], dk, sn)
    BY <1>2, <1>3, <1>4, <1>7 DEF WorkOK
  <2> QED BY <1>6, <2>1, FrameStays
<1>11. WorkOK(new, key, dk, sn)
  BY <1>4, <1>6, <1>9, <1>10, WorkMoves
<1>12. ASSUME Steady(me, hd, dk, sn) PROVE Steady(new, hd, dk, sn)
  <2>1. 1 \in 1..Len(me.stack)
    BY <1>2, Below
  <2>2. FrameSteady(f, hd, dk)
    BY <1>12, <2>1 DEF Steady
  <2> QED BY <1>3, <1>4, <1>7, <1>12, <2>2 DEF Steady
<1> QED BY <1>4, <1>5, <1>11, <1>12 DEF GoesOn

\* A step of run r that replaces its top frame, when it observed no less than before.
LEMMA TopStep ==
  ASSUME IndexInv, NEW r \in Runs, NEW me, me = run[r], me.pc = "work", me.stack # <<>>,
         NEW o, IsRun(o), Observing(me, o, disk),
         NEW f \in Frames, f.module = me.stack[1].module, FrameOK(o, f, disk, snaps), Linked(me, f),
         FrameSteady(me.stack[1], heads, disk) => FrameSteady(f, heads, disk),
         Set(r, SetTop(o, f)), UNCHANGED <<disk, edits, heads, snaps, checkpoints>>
  PROVE  IndexInv'
<1>1. PICK key, n, new : key = Targets[r] /\ n = Changes(r, edits, snaps) /\ new = SetTop(o, f)
  OBVIOUS
<1>2. /\ disk \in [Modules -> Versions] /\ snaps \in Seq(SnapRows) /\ key \in Seq(Modules)
      /\ IsRun(me) /\ RunOK(me, key, disk, snaps) /\ Counted(r, me, n, heads, disk, snaps)
  BY <1>1, Before
<1>3. WorkOK(me, key, disk, snaps) /\ Points(me.results, snaps) /\ Points(me.memo, snaps)
  BY <1>2 DEF RunOK
<1>4. WorkOK(o, key, disk, snaps) /\ Points(o.results, snaps) /\ GoesOn(me, o, heads, disk, snaps)
  BY <1>2, <1>3, WorkObserved
<1>5. o.stack # <<>> /\ o.stack = me.stack /\ f.module = o.stack[1].module /\ Linked(o, f)
  BY DEF Observing, Linked
<1>6. IsRun(new) /\ WorkOK(new, key, disk, snaps) /\ GoesOn(o, new, heads, disk, snaps)
  <2>1. FrameSteady(o.stack[1], heads, disk) => FrameSteady(f, heads, disk)
    BY <1>5
  <2> QED BY <1>1, <1>2, <1>4, <1>5, <2>1, TopWorks
<1>7. GoesOn(me, new, heads, disk, snaps)
  BY <1>4, <1>6 DEF GoesOn
<1>8. Counted(r, new, n, heads, disk, snaps)
  BY <1>2, <1>7, StillCounted
<1>9. RunOK(new, key, disk, snaps)
  BY <1>3, <1>6, <1>7 DEF RunOK, GoesOn
<1> QED BY <1>1, <1>6, <1>8, <1>9, OwnStep

\* A frame of module d goes on the stack: of a target, or of what the top frame requires.
LEMMA PushWorks ==
  ASSUME NEW me, NEW new, NEW key \in Seq(Modules), NEW dk \in [Modules -> Versions], NEW sn \in Seq(SnapRows),
         NEW hd, IsRun(me), WorkOK(me, key, dk, sn), Points(me.results, sn), NEW d \in Modules, Begins(me, d),
         new = [me EXCEPT !.stack = <<Frame(d)>> \o me.stack]
  PROVE  IsRun(new) /\ WorkOK(new, key, dk, sn) /\ GoesOn(me, new, hd, dk, sn)
<1>1. PICK f : f = Frame(d)
  OBVIOUS
<1>2. /\ f \in Frames /\ f.module = d /\ f.step = "read" /\ f.reuse = 0
      /\ \A m \in Modules : f.links[m] = 0
  <2>1. NoSnapshots \in [Modules -> Nat] /\ \A m \in Modules : NoSnapshots[m] = 0
    BY DEF NoSnapshots
  <2>2. NoInputs \in [Modules -> Shapes]
    BY DEF NoInputs, Shapes
  <2>3. "read" \in FrameSteps /\ None \in Versions \cup {None}
    BY DEF FrameSteps
  <2> QED BY <1>1, <2>1, <2>2, <2>3 DEF Frames, Frame
<1>3. PICK stack : stack = <<f>> \o me.stack
  OBVIOUS
<1>4. me.stack \in Seq(Frames) /\ Len(me.stack) \in Nat /\ me.left \in Seq(Modules)
  BY DEF IsRun
<1>5. /\ stack \in Seq(Frames) /\ Len(stack) = Len(me.stack) + 1 /\ stack[1] = f
      /\ \A i \in 1..Len(me.stack) : stack[i + 1] = me.stack[i]
  <2>1. f \in Frames /\ me.stack \in Seq(Frames)
    BY <1>2, <1>4
  <2> QED BY <1>3, <2>1, Pushed, SMTT(30)
<1>6. /\ Shaped(new) /\ new.stack = stack /\ new.pc = me.pc /\ new.left = me.left /\ new.memo = me.memo
      /\ new.attempt = me.attempt /\ new.inputs = me.inputs /\ new.eligible = me.eligible
      /\ new.results = me.results /\ new.failed = me.failed
  BY <1>1, <1>3 DEF IsRun, Shaped
<1>7. IsRun(new)
  BY <1>5, <1>6 DEF IsRun
<1>8. Later(me, new) /\ NewerDisk(dk, dk) /\ Grown(sn, sn)
  BY <1>6, GrownSelf DEF Later
<1>9. \A i \in 1..Len(stack) : i # 1 => /\ i - 1 \in 1..Len(me.stack) /\ i > 1
                                        /\ stack[i] = me.stack[i - 1]
  <2>1. SUFFICES ASSUME NEW i \in 1..Len(stack), i # 1
                 PROVE  i - 1 \in 1..Len(me.stack) /\ i > 1 /\ stack[i] = me.stack[i - 1]
    OBVIOUS
  <2>2. i - 1 \in 1..Len(me.stack) /\ i > 1 /\ (i - 1) + 1 = i
    BY <1>4, <1>5, <2>1
  <2> QED BY <1>5, <2>2
<1>10. StackOK(me)
  BY DEF WorkOK
<1>11. StackOK(new)
  <2>1. new.left # <<>> /\ new.stack[Len(new.stack)].module = new.left[1]
    <3>1. CASE me.stack = <<>>
      <4>1. Len(me.stack) = 0
        BY <3>1
      <4>2. Len(stack) = 1
        BY <1>5, <4>1
      <4> QED BY <1>2, <1>5, <1>6, <3>1, <4>2 DEF Begins
    <3>2. CASE me.stack # <<>>
      <4>1. Len(me.stack) \in 1..Len(me.stack) /\ Len(stack) = Len(me.stack) + 1
        BY <1>4, <1>5, <3>2, Below
      <4>2. stack[Len(stack)] = me.stack[Len(me.stack)]
        BY <1>5, <4>1
      <4> QED BY <1>6, <1>10, <3>2, <4>2 DEF StackOK
    <3> QED BY <3>1, <3>2
  <2>2. ASSUME NEW i \in 1..Len(stack), i > 1 PROVE stack[i].step = "deps"
    <3>1. i - 1 \in 1..Len(me.stack) /\ stack[i] = me.stack[i - 1] /\ me.stack # <<>>
      BY <1>9, <2>2
    <3>2. CASE i = 2
      BY <3>1, <3>2 DEF Begins
    <3>3. CASE i # 2
      <4>1. i - 1 > 1
        BY <2>2, <3>3
      <4> QED BY <1>10, <3>1, <4>1 DEF StackOK
    <3> QED BY <3>2, <3>3
  <2>3. ASSUME NEW i \in 1..Len(stack), i < Len(stack) PROVE me.memo[stack[i].module] = 0
    <3>1. CASE i = 1
      <4>1. Len(me.stack) # 0
        BY <1>4, <1>5, <2>3, <3>1
      <4>2. me.stack # <<>>
        BY <4>1
      <4> QED BY <1>2, <1>5, <3>1, <4>2 DEF Begins
    <3>2. CASE i # 1
      <4>1. i - 1 \in 1..Len(me.stack) /\ stack[i] = me.stack[i - 1]
        BY <1>9, <3>2
      <4>2. i - 1 < Len(me.stack)
        BY <1>4, <1>5, <2>3
      <4> QED BY <1>10, <4>1, <4>2 DEF StackOK
    <3> QED BY <3>1, <3>2
  <2>4. ASSUME NEW i \in 1..Len(stack), NEW m \in Modules, stack[i].links[m] # 0
        PROVE  me.memo[m] = stack[i].links[m]
    <3>1. i - 1 \in 1..Len(me.stack) /\ stack[i] = me.stack[i - 1]
      BY <1>2, <1>5, <1>9, <2>4
    <3> QED BY <1>10, <2>4, <3>1 DEF StackOK
  <2>5. ASSUME NEW i \in 1..Len(stack), NEW j \in 1..Len(stack), i < j
        PROVE  Height[stack[i].module] < Height[stack[j].module]
    <3>1. j - 1 \in 1..Len(me.stack) /\ stack[j] = me.stack[j - 1] /\ me.stack # <<>>
      <4>1. j # 1
        BY <1>4, <1>5, <2>5
      <4> QED BY <1>9, <4>1
    <3>2. CASE i = 1
      <4>1. me.stack[1] \in Frames /\ me.stack[j - 1] \in Frames /\ 1 \in 1..Len(me.stack)
        BY <1>4, <3>1, SMTT(30)
      <4>2. Height[d] < Height[me.stack[1].module]
        BY <3>1, <4>1, HeightIs DEF Frames, Begins
      <4>3. j - 1 = 1 \/ Height[me.stack[1].module] < Height[me.stack[j - 1].module]
        <5>1. j - 1 = 1 \/ 1 < j - 1
          BY <3>1
        <5> QED BY <1>10, <3>1, <4>1, <5>1 DEF StackOK
      <4>4. Height[d] \in Int /\ Height[me.stack[1].module] \in Int /\ Height[me.stack[j - 1].module] \in Int
        <5>1. Height \in [Modules -> 1..Cardinality(Modules)]
          BY HeightIs
        <5>2. me.stack[1].module \in Modules /\ me.stack[j - 1].module \in Modules
          BY <4>1 DEF Frames
        <5> QED BY <5>1, <5>2
      <4>5. stack[i].module = d /\ stack[j].module = me.stack[j - 1].module
        BY <1>2, <1>5, <3>1, <3>2
      <4>6. Height[d] < Height[me.stack[j - 1].module]
        BY <4>2, <4>3, <4>4, SMTT(30)
      <4> QED BY <4>5, <4>6
    <3>3. CASE i # 1
      <4>1. i - 1 \in 1..Len(me.stack) /\ stack[i] = me.stack[i - 1] /\ i - 1 < j - 1
        BY <1>9, <2>5, <3>3
      <4> QED BY <1>10, <3>1, <4>1 DEF StackOK
    <3> QED BY <3>2, <3>3
  <2>6. \A i \in 1..Len(stack) :
          /\ i > 1 => stack[i].step = "deps"
          /\ i < Len(stack) => me.memo[stack[i].module] = 0
          /\ \A m \in Modules : stack[i].links[m] # 0 => me.memo[m] = stack[i].links[m]
          /\ \A j \in 1..Len(stack) : i < j => Height[stack[i].module] < Height[stack[j].module]
    BY <2>2, <2>3, <2>4, <2>5
  <2>7. \A i \in 1..Len(new.stack) :
          /\ i > 1 => new.stack[i].step = "deps"
          /\ i < Len(new.stack) => new.memo[new.stack[i].module] = 0
          /\ \A m \in Modules : new.stack[i].links[m] # 0 => new.memo[m] = new.stack[i].links[m]
          /\ \A j \in 1..Len(new.stack) : i < j => Height[new.stack[i].module] < Height[new.stack[j].module]
    <3>1. new.stack = stack /\ new.memo = me.memo
      BY <1>6
    <3> QED BY ONLY <2>6, <3>1
  <2> QED BY <2>1, <2>7 DEF StackOK
<1>12. ASSUME NEW i \in 1..Len(new.stack) PROVE FrameOK(new, new.stack[i], dk, sn)
  <2>1. CASE i = 1
    <3>1. Points(f.links, sn)
      BY <1>2 DEF Points
    <3> QED BY <1>2, <1>5, <1>6, <2>1, <3>1 DEF FrameOK
  <2>2. CASE i # 1
    <3>1. i - 1 \in 1..Len(me.stack) /\ new.stack[i] = me.stack[i - 1]
      BY <1>6, <1>9, <2>2
    <3>2. new.stack[i] \in Frames /\ FrameOK(me, new.stack[i], dk, sn)
      BY <1>4, <3>1 DEF WorkOK
    <3> QED BY <1>8, <3>2, FrameStays
  <2> QED BY <2>1, <2>2
<1>13. WorkOK(new, key, dk, sn)
  BY <1>6, <1>8, <1>11, <1>12, WorkMoves
<1>14. ASSUME Steady(me, hd, dk, sn) PROVE Steady(new, hd, dk, sn)
  <2>1. ASSUME NEW i \in 1..Len(stack) PROVE FrameSteady(stack[i], hd, dk)
    <3>1. CASE i = 1
      BY <1>2, <1>5, <3>1 DEF FrameSteady
    <3>2. CASE i # 1
      BY <1>9, <1>14, <3>2 DEF Steady
    <3> QED BY <3>1, <3>2
  <2> QED BY <1>6, <1>14, <2>1 DEF Steady
<1> QED BY <1>6, <1>7, <1>13, <1>14 DEF GoesOn

\* A run whose inputs changed forgets what it knows and starts the target over, or goes on
\* to the next one: something changed since its attempt began.
LEMMA ChangedWorks ==
  ASSUME NEW r, NEW me, NEW new, NEW key \in Seq(Modules), NEW n \in Nat, NEW hd,
         NEW dk \in [Modules -> Versions], NEW sn \in Seq(SnapRows),
         IsRun(me), WorkOK(me, key, dk, sn), Points(me.results, sn), me.stack # <<>>, me.pc = "work",
         Counted(r, me, n, hd, dk, sn), n # me.attempt - 1, new = Changed(me)
  PROVE  /\ IsRun(new) /\ WorkOK(new, key, dk, sn) /\ Points(new.memo, sn)
         /\ new.pc = me.pc /\ new.results = me.results
         /\ Counted(r, new, n, hd, dk, sn)
<1>1. /\ me.left \in Seq(Modules) /\ me.left # <<>> /\ me.attempt \in 1..IndexAttempts
      /\ IndexAttempts \in Nat /\ me.attempt \in Int /\ Len(key) \in Nat
  BY IndexRunConstants DEF IsRun, WorkOK, StackOK
<1>2. n >= me.attempt
  <2>1. PICK a \in Int : a = me.attempt
    BY <1>1
  <2>2. n >= a - 1 /\ n # a - 1
    BY <2>1 DEF Counted
  <2>3. n >= a
    BY <2>2
  <2> QED BY <2>1, <2>3
<1>3. NoSnapshots \in [Modules -> Nat] /\ \A m \in Modules : NoSnapshots[m] = 0
  BY DEF NoSnapshots
<1>4. Len(me.left) \in Nat \ {0} /\ Tail(me.left) \in Seq(Modules) /\ Len(Tail(me.left)) = Len(me.left) - 1
  BY <1>1, Below
<1>5. /\ Shaped(new) /\ new.pc = me.pc /\ new.stack = <<>> /\ new.memo = NoSnapshots
      /\ new.inputs = me.inputs /\ new.eligible = me.eligible /\ new.results = me.results
      /\ \/ new.attempt = me.attempt + 1 /\ me.attempt < IndexAttempts /\ new.left = me.left /\ new.failed = me.failed
         \/ /\ new.attempt = 1 /\ ~(me.attempt < IndexAttempts)
            /\ new.left = Tail(me.left) /\ new.failed = me.failed \cup {Head(me.left)}
  <2>1. CASE me.attempt < IndexAttempts
    BY <2>1 DEF IsRun, Shaped, Changed
  <2>2. CASE ~(me.attempt < IndexAttempts)
    BY <2>2 DEF IsRun, Shaped, Changed
  <2> QED BY <2>1, <2>2
<1>6. IsRun(new)
  <2>1. new.attempt \in 1..IndexAttempts
    BY <1>1, <1>5
  <2>2. new.left \in Seq(Modules)
    BY <1>1, <1>4, <1>5
  <2>3. new.failed \subseteq Modules
    <3>1. Head(me.left) \in Modules
      BY <1>1, Below
    <3> QED BY <1>5, <3>1 DEF IsRun
  <2>4. new.stack \in Seq(Frames)
    BY <1>5
  <2> QED BY <1>3, <1>5, <2>1, <2>2, <2>3, <2>4 DEF IsRun
<1>7. Points(new.memo, sn)
  <2>1. 0 \in 0..Len(sn)
    OBVIOUS
  <2> QED BY <1>3, <1>5, <2>1 DEF Points
<1>8. WorkOK(new, key, dk, sn)
  <2>1. \A m \in Modules : new.inputs[m] # None => new.inputs[m] <= dk[m]
    BY <1>5 DEF WorkOK
  <2>2. MemoOK(new, sn)
    BY <1>3, <1>5, <1>7 DEF MemoOK
  <2>3. StackOK(new) /\ Len(new.stack) = 0
    BY <1>5 DEF StackOK
  <2>4. LeftOK(new, key)
    <3>1. LeftOK(me, key)
      BY DEF WorkOK
    <3>2. CASE new.left = me.left
      BY <3>1, <3>2 DEF LeftOK
    <3>3. CASE new.left = Tail(me.left)
      <4>1. Len(new.left) = Len(me.left) - 1 /\ Len(new.left) <= Len(key)
        BY <1>1, <1>4, <3>1, <3>3 DEF LeftOK
      <4>2. ASSUME NEW i \in 1..Len(new.left) PROVE new.left[i] = key[Len(key) - Len(new.left) + i]
        <5>1. i + 1 \in 1..Len(me.left) /\ i \in 1..(Len(me.left) - 1)
          BY <1>4, <4>1
        <5>2. new.left[i] = me.left[i + 1]
          BY <1>1, <3>3, <5>1, Below
        <5>3. me.left[i + 1] = key[Len(key) - Len(me.left) + (i + 1)]
          BY <3>1, <5>1 DEF LeftOK
        <5>4. Len(key) - Len(me.left) + (i + 1) = Len(key) - Len(new.left) + i
          BY <1>1, <1>4, <4>1
        <5> QED BY <5>2, <5>3, <5>4
      <4> QED BY <4>1, <4>2 DEF LeftOK
    <3> QED BY <1>5, <3>2, <3>3
  <2>5. DoneOK(new, key, dk, sn)
    <3>1. CASE new.failed = me.failed /\ new.left = me.left
      <4>1. ASSUME new.eligible, new.failed = {}, NEW t \in 1..(Len(key) - Len(new.left)) PROVE Good(new, key[t], dk, sn)
        <5>1. Good(me, key[t], dk, sn)
          BY <1>5, <3>1, <4>1 DEF WorkOK, DoneOK
        <5> QED BY <1>5, <5>1 DEF Good, Fresh, Seen
      <4> QED BY <4>1 DEF DoneOK
    <3>2. CASE new.failed = me.failed \cup {Head(me.left)}
      BY <3>2 DEF DoneOK
    <3> QED BY <1>5, <3>1, <3>2
  <2> QED BY <2>1, <2>2, <2>3, <2>4, <2>5 DEF WorkOK
<1>9. Counted(r, new, n, hd, dk, sn)
  <2>1. new.failed # {} => n >= IndexAttempts
    <3>1. me.failed # {} => n >= IndexAttempts
      BY DEF Counted
    <3>2. ~(me.attempt < IndexAttempts) => n >= IndexAttempts
      BY <1>1, <1>2
    <3> QED BY <1>5, <3>1, <3>2
  <2>2. n >= new.attempt - 1
    BY <1>1, <1>2, <1>5
  <2>3. Steady(new, hd, dk, sn)
    <3>1. Len(new.stack) = 0
      BY <1>5
    <3> QED BY <1>3, <1>5, <3>1 DEF Steady
  <2> QED BY <1>5, <2>1, <2>2, <2>3 DEF Counted
<1> QED BY <1>5, <1>6, <1>7, <1>8, <1>9

LEMMA ChangedStep ==
  ASSUME IndexInv, NEW r \in Runs, run[r].pc = "work", run[r].stack # <<>>,
         Changes(r, edits, snaps) \in Nat, ~Steady(run[r], heads, disk, snaps),
         Set(r, Changed(run[r])), UNCHANGED <<disk, edits, heads, snaps, checkpoints>>
  PROVE  IndexInv'
<1>1. PICK me, new, key, n : me = run[r] /\ new = Changed(run[r]) /\ key = Targets[r] /\ n = Changes(r, edits, snaps)
  OBVIOUS
<1>2. /\ disk \in [Modules -> Versions] /\ snaps \in Seq(SnapRows) /\ key \in Seq(Modules)
      /\ IsRun(me) /\ RunOK(me, key, disk, snaps) /\ Counted(r, me, n, heads, disk, snaps)
  BY <1>1, Before
<1>3. WorkOK(me, key, disk, snaps) /\ Points(me.results, snaps) /\ me.pc = "work"
  BY <1>1, <1>2 DEF RunOK
<1>4. n # me.attempt - 1
  BY <1>1, <1>2, <1>3 DEF Counted
<1>5. n \in Nat /\ me.stack # <<>> /\ new = Changed(me)
  BY <1>1
<1>6. /\ IsRun(new) /\ WorkOK(new, key, disk, snaps) /\ Points(new.memo, snaps)
      /\ new.pc = me.pc /\ new.results = me.results
      /\ Counted(r, new, n, heads, disk, snaps)
  BY <1>2, <1>3, <1>4, <1>5, ChangedWorks, ZenonT(40)
<1>7. RunOK(new, key, disk, snaps)
  BY <1>3, <1>6 DEF RunOK
<1> QED BY <1>1, <1>6, <1>7, OwnStep

\* A run that published or confirmed the module on top remembers its snapshot, and the
\* target is done when that was the module at the bottom.
LEMMA FinishedWorks ==
  ASSUME NEW r, NEW me, NEW key, NEW n, NEW hd, NEW hd2, NEW dk, NEW sn, NEW sn2, NEW m0, NEW id, NEW new,
         Works(r, me, key, n, hd, dk, sn), Confirms(me, m0, id, hd, hd2, dk, sn2), Grown(sn, sn2),
         new = Finished(me, me.stack[1], id)
  PROVE  Works(r, new, key, n, hd2, dk, sn2) /\ Points(new.memo, sn2)
<1>typed. /\ key \in Seq(Modules) /\ n \in Nat /\ dk \in [Modules -> Versions] /\ sn \in Seq(SnapRows)
          /\ sn2 \in Seq(SnapRows) /\ m0 \in Modules /\ m0 = me.stack[1].module /\ me.stack # <<>>
  BY DEF Works, Confirms
<1>works. /\ IsRun(me) /\ WorkOK(me, key, dk, sn) /\ Points(me.results, sn) /\ me.pc = "work"
          /\ Counted(r, me, n, hd, dk, sn)
  BY DEF Works
<1>confirms. /\ id \in 1..Len(sn2) /\ sn2[id].module = m0 /\ sn2[id].content = dk[m0]
             /\ me.eligible => me.inputs[m0] # None
             /\ \A x \in Needs(m0) : Seen(me, dk, sn2[id].seen, x, 0)
             /\ hd2[m0] = id /\ \A x \in Modules : x # m0 => hd2[x] = hd[x]
  BY DEF Confirms
<1>1. /\ me.stack \in Seq(Frames) /\ Len(me.stack) \in Nat \ {0} /\ me.left \in Seq(Modules) /\ me.left # <<>>
      /\ me.memo \in [Modules -> Nat] /\ me.results \in [Modules -> Nat]
      /\ Len(sn) \in Nat /\ Len(sn2) \in Nat /\ id \in Nat /\ id # 0 /\ Len(key) \in Nat /\ StackOK(me)
  <2>1. /\ me.stack \in Seq(Frames) /\ me.left \in Seq(Modules)
        /\ me.memo \in [Modules -> Nat] /\ me.results \in [Modules -> Nat] /\ StackOK(me)
    BY <1>works DEF IsRun, WorkOK
  <2>2. me.left # <<>>
    BY <1>typed, <2>1 DEF StackOK
  <2>3. Len(me.stack) \in Nat \ {0}
    BY <1>typed, <2>1, Below
  <2>4. Len(sn) \in Nat /\ Len(sn2) \in Nat /\ id \in Nat /\ id # 0 /\ Len(key) \in Nat
    BY <1>confirms
  <2> QED BY <2>1, <2>2, <2>3, <2>4
<1>2. PICK stack : stack = Tail(me.stack)
  OBVIOUS
<1>3. /\ stack \in Seq(Frames) /\ Len(stack) = Len(me.stack) - 1
      /\ \A i \in 1..Len(stack) : /\ stack[i] = me.stack[i + 1] /\ i + 1 \in 1..Len(me.stack) /\ i + 1 > 1
                                  /\ 1 \in 1..Len(me.stack) /\ i < i + 1
  <2>1. stack \in Seq(Frames) /\ Len(stack) = Len(me.stack) - 1
    BY <1>1, <1>2, Below
  <2>2. ASSUME NEW i \in 1..Len(stack) PROVE stack[i] = me.stack[i + 1]
    BY <1>1, <1>2, <2>1, Below
  <2>3. \A i \in 1..Len(stack) : i + 1 \in 1..Len(me.stack) /\ i + 1 > 1 /\ 1 \in 1..Len(me.stack) /\ i < i + 1
    BY <1>1, <2>1
  <2> QED BY <2>1, <2>2, <2>3
<1>4. Len(me.left) \in Nat \ {0} /\ Tail(me.left) \in Seq(Modules) /\ Len(Tail(me.left)) = Len(me.left) - 1
  BY <1>1, Below
<1>5. PICK memo, results : /\ memo = [me.memo EXCEPT ![m0] = id]
                           /\ results = [me.results EXCEPT ![m0] = id]
  OBVIOUS
<1>6. /\ Shaped(new) /\ new.pc = me.pc /\ new.stack = stack /\ new.memo = memo
      /\ new.inputs = me.inputs /\ new.eligible = me.eligible /\ new.failed = me.failed
      /\ \/ Len(me.stack) > 1 /\ new.results = me.results /\ new.left = me.left /\ new.attempt = me.attempt
         \/ ~(Len(me.stack) > 1) /\ new.results = results /\ new.left = Tail(me.left) /\ new.attempt = 1
  <2>1. CASE Len(me.stack) > 1
    BY <1>typed, <1>works, <1>2, <1>5, <2>1 DEF IsRun, Shaped, Finished
  <2>2. CASE ~(Len(me.stack) > 1)
    BY <1>typed, <1>works, <1>2, <1>5, <2>2 DEF IsRun, Shaped, Finished
  <2> QED BY <2>1, <2>2
<1>7. /\ memo \in [Modules -> Nat] /\ memo[m0] = id /\ \A m \in Modules : m # m0 => memo[m] = me.memo[m]
      /\ results \in [Modules -> Nat] /\ results[m0] = id /\ \A m \in Modules : m # m0 => results[m] = me.results[m]
  BY <1>typed, <1>1, <1>5
<1>8. IsRun(new)
  <2>1. 1 \in 1..IndexAttempts
    BY IndexRunConstants
  <2>2. new.left \in Seq(Modules) /\ new.attempt \in 1..IndexAttempts /\ new.results \in [Modules -> Nat]
    BY <1>works, <1>1, <1>4, <1>6, <1>7, <2>1 DEF IsRun
  <2> QED BY <1>works, <1>3, <1>6, <1>7, <2>2 DEF IsRun
<1>9. Later(me, new) /\ NewerDisk(dk, dk)
  BY <1>typed, <1>6, GrownSelf DEF Later
<1>10. Points(new.memo, sn2) /\ Points(results, sn2) /\ Points(me.results, sn2) /\ Points(me.memo, sn2) /\ Points(new.results, sn2)
  <2>1. Points(me.memo, sn2) /\ Points(me.results, sn2)
    <3>1. Points(me.memo, sn)
      BY <1>works DEF WorkOK, MemoOK
    <3> QED BY <1>1, <1>works, <3>1, PointsStay
  <2>2. id \in 0..Len(sn2) /\ sn2[id].module = m0
    BY <1>confirms, <1>1
  <2>3. Points(memo, sn2) /\ Points(results, sn2)
    BY <1>7, <2>1, <2>2 DEF Points
  <2> QED BY <1>6, <2>1, <2>3
<1>11. MemoOK(new, sn2)
  <2>1. ASSUME new.eligible, NEW m \in Modules, new.memo[m] # 0 PROVE Fresh(new, new.memo[m], m, sn2)
    <3>1. CASE m = m0
      <4>1. me.inputs[m0] # None /\ me.inputs[m0] <= dk[m0]
        BY <1>typed, <1>works, <1>confirms, <1>6, <2>1 DEF WorkOK
      <4> QED BY <1>confirms, <1>6, <1>7, <3>1, <4>1 DEF Fresh
    <3>2. CASE m # m0
      <4>1. PICK i \in Nat : i = me.memo[m]
        BY <1>1
      <4>2. new.memo[m] = i /\ i # 0
        BY <1>6, <1>7, <2>1, <3>2, <4>1
      <4>3. MemoOK(me, sn)
        BY <1>works DEF WorkOK
      <4>4. Fresh(me, i, m, sn) /\ i \in 1..Len(sn)
        BY <1>1, <1>6, <2>1, <4>1, <4>2, <4>3 DEF MemoOK, Points
      <4>5. sn2[i] = sn[i]
        BY <4>4 DEF Grown
      <4> QED BY <1>6, <4>2, <4>4, <4>5 DEF Fresh
    <3> QED BY <3>1, <3>2
  <2> QED BY <1>10, <2>1 DEF MemoOK
<1>12. StackOK(new)
  <2>1. new.stack # <<>> => new.left # <<>> /\ new.stack[Len(new.stack)].module = new.left[1]
    <3>1. SUFFICES ASSUME stack # <<>> PROVE new.left # <<>> /\ stack[Len(stack)].module = new.left[1]
      BY <1>6
    <3>2. Len(stack) \in 1..Len(stack) /\ Len(stack) + 1 = Len(me.stack) /\ Len(me.stack) > 1
      BY <1>1, <1>3, <3>1, Below
    <3>3. stack[Len(stack)] = me.stack[Len(me.stack)]
      BY <1>3, <3>2
    <3>4. new.left = me.left
      BY <1>6, <3>2
    <3> QED BY <1>1, <3>3, <3>4 DEF StackOK
  <2>2. ASSUME NEW i \in 1..Len(stack)
        PROVE  /\ stack[i].step = "deps"
               /\ i < Len(stack) => me.memo[stack[i].module] = 0
               /\ \A d \in Modules : stack[i].links[d] # 0 => me.memo[d] = stack[i].links[d]
               /\ stack[i].module # m0 /\ stack[i].module \in Modules /\ me.memo[m0] = 0
               /\ \A j \in 1..Len(stack) : i < j => Height[stack[i].module] < Height[stack[j].module]
    <3>1. stack[i] = me.stack[i + 1] /\ i + 1 \in 1..Len(me.stack) /\ i + 1 > 1 /\ 1 \in 1..Len(me.stack) /\ 1 < i + 1
      BY <1>3
    <3>2. stack[i].step = "deps" /\ \A d \in Modules : stack[i].links[d] # 0 => me.memo[d] = stack[i].links[d]
      BY <1>1, <3>1 DEF StackOK
    <3>3. ASSUME i < Len(stack) PROVE me.memo[stack[i].module] = 0
      <4>1. i + 1 < Len(me.stack)
        BY <1>1, <1>3, <3>3
      <4> QED BY <1>1, <3>1, <4>1 DEF StackOK
    <3>4. stack[i].module \in Modules
      <4>1. stack \in Seq(Frames)
        BY <1>3
      <4>2. stack[i] \in Frames
        BY <4>1
      <4> QED BY <4>2 DEF Frames
    <3>5. stack[i].module # m0
      <4>1. Height[m0] < Height[stack[i].module]
        BY <1>typed, <1>1, <3>1 DEF StackOK
      <4>2. Height[m0] \in Int
        BY <1>typed, HeightIs
      <4> QED BY <4>1, <4>2
    <3>6. me.memo[m0] = 0
      <4>1. 1 < Len(me.stack)
        BY <1>1, <3>1
      <4> QED BY <1>typed, <1>1, <3>1, <4>1 DEF StackOK
    <3>7. ASSUME NEW j \in 1..Len(stack), i < j PROVE Height[stack[i].module] < Height[stack[j].module]
      <4>1. stack[j] = me.stack[j + 1] /\ j + 1 \in 1..Len(me.stack) /\ i + 1 < j + 1
        BY <1>3, <3>7
      <4> QED BY <1>1, <3>1, <4>1 DEF StackOK
    <3> QED BY <3>2, <3>3, <3>4, <3>5, <3>6, <3>7
  <2>3. ASSUME NEW i \in 1..Len(stack)
        PROVE  /\ i > 1 => stack[i].step = "deps"
               /\ i < Len(stack) => memo[stack[i].module] = 0
               /\ \A d \in Modules : stack[i].links[d] # 0 => memo[d] = stack[i].links[d]
               /\ \A j \in 1..Len(stack) : i < j => Height[stack[i].module] < Height[stack[j].module]
    <3>1. stack[i].module \in Modules /\ stack[i].module # m0 /\ me.memo[m0] = 0
      BY <2>2
    <3>2. i < Len(stack) => memo[stack[i].module] = 0
      BY <1>7, <2>2, <3>1
    <3>3. ASSUME NEW d \in Modules, stack[i].links[d] # 0 PROVE memo[d] = stack[i].links[d]
      <4>1. me.memo[d] = stack[i].links[d]
        BY <2>2, <3>3
      <4>2. d # m0
        BY <3>1, <3>3, <4>1
      <4> QED BY <1>7, <4>1, <4>2
    <3> QED BY <2>2, <3>2, <3>3
  <2>4. \A i \in 1..Len(new.stack) :
          /\ i > 1 => new.stack[i].step = "deps"
          /\ i < Len(new.stack) => new.memo[new.stack[i].module] = 0
          /\ \A d \in Modules : new.stack[i].links[d] # 0 => new.memo[d] = new.stack[i].links[d]
          /\ \A j \in 1..Len(new.stack) : i < j => Height[new.stack[i].module] < Height[new.stack[j].module]
    <3>1. new.stack = stack /\ new.memo = memo
      BY <1>6
    <3> QED BY <2>3, <3>1
  <2> QED BY <2>1, <2>4 DEF StackOK
<1>13. ASSUME NEW i \in 1..Len(new.stack) PROVE FrameOK(new, new.stack[i], dk, sn2)
  <2>1. i + 1 \in 1..Len(me.stack) /\ new.stack[i] = me.stack[i + 1]
    BY <1>3, <1>6
  <2>2. new.stack[i] \in Frames /\ FrameOK(me, new.stack[i], dk, sn)
    BY <1>works, <1>1, <2>1 DEF WorkOK
  <2> QED BY <1>typed, <1>9, <2>2, FrameStays
<1>14. LeftOK(me, key)
  BY <1>works DEF WorkOK
<1>15. LeftOK(new, key)
  <2>1. CASE new.left = me.left
    BY <1>14, <2>1 DEF LeftOK
  <2>2. CASE new.left = Tail(me.left)
    <3>1. Len(new.left) = Len(me.left) - 1 /\ Len(new.left) <= Len(key)
      BY <1>1, <1>4, <1>14, <2>2 DEF LeftOK
    <3>2. ASSUME NEW i \in 1..Len(new.left) PROVE new.left[i] = key[Len(key) - Len(new.left) + i]
      <4>1. i + 1 \in 1..Len(me.left) /\ i \in 1..(Len(me.left) - 1)
        BY <1>4, <3>1
      <4>2. new.left[i] = me.left[i + 1]
        BY <1>1, <2>2, <4>1, Below
      <4>3. me.left[i + 1] = key[Len(key) - Len(me.left) + (i + 1)]
        BY <1>14, <4>1 DEF LeftOK
      <4>4. Len(key) - Len(me.left) + (i + 1) = Len(key) - Len(new.left) + i
        <5>1. Len(key) \in Int /\ Len(me.left) \in Int /\ i \in Int /\ Len(new.left) = Len(me.left) - 1
          BY <1>1, <1>4, <3>1
        <5> QED BY <5>1
      <4> QED BY <4>2, <4>3, <4>4
    <3> QED BY <3>1, <3>2 DEF LeftOK
  <2> QED BY <1>6, <2>1, <2>2
<1>16. ASSUME new.eligible, new.failed = {}, NEW t \in 1..(Len(key) - Len(new.left)) PROVE Good(new, key[t], dk, sn2)
  <2>1. t \in 1..Len(key) /\ key[t] \in Modules
    <3>1. t \in 1..Len(key)
      <4>1. Len(new.left) \in Nat
        BY <1>works, <1>8 DEF IsRun
      <4> QED BY <1>1, <4>1
    <3> QED BY <1>typed, <3>1
  <2>2. ASSUME new.results[key[t]] = me.results[key[t]], t \in 1..(Len(key) - Len(me.left))
        PROVE  Good(new, key[t], dk, sn2)
    <3>1. Good(me, key[t], dk, sn)
      BY <1>works, <1>6, <1>16, <2>2 DEF WorkOK, DoneOK
    <3> QED BY <1>typed, <1>9, <1>works, <2>1, <2>2, <3>1, GoodStays
  <2>3. CASE new.results = me.results /\ new.left = me.left
    BY <1>16, <2>2, <2>3
  <2>4. CASE ~(Len(me.stack) > 1)
    <3>1. new.results = results /\ new.left = Tail(me.left) /\ Len(me.stack) = 1
      <4>1. Len(me.stack) = 1
        <5>1. PICK k \in Nat \ {0} : k = Len(me.stack)
          BY <1>1
        <5>2. ~(k > 1)
          BY <2>4, <5>1
        <5>3. k = 1
          BY <5>2
        <5> QED BY <5>1, <5>3
      <4> QED BY <1>6, <2>4, <4>1
    <3>2. CASE key[t] = m0
      <4>1. new.results[key[t]] = id
        BY <1>7, <3>1, <3>2
      <4>2. me.inputs[m0] # None /\ me.inputs[m0] <= dk[m0]
        BY <1>typed, <1>works, <1>confirms, <1>6, <1>16 DEF WorkOK
      <4>3. Fresh(new, id, m0, sn2)
        BY <1>confirms, <1>6, <4>2 DEF Fresh
      <4>4. \A x \in Needs(m0) : Seen(new, dk, sn2[id].seen, x, 0)
        BY <1>confirms, <1>6 DEF Seen
      <4> QED BY <1>1, <3>2, <4>1, <4>3, <4>4 DEF Good
    <3>3. CASE key[t] # m0
      <4>1. new.results[key[t]] = me.results[key[t]]
        BY <1>7, <2>1, <3>1, <3>3
      <4>2. PICK left \in Nat : left = Len(me.left)
        BY <1>4
      <4>3. t # Len(key) - left + 1
        <5>1. me.stack[1].module = me.left[1]
          BY <1>1, <3>1 DEF StackOK
        <5>2. 1 \in 1..Len(me.left)
          BY <1>4
        <5>3. me.left[1] = key[Len(key) - Len(me.left) + 1]
          BY <1>14, <5>2 DEF LeftOK
        <5> QED BY <1>typed, <3>3, <4>2, <5>1, <5>3
      <4>4. t \in Int /\ 1 <= t /\ t <= Len(key) - (left - 1)
        <5>1. Len(new.left) = left - 1 /\ Len(key) \in Int /\ left \in Int
          BY <1>1, <1>4, <3>1, <4>2
        <5>2. t \in 1..(Len(key) - (left - 1))
          BY <5>1
        <5> QED BY <5>1, <5>2
      <4>5. t \in 1..(Len(key) - left)
        <5>1. PICK k \in Int : k = Len(key)
          BY <1>1
        <5>2. t \in Int /\ left \in Int /\ t # k - left + 1 /\ 1 <= t /\ t <= k - (left - 1)
          BY <4>2, <4>3, <4>4, <5>1
        <5>3. t \in 1..(k - left)
          BY <5>2
        <5> QED BY <5>1, <5>3
      <4> QED BY <2>2, <4>1, <4>2, <4>5
    <3> QED BY <3>2, <3>3
  <2> QED BY <1>6, <2>3, <2>4
<1>17. WorkOK(new, key, dk, sn2)
  <2>1. \A m \in Modules : new.inputs[m] # None => new.inputs[m] <= dk[m]
    BY <1>works, <1>6 DEF WorkOK
  <2>2. DoneOK(new, key, dk, sn2)
    BY <1>16 DEF DoneOK
  <2> QED BY <1>works, <1>11, <1>12, <1>13, <1>15, <2>1, <2>2 DEF WorkOK
<1>18. ASSUME Steady(me, hd, dk, sn) PROVE Steady(new, hd2, dk, sn2)
  <2>1. ASSUME NEW m \in Modules, memo[m] # 0 PROVE hd2[m] = memo[m] /\ sn2[memo[m]].content = dk[m]
    <3>1. CASE m = m0
      BY <1>confirms, <1>7, <3>1
    <3>2. CASE m # m0
      <4>1. PICK i \in Nat : i = me.memo[m] /\ memo[m] = i
        BY <1>1, <1>7, <3>2
      <4>2. hd2[m] = i /\ sn[i].content = dk[m]
        BY <1>confirms, <1>18, <2>1, <3>2, <4>1 DEF Steady
      <4>3. i \in 1..Len(sn)
        <5>1. Points(me.memo, sn)
          BY <1>works DEF WorkOK, MemoOK
        <5> QED BY <1>1, <2>1, <4>1, <5>1 DEF Points
      <4>4. sn2[i] = sn[i]
        BY <4>3 DEF Grown
      <4> QED BY <4>1, <4>2, <4>4
    <3> QED BY <3>1, <3>2
  <2>2. ASSUME NEW i \in 1..Len(stack) PROVE FrameSteady(stack[i], hd2, dk)
    <3>1. stack[i] = me.stack[i + 1] /\ i + 1 \in 1..Len(me.stack) /\ i + 1 > 1
      BY <1>3
    <3>2. FrameSteady(stack[i], hd, dk)
      BY <1>18, <3>1 DEF Steady
    <3>3. stack[i].step = "deps"
      BY <1>1, <3>1 DEF StackOK
    <3> QED BY <3>2, <3>3 DEF FrameSteady
  <2> QED BY <1>6, <2>1, <2>2 DEF Steady
<1>19. Counted(r, new, n, hd2, dk, sn2)
  <2>1. PICK a \in 1..IndexAttempts : a = me.attempt
    BY <1>works DEF IsRun
  <2>2. (me.failed # {} => n >= IndexAttempts) /\ n >= a - 1 /\ (n = a - 1 => Steady(me, hd, dk, sn))
    BY <1>works, <2>1 DEF Counted
  <2>3. PICK b \in 1..IndexAttempts : b = new.attempt /\ b \in {1, a}
    BY <1>works, <1>6, <1>8, <2>1 DEF IsRun
  <2>4. n >= b - 1 /\ (n = b - 1 => n = a - 1)
    <3>1. IndexAttempts \in Int
      BY IndexRunConstants
    <3> QED BY <1>typed, <2>1, <2>2, <2>3, <3>1
  <2> QED BY <1>works, <1>6, <1>18, <2>2, <2>3, <2>4 DEF Counted
<1> QED BY <1>typed, <1>6, <1>8, <1>10, <1>17, <1>19, <1>works DEF Works

-----------------------------------------------------------------------------
(* Beginning a request.                                                    *)

\* A run that knows nothing.
LEMMA BlankRun ==
  ASSUME NEW new, Shaped(new), new.pc \in Places, new.left \in Seq(Modules), new.stack = <<>>,
         new.memo = NoSnapshots, new.attempt = 1, new.inputs = NoInputs, new.eligible = TRUE,
         new.results = NoSnapshots, new.failed = {}, NEW sn \in Seq(SnapRows), NEW dk, NEW hd
  PROVE  /\ IsRun(new) /\ Points(new.memo, sn) /\ Points(new.results, sn) /\ Steady(new, hd, dk, sn)
         /\ \A key \in Seq(Modules) : new.left = key => WorkOK(new, key, dk, sn)
<1>1. /\ NoSnapshots \in [Modules -> Nat] /\ NoInputs \in Inputs
      /\ \A m \in Modules : NoSnapshots[m] = 0 /\ NoInputs[m] = None
  BY DEF NoSnapshots, NoInputs, Inputs
<1>2. 1 \in 1..IndexAttempts
  BY IndexRunConstants
<1>3. new.stack \in Seq(Frames) /\ Len(new.stack) = 0
  OBVIOUS
<1>4. IsRun(new)
  <2>1. TRUE \in BOOLEAN
    OBVIOUS
  <2> QED BY <1>1, <1>2, <1>3, <2>1 DEF IsRun
<1>5. Points(NoSnapshots, sn)
  <2>1. 0 \in 0..Len(sn)
    OBVIOUS
  <2> QED BY <1>1, <2>1 DEF Points
<1>6. ASSUME NEW key \in Seq(Modules), new.left = key PROVE WorkOK(new, key, dk, sn)
  <2>1. \A m \in Modules : new.inputs[m] # None => new.inputs[m] <= dk[m]
    BY <1>1
  <2>2. MemoOK(new, sn)
    BY <1>1, <1>5 DEF MemoOK
  <2>3. StackOK(new)
    BY <1>3 DEF StackOK
  <2>4. PICK k \in Nat : k = Len(key)
    OBVIOUS
  <2>5. LeftOK(new, key)
    <3>1. ASSUME NEW i \in 1..k PROVE k - k + i = i
      BY <2>4
    <3>2. k <= k
      BY <2>4
    <3> QED BY <1>6, <2>4, <3>1, <3>2 DEF LeftOK
  <2>6. DoneOK(new, key, dk, sn)
    <3>1. k - k = 0
      BY <2>4
    <3>2. ~\E t \in 1..(Len(key) - Len(new.left)) : TRUE
      BY <1>6, <2>4, <3>1
    <3> QED BY <3>2 DEF DoneOK
  <2> QED BY <1>3, <2>1, <2>2, <2>3, <2>5, <2>6 DEF WorkOK
<1>7. Steady(new, hd, dk, sn)
  BY <1>1, <1>3 DEF Steady
<1> QED BY <1>4, <1>5, <1>6, <1>7

\* What a request that has not begun keeps: nothing failed, and nothing published is its own.
LEMMA NotBegun ==
  ASSUME IndexInv, NEW r \in Runs, run[r].pc \in {"idle", "catalog", "heads"}
  PROVE  Others(r, snaps) = DOMAIN snaps /\ run[r].failed = {}
BY Before DEF Counted

\* A request starts a run of its own or joins one.
LEMMA StartedStep ==
  ASSUME IndexInv, NEW r \in Runs, run[r].pc \in {"idle", "catalog", "heads"}, Changes(r, edits, snaps) \in Nat,
         Set(r, Started(r)), UNCHANGED <<disk, edits, heads, snaps, checkpoints>>
  PROVE  IndexInv'
<1>1. PICK new, key, n : new = Started(r) /\ key = Targets[r] /\ n = Changes(r, edits, snaps)
  OBVIOUS
<1>2. key \in Seq(Modules) /\ snaps \in Seq(SnapRows) /\ n \in Nat
  BY <1>1, Before
<1>3. Others(r, snaps) = DOMAIN snaps
  BY NotBegun
<1>4. /\ Shaped(new) /\ new.stack = <<>> /\ new.memo = NoSnapshots /\ new.attempt = 1 /\ new.inputs = NoInputs
      /\ new.eligible = TRUE /\ new.results = NoSnapshots /\ new.failed = {}
      /\ \/ new.pc = "joined" /\ new.left = <<>> /\ new.of \in Runs
         \/ new.pc = "work" /\ new.left = key
  <2>1. PICK same : same = {q \in Runs \ {r} : /\ Busy(q) /\ ProcessOf[q] = ProcessOf[r]
                                               /\ Key(q) = Key(r) /\ (q \in Forced) = (r \in Forced)}
    OBVIOUS
  <2>2. CASE same # {}
    <3>1. PICK q : q = CHOOSE x \in same : TRUE
      OBVIOUS
    <3>2. q \in Runs
      BY <2>1, <2>2, <3>1
    <3>3. new = [IdleRun EXCEPT !.pc = "joined", !.of = q]
      BY <1>1, <2>1, <2>2, <3>1 DEF Started
    <3> QED BY <3>2, <3>3 DEF IdleRun, Shaped
  <2>3. CASE same = {}
    <3>1. new = [IdleRun EXCEPT !.pc = "work", !.left = key]
      BY <1>1, <2>1, <2>3 DEF Started
    <3> QED BY <3>1 DEF IdleRun, Shaped
  <2> QED BY <2>2, <2>3
<1>5. /\ IsRun(new) /\ Points(new.memo, snaps) /\ Points(new.results, snaps) /\ Steady(new, heads, disk, snaps)
      /\ new.left = key => WorkOK(new, key, disk, snaps)
  <2>1. new.pc \in Places
    BY <1>4 DEF Places
  <2>2. new.left \in Seq(Modules)
    <3>1. <<>> \in Seq(Modules)
      OBVIOUS
    <3> QED BY <1>2, <1>4, <3>1
  <2> QED BY <1>2, <1>4, <2>1, <2>2, BlankRun
<1>6. RunOK(new, key, disk, snaps)
  BY <1>4, <1>5 DEF RunOK
<1>7. Counted(r, new, n, heads, disk, snaps)
  <2>1. n >= 1 - 1
    BY <1>2
  <2> QED BY <1>3, <1>4, <1>5, <2>1 DEF Counted
<1> QED BY <1>1, <1>5, <1>6, <1>7, OwnStep

\* There are finitely many changes.
LEMMA ChangesAre == ASSUME IndexInv, NEW r \in Runs PROVE Changes(r, edits, snaps) \in Nat
<1>1. Len(snaps) \in Nat /\ DOMAIN snaps = 1..Len(snaps) /\ edits \in Nat
  BY Before
<1>2. IsFiniteSet(DOMAIN snaps)
  BY <1>1, FS_Interval
<1>3. IsFiniteSet(Others(r, snaps))
  <2>1. Others(r, snaps) \subseteq DOMAIN snaps
    BY DEF Others
  <2> QED BY <1>2, <2>1, FS_Subset
<1>4. PICK c \in Nat : c = Cardinality(Others(r, snaps))
  BY <1>3, FS_CardinalityType
<1> QED BY <1>1, <1>4 DEF Changes

LEMMA StartKeeps == ASSUME IndexInv, NEW r \in Runs, Start(r) PROVE IndexInv'
<1>1. run[r].pc = "idle" /\ UNCHANGED <<disk, edits, heads, snaps, checkpoints>>
  BY DEF Start
<1>2. CASE Set(r, Started(r))
  BY <1>1, <1>2, ChangesAre, StartedStep
<1>3. CASE ~Set(r, Started(r))
  <2>1. PICK stored, read, key, n : /\ stored = checkpoints[Key(r)] /\ read = Refreshed(stored.inputs)
                                    /\ key = Targets[r] /\ n = Changes(r, edits, snaps)
    OBVIOUS
  <2>2. PICK new : new = [IdleRun EXCEPT !.pc = "catalog", !.read = read, !.of = stored]
    OBVIOUS
  <2>3. stored # None /\ Set(r, new)
    BY <1>3, <2>1, <2>2, Zenon DEF Start
  <2>4. key \in Seq(Modules) /\ key \in Keys /\ snaps \in Seq(SnapRows) /\ key = Key(r)
    BY <2>1, Before DEF Key
  <2>5. CheckpointOK(key, stored, snaps)
    BY <2>1, <2>3, <2>4 DEF IndexInv
  <2>6. /\ Shaped(new) /\ new.pc = "catalog" /\ new.left = <<>> /\ new.stack = <<>> /\ new.memo = NoSnapshots
        /\ new.attempt = 1 /\ new.inputs = NoInputs /\ new.eligible = TRUE
        /\ new.results = NoSnapshots /\ new.failed = {} /\ new.of = stored
    BY <2>2 DEF IdleRun, Shaped
  <2>7. IsRun(new) /\ Points(new.memo, snaps) /\ Points(new.results, snaps)
    <3>1. new.pc \in Places
      BY <2>6 DEF Places
    <3>2. <<>> \in Seq(Modules)
      OBVIOUS
    <3>3. new.left \in Seq(Modules)
      BY <2>6, <3>2
    <3> QED BY <2>4, <2>6, <3>1, <3>3, BlankRun
  <2>8. RunOK(new, key, disk, snaps)
    BY <2>5, <2>6, <2>7 DEF RunOK
  <2>9. Counted(r, new, n, heads, disk, snaps)
    BY <1>1, <2>6, NotBegun DEF Counted
  <2> QED BY <1>1, <2>1, <2>3, <2>7, <2>8, <2>9, OwnStep
<1> QED BY <1>2, <1>3

LEMMA CompareDigestKeeps == ASSUME IndexInv, NEW r \in Runs, CompareDigest(r) PROVE IndexInv'
<1>1. run[r].pc = "catalog" /\ UNCHANGED <<disk, edits, heads, snaps, checkpoints>>
  BY DEF CompareDigest
<1>2. CASE Set(r, Started(r))
  BY <1>1, <1>2, ChangesAre, StartedStep
<1>3. CASE ~Set(r, Started(r))
  <2>1. PICK me, new, key, n : /\ me = run[r] /\ new = [me EXCEPT !.pc = "heads"]
                               /\ key = Targets[r] /\ n = Changes(r, edits, snaps)
    OBVIOUS
  <2>2. me.read = me.of.inputs /\ Set(r, new)
    BY <1>3, <2>1, Zenon DEF CompareDigest
  <2>3. IsRun(me) /\ RunOK(me, key, disk, snaps) /\ me.pc = "catalog"
    BY <1>1, <2>1, Before
  <2>4. /\ Shaped(new) /\ new.pc = "heads" /\ new.left = me.left /\ new.stack = me.stack /\ new.memo = me.memo
        /\ new.attempt = me.attempt /\ new.inputs = me.inputs /\ new.eligible = me.eligible /\ new.read = me.read
        /\ new.results = me.results /\ new.failed = me.failed /\ new.of = me.of
    BY <2>1, <2>3 DEF IsRun, Shaped
  <2>5. IsRun(new)
    <3>1. new.pc \in Places
      BY <2>4 DEF Places
    <3> QED BY <2>3, <2>4, <3>1 DEF IsRun
  <2>6. RunOK(new, key, disk, snaps)
    BY <2>2, <2>3, <2>4 DEF RunOK
  <2>7. Counted(r, new, n, heads, disk, snaps)
    BY <1>1, <2>1, <2>4, NotBegun DEF Counted
  <2> QED BY <1>1, <2>1, <2>2, <2>5, <2>6, <2>7, OwnStep
<1> QED BY <1>2, <1>3

LEMMA CompareHeadsKeeps == ASSUME IndexInv, NEW r \in Runs, CompareHeads(r) PROVE IndexInv'
<1>1. run[r].pc = "heads" /\ UNCHANGED <<disk, edits, heads, snaps, checkpoints>>
  BY DEF CompareHeads
<1>2. CASE Set(r, Started(r))
  BY <1>1, <1>2, ChangesAre, StartedStep
<1>3. CASE ~Set(r, Started(r))
  <2>1. PICK me, new, key, n : /\ me = run[r] /\ new = [me EXCEPT !.pc = "reused", !.results = me.of.results, !.of = None]
                               /\ key = Targets[r] /\ n = Changes(r, edits, snaps)
    OBVIOUS
  <2>2. Set(r, new)
    BY <1>3, <2>1, Zenon DEF CompareHeads
  <2>3. IsRun(me) /\ RunOK(me, key, disk, snaps) /\ me.pc = "heads"
    BY <1>1, <2>1, Before
  <2>4. CheckpointOK(key, me.of, snaps) /\ me.read = me.of.inputs /\ Points(me.memo, snaps)
    BY <2>3 DEF RunOK
  <2>5. /\ Shaped(new) /\ new.pc = "reused" /\ new.left = me.left /\ new.stack = me.stack /\ new.memo = me.memo
        /\ new.attempt = me.attempt /\ new.inputs = me.inputs /\ new.eligible = me.eligible /\ new.read = me.read
        /\ new.results = me.of.results /\ new.failed = me.failed
    BY <2>1, <2>3 DEF IsRun, Shaped
  <2>6. IsRun(new)
    <3>1. new.pc \in Places
      BY <2>5 DEF Places
    <3>2. new.results \in [Modules -> Nat]
      BY <2>4, <2>5 DEF CheckpointOK
    <3> QED BY <2>3, <2>5, <3>1, <3>2 DEF IsRun
  <2>7. RunOK(new, key, disk, snaps)
    <3>1. Points(new.results, snaps) /\ Current(key, new.results, new.read, snaps)
      BY <2>4, <2>5 DEF CheckpointOK
    <3> QED BY <2>4, <2>5, <3>1 DEF RunOK
  <2>8. Counted(r, new, n, heads, disk, snaps)
    BY <1>1, <2>1, <2>5, NotBegun DEF Counted
  <2> QED BY <1>1, <2>1, <2>2, <2>6, <2>7, <2>8, OwnStep
<1> QED BY <1>2, <1>3

-----------------------------------------------------------------------------
(* Discovering and extracting.                                             *)

\* What is known of a working run, and of the frame on top of its stack.
LEMMA Working ==
  ASSUME IndexInv, NEW r \in Runs, NEW me, me = run[r], me.pc = "work"
  PROVE  /\ disk \in [Modules -> Versions] /\ snaps \in Seq(SnapRows) /\ Targets[r] \in Seq(Modules) /\ IsRun(me)
         /\ WorkOK(me, Targets[r], disk, snaps) /\ Points(me.results, snaps) /\ Points(me.memo, snaps)
         /\ Counted(r, me, Changes(r, edits, snaps), heads, disk, snaps)
         /\ me.stack # <<>> => /\ Top(r) = me.stack[1] /\ me.stack[1] \in Frames /\ me.stack[1].module \in Modules
                               /\ 1 \in 1..Len(me.stack) /\ FrameOK(me, me.stack[1], disk, snaps)
                               /\ Linked(me, me.stack[1])
<1>1. /\ disk \in [Modules -> Versions] /\ snaps \in Seq(SnapRows) /\ Targets[r] \in Seq(Modules) /\ IsRun(me)
      /\ RunOK(me, Targets[r], disk, snaps) /\ Counted(r, me, Changes(r, edits, snaps), heads, disk, snaps)
  BY Before
<1>2. WorkOK(me, Targets[r], disk, snaps) /\ Points(me.results, snaps) /\ Points(me.memo, snaps)
  BY <1>1 DEF RunOK
<1>3. ASSUME me.stack # <<>>
      PROVE  /\ Top(r) = me.stack[1] /\ me.stack[1] \in Frames /\ me.stack[1].module \in Modules
             /\ 1 \in 1..Len(me.stack) /\ FrameOK(me, me.stack[1], disk, snaps)
             /\ Linked(me, me.stack[1])
  <2>1. me.stack \in Seq(Frames)
    BY <1>1 DEF IsRun
  <2>2. Head(me.stack) = me.stack[1] /\ me.stack[1] \in Frames /\ Len(me.stack) \in Nat \ {0}
    BY <1>3, <2>1, Below
  <2>3. me.stack[1].module \in Modules
    BY <2>2 DEF Frames
  <2>4. 1 \in 1..Len(me.stack)
    BY <2>2
  <2>5. FrameOK(me, me.stack[1], disk, snaps)
    BY <1>2, <2>4 DEF WorkOK
  <2>6. StackOK(me)
    BY <1>2 DEF WorkOK
  <2>7. Linked(me, me.stack[1])
    BY <2>4, <2>6 DEF StackOK, Linked
  <2>8. Top(r) = me.stack[1]
    BY <2>2 DEF Top
  <2> QED BY <2>2, <2>3, <2>4, <2>5, <2>7, <2>8
<1> QED BY <1>1, <1>2, <1>3

\* A run that observes some modules and begins with module d.
LEMMA PushStep ==
  ASSUME IndexInv, NEW r \in Runs, NEW me, me = run[r], me.pc = "work", NEW watched \in SUBSET Modules, NEW d \in Modules,
         Begins(me, d), NEW o, o = Observed(me, watched), NEW new, new = [o EXCEPT !.stack = <<Frame(d)>> \o me.stack],
         Set(r, new), UNCHANGED <<disk, edits, heads, snaps, checkpoints>>
  PROVE  IndexInv'
<1>1. PICK key, n : key = Targets[r] /\ n = Changes(r, edits, snaps)
  OBVIOUS
<1>2. /\ disk \in [Modules -> Versions] /\ snaps \in Seq(SnapRows) /\ key \in Seq(Modules) /\ IsRun(me)
      /\ WorkOK(me, key, disk, snaps) /\ Points(me.results, snaps) /\ Points(me.memo, snaps)
      /\ Counted(r, me, n, heads, disk, snaps)
  BY <1>1, Working
<1>3. IsRun(o) /\ Observing(me, o, disk)
  BY <1>2, ObservedIs
<1>4. WorkOK(o, key, disk, snaps) /\ Points(o.results, snaps) /\ GoesOn(me, o, heads, disk, snaps)
  BY <1>2, <1>3, WorkObserved
<1>5. Begins(o, d) /\ new = [o EXCEPT !.stack = <<Frame(d)>> \o o.stack]
  BY <1>3 DEF Observing, Begins
<1>6. IsRun(new) /\ WorkOK(new, key, disk, snaps) /\ GoesOn(o, new, heads, disk, snaps)
  BY <1>2, <1>3, <1>4, <1>5, PushWorks
<1>7. GoesOn(me, new, heads, disk, snaps)
  BY <1>4, <1>6 DEF GoesOn
<1>8. Counted(r, new, n, heads, disk, snaps)
  BY <1>2, <1>7, StillCounted
<1>9. RunOK(new, key, disk, snaps)
  BY <1>2, <1>6, <1>7 DEF RunOK, GoesOn
<1> QED BY <1>1, <1>6, <1>8, <1>9, OwnStep

LEMMA BeginTargetKeeps == ASSUME IndexInv, NEW r \in Runs, BeginTarget(r) PROVE IndexInv'
<1>1. PICK me : me = run[r]
  OBVIOUS
<1>2. /\ me.pc = "work" /\ me.stack = <<>> /\ me.left # <<>> /\ UNCHANGED <<disk, edits, heads, snaps, checkpoints>>
      /\ Set(r, [Observed(me, {Head(me.left)}) EXCEPT !.stack = <<Frame(Head(me.left))>>])
  BY <1>1, Zenon DEF BeginTarget
<1>3. PICK d : d = Head(me.left)
  OBVIOUS
<1>4. d \in Modules /\ d = me.left[1] /\ {d} \in SUBSET Modules
  <2>1. me.left \in Seq(Modules)
    BY <1>1, Before DEF IsRun
  <2> QED BY <1>2, <1>3, <2>1, Below
<1>5. PICK o, new : o = Observed(me, {d}) /\ new = [o EXCEPT !.stack = <<Frame(d)>> \o me.stack]
  OBVIOUS
<1>6. Set(r, new)
  <2>1. PICK f : f = Frame(d)
    OBVIOUS
  <2>2. <<f>> \o <<>> = <<f>>
    OBVIOUS
  <2> QED BY <1>2, <1>3, <1>5, <2>1, <2>2, Zenon
<1>7. Begins(me, d)
  BY <1>2, <1>4 DEF Begins
<1> QED BY <1>1, <1>2, <1>4, <1>5, <1>6, <1>7, PushStep

\* The frame on top after the sources are read.
LEMMA ReadKeeps == ASSUME IndexInv, NEW r \in Runs, Read(r) PROVE IndexInv'
<1>1. PICK me, top, f : me = run[r] /\ top = me.stack[1] /\ f = [top EXCEPT !.step = "deps", !.content = disk[top.module]]
  OBVIOUS
<1>2. me.pc = "work" /\ me.stack # <<>> /\ Top(r).step = "read" /\ UNCHANGED <<disk, edits, heads, snaps, checkpoints>>
  BY <1>1 DEF Read
<1>3. /\ disk \in [Modules -> Versions] /\ snaps \in Seq(SnapRows) /\ IsRun(me) /\ top = Top(r)
      /\ WorkOK(me, Targets[r], disk, snaps)
      /\ top \in Frames /\ top.module \in Modules /\ FrameOK(me, top, disk, snaps)
      /\ Linked(me, top)
  BY <1>1, <1>2, Working
<1>4. PICK watched : watched = {top.module} \cup Needs(top.module)
  OBVIOUS
<1>5. watched \in SUBSET Modules /\ top.module \in watched /\ \A d \in Needs(top.module) : d \in watched /\ d \in Modules
  BY <1>3, <1>4, NeedsAre
<1>6. PICK o : o = Observed(me, watched)
  OBVIOUS
<1>7. Set(r, SetTop(o, f))
  BY <1>1, <1>3, <1>4, <1>6, Zenon DEF Read
<1>8. IsRun(o) /\ Observing(me, o, disk) /\ (o.eligible => \A m \in watched : o.inputs[m] # None)
  BY <1>3, <1>5, <1>6, ObservedIs
<1>9. /\ f.module = top.module /\ f.step = "deps" /\ f.content = disk[top.module] /\ f.links = top.links
      /\ f.reuse = top.reuse /\ top.step = "read"
  BY <1>1, <1>2, <1>3 DEF Frames
<1>10. f \in Frames
  <2>1. disk[top.module] \in Versions \cup {None} /\ "deps" \in FrameSteps
    BY <1>3 DEF FrameSteps
  <2> QED BY <1>1, <1>3, <2>1 DEF Frames
<1>11. FrameOK(o, f, disk, snaps)
  <2>1. Points(f.links, snaps) /\ f.reuse = 0
    BY <1>3, <1>9 DEF FrameOK
  <2>2. PICK v \in Versions : v = disk[top.module]
    BY <1>3
  <2>3. v <= v
    BY NeedsAre
  <2>4. ASSUME o.eligible
        PROVE  o.inputs[top.module] # None /\ o.inputs[top.module] <= v /\ \A d \in Needs(top.module) : o.inputs[d] # None
    <3>1. o.inputs[top.module] # None /\ \A d \in Needs(top.module) : o.inputs[d] # None
      BY <1>5, <1>8, <2>4
    <3>2. o.inputs[top.module] = me.inputs[top.module] \/ o.inputs[top.module] = v
      BY <1>3, <1>8, <2>2, <3>1 DEF Observing
    <3>3. me.inputs[top.module] # None => me.inputs[top.module] <= v
      BY <1>3, <2>2 DEF WorkOK
    <3> QED BY <2>3, <3>1, <3>2, <3>3
  <2> QED BY <1>9, <2>1, <2>2, <2>3, <2>4 DEF FrameOK
<1>12. FrameSteady(f, heads, disk) /\ f.module = me.stack[1].module /\ Linked(me, f)
  BY <1>1, <1>3, <1>9 DEF FrameSteady, Linked
<1> QED BY <1>1, <1>2, <1>7, <1>8, <1>10, <1>11, <1>12, TopStep

LEMMA LinkDependencyKeeps == ASSUME IndexInv, NEW r \in Runs, LinkDependency(r) PROVE IndexInv'
<1>1. PICK me, top : me = run[r] /\ top = me.stack[1]
  OBVIOUS
<1>2. me.pc = "work" /\ me.stack # <<>> /\ Top(r).step = "deps" /\ UNCHANGED <<disk, edits, heads, snaps, checkpoints>>
  BY <1>1 DEF LinkDependency
<1>3. /\ disk \in [Modules -> Versions] /\ snaps \in Seq(SnapRows) /\ IsRun(me) /\ top = Top(r)
      /\ Points(me.memo, snaps) /\ WorkOK(me, Targets[r], disk, snaps)
      /\ top \in Frames /\ top.module \in Modules /\ FrameOK(me, top, disk, snaps) /\ Linked(me, top)
  BY <1>1, <1>2, Working
<1>4. PICK d \in Unlinked(top) :
        IF me.memo[d] # 0 THEN Set(r, SetTop(me, [top EXCEPT !.links[d] = me.memo[d]]))
        ELSE Set(r, [Observed(me, {d}) EXCEPT !.stack = <<Frame(d)>> \o @])
  BY <1>1, <1>3, Zenon DEF LinkDependency
<1>5. d \in Deps[top.module] /\ d \in Modules /\ {d} \in SUBSET Modules
  BY <1>3, NeedsAre DEF Unlinked
<1>6. CASE me.memo[d] # 0
  <2>1. PICK f : f = [top EXCEPT !.links[d] = me.memo[d]]
    OBVIOUS
  <2>2. Set(r, SetTop(me, f))
    BY <1>4, <1>6, <2>1
  <2>3. PICK links : links = [top.links EXCEPT ![d] = me.memo[d]]
    OBVIOUS
  <2>4. top.links \in [Modules -> Nat] /\ me.memo[d] \in Nat
    BY <1>3, <1>5 DEF Frames, IsRun
  <2>5. links \in [Modules -> Nat] /\ links[d] = me.memo[d] /\ \A m \in Modules : m # d => links[m] = top.links[m]
    BY <1>5, <2>3, <2>4
  <2>6. /\ f.module = top.module /\ f.step = "deps" /\ f.content = top.content /\ f.links = links
        /\ f.reuse = top.reuse /\ f.base = top.base /\ f.seen = top.seen /\ top.step = "deps"
    BY <1>2, <1>3, <2>1, <2>3 DEF Frames
  <2>7. f \in Frames
    BY <1>3, <2>1, <2>3, <2>5 DEF Frames
  <2>8. Linked(me, f)
    BY <1>3, <2>5, <2>6 DEF Linked
  <2>9. Points(f.links, snaps)
    <3>1. Points(top.links, snaps)
      BY <1>3 DEF FrameOK
    <3> QED BY <1>3, <1>5, <2>5, <2>6, <3>1 DEF Points
  <2>10. FrameOK(me, f, disk, snaps)
    BY <1>3, <2>6, <2>9 DEF FrameOK
  <2>11. FrameSteady(me.stack[1], heads, disk) => FrameSteady(f, heads, disk)
    BY <1>1, <2>6 DEF FrameSteady
  <2>12. Observing(me, me, disk) /\ f.module = me.stack[1].module
    BY <1>1, <2>6, LaterSelf DEF Observing
  <2> QED BY <1>1, <1>2, <1>3, <2>2, <2>7, <2>8, <2>10, <2>11, <2>12, TopStep
<1>7. CASE ~(me.memo[d] # 0)
  <2>1. PICK o, new : o = Observed(me, {d}) /\ new = [o EXCEPT !.stack = <<Frame(d)>> \o me.stack]
    OBVIOUS
  <2>2. IsRun(o) /\ Observing(me, o, disk)
    BY <1>3, <1>5, <2>1, ObservedIs
  <2>3. Set(r, new)
    <3>1. o.stack = me.stack
      BY <2>2 DEF Observing
    <3>2. [o EXCEPT !.stack = <<Frame(d)>> \o @] = [o EXCEPT !.stack = <<Frame(d)>> \o o.stack]
      OBVIOUS
    <3> QED BY <1>4, <1>7, <2>1, <3>1, <3>2
  <2>4. Begins(me, d)
    BY <1>1, <1>2, <1>3, <1>5, <1>7 DEF Begins
  <2> QED BY <1>1, <1>2, <1>5, <2>1, <2>3, <2>4, PushStep
<1> QED BY <1>6, <1>7

\* A step of run r that replaces its top frame and observes nothing.
LEMMA FrameStep ==
  ASSUME IndexInv, NEW r \in Runs, NEW me, me = run[r], me.pc = "work", me.stack # <<>>,
         NEW f \in Frames, f.module = me.stack[1].module, f.links = me.stack[1].links, FrameOK(me, f, disk, snaps),
         FrameSteady(me.stack[1], heads, disk) => FrameSteady(f, heads, disk),
         Set(r, SetTop(me, f)), UNCHANGED <<disk, edits, heads, snaps, checkpoints>>
  PROVE  IndexInv'
<1>1. IsRun(me) /\ Linked(me, me.stack[1])
  BY Working
<1>2. Linked(me, f)
  BY <1>1 DEF Linked
<1>3. Observing(me, me, disk)
  BY LaterSelf DEF Observing
<1> QED BY <1>1, <1>2, <1>3, TopStep

LEMMA CheckHeadKeeps == ASSUME IndexInv, NEW r \in Runs, CheckHead(r) PROVE IndexInv'
<1>1. PICK me, top, h : me = run[r] /\ top = me.stack[1] /\ h = heads[top.module]
  OBVIOUS
<1>2. /\ me.pc = "work" /\ me.stack # <<>> /\ Top(r).step = "deps" /\ Unlinked(Top(r)) = {}
      /\ UNCHANGED <<disk, edits, heads, snaps, checkpoints>>
  BY <1>1 DEF CheckHead
<1>3. /\ disk \in [Modules -> Versions] /\ snaps \in Seq(SnapRows) /\ IsRun(me) /\ top = Top(r)
      /\ Points(me.memo, snaps) /\ WorkOK(me, Targets[r], disk, snaps)
      /\ top \in Frames /\ top.module \in Modules /\ FrameOK(me, top, disk, snaps) /\ Linked(me, top)
  BY <1>1, <1>2, Working
<1>4. /\ heads \in [Modules -> Nat] /\ Points(heads, snaps) /\ Len(snaps) \in Nat
      /\ \A i \in 1..Len(snaps) : SnapOK(i, disk, snaps)
  BY Before
<1>5. \A d \in Deps[top.module] : top.links[d] # 0
  BY <1>2, <1>3 DEF Unlinked
<1>6. PICK m \in Modules : m = top.module
  BY <1>3
<1>7. /\ top.step = "deps" /\ top.reuse = 0 /\ Points(top.links, snaps)
      /\ top.content \in Versions /\ top.content <= disk[m]
      /\ me.eligible => /\ me.inputs[m] # None /\ me.inputs[m] <= top.content
                        /\ \A d \in Needs(m) : me.inputs[d] # None
  BY <1>2, <1>3, <1>6 DEF FrameOK
<1>8. CASE ~IsForced(r) /\ Reusable(r, top)
  <2>1. PICK f : f = [top EXCEPT !.step = "publish", !.reuse = h]
    OBVIOUS
  <2>2. Set(r, SetTop(me, f))
    BY <1>1, <1>3, <1>8, <2>1, Zenon DEF CheckHead
  <2>3. /\ h # 0 /\ snaps[h].content = top.content /\ snaps[h].links = top.links
        /\ \A s \in Siblings[m] : /\ Confirmed(r, s) # 0 /\ Shape[snaps[Confirmed(r, s)].content] = snaps[h].seen[s]
    BY <1>1, <1>6, <1>8 DEF Reusable
  <2>4. h \in Nat /\ h \in 1..Len(snaps) /\ snaps[h].module = m
    <3>1. h \in Nat /\ h \in 0..Len(snaps) /\ h # 0 /\ snaps[h].module = m
      BY <1>1, <1>4, <1>6, <2>3 DEF Points
    <3> QED BY <1>4, <3>1
  <2>5. /\ f.module = m /\ f.step = "publish" /\ f.content = top.content /\ f.links = top.links
        /\ f.reuse = h
    BY <1>3, <1>6, <2>1 DEF Frames
  <2>6. f \in Frames
    <3>1. "publish" \in FrameSteps
      BY DEF FrameSteps
    <3> QED BY <1>3, <2>1, <2>4, <3>1 DEF Frames
  <2>7. ASSUME NEW s \in Siblings[m] PROVE Seen(me, disk, snaps[h].seen, s, 0)
    <3>1. s \in Modules /\ s \in Needs(m)
      BY NeedsAre DEF Needs
    <3>2. PICK c : c = Confirmed(r, s)
      OBVIOUS
    <3>3. c # 0 /\ Shape[snaps[c].content] = snaps[h].seen[s]
      BY <2>3, <3>2
    <3>4. \/ me.memo[s] # 0 /\ c = me.memo[s]
          \/ me.memo[s] = 0 /\ heads[s] # 0 /\ snaps[heads[s]].content = disk[s] /\ c = heads[s]
      BY <1>1, <3>2, <3>3 DEF Confirmed
    <3>5. c \in 1..Len(snaps) /\ snaps[c].module = s
      BY <1>3, <1>4, <3>1, <3>3, <3>4 DEF Points
    <3>6. SnapOK(c, disk, snaps) /\ snaps[c] \in SnapRows
      BY <1>3, <1>4, <3>5
    <3>7. PICK w \in Versions : w = snaps[c].content
      BY <3>6 DEF SnapRows
    <3>8. w <= disk[s] /\ 0 <= w
      BY <3>5, <3>6, <3>7 DEF SnapOK, Versions
    <3>9. me.eligible => me.inputs[s] # None /\ me.inputs[s] <= w
      <4>1. SUFFICES ASSUME me.eligible PROVE me.inputs[s] # None /\ me.inputs[s] <= w
        OBVIOUS
      <4>2. me.inputs[s] # None
        BY <1>7, <3>1, <4>1
      <4>3. CASE me.memo[s] # 0 /\ c = me.memo[s]
        <5>1. MemoOK(me, snaps)
          BY <1>3 DEF WorkOK
        <5> QED BY <3>1, <3>7, <4>1, <4>2, <4>3, <5>1 DEF MemoOK, Fresh
      <4>4. CASE snaps[heads[s]].content = disk[s] /\ c = heads[s]
        BY <1>3, <3>1, <3>7, <4>2, <4>4 DEF WorkOK
      <4> QED BY <3>4, <4>2, <4>3, <4>4
    <3> QED BY <3>3, <3>7, <3>8, <3>9 DEF Seen
  <2>8. FrameOK(me, f, disk, snaps)
    BY <1>5, <1>6, <1>7, <2>3, <2>4, <2>5, <2>7 DEF FrameOK
  <2>9. f.module = me.stack[1].module /\ f.links = me.stack[1].links
    BY <1>1, <1>6, <2>5
  <2>10. FrameSteady(me.stack[1], heads, disk) => FrameSteady(f, heads, disk)
    BY <1>1, <1>6, <1>7, <2>3, <2>5 DEF FrameSteady
  <2> QED BY <1>1, <1>2, <2>2, <2>6, <2>8, <2>9, <2>10, FrameStep
<1>9. CASE ~(~IsForced(r) /\ Reusable(r, top))
  <2>1. PICK f : f = [top EXCEPT !.step = "extract"]
    OBVIOUS
  <2>2. Set(r, SetTop(me, f))
    BY <1>1, <1>3, <1>9, <2>1, Zenon DEF CheckHead
  <2>3. /\ f.module = m /\ f.step = "extract" /\ f.content = top.content /\ f.links = top.links /\ f.reuse = 0
    BY <1>3, <1>6, <1>7, <2>1 DEF Frames
  <2>4. f \in Frames
    <3>1. "extract" \in FrameSteps
      BY DEF FrameSteps
    <3> QED BY <1>3, <2>1, <3>1 DEF Frames
  <2>5. FrameOK(me, f, disk, snaps)
    BY <1>5, <1>6, <1>7, <2>3 DEF FrameOK
  <2>6. f.module = me.stack[1].module /\ f.links = me.stack[1].links
    BY <1>1, <1>6, <2>3
  <2>7. FrameSteady(me.stack[1], heads, disk) => FrameSteady(f, heads, disk)
    BY <1>1, <1>6, <1>7, <2>3 DEF FrameSteady
  <2> QED BY <1>1, <1>2, <2>2, <2>4, <2>5, <2>6, <2>7, FrameStep
<1> QED BY <1>8, <1>9

LEMMA ExtractKeeps == ASSUME IndexInv, NEW r \in Runs, Extract(r) PROVE IndexInv'
<1>1. PICK me, top, h : me = run[r] /\ top = me.stack[1] /\ h = heads[top.module]
  OBVIOUS
<1>2. /\ me.pc = "work" /\ me.stack # <<>> /\ Top(r).step = "extract"
      /\ UNCHANGED <<disk, edits, heads, snaps, checkpoints>>
  BY <1>1 DEF Extract
<1>3. /\ disk \in [Modules -> Versions] /\ snaps \in Seq(SnapRows) /\ IsRun(me) /\ top = Top(r)
      /\ WorkOK(me, Targets[r], disk, snaps) /\ 1 \in 1..Len(me.stack)
      /\ top \in Frames /\ top.module \in Modules /\ FrameOK(me, top, disk, snaps) /\ Linked(me, top)
  BY <1>1, <1>2, Working
<1>4. /\ heads \in [Modules -> Nat] /\ Len(snaps) \in Nat /\ \A i \in 1..Len(snaps) : SnapOK(i, disk, snaps)
  BY Before
<1>5. PICK m \in Modules : m = top.module
  BY <1>3
<1>6. /\ top.step = "extract" /\ top.reuse = 0 /\ Points(top.links, snaps)
      /\ top.content \in Versions /\ top.content <= disk[m]
      /\ me.eligible => /\ me.inputs[m] # None /\ me.inputs[m] <= top.content
                        /\ \A d \in Needs(m) : me.inputs[d] # None
      /\ \A d \in Deps[m] : top.links[d] # 0
  BY <1>2, <1>3, <1>5 DEF FrameOK
<1>7. CASE disk[m] # top.content
  <2>1. ~FrameSteady(top, heads, disk)
    BY <1>5, <1>6, <1>7 DEF FrameSteady
  <2>2. ~Steady(me, heads, disk, snaps)
    BY <1>1, <1>3, <2>1 DEF Steady
  <2>3. Set(r, Changed(me))
    BY <1>1, <1>3, <1>5, <1>7 DEF Extract
  <2> QED BY <1>1, <1>2, <2>2, <2>3, ChangesAre, ChangedStep
<1>8. CASE disk[m] = top.content
  <2>1. PICK seen, base : /\ seen = [d \in Modules |-> IF d \in Needs(m) THEN Shape[disk[d]] ELSE None]
                          /\ base = IF IsForced(r) THEN 0 ELSE h
    OBVIOUS
  <2>2. PICK f : f = [top EXCEPT !.step = "publish", !.base = base, !.seen = seen]
    OBVIOUS
  <2>3. Set(r, SetTop(me, f))
    <3>1. Set(r, SetTop(me, [top EXCEPT !.step = "publish", !.base = IF IsForced(r) THEN 0 ELSE heads[top.module],
            !.seen = [d \in Modules |-> IF d \in Needs(top.module) THEN Shape[disk[d]] ELSE None]]))
      BY <1>1, <1>3, <1>5, <1>8, Zenon DEF Extract
    <3>2. /\ seen = [d \in Modules |-> IF d \in Needs(top.module) THEN Shape[disk[d]] ELSE None]
          /\ base = IF IsForced(r) THEN 0 ELSE heads[top.module]
      BY <1>1, <1>5, <2>1
    <3> QED BY <2>2, <3>1, <3>2, Zenon
  <2>4. seen \in [Modules -> Shapes] /\ base \in Nat /\ base \in {0, heads[m]}
    <3>1. \A d \in Modules : Shape[disk[d]] \in Shapes
      BY <1>3 DEF Shapes
    <3>2. seen \in [Modules -> Shapes]
      BY <2>1, <3>1 DEF Shapes
    <3> QED BY <1>1, <1>4, <1>5, <2>1, <3>2
  <2>5. f \in Frames
    <3>1. "publish" \in FrameSteps
      BY DEF FrameSteps
    <3> QED BY <1>3, <2>2, <2>4, <3>1 DEF Frames
  <2>6. /\ f.module = m /\ f.step = "publish" /\ f.content = top.content /\ f.links = top.links /\ f.reuse = 0
        /\ f.base = base /\ f.seen = seen
    BY <1>3, <1>5, <1>6, <2>2 DEF Frames
  <2>7. ASSUME NEW d \in Needs(m), NEW least \in Nat, least <= disk[d] PROVE Seen(me, disk, seen, d, least)
    <3>1. d \in Modules
      BY NeedsAre
    <3>2. PICK w \in Versions : w = disk[d]
      BY <1>3, <3>1
    <3>3. least <= w /\ w <= disk[d] /\ seen[d] = Shape[w]
      BY <2>1, <2>7, <3>1, <3>2, NeedsAre
    <3>4. me.eligible => me.inputs[d] # None /\ me.inputs[d] <= w
      BY <1>3, <1>6, <2>7, <3>1, <3>2 DEF WorkOK
    <3> QED BY <3>3, <3>4 DEF Seen
  <2>8. ASSUME NEW d \in Deps[m] PROVE Seen(me, disk, seen, d, snaps[top.links[d]].content)
    <3>1. d \in Modules /\ d \in Needs(m)
      BY NeedsAre DEF Needs
    <3>2. PICK c : c = top.links[d]
      OBVIOUS
    <3>3. c \in 1..Len(snaps) /\ snaps[c].module = d
      BY <1>4, <1>6, <3>1, <3>2 DEF Points
    <3>4. SnapOK(c, disk, snaps) /\ snaps[c] \in SnapRows
      BY <1>3, <1>4, <3>3
    <3>5. snaps[c].content \in Nat /\ snaps[c].content <= disk[d]
      BY <3>3, <3>4, NeedsAre DEF SnapOK, SnapRows
    <3> QED BY <2>7, <3>1, <3>2, <3>5
  <2>9. ASSUME NEW s \in Siblings[m] PROVE Seen(me, disk, seen, s, 0)
    <3>1. s \in Modules /\ s \in Needs(m)
      BY NeedsAre DEF Needs
    <3>2. 0 <= disk[s]
      BY <1>3, <3>1 DEF Versions
    <3> QED BY <2>7, <3>1, <3>2
  <2>10. FrameOK(me, f, disk, snaps)
    BY <1>6, <2>6, <2>8, <2>9 DEF FrameOK
  <2>11. FrameSteady(me.stack[1], heads, disk) => FrameSteady(f, heads, disk)
    BY <1>8, <2>4, <2>6 DEF FrameSteady
  <2>12. f.module = me.stack[1].module /\ f.links = me.stack[1].links
    BY <1>1, <1>5, <2>6
  <2> QED BY <1>1, <1>2, <2>3, <2>5, <2>10, <2>11, <2>12, FrameStep
<1> QED BY <1>7, <1>8

-----------------------------------------------------------------------------
(* Publishing.                                                             *)

\* While nothing changes, the inputs are verified and the head is the one expected.
LEMMA SteadyVerifies ==
  ASSUME IndexInv, NEW r \in Runs, NEW me, me = run[r], me.pc = "work", me.stack # <<>>,
         NEW top, top = me.stack[1], top.step = "publish", Steady(me, heads, disk, snaps)
  PROVE  Verified(top) /\ BaseHolds(top)
<1>1. /\ 1 \in 1..Len(me.stack) /\ top \in Frames /\ top.module \in Modules
      /\ FrameOK(me, top, disk, snaps) /\ Linked(me, top)
  BY Working
<1>2. FrameSteady(top, heads, disk)
  BY <1>1 DEF Steady
<1>3. BaseHolds(top) /\ disk[top.module] = top.content
  BY <1>2 DEF FrameSteady, BaseHolds
<1>4. ASSUME NEW d \in Deps[top.module] PROVE heads[d] = top.links[d] /\ disk[d] = snaps[top.links[d]].content
  <2>1. d \in Modules /\ top.links[d] # 0
    BY <1>1, NeedsAre DEF FrameOK
  <2>2. me.memo[d] = top.links[d]
    BY <1>1, <2>1 DEF Linked
  <2>3. heads[d] = me.memo[d] /\ snaps[me.memo[d]].content = disk[d]
    BY <2>1, <2>2 DEF Steady
  <2> QED BY <2>2, <2>3
<1> QED BY <1>3, <1>4 DEF Verified

\* What a verified frame is about.
LEMMA VerifiedFrame ==
  ASSUME IndexInv, NEW r \in Runs, NEW me, NEW top, NEW m, Publishing(r, me, top, m), Verified(top)
  PROVE  /\ top \in Frames /\ Points(top.links, snaps) /\ top.content = disk[m]
         /\ me.eligible => me.inputs[m] # None
         /\ \A d \in Deps[m] : top.links[d] # 0 /\ snaps[top.links[d]].content = disk[d]
         /\ \A d \in Deps[m] : disk[d] \in Versions /\ (me.eligible => me.inputs[d] # None /\ me.inputs[d] <= disk[d])
<1>0. /\ me = run[r] /\ me.pc = "work" /\ me.stack # <<>>
      /\ top = me.stack[1] /\ top.step = "publish" /\ m = top.module /\ m \in Modules
  BY DEF Publishing
<1>1. top \in Frames /\ FrameOK(me, top, disk, snaps) /\ disk \in [Modules -> Versions] /\ WorkOK(me, Targets[r], disk, snaps)
  BY <1>0, Working
<1>2. Points(top.links, snaps) /\ \A d \in Deps[m] : top.links[d] # 0
  BY <1>0, <1>1 DEF FrameOK
<1>3. me.eligible => me.inputs[m] # None /\ \A d \in Needs(m) : me.inputs[d] # None
  BY <1>0, <1>1 DEF FrameOK
<1>4. top.content = disk[m] /\ \A d \in Deps[m] : snaps[top.links[d]].content = disk[d]
  BY <1>0 DEF Verified
<1>5. ASSUME NEW d \in Deps[m] PROVE disk[d] \in Versions /\ (me.eligible => me.inputs[d] # None /\ me.inputs[d] <= disk[d])
  <2>1. d \in Modules /\ d \in Needs(m)
    BY <1>0, NeedsAre DEF Needs
  <2> QED BY <1>1, <1>3, <2>1 DEF WorkOK
<1> QED BY <1>1, <1>2, <1>3, <1>4, <1>5

\* A module whose head stands is confirmed.
LEMMA ConfirmStep ==
  ASSUME IndexInv, NEW r \in Runs, NEW me, me = run[r], me.pc = "work", me.stack # <<>>,
         NEW top, top = me.stack[1], top.step = "publish", Verified(top), BaseHolds(top), Unchanged(r, top),
         Set(r, Finished(me, top, heads[top.module])), UNCHANGED <<disk, edits, heads, snaps, checkpoints>>
  PROVE  IndexInv'
<1>1. PICK key, n, m, id : key = Targets[r] /\ n = Changes(r, edits, snaps) /\ m = top.module /\ id = heads[m]
  OBVIOUS
<1>2. /\ disk \in [Modules -> Versions] /\ snaps \in Seq(SnapRows) /\ key \in Seq(Modules) /\ IsRun(me)
      /\ WorkOK(me, key, disk, snaps) /\ Points(me.results, snaps) /\ Points(me.memo, snaps)
      /\ Counted(r, me, n, heads, disk, snaps)
      /\ m \in Modules /\ FrameOK(me, top, disk, snaps)
  BY <1>1, Working
<1>3. /\ heads \in [Modules -> Nat] /\ Points(heads, snaps) /\ Len(snaps) \in Nat
      /\ \A i \in 1..Len(snaps) : SnapOK(i, disk, snaps)
  BY Before
<1>4. /\ top \in Frames /\ Points(top.links, snaps) /\ top.content = disk[m]
      /\ me.eligible => me.inputs[m] # None
      /\ \A d \in Deps[m] : top.links[d] # 0 /\ snaps[top.links[d]].content = disk[d]
      /\ \A d \in Deps[m] : disk[d] \in Versions /\ (me.eligible => me.inputs[d] # None /\ me.inputs[d] <= disk[d])
  <2>1. Publishing(r, me, top, m)
    BY <1>1, <1>2 DEF Publishing
  <2> QED BY <2>1, VerifiedFrame, SMTT(30)
<1>5. /\ id # 0 /\ snaps[id].content = top.content /\ snaps[id].links = top.links
      /\ \A s \in Siblings[m] : Seen(me, disk, snaps[id].seen, s, 0)
  <2>1. CASE top.reuse # 0
    <3>1. id = top.reuse
      BY <1>1, <2>1 DEF BaseHolds
    <3> QED BY <1>1, <1>2, <2>1, <3>1 DEF FrameOK
  <2>2. CASE top.reuse = 0
    <3>1. id # 0 /\ snaps[id].content = top.content /\ snaps[id].links = top.links /\ snaps[id].seen = top.seen
      BY <1>1, <2>2 DEF Unchanged
    <3>2. \A s \in Siblings[m] : Seen(me, disk, top.seen, s, 0)
      BY <1>1, <1>2, <2>2 DEF FrameOK
    <3> QED BY <3>1, <3>2
  <2> QED BY <2>1, <2>2
<1>6. id \in 1..Len(snaps) /\ snaps[id].module = m
  <2>1. id \in 0..Len(snaps) /\ snaps[id].module = m
    BY <1>1, <1>2, <1>3, <1>5 DEF Points
  <2> QED BY <1>3, <1>5, <2>1
<1>7. SnapOK(id, disk, snaps)
  BY <1>3, <1>6
<1>8. ASSUME NEW x \in Needs(m) PROVE Seen(me, disk, snaps[id].seen, x, 0)
  <2>1. CASE x \in Deps[m]
    <3>1. snaps[id].seen[x] = Shape[disk[x]]
      <4>1. snaps[id].seen[x] = Shape[snaps[snaps[id].links[x]].content]
        BY <1>6, <1>7, <2>1 DEF SnapOK
      <4>2. snaps[id].links[x] = top.links[x] /\ snaps[top.links[x]].content = disk[x]
        BY <1>4, <1>5, <2>1
      <4> QED BY <4>1, <4>2
    <3>2. PICK w \in Versions : w = disk[x]
      BY <1>4, <2>1
    <3>3. 0 <= w /\ w <= disk[x]
      BY <3>2 DEF Versions
    <3> QED BY <1>4, <2>1, <3>1, <3>2, <3>3 DEF Seen
  <2>2. CASE x \in Siblings[m]
    BY <1>5, <2>2
  <2> QED BY <2>1, <2>2 DEF Needs
<1>9. PICK new : new = Finished(me, top, id)
  OBVIOUS
<1>10. Works(r, new, key, n, heads, disk, snaps) /\ Points(new.memo, snaps)
  <2>1. n \in Nat
    BY <1>1, ChangesAre
  <2>2. Works(r, me, key, n, heads, disk, snaps)
    BY <1>2, <2>1 DEF Works
  <2>3. Confirms(me, m, id, heads, heads, disk, snaps)
    BY <1>1, <1>2, <1>4, <1>5, <1>6, <1>8 DEF Confirms
  <2>4. Grown(snaps, snaps) /\ new = Finished(me, me.stack[1], id)
    BY <1>2, <1>9, GrownSelf
  <2> QED BY <2>2, <2>3, <2>4, FinishedWorks
<1>11. IsRun(new) /\ RunOK(new, key, disk, snaps) /\ Counted(r, new, n, heads, disk, snaps)
  BY <1>10 DEF RunOK, Works
<1>12. Set(r, new)
  BY <1>1, <1>9
<1> QED BY <1>1, <1>11, <1>12, OwnStep

\* What a publication adds.
LEMMA Added ==
  ASSUME NEW sn, NEW row, NEW sn2, Adds(sn, row, sn2)
  PROVE  /\ sn2 \in Seq(SnapRows) /\ Len(sn2) = Len(sn) + 1 /\ Grown(sn, sn2) /\ sn2[Len(sn) + 1] = row
         /\ DOMAIN sn2 = 1..(Len(sn) + 1) /\ Len(sn) \in Nat /\ \A i \in 1..Len(sn) : sn2[i] = sn[i]
<1>1. /\ Len(sn) \in Nat /\ sn2 \in Seq(SnapRows) /\ Len(sn2) = Len(sn) + 1 /\ sn2[Len(sn) + 1] = row
      /\ DOMAIN sn2 = 1..(Len(sn) + 1)
  BY DEF Adds
<1>2. \A i \in 1..Len(sn) : sn2[i] = sn[i]
  BY DEF Adds
<1>3. Grown(sn, sn2)
  BY <1>1, <1>2 DEF Grown
<1> QED BY <1>1, <1>2, <1>3

\* A publication counts as a change for every run but the one that published.
LEMMA CountedAdded ==
  ASSUME NEW q \in Runs, NEW sn, NEW row, NEW sn2, Adds(sn, row, sn2), NEW e \in Nat
  PROVE  /\ row.run = q => Others(q, sn2) = Others(q, sn) /\ Changes(q, e, sn2) = Changes(q, e, sn)
         /\ row.run # q => /\ Changes(q, e, sn2) = Changes(q, e, sn) + 1
                           /\ Others(q, sn) = DOMAIN sn => Others(q, sn2) = DOMAIN sn2
<1>1. PICK k \in Nat : k = Len(sn)
  BY Added
<1>2. /\ sn2[k + 1] = row /\ DOMAIN sn2 = 1..(k + 1) /\ DOMAIN sn = 1..k
      /\ \A i \in 1..k : sn2[i] = sn[i]
  BY <1>1, Added
<1>3. \A i \in 1..(k + 1) : i \in 1..k \/ i = k + 1
  OBVIOUS
<1>4. k + 1 \in 1..(k + 1) /\ (k + 1) \notin 1..k /\ \A i \in 1..k : i \in 1..(k + 1)
  OBVIOUS
<1>5. CASE row.run = q
  <2>1. Others(q, sn2) = Others(q, sn)
    BY <1>2, <1>3, <1>4, <1>5 DEF Others
  <2> QED BY <1>5, <2>1 DEF Changes
<1>6. CASE row.run # q
  <2>1. Others(q, sn2) = Others(q, sn) \cup {k + 1} /\ (k + 1) \notin Others(q, sn)
    BY <1>2, <1>3, <1>4, <1>6 DEF Others
  <2>2. IsFiniteSet(Others(q, sn))
    <3>1. Others(q, sn) \subseteq 1..k
      BY <1>2 DEF Others
    <3>2. IsFiniteSet(1..k)
      BY FS_Interval
    <3> QED BY <3>1, <3>2, FS_Subset
  <2>3. PICK c \in Nat : c = Cardinality(Others(q, sn))
    BY <2>2, FS_CardinalityType
  <2>4. Cardinality(Others(q, sn2)) = c + 1
    BY <2>1, <2>2, <2>3, FS_AddElement
  <2>5. Changes(q, e, sn2) = Changes(q, e, sn) + 1
    BY <2>3, <2>4 DEF Changes
  <2>6. Others(q, sn) = DOMAIN sn => Others(q, sn2) = DOMAIN sn2
    BY <1>2, <1>3, <1>4, <2>1
  <2> QED BY <1>6, <2>5, <2>6
<1> QED BY <1>5, <1>6

\* A run that did not change anything meets one more change.
LEMMA MoreChanges ==
  ASSUME NEW q, NEW me, NEW n, NEW hd, NEW dk, NEW sn, NEW hd2, NEW dk2, NEW sn2, IsRun(me), n \in Nat,
         Counted(q, me, n, hd, dk, sn), Others(q, sn) = DOMAIN sn => Others(q, sn2) = DOMAIN sn2
  PROVE  Counted(q, me, n + 1, hd2, dk2, sn2)
<1>1. PICK a \in 1..IndexAttempts : a = me.attempt
  BY DEF IsRun
<1>2. IndexAttempts \in Nat
  BY IndexRunConstants
<1>3. me.failed # {} => n + 1 >= IndexAttempts
  <2>1. me.failed # {} => n >= IndexAttempts
    BY DEF Counted
  <2> QED BY <1>2, <2>1
<1>4. me.pc = "work" => n + 1 >= a - 1 /\ n + 1 # a - 1
  <2>1. me.pc = "work" => n >= a - 1
    BY <1>1 DEF Counted
  <2> QED BY <1>1, <1>2, <2>1
<1> QED BY <1>1, <1>3, <1>4 DEF Counted

\* A new snapshot is published and becomes the head of its location.
LEMMA PublicationStep ==
  ASSUME IndexInv, NEW r \in Runs, NEW me, me = run[r], me.pc = "work", me.stack # <<>>,
         NEW top, top = me.stack[1], top.step = "publish", Verified(top), ~Unchanged(r, top),
         snaps' = Append(snaps, [module |-> top.module, content |-> top.content,
                                 links |-> top.links, seen |-> top.seen, run |-> r]),
         heads' = [heads EXCEPT ![top.module] = Len(snaps) + 1],
         Set(r, Finished(me, top, Len(snaps) + 1)), UNCHANGED <<disk, edits, checkpoints>>
  PROVE  IndexInv'
<1>1. PICK key, n, m, id : key = Targets[r] /\ n = Changes(r, edits, snaps) /\ m = top.module /\ id = Len(snaps) + 1
  OBVIOUS
<1>2. /\ disk \in [Modules -> Versions] /\ snaps \in Seq(SnapRows) /\ key \in Seq(Modules) /\ IsRun(me)
      /\ WorkOK(me, key, disk, snaps) /\ Points(me.results, snaps) /\ Points(me.memo, snaps)
      /\ Counted(r, me, n, heads, disk, snaps)
      /\ m \in Modules /\ FrameOK(me, top, disk, snaps)
  BY <1>1, Working
<1>3. /\ heads \in [Modules -> Nat] /\ Points(heads, snaps) /\ Len(snaps) \in Nat /\ edits \in Nat
      /\ \A i \in 1..Len(snaps) : SnapOK(i, disk, snaps)
  BY Before
<1>4. /\ top \in Frames /\ Points(top.links, snaps) /\ top.content = disk[m]
      /\ me.eligible => me.inputs[m] # None
      /\ \A d \in Deps[m] : top.links[d] # 0 /\ snaps[top.links[d]].content = disk[d]
      /\ \A d \in Deps[m] : disk[d] \in Versions /\ (me.eligible => me.inputs[d] # None /\ me.inputs[d] <= disk[d])
  <2>1. Publishing(r, me, top, m)
    BY <1>1, <1>2 DEF Publishing
  <2> QED BY <2>1, VerifiedFrame, SMTT(60)
<1>5. top.reuse = 0
  BY DEF Unchanged
<1>6. PICK row, sn2, hd2, new : /\ row = [module |-> m, content |-> top.content, links |-> top.links, seen |-> top.seen, run |-> r]
                                /\ sn2 = Append(snaps, row) /\ hd2 = [heads EXCEPT ![m] = id]
                                /\ new = Finished(me, top, id)
  OBVIOUS
<1>7. snaps' = sn2 /\ heads' = hd2 /\ Set(r, new) /\ disk' = disk /\ edits' = edits /\ checkpoints' = checkpoints
  BY <1>1, <1>6
<1>8. row \in SnapRows /\ row.run = r /\ row.module = m /\ row.content = disk[m] /\ row.links = top.links /\ row.seen = top.seen
  <2>1. top.content \in Versions
    BY <1>2, <1>4
  <2> QED BY <1>2, <1>4, <1>6, <2>1 DEF SnapRows, Frames
<1>9. /\ sn2 \in Seq(SnapRows) /\ Len(sn2) = Len(snaps) + 1 /\ Grown(snaps, sn2) /\ sn2[id] = row /\ DOMAIN sn2 = 1..id
      /\ \A i \in 1..Len(snaps) : sn2[i] = snaps[i]
  <2>1. Adds(snaps, row, sn2)
    BY <1>2, <1>6, <1>8 DEF Adds
  <2> QED BY <1>1, <2>1, Added
<1>10. id \in 1..Len(sn2) /\ id \in Nat /\ id \in 0..Len(sn2) /\ \A i \in 1..id : i \in 1..Len(snaps) \/ i = id
  BY <1>1, <1>3, <1>9
<1>11. hd2 \in [Modules -> Nat] /\ hd2[m] = id /\ \A x \in Modules : x # m => hd2[x] = heads[x]
  BY <1>2, <1>3, <1>6, <1>10
<1>12. Points(hd2, sn2)
  <2>1. Points(heads, sn2)
    BY <1>3, <1>9, PointsStay
  <2> QED BY <1>8, <1>9, <1>10, <1>11, <2>1 DEF Points
<1>13. ASSUME NEW d \in Deps[m]
       PROVE  /\ d \in Modules /\ Seen(me, disk, top.seen, d, 0) /\ top.links[d] \in 1..Len(snaps)
              /\ top.seen[d] = Shape[sn2[top.links[d]].content]
  <2>1. d \in Modules
    BY <1>2, NeedsAre
  <2>2. top.links[d] \in 1..Len(snaps)
    <3>1. top.links[d] \in 0..Len(snaps) /\ top.links[d] # 0
      BY <1>4, <2>1 DEF Points
    <3> QED BY <1>3, <3>1
  <2>3. Seen(me, disk, top.seen, d, disk[d])
    BY <1>1, <1>2, <1>4, <1>5 DEF FrameOK
  <2>4. PICK w \in Versions : /\ disk[d] <= w /\ w <= disk[d] /\ top.seen[d] = Shape[w]
                              /\ me.eligible => me.inputs[d] # None /\ me.inputs[d] <= w
    BY <2>3 DEF Seen
  <2>5. w = disk[d] /\ 0 <= w
    <3>1. w \in Nat /\ disk[d] \in Nat
      BY <1>4, NeedsAre
    <3> QED BY <2>4, <3>1
  <2>6. sn2[top.links[d]].content = disk[d]
    BY <1>4, <1>9, <2>2
  <2>7. Seen(me, disk, top.seen, d, 0)
    BY <2>4, <2>5 DEF Seen
  <2> QED BY <2>1, <2>2, <2>4, <2>5, <2>6, <2>7
<1>14. ASSUME NEW i \in 1..id PROVE SnapOK(i, disk, sn2)
  <2>1. CASE i \in 1..Len(snaps)
    <3>1. NewerDisk(disk, disk) /\ SnapOK(i, disk, snaps)
      BY <1>2, <1>3, <2>1, GrownSelf
    <3> QED BY <1>2, <1>9, <2>1, <3>1, SnapStays
  <2>2. CASE i = id
    <3>1. Points(top.links, sn2)
      BY <1>3, <1>4, <1>9, PointsStay, SMTT(60)
    <3>2. disk[m] <= disk[m]
      BY <1>2, NeedsAre
    <3>3. \A d \in Deps[m] : top.links[d] # 0 /\ top.seen[d] = Shape[sn2[top.links[d]].content]
      BY <1>4, <1>13
    <3>4. sn2[i].content = disk[m] /\ sn2[i].module = m /\ sn2[i].links = top.links /\ sn2[i].seen = top.seen
      BY <1>8, <1>9, <2>2
    <3> QED BY <3>1, <3>2, <3>3, <3>4, ZenonT(40) DEF SnapOK
  <2> QED BY <1>10, <2>1, <2>2
<1>15. Works(r, new, key, n, hd2, disk, sn2) /\ Points(new.memo, sn2)
  <2>1. n \in Nat
    BY <1>1, ChangesAre
  <2>2. Works(r, me, key, n, heads, disk, snaps)
    BY <1>2, <2>1 DEF Works
  <2>3. ASSUME NEW x \in Needs(m) PROVE Seen(me, disk, sn2[id].seen, x, 0)
    <3>1. CASE x \in Deps[m]
      BY <1>8, <1>9, <1>13, <3>1
    <3>2. CASE x \in Siblings[m]
      BY <1>1, <1>2, <1>5, <1>8, <1>9, <3>2 DEF FrameOK
    <3> QED BY <3>1, <3>2 DEF Needs
  <2>4. Confirms(me, m, id, heads, hd2, disk, sn2)
    BY <1>1, <1>2, <1>4, <1>8, <1>9, <1>10, <1>11, <2>3 DEF Confirms
  <2>5. Grown(snaps, sn2) /\ new = Finished(me, me.stack[1], id)
    BY <1>6, <1>9
  <2> QED BY <2>2, <2>4, <2>5, FinishedWorks
<1>16. /\ DOMAIN run' = Runs /\ run'[r] = new /\ \A q \in Runs : q # r => run'[q] = run[q]
  BY <1>7 DEF Set, IndexInv
<1>17. ASSUME NEW q \in Runs
       PROVE  /\ IsRun(run'[q]) /\ RunOK(run'[q], Targets[q], disk, sn2)
              /\ Counted(q, run'[q], Changes(q, edits, sn2), hd2, disk, sn2)
  <2>1. CASE q = r
    <3>1. Changes(r, edits, sn2) = n
      <4>1. Adds(snaps, row, sn2)
        BY <1>2, <1>6, <1>8 DEF Adds
      <4> QED BY <1>1, <1>3, <1>8, <4>1, CountedAdded
    <3>2. RunOK(new, key, disk, sn2)
      BY <1>15 DEF RunOK, Works
    <3> QED BY <1>1, <1>15, <1>16, <2>1, <3>1, <3>2 DEF Works
  <2>2. CASE q # r
    <3>1. PICK other, c : other = run[q] /\ run'[q] = other /\ c = Changes(q, edits, snaps)
      BY <1>16, <2>2
    <3>2. /\ IsRun(other) /\ RunOK(other, Targets[q], disk, snaps) /\ Targets[q] \in Seq(Modules)
          /\ Counted(q, other, c, heads, disk, snaps)
      BY <3>1, Before
    <3>3. RunOK(other, Targets[q], disk, sn2)
      BY <1>2, <1>9, <3>2, GrownSelf, RunStays
    <3>4. c \in Nat /\ Changes(q, edits, sn2) = c + 1 /\ (Others(q, snaps) = DOMAIN snaps => Others(q, sn2) = DOMAIN sn2)
      <4>1. Adds(snaps, row, sn2) /\ row.run # q
        BY <1>2, <1>6, <1>8, <2>2 DEF Adds
      <4>2. Changes(q, edits, snaps) \in Nat
        BY ChangesAre
      <4> QED BY <1>3, <3>1, <4>1, <4>2, CountedAdded
    <3>5. Counted(q, other, c + 1, hd2, disk, sn2)
      BY <3>2, <3>4, MoreChanges
    <3> QED BY <3>1, <3>2, <3>3, <3>4, <3>5
  <2> QED BY <2>1, <2>2
<1>18. ASSUME NEW k \in Keys, checkpoints[k] # None PROVE CheckpointOK(k, checkpoints[k], sn2)
  <2>1. CheckpointOK(k, checkpoints[k], snaps) /\ k \in Seq(Modules)
    <3>1. CheckpointOK(k, checkpoints[k], snaps)
      BY <1>18 DEF IndexInv
    <3>2. k \in Seq(Modules)
      BY IndexRunConstants DEF Keys, Key
    <3> QED BY <3>1, <3>2
  <2> QED BY <1>2, <1>9, <2>1, CheckpointStays
<1>19. edits \in 0..MaxEdits
  BY DEF IndexInv
<1>20. /\ disk' \in [Modules -> Versions] /\ edits' \in 0..MaxEdits
       /\ heads' \in [Modules -> Nat] /\ Points(heads', snaps')
       /\ snaps' \in Seq(SnapRows) /\ \A i \in DOMAIN snaps' : SnapOK(i, disk', snaps')
       /\ \A k \in Keys : checkpoints'[k] # None => CheckpointOK(k, checkpoints'[k], snaps')
  BY <1>2, <1>7, <1>9, <1>11, <1>12, <1>14, <1>18, <1>19
<1>21. \A q \in Runs : /\ IsRun(run'[q]) /\ RunOK(run'[q], Targets[q], disk', snaps')
                       /\ Counted(q, run'[q], Changes(q, edits', snaps'), heads', disk', snaps')
  BY <1>7, <1>17
<1> QED BY <1>16, <1>20, <1>21 DEF IndexInv

LEMMA PublishKeeps == ASSUME IndexInv, NEW r \in Runs, Publish(r) PROVE IndexInv'
<1>1. PICK me, top, id : me = run[r] /\ top = Top(r) /\ id = Len(snaps) + 1
  OBVIOUS
<1>2. /\ me.pc = "work" /\ me.stack # <<>> /\ top.step = "publish" /\ UNCHANGED <<disk, edits, checkpoints>>
      /\ \/ ~(Verified(top) /\ BaseHolds(top)) /\ Set(r, Changed(me)) /\ UNCHANGED <<heads, snaps>>
         \/ /\ Verified(top) /\ BaseHolds(top) /\ Unchanged(r, top)
            /\ Set(r, Finished(me, top, heads[top.module])) /\ UNCHANGED <<heads, snaps>>
         \/ /\ Verified(top) /\ ~Unchanged(r, top)
            /\ snaps' = Append(snaps, [module |-> top.module, content |-> top.content,
                                       links |-> top.links, seen |-> top.seen, run |-> r])
            /\ heads' = [heads EXCEPT ![top.module] = id]
            /\ Set(r, Finished(me, top, id))
  BY <1>1, Zenon DEF Publish
<1>3. top = me.stack[1]
  BY <1>1, <1>2, Working
<1>4. CASE ~(Verified(top) /\ BaseHolds(top)) /\ Set(r, Changed(me)) /\ UNCHANGED <<heads, snaps>>
  <2>1. ~Steady(me, heads, disk, snaps)
    BY <1>1, <1>2, <1>3, <1>4, SteadyVerifies
  <2>2. Changes(r, edits, snaps) \in Nat
    BY ChangesAre
  <2>3. UNCHANGED <<disk, edits, heads, snaps, checkpoints>>
    BY <1>2, <1>4
  <2> QED BY <1>1, <1>2, <1>4, <2>1, <2>2, <2>3, ChangedStep
<1>5. CASE /\ Verified(top) /\ BaseHolds(top) /\ Unchanged(r, top)
           /\ Set(r, Finished(me, top, heads[top.module])) /\ UNCHANGED <<heads, snaps>>
  <2>1. UNCHANGED <<disk, edits, heads, snaps, checkpoints>>
    BY <1>2, <1>5
  <2> QED BY <1>1, <1>2, <1>3, <1>5, <2>1, ConfirmStep
<1>6. CASE /\ Verified(top) /\ ~Unchanged(r, top)
           /\ snaps' = Append(snaps, [module |-> top.module, content |-> top.content,
                                      links |-> top.links, seen |-> top.seen, run |-> r])
           /\ heads' = [heads EXCEPT ![top.module] = id]
           /\ Set(r, Finished(me, top, id))
  BY <1>1, <1>2, <1>3, <1>6, PublicationStep
<1> QED BY <1>2, <1>4, <1>5, <1>6

-----------------------------------------------------------------------------
(* How a run ends.                                                         *)

\* A run that moves on once nothing is under way any more.
LEMMA WaitKeeps == ASSUME IndexInv, NEW r \in Runs, Wait(r) PROVE IndexInv'
<1>1. PICK me, saves, key, n : /\ me = run[r] /\ key = Targets[r] /\ n = Changes(r, edits, snaps)
                               /\ saves \in BOOLEAN
                               /\ saves = (/\ me.failed = {} /\ r \notin Forced /\ me.eligible
                                           /\ Refreshed(me.inputs) = me.inputs)
  OBVIOUS
<1>2. PICK new : new = [me EXCEPT !.pc = IF saves THEN "saving" ELSE "done"]
  OBVIOUS
<1>3. /\ me.pc = "work" /\ me.left = <<>> /\ Set(r, new) /\ UNCHANGED <<disk, edits, heads, snaps, checkpoints>>
  BY <1>1, <1>2, Zenon DEF Wait
<1>4. /\ disk \in [Modules -> Versions] /\ snaps \in Seq(SnapRows) /\ key \in Seq(Modules) /\ IsRun(me)
      /\ WorkOK(me, key, disk, snaps) /\ Points(me.results, snaps) /\ Points(me.memo, snaps)
      /\ Counted(r, me, n, heads, disk, snaps)
  BY <1>1, <1>3, Working
<1>5. /\ IsRun(new) /\ new.pc \in {"saving", "done"} /\ (new.pc = "saving" => saves)
      /\ new.memo = me.memo /\ new.results = me.results /\ new.inputs = me.inputs /\ new.failed = me.failed
  <2>1. /\ Shaped(new) /\ new.pc = (IF saves THEN "saving" ELSE "done") /\ new.left = me.left /\ new.stack = me.stack
        /\ new.memo = me.memo /\ new.attempt = me.attempt /\ new.inputs = me.inputs /\ new.eligible = me.eligible
        /\ new.results = me.results /\ new.failed = me.failed
    BY <1>2, <1>4 DEF IsRun, Shaped
  <2>2. new.pc \in Places
    BY <2>1 DEF Places
  <2>3. IsRun(new)
    BY <1>4, <2>1, <2>2 DEF IsRun
  <2> QED BY <2>1, <2>3
<1>6. ASSUME saves PROVE Current(key, me.results, me.inputs, snaps)
  <2>1. me.eligible /\ me.failed = {} /\ \A m \in Modules : me.inputs[m] # None => me.inputs[m] = disk[m]
    <3>1. me.eligible /\ me.failed = {} /\ Refreshed(me.inputs) = me.inputs
      BY <1>1, <1>6
    <3> QED BY <3>1 DEF Refreshed
  <2>2. ASSUME NEW t \in 1..Len(key) PROVE key[t] \in Modules /\ Good(me, key[t], disk, snaps)
    <3>1. Len(me.left) = 0 /\ Len(key) \in Nat
      BY <1>3, <1>4
    <3>2. Len(key) - Len(me.left) = Len(key)
      BY <3>1
    <3>3. DoneOK(me, key, disk, snaps)
      BY <1>4 DEF WorkOK
    <3>4. Good(me, key[t], disk, snaps)
      BY <2>1, <3>2, <3>3 DEF DoneOK
    <3> QED BY <1>4, <3>4
  <2>3. ASSUME NEW t \in 1..Len(key), NEW m, m = key[t]
        PROVE  /\ me.results[m] # 0 /\ snaps[me.results[m]].content = me.inputs[m]
               /\ \A d \in Needs(m) : me.inputs[d] # None /\ snaps[me.results[m]].seen[d] = Shape[me.inputs[d]]
    <3>1. m \in Modules /\ Good(me, m, disk, snaps)
      BY <2>2, <2>3
    <3>2. PICK i : i = me.results[m]
      OBVIOUS
    <3>3. /\ i # 0 /\ me.inputs[m] # None /\ me.inputs[m] <= snaps[i].content
          /\ \A d \in Needs(m) : Seen(me, disk, snaps[i].seen, d, 0)
      BY <3>1, <3>2 DEF Good, Fresh
    <3>4. i \in 1..Len(snaps) /\ snaps[i].module = m
      <4>1. i \in 0..Len(snaps) /\ snaps[i].module = m /\ Len(snaps) \in Nat
        BY <1>4, <3>1, <3>2, <3>3 DEF Points
      <4> QED BY <3>3, <4>1
    <3>5. snaps[i].content <= disk[m]
      BY <3>4, Before DEF SnapOK
    <3>6. snaps[i].content = me.inputs[m]
      <4>1. snaps[i] \in SnapRows
        BY <1>4, <3>4
      <4>2. snaps[i].content \in Versions /\ disk[m] \in Versions
        BY <1>4, <3>1, <4>1 DEF SnapRows
      <4>3. snaps[i].content \in Int /\ disk[m] \in Int
        BY <4>2, NeedsAre
      <4>4. me.inputs[m] = disk[m]
        BY <2>1, <3>1, <3>3
      <4> QED BY <3>3, <3>5, <4>3, <4>4
    <3>7. ASSUME NEW d \in Needs(m) PROVE me.inputs[d] # None /\ snaps[i].seen[d] = Shape[me.inputs[d]]
      <4>1. PICK w \in Versions : /\ 0 <= w /\ w <= disk[d] /\ snaps[i].seen[d] = Shape[w]
                                  /\ me.eligible => me.inputs[d] # None /\ me.inputs[d] <= w
        BY <3>3, <3>7 DEF Seen
      <4>2. d \in Modules
        BY <3>1, <3>7, NeedsAre
      <4>3. me.inputs[d] # None /\ me.inputs[d] = disk[d] /\ me.inputs[d] <= w
        BY <2>1, <4>1, <4>2
      <4>4. w \in Int /\ disk[d] \in Int
        BY <1>4, <4>2, NeedsAre
      <4>5. w = me.inputs[d]
        BY <4>1, <4>3, <4>4
      <4> QED BY <4>1, <4>3, <4>5
    <3> QED BY <3>2, <3>3, <3>6, <3>7
  <2> QED BY <2>3 DEF Current
<1>7. RunOK(new, key, disk, snaps)
  BY <1>4, <1>5, <1>6 DEF RunOK
<1>8. Counted(r, new, n, heads, disk, snaps)
  BY <1>4, <1>5 DEF Counted
<1> QED BY <1>1, <1>3, <1>5, <1>7, <1>8, OwnStep

\* A run that moves to another place at the end, with everything else as it was.
LEMMA EndStep ==
  ASSUME IndexInv, NEW r \in Runs, run[r].pc \in {"saving", "storing"}, NEW p \in {"storing", "done"},
         NEW new, new = [run[r] EXCEPT !.pc = p]
  PROVE  /\ IsRun(new) /\ RunOK(new, Targets[r], disk, snaps)
         /\ Counted(r, new, Changes(r, edits, snaps), heads, disk, snaps)
         /\ Points(run[r].results, snaps) /\ Current(Targets[r], run[r].results, run[r].inputs, snaps)
<1>1. PICK me, key, n : me = run[r] /\ key = Targets[r] /\ n = Changes(r, edits, snaps)
  OBVIOUS
<1>2. IsRun(me) /\ RunOK(me, key, disk, snaps) /\ Counted(r, me, n, heads, disk, snaps)
  BY <1>1, Before
<1>3. Points(me.results, snaps) /\ Points(me.memo, snaps) /\ Current(key, me.results, me.inputs, snaps)
  BY <1>1, <1>2 DEF RunOK
<1>4. /\ IsRun(new) /\ new.pc = p /\ new.memo = me.memo /\ new.results = me.results /\ new.inputs = me.inputs
      /\ new.failed = me.failed
  <2>1. /\ Shaped(new) /\ new.pc = p /\ new.left = me.left /\ new.stack = me.stack
        /\ new.memo = me.memo /\ new.attempt = me.attempt /\ new.inputs = me.inputs /\ new.eligible = me.eligible
        /\ new.results = me.results /\ new.failed = me.failed
    BY <1>1, <1>2 DEF IsRun, Shaped
  <2>2. new.pc \in Places
    BY <2>1 DEF Places
  <2>3. IsRun(new)
    BY <1>2, <2>1, <2>2 DEF IsRun
  <2> QED BY <2>1, <2>3
<1>5. RunOK(new, key, disk, snaps)
  BY <1>3, <1>4 DEF RunOK
<1>6. Counted(r, new, n, heads, disk, snaps)
  BY <1>2, <1>4 DEF Counted
<1> QED BY <1>1, <1>3, <1>4, <1>5, <1>6

LEMMA SaveHeadsKeeps == ASSUME IndexInv, NEW r \in Runs, SaveHeads(r) PROVE IndexInv'
<1>1. PICK p, new : p \in {"storing", "done"} /\ new = [run[r] EXCEPT !.pc = p] /\ Set(r, new)
  <2>1. PICK saves \in BOOLEAN :
          saves = ((\A m \in Modules : run[r].memo[m] # 0 => m \in Settled) /\ HeadsCurrent(run[r].memo))
    OBVIOUS
  <2>2. Set(r, [run[r] EXCEPT !.pc = IF saves THEN "storing" ELSE "done"])
    BY <2>1, Zenon DEF SaveHeads
  <2> QED BY <2>1, <2>2
<1>2. run[r].pc = "saving" /\ UNCHANGED <<disk, edits, heads, snaps, checkpoints>>
  BY DEF SaveHeads
<1> QED BY <1>1, <1>2, EndStep, OwnStep

LEMMA SaveCheckpointKeeps == ASSUME IndexInv, NEW r \in Runs, SaveCheckpoint(r) PROVE IndexInv'
<1>1. PICK me, new, key, c : /\ me = run[r] /\ new = [run[r] EXCEPT !.pc = "done"] /\ key = Targets[r]
                             /\ c = [inputs |-> me.inputs, catalog |-> Catalog, results |-> me.results, heads |-> me.memo]
  OBVIOUS
<1>2. /\ me.pc = "storing" /\ checkpoints' = [checkpoints EXCEPT ![key] = c] /\ Set(r, new)
      /\ UNCHANGED <<disk, edits, heads, snaps>>
  BY <1>1, Zenon DEF SaveCheckpoint, Key
<1>3. /\ IsRun(new) /\ RunOK(new, key, disk, snaps) /\ Counted(r, new, Changes(r, edits, snaps), heads, disk, snaps)
      /\ Points(me.results, snaps) /\ Current(key, me.results, me.inputs, snaps)
  BY <1>1, <1>2, EndStep
<1>4. CheckpointOK(key, c, snaps)
  <2>1. c.inputs = me.inputs /\ c.results = me.results
    BY <1>1
  <2>2. me.results \in [Modules -> Nat]
    BY <1>1, Before DEF IsRun
  <2> QED BY <1>3, <2>1, <2>2 DEF CheckpointOK
<1>5. ASSUME NEW k \in Keys, checkpoints'[k] # None PROVE CheckpointOK(k, checkpoints'[k], snaps)
  <2>1. (checkpoints'[k] = c /\ k = key) \/ checkpoints'[k] = checkpoints[k]
    BY <1>2
  <2> QED BY <1>4, <1>5, <2>1 DEF IndexInv
<1>6. DOMAIN run' = Runs /\ run'[r] = new /\ \A q \in Runs : q # r => run'[q] = run[q]
  BY <1>2 DEF Set, IndexInv
<1>7. ASSUME NEW q \in Runs
      PROVE  /\ IsRun(run'[q]) /\ RunOK(run'[q], Targets[q], disk, snaps)
             /\ Counted(q, run'[q], Changes(q, edits, snaps), heads, disk, snaps)
  <2>1. CASE q = r
    BY <1>1, <1>3, <1>6, <2>1
  <2>2. CASE q # r
    BY <1>6, <2>2, Before
  <2> QED BY <2>1, <2>2
<1>8. disk' = disk /\ edits' = edits /\ heads' = heads /\ snaps' = snaps
  BY <1>2
<1>9. /\ disk' \in [Modules -> Versions] /\ edits' \in 0..MaxEdits
      /\ heads' \in [Modules -> Nat] /\ Points(heads', snaps')
      /\ snaps' \in Seq(SnapRows) /\ \A i \in DOMAIN snaps' : SnapOK(i, disk', snaps')
      /\ \A k \in Keys : checkpoints'[k] # None => CheckpointOK(k, checkpoints'[k], snaps')
  BY <1>5, <1>8 DEF IndexInv
<1>10. \A q \in Runs : /\ IsRun(run'[q]) /\ RunOK(run'[q], Targets[q], disk', snaps')
                       /\ Counted(q, run'[q], Changes(q, edits', snaps'), heads', disk', snaps')
  BY <1>7, <1>8
<1> QED BY <1>6, <1>9, <1>10 DEF IndexInv

\* A request that joined a run ends with what that run reports: a change counts for it
\* when it counts for the other, as it published nothing.
LEMMA WaitJoinedKeeps == ASSUME IndexInv, NEW r \in Runs, WaitJoined(r) PROVE IndexInv'
<1>1. PICK me, of, their, new, key, n :
        /\ me = run[r] /\ of = run[r].of /\ their = run[of] /\ key = Targets[r] /\ n = Changes(r, edits, snaps)
        /\ new = [me EXCEPT !.pc = "done", !.results = their.results, !.failed = their.failed, !.of = None]
  OBVIOUS
<1>2. me.pc = "joined" /\ Set(r, new) /\ UNCHANGED <<disk, edits, heads, snaps, checkpoints>>
  BY <1>1, Zenon DEF WaitJoined
<1>3. /\ IsRun(me) /\ RunOK(me, key, disk, snaps) /\ Counted(r, me, n, heads, disk, snaps)
      /\ DOMAIN snaps = 1..Len(snaps) /\ edits \in Nat /\ Len(snaps) \in Nat
  BY <1>1, Before
<1>4. of \in Runs /\ Points(me.memo, snaps) /\ Others(r, snaps) = DOMAIN snaps
  BY <1>1, <1>2, <1>3 DEF RunOK, Counted
<1>5. /\ IsRun(their) /\ Points(their.results, snaps)
      /\ their.failed # {} => Changes(of, edits, snaps) >= IndexAttempts
  <2>1. IsRun(run[of]) /\ RunOK(run[of], Targets[of], disk, snaps)
        /\ Counted(of, run[of], Changes(of, edits, snaps), heads, disk, snaps)
    BY <1>4, Before
  <2> QED BY <1>1, <2>1 DEF RunOK, Counted
<1>6. IsRun(new) /\ new.pc = "done" /\ new.memo = me.memo /\ new.results = their.results /\ new.failed = their.failed
  <2>1. /\ Shaped(new) /\ new.pc = "done" /\ new.left = me.left /\ new.stack = me.stack
        /\ new.memo = me.memo /\ new.attempt = me.attempt /\ new.inputs = me.inputs /\ new.eligible = me.eligible
        /\ new.results = their.results /\ new.failed = their.failed
    BY <1>1, <1>3 DEF IsRun, Shaped
  <2>2. new.pc \in Places
    BY <2>1 DEF Places
  <2>3. their.results \in [Modules -> Nat] /\ their.failed \subseteq Modules
    BY <1>5 DEF IsRun
  <2>4. IsRun(new)
    BY <1>3, <2>1, <2>2, <2>3 DEF IsRun
  <2> QED BY <2>1, <2>4
<1>7. RunOK(new, key, disk, snaps)
  BY <1>4, <1>5, <1>6 DEF RunOK
<1>8. Counted(r, new, n, heads, disk, snaps)
  <2>1. ASSUME their.failed # {} PROVE n >= IndexAttempts
    <3>1. PICK a, b : a = Cardinality(Others(of, snaps)) /\ b = Cardinality(Others(r, snaps))
      OBVIOUS
    <3>2. a \in Nat /\ b \in Nat /\ a <= b
      <4>1. IsFiniteSet(DOMAIN snaps)
        BY <1>3, FS_Interval
      <4>2. Others(of, snaps) \subseteq DOMAIN snaps
        BY DEF Others
      <4> QED BY <1>4, <3>1, <4>1, <4>2, FS_Subset, FS_CardinalityType
    <3>3. n = edits + b /\ edits + a >= IndexAttempts
      BY <1>1, <1>5, <2>1, <3>1 DEF Changes
    <3> QED BY <1>3, <3>2, <3>3, IndexRunConstants
  <2> QED BY <1>6, <2>1 DEF Counted
<1> QED BY <1>1, <1>2, <1>6, <1>7, <1>8, OwnStep

\* Every step of a run keeps the invariant.
LEMMA StepKeeps == ASSUME IndexInv, NEW r \in Runs, Step(r) PROVE IndexInv'
<1>1. CASE Start(r)
  BY <1>1, StartKeeps
<1>2. CASE CompareDigest(r)
  BY <1>2, CompareDigestKeeps
<1>3. CASE CompareHeads(r)
  BY <1>3, CompareHeadsKeeps
<1>4. CASE BeginTarget(r)
  BY <1>4, BeginTargetKeeps
<1>5. CASE Read(r)
  BY <1>5, ReadKeeps
<1>6. CASE LinkDependency(r)
  BY <1>6, LinkDependencyKeeps
<1>7. CASE CheckHead(r)
  BY <1>7, CheckHeadKeeps
<1>8. CASE Extract(r)
  BY <1>8, ExtractKeeps
<1>9. CASE Publish(r)
  BY <1>9, PublishKeeps
<1>10. CASE Wait(r)
  BY <1>10, WaitKeeps
<1>11. CASE SaveHeads(r)
  BY <1>11, SaveHeadsKeeps
<1>12. CASE SaveCheckpoint(r)
  BY <1>12, SaveCheckpointKeeps
<1>13. CASE WaitJoined(r)
  BY <1>13, WaitJoinedKeeps
<1> QED BY <1>1, <1>2, <1>3, <1>4, <1>5, <1>6, <1>7, <1>8, <1>9, <1>10, <1>11, <1>12, <1>13, Zenon DEF Step

-----------------------------------------------------------------------------
(* Edits, and the theorems.                                                *)

\* An edit that restores no earlier version makes the sources newer, and counts as a
\* change for every run.
LEMMA EditKeeps == ASSUME IndexInv, ~Reverts, NEW m \in Modules, Edit(m) PROVE IndexInv'
<1>1. PICK v \in Versions : v = disk[m] + 1 /\ disk' = [disk EXCEPT ![m] = v]
  BY DEF Edit
<1>2. edits < MaxEdits /\ edits' = edits + 1 /\ heads' = heads /\ snaps' = snaps /\ checkpoints' = checkpoints /\ run' = run
  BY DEF Edit
<1>3. PICK dk2 : dk2 = [disk EXCEPT ![m] = v]
  OBVIOUS
<1>4. disk \in [Modules -> Versions] /\ edits \in 0..MaxEdits /\ snaps \in Seq(SnapRows) /\ DOMAIN snaps = 1..Len(snaps)
  BY DEF IndexInv
<1>5. dk2 \in [Modules -> Versions] /\ NewerDisk(disk, dk2) /\ Grown(snaps, snaps) /\ disk' = dk2
  <2>1. dk2 \in [Modules -> Versions] /\ disk' = dk2
    BY <1>1, <1>3, <1>4
  <2>2. ASSUME NEW x \in Modules PROVE disk[x] <= dk2[x]
    <3>1. disk[x] \in Nat /\ disk[m] \in Nat
      BY <1>4, NeedsAre
    <3>2. dk2[x] = disk[x] \/ dk2[x] = disk[x] + 1
      BY <1>1, <1>3, <1>4
    <3> QED BY <3>1, <3>2
  <2>3. Grown(snaps, snaps)
    BY <1>4, GrownSelf
  <2> QED BY <2>1, <2>2, <2>3 DEF NewerDisk
<1>6. edits' \in 0..MaxEdits
  BY <1>2, <1>4, NeedsAre
<1>7. ASSUME NEW i \in DOMAIN snaps PROVE SnapOK(i, dk2, snaps)
  <2>1. SnapOK(i, disk, snaps)
    BY DEF IndexInv
  <2> QED BY <1>4, <1>5, <2>1, SnapStays
<1>8. ASSUME NEW q \in Runs
      PROVE  /\ IsRun(run[q]) /\ RunOK(run[q], Targets[q], dk2, snaps)
             /\ Counted(q, run[q], Changes(q, edits', snaps), heads, dk2, snaps)
  <2>1. PICK me, n : me = run[q] /\ n = Changes(q, edits, snaps)
    OBVIOUS
  <2>2. /\ Targets[q] \in Seq(Modules) /\ IsRun(me) /\ RunOK(me, Targets[q], disk, snaps)
        /\ Counted(q, me, n, heads, disk, snaps) /\ n \in Nat
    BY <2>1, Before, ChangesAre
  <2>3. RunOK(me, Targets[q], dk2, snaps)
    BY <1>4, <1>5, <2>2, RunStays
  <2>4. Counted(q, me, n + 1, heads, dk2, snaps)
    BY <2>2, MoreChanges
  <2>5. Changes(q, edits', snaps) = n + 1
    <3>1. PICK c : c = Cardinality(Others(q, snaps))
      OBVIOUS
    <3>2. c \in Nat
      <4>1. IsFiniteSet(DOMAIN snaps)
        BY <1>4, FS_Interval
      <4>2. Others(q, snaps) \subseteq DOMAIN snaps
        BY DEF Others
      <4> QED BY <3>1, <4>1, <4>2, FS_Subset, FS_CardinalityType
    <3>3. n = edits + c /\ Changes(q, edits', snaps) = (edits + 1) + c /\ edits \in Nat
      BY <1>2, <1>4, <2>1, <3>1, NeedsAre DEF Changes
    <3> QED BY <3>2, <3>3
  <2> QED BY <2>1, <2>2, <2>3, <2>4, <2>5
<1>9. /\ disk' \in [Modules -> Versions] /\ edits' \in 0..MaxEdits
      /\ heads' \in [Modules -> Nat] /\ Points(heads', snaps')
      /\ snaps' \in Seq(SnapRows) /\ \A i \in DOMAIN snaps' : SnapOK(i, disk', snaps')
      /\ \A k \in Keys : checkpoints'[k] # None => CheckpointOK(k, checkpoints'[k], snaps')
      /\ DOMAIN run' = Runs
  BY <1>2, <1>5, <1>6, <1>7 DEF IndexInv
<1>10. \A q \in Runs : /\ IsRun(run'[q]) /\ RunOK(run'[q], Targets[q], disk', snaps')
                       /\ Counted(q, run'[q], Changes(q, edits', snaps'), heads', disk', snaps')
  BY <1>2, <1>5, <1>8
<1> QED BY <1>9, <1>10 DEF IndexInv

\* At first nothing is indexed, and no run has begun.
LEMMA InitKeeps == Init => IndexInv
<1>1. SUFFICES ASSUME Init PROVE IndexInv
  OBVIOUS
<1>2. /\ disk = [m \in Modules |-> 0] /\ edits = 0 /\ heads = NoSnapshots /\ snaps = <<>>
      /\ checkpoints = [k \in Keys |-> None] /\ run = [r \in Runs |-> IdleRun]
  BY <1>1 DEF Init
<1>3. disk \in [Modules -> Versions] /\ edits \in 0..MaxEdits
  BY <1>2, NeedsAre DEF Versions
<1>4. snaps \in Seq(SnapRows) /\ Len(snaps) = 0 /\ DOMAIN snaps = {}
  BY <1>2
<1>5. heads \in [Modules -> Nat] /\ Points(heads, snaps)
  <2>1. heads \in [Modules -> Nat] /\ \A m \in Modules : heads[m] = 0
    BY <1>2 DEF NoSnapshots
  <2>2. 0 \in 0..Len(snaps)
    BY <1>4
  <2> QED BY <2>1, <2>2 DEF Points
<1>6. /\ IsRun(IdleRun) /\ Points(IdleRun.memo, snaps) /\ Points(IdleRun.results, snaps)
      /\ IdleRun.pc = "idle" /\ IdleRun.failed = {}
  <2>1. PICK new : new = IdleRun
    OBVIOUS
  <2>2. /\ Shaped(new) /\ new.pc = "idle" /\ new.left = <<>> /\ new.stack = <<>> /\ new.memo = NoSnapshots
        /\ new.attempt = 1 /\ new.inputs = NoInputs /\ new.eligible = TRUE /\ new.results = NoSnapshots /\ new.failed = {}
    BY <2>1 DEF IdleRun, Shaped
  <2>3. new.pc \in Places /\ new.left \in Seq(Modules)
    <3>1. <<>> \in Seq(Modules)
      OBVIOUS
    <3> QED BY <2>2, <3>1 DEF Places
  <2>4. IsRun(new) /\ Points(new.memo, snaps) /\ Points(new.results, snaps)
    BY <1>4, <2>2, <2>3, BlankRun
  <2> QED BY <2>1, <2>2, <2>4
<1>7. ASSUME NEW r \in Runs
      PROVE  /\ IsRun(run[r]) /\ RunOK(run[r], Targets[r], disk, snaps)
             /\ Counted(r, run[r], Changes(r, edits, snaps), heads, disk, snaps)
  <2>1. run[r] = IdleRun
    BY <1>2
  <2>2. Others(r, snaps) = DOMAIN snaps
    BY <1>4 DEF Others
  <2>3. RunOK(IdleRun, Targets[r], disk, snaps)
    BY <1>6 DEF RunOK
  <2>4. Counted(r, IdleRun, Changes(r, edits, snaps), heads, disk, snaps)
    BY <1>6, <2>2 DEF Counted
  <2> QED BY <1>6, <2>1, <2>3, <2>4
<1>8. DOMAIN run = Runs /\ \A k \in Keys : checkpoints[k] = None
  BY <1>2
<1> QED BY <1>3, <1>4, <1>5, <1>7, <1>8 DEF IndexInv

\* Every step of the system keeps the invariant.
LEMMA NextKeeps == ASSUME ~Reverts, IndexInv, [Next]_vars PROVE IndexInv'
<1>1. CASE \E r \in Runs : Step(r)
  BY <1>1, StepKeeps
<1>2. CASE \E m \in Modules : Edit(m)
  BY <1>2, EditKeeps
<1>3. CASE UNCHANGED vars
  BY <1>3 DEF vars, IndexInv
<1> QED BY <1>1, <1>2, <1>3 DEF Next

\* The invariant, while no edit restores an earlier version.
THEOREM IndexInvariant == ASSUME ~Reverts PROVE Spec => []IndexInv
<1>1. Init => IndexInv
  BY InitKeeps
<1>2. IndexInv /\ [Next]_vars => IndexInv'
  BY NextKeeps
<1> QED BY <1>1, <1>2, PTL DEF Spec

\* What a run publishes and reports is of the sources it read, however runs, edits and
\* publications interleave (verifyIndexInputs, publishModules, indexTarget).
THEOREM RunsPublishTheirSources == ASSUME ~Reverts PROVE Spec => []RunsPublishWhatTheyRead
<1>1. ASSUME IndexInv PROVE RunsPublishWhatTheyRead
  <2>1. /\ disk \in [Modules -> Versions] /\ edits \in 0..MaxEdits
        /\ heads \in [Modules -> Nat] /\ Points(heads, snaps)
        /\ snaps \in Seq(SnapRows) /\ Len(snaps) \in Nat /\ \A i \in DOMAIN snaps : SnapOK(i, disk, snaps)
    BY <1>1 DEF IndexInv
  <2>2. IndexTypeOK
    <3>1. ASSUME NEW m \in Modules PROVE heads[m] \in Ids /\ (heads[m] # 0 => snaps[heads[m]].module = m)
      BY <2>1 DEF Points, Ids
    <3>2. ASSUME NEW r \in Runs
          PROVE  /\ run[r].pc \in {"idle", "catalog", "heads", "reused", "work", "saving", "storing", "joined", "done"}
                 /\ run[r].attempt \in 1..IndexAttempts
                 /\ run[r].memo \in [Modules -> Ids] /\ run[r].results \in [Modules -> Ids]
      <4>1. IsRun(run[r]) /\ Points(run[r].memo, snaps) /\ Points(run[r].results, snaps)
        BY <1>1, Before DEF RunOK
      <4>2. run[r].memo \in [Modules -> Ids] /\ run[r].results \in [Modules -> Ids]
        BY <4>1 DEF IsRun, Points, Ids
      <4> QED BY <4>1, <4>2 DEF IsRun, Places
    <3> QED BY <2>1, <3>1, <3>2 DEF IndexTypeOK
  <2>3. FactsMatchDependencies
    BY <2>1 DEF SnapOK, FactsMatchDependencies
  <2>4. FailuresAreChanges
    <3>1. ASSUME NEW r \in Runs, run[r].failed # {}
          PROVE  edits + Cardinality({i \in DOMAIN snaps : snaps[i].run # r}) >= IndexAttempts
      <4>1. Changes(r, edits, snaps) >= IndexAttempts
        BY <1>1, <3>1, Before DEF Counted
      <4> QED BY <4>1 DEF Changes, Others
    <3> QED BY <3>1 DEF FailuresAreChanges
  <2> QED BY <2>2, <2>3, <2>4 DEF RunsPublishWhatTheyRead
<1>2. IndexInv => RunsPublishWhatTheyRead
  BY <1>1
<1> QED BY <1>2, IndexInvariant, PTL

\* An index that is reused is what indexing would have produced from the sources the
\* request read (prepareCheckpoint, saveCheckpoint).
THEOREM ReusedIndexStaysCurrent == ASSUME ~Reverts PROVE Spec => []ReusedIndexIsCurrent
<1>1. ASSUME IndexInv PROVE ReusedIndexIsCurrent
  <2>1. ASSUME NEW r \in Runs, run[r].pc = "reused" PROVE Current(Targets[r], run[r].results, run[r].read, snaps)
    BY <1>1, <2>1, Before DEF RunOK
  <2> QED BY <2>1 DEF Current, ReusedIndexIsCurrent
<1>2. IndexInv => ReusedIndexIsCurrent
  BY <1>1
<1> QED BY <1>2, IndexInvariant, PTL

-----------------------------------------------------------------------------
(* Historical revisions: a request is answered with its revision, indexed  *)
(* once, and cleans up after itself, for every number of requests,         *)
(* processes, commits and faults.  The inductive invariant.                *)

Modes == {"probe", "index"}

\* Steps at which a request's worktree may be there, and those at which git has it.
Doing == {"discover", "reuse", "base", "extract", "publish", "remove"}
WithTree == {"add", "prune", "delete"} \cup Doing
RequestPlaces == {"idle", "begin", "start", "joined", "done", "failed"} \cup WithTree

Coverages == {"complete", "deterministic", "degraded"}
Loads == [coverage : Coverages, sibling : Nat]
RevisionRows ==
  [commit : Commits, coverage : Coverages, sibling : Nat, base : Nat,
   by : {0} \cup Range(RequestProcess), kept : BOOLEAN]
RequestRows ==
  [pc : RequestPlaces, commit : Commits, mode : Modes, joined : {0} \cup Requests,
   tree : {0} \cup (Requests \X Modes), base : Nat, load : {<<>>} \cup Loads,
   result : Int, began : Nat, outage : BOOLEAN]

\* Every variable holds what it may hold.
TypesOK ==
  /\ revisions \in Seq(RevisionRows)
  /\ online \in BOOLEAN /\ sibling \in Nat \ {0} /\ faults \in Nat
  /\ request \in [Requests -> RequestRows]
  /\ scratch \subseteq Requests \X Modes /\ records \subseteq Requests \X Modes

\* A snapshot is stored against an older one, and one of a commit that reads the
\* sibling says which version it read.
RowsOK ==
  \A s \in DOMAIN revisions :
    /\ revisions[s].base < s
    /\ revisions[s].commit \in ReadsSibling => revisions[s].sibling >= 1

TreesOf(q) == {<<q, m>> : m \in Modes}

\* Where a request is decides what it has found, and whom it waits for.
PlaceOK(q) ==
  /\ request[q].result >= -2
  /\ request[q].pc = "idle" => request[q].mode = "probe"
  /\ request[q].pc \notin {"remove", "prune", "delete", "done", "failed"} => request[q].result = 0
  /\ request[q].pc \in {"remove", "prune", "delete"} => request[q].result >= -1
  /\ request[q].pc = "done" => request[q].result > 0
  /\ request[q].pc \in {"base", "extract", "publish"} => request[q].mode = "index"
  /\ request[q].pc = "joined" => request[q].joined # 0
  /\ request[q].joined # 0 => /\ request[q].pc \in {"joined", "done", "failed"}
                              /\ request[request[q].joined].commit = request[q].commit
  /\ request[q].began <= sibling

\* What is on disk and in the repository's records of a request.
TreesOK(q) ==
  /\ request[q].pc \in WithTree => /\ request[q].tree = <<q, request[q].mode>>
                                   /\ scratch \cap TreesOf(q) \subseteq {request[q].tree}
  /\ (request[q].pc \notin WithTree /\ request[q].result # -2) => scratch \cap TreesOf(q) = {}
  /\ records \cap TreesOf(q) # {} =>
       faults > 0 \/ (request[q].pc \in Doing /\ records \cap TreesOf(q) \subseteq {request[q].tree})

\* What a request has found, or is about to publish.
FoundOK(q) ==
  request[q].result > 0 =>
    /\ request[q].result \in DOMAIN revisions
    /\ revisions[request[q].result].commit = request[q].commit
    /\ revisions[request[q].result].coverage = "degraded" => request[q].outage
    /\ (request[q].commit \in ReadsSibling /\ request[q].joined = 0) =>
         revisions[request[q].result].sibling >= request[q].began

LoadOK(q) ==
  request[q].pc = "publish" =>
    /\ request[q].load \in Loads
    /\ request[q].load.coverage = "degraded" => request[q].outage
    /\ request[q].commit \in ReadsSibling =>
         request[q].load.sibling >= 1 /\ request[q].load.sibling >= request[q].began
    /\ \A s \in Kept : revisions[s].by = RequestProcess[q] /\ revisions[s].commit = request[q].commit =>
         revisions[s].coverage # request[q].load.coverage \/ revisions[s].sibling # request[q].load.sibling

RequestOK(q) == PlaceOK(q) /\ TreesOK(q) /\ FoundOK(q) /\ LoadOK(q)

\* A request whose process runs the index of its commit on its behalf.
IsRunning(q) ==
  /\ request[q].mode = "index" /\ request[q].joined = 0
  /\ request[q].pc \notin {"idle", "start", "done", "failed"}

\* A process has one run of a commit.
OneRun ==
  \A p, q \in Requests :
    (/\ IsRunning(p) /\ IsRunning(q) /\ RequestProcess[p] = RequestProcess[q]
     /\ request[p].commit = request[q].commit) => p = q

RevisionInv ==
  TypesOK /\ RowsOK /\ BasesAreKept /\ OneSnapshotPerCommit /\ OneRun /\ \A q \in Requests : RequestOK(q)

\* What a step of request q leaves alone for the others.
OthersStay(q) ==
  /\ \A p \in Requests \ {q} :
       /\ request'[p] = request[p]
       /\ scratch' \cap TreesOf(p) = scratch \cap TreesOf(p)
       /\ records' \cap TreesOf(p) \subseteq records \cap TreesOf(p)
  /\ request'[q].commit = request[q].commit
  /\ sibling' = sibling /\ faults <= faults'

-----------------------------------------------------------------------------
(* Numbers.                                                                *)

\* A non-empty set of naturals has a least element.
LEMMA LeastOf ==
  ASSUME NEW S \in SUBSET Nat, S # {}
  PROVE  Min(S) \in S /\ \A t \in S : Min(S) <= t
<1> DEFINE R == {x \in Nat \X Nat : x[1] < x[2]}
<1>1. IsWellFoundedOn(R, Nat)
  <2>1. OpToRel(<, Nat) = R
    BY Zenon DEF OpToRel
  <2> QED BY <2>1, NatLessThanWellFounded, Zenon
<1>2. PICK x \in S : \A y \in S : <<y, x>> \notin R
  BY <1>1, WFMin
<1>3. ASSUME NEW y \in S PROVE x <= y
  <2>1. x \in Nat /\ y \in Nat /\ <<y, x>> \in Nat \X Nat
    OBVIOUS
  <2>2. ~(y < x)
    BY <1>2, <2>1
  <2> QED BY <2>1, <2>2
<1>4. \E m \in S : \A y \in S : m <= y
  <2> HIDE DEF R
  <2> QED BY <1>3
<1> QED BY <1>4 DEF Min

\* A non-empty set of snapshot numbers has a newest.
LEMMA NewestOf ==
  ASSUME NEW n \in Nat, NEW S \in SUBSET (1..n), S # {}
  PROVE  Max(S) \in S /\ \A t \in S : t <= Max(S)
<1> DEFINE D == {k \in Nat : n - k \in S}
<1>1. D \in SUBSET Nat /\ D # {}
  <2>1. PICK t \in S : TRUE
    OBVIOUS
  <2>2. n - t \in Nat /\ n - (n - t) = t
    BY <2>1
  <2> QED BY <2>1, <2>2
<1>2. Min(D) \in D /\ \A d \in D : Min(D) <= d
  <2> HIDE DEF D
  <2> QED BY <1>1, LeastOf
<1>3. PICK d \in D : \A k \in D : d <= k
  BY <1>2
<1>4. ASSUME NEW t \in S PROVE n - d >= t
  <2>1. n - t \in D /\ t \in Int /\ d \in Int
    OBVIOUS
  <2>2. d <= n - t
    BY <1>3, <2>1
  <2> QED BY <2>1, <2>2
<1>5. \E m \in S : \A t \in S : m >= t
  BY <1>4
<1>6. Max(S) \in S /\ \A t \in S : Max(S) >= t
  BY <1>5 DEF Max
<1> QED BY <1>6

\* The head's commit is one of the commits.
LEMMA HeadCommitIs == HeadCommit \in Commits
<1>1. PICK c \in Commits : \A d \in Commits : d <= c
  BY RevisionConstants
<1>2. \A d \in Commits : c >= d
  BY <1>1, RevisionConstants
<1> QED BY <1>1, <1>2 DEF HeadCommit, Max

-----------------------------------------------------------------------------
(* Other requests.                                                         *)

\* While snapshots stay as they are, a request that does not step keeps its part of
\* the invariant.
LEMMA OthersKeep ==
  ASSUME RevisionInv, NEW q \in Requests, OthersStay(q), UNCHANGED revisions, faults' \in Nat,
         NEW p \in Requests \ {q}
  PROVE  RequestOK(p)'
<1>1. request'[p] = request[p] /\ RequestOK(p)
  BY DEF OthersStay, RevisionInv
<1>2. \A x \in Requests : request'[x].commit = request[x].commit
  BY DEF OthersStay
<1>3. request \in [Requests -> RequestRows] /\ request[p] \in RequestRows
  BY DEF RevisionInv, TypesOK
<1>4. PlaceOK(p)'
  <2>1. request[p].joined # 0 => request[p].joined \in Requests
    BY <1>3 DEF RequestRows
  <2> QED BY <1>1, <1>2, <2>1 DEF RequestOK, PlaceOK, OthersStay
<1>5. TreesOK(p)'
  <2>1. faults \in Nat
    BY DEF RevisionInv, TypesOK
  <2>2. TreesOf(p)' = TreesOf(p)
    BY DEF TreesOf
  <2> QED BY <1>1, <2>1, <2>2 DEF RequestOK, TreesOK, OthersStay
<1>6. FoundOK(p)' /\ LoadOK(p)'
  BY <1>1 DEF RequestOK, FoundOK, LoadOK, Kept
<1> QED BY <1>4, <1>5, <1>6 DEF RequestOK

\* A process still has one run of a commit when the request that steps runs no index
\* that it did not run.
LEMMA RunsKeep ==
  ASSUME RevisionInv, NEW q \in Requests, OthersStay(q), IsRunning(q)' => IsRunning(q)
  PROVE  OneRun'
<1>1. \A p \in Requests \ {q} : IsRunning(p)' = IsRunning(p)
  BY DEF OthersStay, IsRunning
<1>2. \A p \in Requests : request'[p].commit = request[p].commit
  BY DEF OthersStay
<1> QED BY <1>1, <1>2 DEF RevisionInv, OneRun

\* A step of request q that leaves the snapshots alone keeps the invariant when it
\* keeps the request's own part.
LEMMA RequestStepKeeps ==
  ASSUME RevisionInv, NEW q \in Requests, OthersStay(q), UNCHANGED <<revisions, online, sibling>>,
         request' \in [Requests -> RequestRows], faults' \in Nat,
         scratch' \subseteq Requests \X Modes, records' \subseteq Requests \X Modes,
         RequestOK(q)', OneRun'
  PROVE  RevisionInv'
<1>1. TypesOK' /\ RowsOK' /\ BasesAreKept' /\ OneSnapshotPerCommit'
  BY DEF RevisionInv, TypesOK, RowsOK, BasesAreKept, OneSnapshotPerCommit, Kept
<1>2. \A p \in Requests : RequestOK(p)'
  BY OthersKeep
<1> QED BY <1>1, <1>2 DEF RevisionInv

-----------------------------------------------------------------------------
(* The steps of a request.                                                 *)

\* What becomes of the requests when one of them steps.
LEMMA Stepped ==
  ASSUME RevisionInv, NEW q \in Requests, NEW y \in RequestRows,
         request' = [request EXCEPT ![q] = y], y.commit = request[q].commit
  PROVE  /\ request' \in [Requests -> RequestRows] /\ request'[q] = y
         /\ request'[q].commit = request[q].commit
         /\ \A p \in Requests \ {q} : request'[p] = request[p]
<1>1. request \in [Requests -> RequestRows]
  BY DEF RevisionInv, TypesOK
<1> QED BY <1>1

\* The trees of two requests are different.
LEMMA TreesDiffer ==
  ASSUME NEW q \in Requests, NEW p \in Requests \ {q}, NEW m, NEW S
  PROVE  (S \cup {<<q, m>>}) \cap TreesOf(p) = S \cap TreesOf(p)
         /\ (S \ {<<q, m>>}) \cap TreesOf(p) = S \cap TreesOf(p)
BY DEF TreesOf

LEMMA MakeScratchKeeps ==
  ASSUME RevisionInv, NEW q \in Requests, MakeScratch(q)
  PROVE  RevisionInv'
<1>1. PICK me \in RequestRows : me = request[q]
  BY DEF RevisionInv, TypesOK
<1>2. PICK y : y = [me EXCEPT !.pc = "add", !.tree = <<q, me.mode>>,
                              !.began = IF @ = 0 THEN sibling ELSE @, !.outage = @ \/ ~online]
  OBVIOUS
<1>3. sibling \in Nat \ {0} /\ online \in BOOLEAN /\ faults \in Nat /\ scratch \subseteq Requests \X Modes /\ records \subseteq Requests \X Modes
  BY DEF RevisionInv, TypesOK
<1>4. y.pc = "add" /\ y.tree = <<q, me.mode>> /\ y.began = (IF me.began = 0 THEN sibling ELSE me.began)
      /\ y.commit = me.commit /\ y.mode = me.mode /\ y.joined = me.joined /\ y.result = me.result
  BY <1>2 DEF RequestRows
<1>5. y \in RequestRows
  <2>1. "add" \in RequestPlaces
    BY DEF RequestPlaces, WithTree
  <2>2. me.mode \in Modes
    BY DEF RequestRows
  <2>3. <<q, me.mode>> \in {0} \cup (Requests \X Modes)
    BY <2>2
  <2>4. (IF me.began = 0 THEN sibling ELSE me.began) \in Nat /\ (me.outage \/ ~online) \in BOOLEAN
    BY <1>3 DEF RequestRows
  <2> QED BY <1>2, <2>1, <2>3, <2>4 DEF RequestRows
<1>6. request' = [request EXCEPT ![q] = y]
  BY <1>1, <1>2 DEF MakeScratch, RevisionInv, TypesOK
<1>7. /\ request' \in [Requests -> RequestRows] /\ request'[q] = y
      /\ request'[q].commit = request[q].commit
      /\ \A p \in Requests \ {q} : request'[p] = request[p]
  BY <1>1, <1>4, <1>5, <1>6, Stepped
<1>8. scratch' = scratch \cup {<<q, me.mode>>} /\ UNCHANGED <<revisions, online, sibling, faults, records>>
  BY <1>1 DEF MakeScratch, world
<1>9. OthersStay(q)
  BY <1>3, <1>7, <1>8, TreesDiffer DEF OthersStay
<1>10. PlaceOK(q) /\ TreesOK(q) /\ me.pc \in {"idle", "begin"} /\ me.mode \in Modes
  BY <1>1 DEF RevisionInv, RequestOK, MakeScratch, In, RequestRows
<1>11. me.result = 0 /\ me.joined = 0 /\ me.began <= sibling /\ (me.pc = "idle" => me.mode = "probe")
  BY <1>1, <1>10 DEF PlaceOK
<1>12. PlaceOK(q)'
  BY <1>3, <1>4, <1>7, <1>8, <1>11 DEF PlaceOK
<1>13. TreesOK(q)'
  <2>1. scratch \cap TreesOf(q) = {} /\ (records \cap TreesOf(q) # {} => faults > 0)
    BY <1>1, <1>10, <1>11 DEF TreesOK, WithTree, Doing
  <2>2. TreesOf(q)' = TreesOf(q)
    BY DEF TreesOf
  <2>3. scratch' \cap TreesOf(q) \subseteq {<<q, me.mode>>}
    BY <1>8, <2>1
  <2> QED BY <1>4, <1>7, <1>8, <2>1, <2>2, <2>3 DEF TreesOK, WithTree, Doing
<1>14. FoundOK(q)' /\ LoadOK(q)'
  BY <1>4, <1>7, <1>11 DEF FoundOK, LoadOK
<1>15. OneRun'
  <2>1. IsRunning(q)' => IsRunning(q)
    BY <1>1, <1>4, <1>7, <1>10, <1>11 DEF IsRunning
  <2> QED BY <1>9, <2>1, RunsKeep
<1>16. RequestOK(q)'
  BY <1>12, <1>13, <1>14 DEF RequestOK
<1>17. scratch' \subseteq Requests \X Modes
  BY <1>3, <1>8, <1>10
<1> QED BY <1>3, <1>7, <1>8, <1>9, <1>15, <1>16, <1>17, RequestStepKeeps

\* A step of request q that leaves the snapshots, and what is on disk of the others,
\* alone keeps the invariant when it keeps the request's own part.
LEMMA OwnRequestStep ==
  ASSUME RevisionInv, NEW q \in Requests, NEW y \in RequestRows,
         request' = [request EXCEPT ![q] = y], y.commit = request[q].commit,
         UNCHANGED <<revisions, online, sibling>>, faults' \in Nat, faults <= faults',
         scratch' \subseteq Requests \X Modes, records' \subseteq Requests \X Modes,
         \A p \in Requests \ {q} : /\ scratch' \cap TreesOf(p) = scratch \cap TreesOf(p)
                                   /\ records' \cap TreesOf(p) \subseteq records \cap TreesOf(p),
         RequestOK(q)',
         (y.mode = "index" /\ y.joined = 0 /\ y.pc \notin {"idle", "start", "done", "failed"}) => IsRunning(q)
  PROVE  RevisionInv'
<1>1. /\ request' \in [Requests -> RequestRows] /\ request'[q] = y
      /\ request'[q].commit = request[q].commit
      /\ \A p \in Requests \ {q} : request'[p] = request[p]
  BY Stepped
<1>2. OthersStay(q)
  BY <1>1 DEF OthersStay
<1>3. IsRunning(q)' => IsRunning(q)
  BY <1>1 DEF IsRunning
<1>4. OneRun'
  BY <1>2, <1>3, RunsKeep
<1> QED BY <1>1, <1>2, <1>4, RequestStepKeeps

\* A request's worktree stays while the request works in it.
LEMMA WorktreeStays ==
  ASSUME NEW q, TreesOK(q), request[q].pc \in Doing, request'[q].pc \in Doing,
         request'[q].tree = request[q].tree, request'[q].mode = request[q].mode,
         UNCHANGED <<scratch, records>>, faults \in Nat, faults' \in Nat, faults <= faults'
  PROVE  TreesOK(q)'
<1>1. TreesOf(q)' = TreesOf(q)
  BY DEF TreesOf
<1> QED BY <1>1 DEF TreesOK, WithTree, Doing

\* What a request that steps has, and the disk it finds.
LEMMA RequestBefore ==
  ASSUME RevisionInv, NEW q \in Requests
  PROVE  /\ request[q] \in RequestRows /\ request \in [Requests -> RequestRows]
         /\ PlaceOK(q) /\ TreesOK(q) /\ FoundOK(q) /\ LoadOK(q)
         /\ sibling \in Nat \ {0} /\ online \in BOOLEAN /\ faults \in Nat
         /\ scratch \subseteq Requests \X Modes /\ records \subseteq Requests \X Modes
BY DEF RevisionInv, TypesOK, RequestOK

LEMMA DiscoverKeeps ==
  ASSUME RevisionInv, NEW q \in Requests, Discover(q)
  PROVE  RevisionInv'
<1>1. PICK me \in RequestRows : me = request[q]
  BY RequestBefore
<1>2. /\ faults' \in Nat /\ faults <= faults' /\ me.pc = "discover"
      /\ UNCHANGED <<revisions, online, sibling, scratch, records>>
  BY <1>1, RequestBefore DEF Discover, In, Fault
<1>3. PICK y : /\ y = [me EXCEPT !.pc = "reuse"] \/ y = [me EXCEPT !.pc = "remove", !.result = -1]
               /\ request' = [request EXCEPT ![q] = y]
  <2>1. \/ request' = [request EXCEPT ![q] = [me EXCEPT !.pc = "reuse"]]
        \/ request' = [request EXCEPT ![q] = [me EXCEPT !.pc = "remove", !.result = -1]]
    BY <1>1, RequestBefore DEF Discover, To
  <2> QED BY <2>1
<1>4. /\ y \in RequestRows
      /\ y.commit = me.commit /\ y.mode = me.mode /\ y.joined = me.joined /\ y.tree = me.tree /\ y.began = me.began
      /\ (y.pc = "reuse" /\ y.result = me.result) \/ (y.pc = "remove" /\ y.result = -1)
  <2>1. "reuse" \in RequestPlaces /\ "remove" \in RequestPlaces /\ -1 \in Int
    BY DEF RequestPlaces, WithTree, Doing
  <2>2. CASE y = [me EXCEPT !.pc = "reuse"]
    BY <2>1, <2>2 DEF RequestRows
  <2>3. CASE y = [me EXCEPT !.pc = "remove", !.result = -1]
    <3>1. y \in RequestRows
      BY <2>1, <2>3 DEF RequestRows
    <3>2. y.pc = "remove" /\ y.result = -1
      BY <2>3 DEF RequestRows
    <3>3. y.commit = me.commit /\ y.mode = me.mode /\ y.joined = me.joined /\ y.tree = me.tree /\ y.began = me.began
      BY <2>3 DEF RequestRows
    <3> QED BY <3>1, <3>2, <3>3
  <2> QED BY <1>3, <2>2, <2>3
<1>5. request'[q] = y
  BY <1>1, <1>3, <1>4, Stepped
<1>6. me.result = 0 /\ me.joined = 0 /\ me.began <= sibling
  BY <1>1, <1>2, RequestBefore DEF PlaceOK
<1>7. PlaceOK(q)' /\ FoundOK(q)' /\ LoadOK(q)'
  BY <1>2, <1>4, <1>5, <1>6 DEF PlaceOK, FoundOK, LoadOK
<1>8. TreesOK(q)'
  <2>1. request[q].pc \in Doing /\ request'[q].pc \in Doing
    BY <1>1, <1>2, <1>4, <1>5 DEF Doing
  <2> QED BY <1>1, <1>2, <1>4, <1>5, <2>1, RequestBefore, WorktreeStays
<1>9. RequestOK(q)'
  BY <1>7, <1>8 DEF RequestOK
<1>10. (y.mode = "index" /\ y.joined = 0 /\ y.pc \notin {"idle", "start", "done", "failed"}) => IsRunning(q)
  BY <1>1, <1>2, <1>4 DEF IsRunning
<1>11. scratch' \subseteq Requests \X Modes /\ records' \subseteq Requests \X Modes
  BY <1>2, RequestBefore
<1> QED BY <1>1, <1>2, <1>3, <1>4, <1>9, <1>10, <1>11, OwnRequestStep

LEMMA AddWorktreeKeeps ==
  ASSUME RevisionInv, NEW q \in Requests, AddWorktree(q)
  PROVE  RevisionInv'
<1>1. PICK me \in RequestRows : me = request[q]
  BY RequestBefore
<1>2. faults' \in Nat /\ faults <= faults' /\ me.pc = "add" /\ UNCHANGED <<revisions, online, sibling>>
  BY <1>1, RequestBefore DEF AddWorktree, In, Fault
<1>3. PICK y : /\ request' = [request EXCEPT ![q] = y]
               /\ \/ /\ y = [me EXCEPT !.pc = "discover"]
                     /\ records' = records \cup {me.tree} /\ UNCHANGED scratch
                  \/ /\ y = [me EXCEPT !.pc = "failed"]
                     /\ scratch' = scratch \ {me.tree} /\ UNCHANGED records
  <2>1. \/ /\ request' = [request EXCEPT ![q] = [me EXCEPT !.pc = "discover"]]
           /\ records' = records \cup {me.tree} /\ UNCHANGED scratch
        \/ /\ request' = [request EXCEPT ![q] = [me EXCEPT !.pc = "failed"]]
           /\ scratch' = scratch \ {me.tree} /\ UNCHANGED records
    BY <1>1, RequestBefore DEF AddWorktree, To
  <2> QED BY <2>1
<1>4. /\ y \in RequestRows /\ y.result = me.result
      /\ y.commit = me.commit /\ y.mode = me.mode /\ y.joined = me.joined /\ y.tree = me.tree /\ y.began = me.began
      /\ \/ y.pc = "discover" /\ records' = records \cup {me.tree} /\ UNCHANGED scratch
         \/ y.pc = "failed" /\ scratch' = scratch \ {me.tree} /\ UNCHANGED records
  BY <1>3 DEF RequestRows, RequestPlaces, WithTree, Doing
<1>5. request'[q] = y
  BY <1>1, <1>3, <1>4, Stepped
<1>6. me.result = 0 /\ me.joined = 0 /\ me.began <= sibling
  BY <1>1, <1>2, RequestBefore DEF PlaceOK
<1>7. PlaceOK(q)' /\ FoundOK(q)' /\ LoadOK(q)'
  BY <1>2, <1>4, <1>5, <1>6 DEF PlaceOK, FoundOK, LoadOK
<1>8. me.tree = <<q, me.mode>> /\ me.mode \in Modes
  BY <1>1, <1>2, RequestBefore DEF TreesOK, WithTree, RequestRows
<1>9. TreesOK(q)'
  <2>1. scratch \cap TreesOf(q) \subseteq {me.tree} /\ (records \cap TreesOf(q) # {} => faults > 0)
    BY <1>1, <1>2, RequestBefore DEF TreesOK, WithTree, Doing
  <2>2. TreesOf(q)' = TreesOf(q)
    BY DEF TreesOf
  <2>3. faults > 0 => faults' > 0
    BY <1>2, RequestBefore
  <2>4. CASE y.pc = "discover" /\ records' = records \cup {me.tree} /\ UNCHANGED scratch
    <3>1. records' \cap TreesOf(q) \subseteq {me.tree} \/ faults' > 0
      BY <2>1, <2>3, <2>4
    <3> QED BY <1>4, <1>5, <1>8, <2>1, <2>2, <2>4, <3>1 DEF TreesOK, WithTree, Doing
  <2>5. CASE y.pc = "failed" /\ scratch' = scratch \ {me.tree} /\ UNCHANGED records
    <3>1. scratch' \cap TreesOf(q) = {}
      BY <2>1, <2>5
    <3> QED BY <1>5, <2>1, <2>2, <2>3, <2>5, <3>1 DEF TreesOK, WithTree, Doing
  <2> QED BY <1>4, <2>4, <2>5
<1>10. RequestOK(q)'
  BY <1>7, <1>9 DEF RequestOK
<1>11. (y.mode = "index" /\ y.joined = 0 /\ y.pc \notin {"idle", "start", "done", "failed"}) => IsRunning(q)
  BY <1>1, <1>2, <1>4 DEF IsRunning
<1>12. scratch' \subseteq Requests \X Modes /\ records' \subseteq Requests \X Modes
  BY <1>4, <1>8, RequestBefore
<1>13. ASSUME NEW p \in Requests \ {q}
       PROVE  /\ scratch' \cap TreesOf(p) = scratch \cap TreesOf(p)
              /\ records' \cap TreesOf(p) \subseteq records \cap TreesOf(p)
  <2>1. (records \cup {me.tree}) \cap TreesOf(p) = records \cap TreesOf(p)
    BY <1>8, TreesDiffer
  <2>2. (scratch \ {me.tree}) \cap TreesOf(p) = scratch \cap TreesOf(p)
    BY <1>8, TreesDiffer
  <2> QED BY <1>4, <2>1, <2>2
<1> QED BY <1>1, <1>2, <1>3, <1>4, <1>10, <1>11, <1>12, <1>13, OwnRequestStep

\* The settled snapshots of a commit are snapshots, and the newest is one of them.
LEMMA SettledIs ==
  ASSUME RevisionInv, NEW S \in SUBSET Kept, S # {}
  PROVE  Max(S) \in S /\ Max(S) \in DOMAIN revisions /\ Max(S) \in Nat \ {0} /\ \A t \in S : t <= Max(S)
<1>1. revisions \in Seq(RevisionRows)
  BY DEF RevisionInv, TypesOK
<1>2. Len(revisions) \in Nat /\ DOMAIN revisions = 1..Len(revisions)
  BY <1>1
<1>3. S \in SUBSET (1..Len(revisions))
  BY <1>2 DEF Kept
<1>4. Max(S) \in S /\ \A t \in S : t <= Max(S)
  BY <1>2, <1>3, NewestOf
<1>5. PICK newest : newest = Max(S)
  OBVIOUS
<1>6. newest \in DOMAIN revisions /\ newest \in Nat \ {0}
  <2>1. newest \in S
    BY <1>4, <1>5, Zenon
  <2>2. newest \in 1..Len(revisions)
    BY <1>3, <2>1
  <2> QED BY <1>2, <2>2
<1> QED BY <1>4, <1>5, <1>6

LEMMA ReusableRevisionKeeps ==
  ASSUME RevisionInv, NEW q \in Requests, ReusableRevision(q)
  PROVE  RevisionInv'
<1>1. PICK me \in RequestRows : me = request[q]
  BY RequestBefore
<1>2. me.pc = "reuse" /\ UNCHANGED <<revisions, online, sibling, faults, scratch, records>>
  BY <1>1 DEF ReusableRevision, In, world
<1>3. PICK settled \in SUBSET Kept : settled = {s \in Kept : revisions[s].commit = me.commit /\ CoverageSettled(s)}
  OBVIOUS
<1>4. PICK found \in BOOLEAN : found = (settled # {} /\ revisions[Max(settled)].sibling = 0)
  OBVIOUS
<1>5. PICK pc \in {"remove", "base"} :
        /\ found => pc = "remove"
        /\ ~found /\ pc = "remove" => me.mode = "probe"
        /\ pc = "base" => me.mode # "probe"
        /\ pc = IF found \/ me.mode = "probe" THEN "remove" ELSE "base"
  OBVIOUS
<1>6. PICK result : result = IF found THEN Max(settled) ELSE 0
  OBVIOUS
<1>7. found => /\ result \in DOMAIN revisions /\ result \in Nat \ {0}
               /\ revisions[result].commit = me.commit /\ revisions[result].coverage # "degraded"
               /\ revisions[result].sibling = 0
  <2>1. SUFFICES ASSUME found
                 PROVE  /\ result \in DOMAIN revisions /\ result \in Nat \ {0}
                        /\ revisions[result].commit = me.commit /\ revisions[result].coverage # "degraded"
                        /\ revisions[result].sibling = 0
    OBVIOUS
  <2>2. settled # {} /\ result = Max(settled) /\ revisions[result].sibling = 0
    BY <1>4, <1>6, <2>1
  <2>3. result \in settled /\ result \in DOMAIN revisions /\ result \in Nat \ {0}
    BY <2>2, SettledIs
  <2> QED BY <1>3, <2>2, <2>3 DEF CoverageSettled
<1>8. ~found => result = 0
  BY <1>6
<1>9. PICK y : y = [me EXCEPT !.pc = pc, !.result = result]
  OBVIOUS
<1>10. request' = [request EXCEPT ![q] = y]
  BY <1>1, <1>3, <1>4, <1>5, <1>6, <1>9, RequestBefore DEF ReusableRevision
<1>11. y \in RequestRows
  <2>1. result \in Int
    BY <1>7, <1>8
  <2>2. pc \in RequestPlaces
    BY DEF RequestPlaces, WithTree, Doing
  <2> QED BY <1>9, <2>1, <2>2 DEF RequestRows
<1>12. /\ y.pc = pc /\ y.result = result
       /\ y.commit = me.commit /\ y.mode = me.mode /\ y.joined = me.joined /\ y.tree = me.tree /\ y.began = me.began
  BY <1>9 DEF RequestRows
<1>13. request'[q] = y
  BY <1>1, <1>10, <1>11, <1>12, Stepped
<1>14. me.result = 0 /\ me.joined = 0 /\ me.began <= sibling /\ me.mode \in Modes
  BY <1>1, <1>2, RequestBefore DEF PlaceOK, RequestRows
<1>15. PlaceOK(q)'
  <2>1. result \in Int /\ result >= 0
    BY <1>7, <1>8
  <2>2. pc = "base" => result = 0 /\ me.mode = "index"
    BY <1>5, <1>8, <1>14 DEF Modes
  <2> QED BY <1>2, <1>12, <1>13, <1>14, <2>1, <2>2 DEF PlaceOK
<1>16. FoundOK(q)'
  <2>1. SUFFICES ASSUME found PROVE FoundOK(q)'
    BY <1>8, <1>12, <1>13 DEF FoundOK
  <2>2. me.commit \notin ReadsSibling
    BY <1>7, <2>1 DEF RevisionInv, RowsOK
  <2> QED BY <1>2, <1>7, <1>12, <1>13, <2>1, <2>2 DEF FoundOK
<1>17. LoadOK(q)'
  BY <1>12, <1>13 DEF LoadOK
<1>18. TreesOK(q)'
  <2>1. request[q].pc \in Doing /\ request'[q].pc \in Doing
    BY <1>1, <1>2, <1>12, <1>13 DEF Doing
  <2> QED BY <1>1, <1>2, <1>12, <1>13, <2>1, RequestBefore, WorktreeStays
<1>19. RequestOK(q)'
  BY <1>15, <1>16, <1>17, <1>18 DEF RequestOK
<1>20. (y.mode = "index" /\ y.joined = 0 /\ y.pc \notin {"idle", "start", "done", "failed"}) => IsRunning(q)
  BY <1>1, <1>2, <1>12 DEF IsRunning
<1>21. scratch' \subseteq Requests \X Modes /\ records' \subseteq Requests \X Modes /\ faults' \in Nat /\ faults <= faults'
  BY <1>2, RequestBefore
<1> QED BY <1>1, <1>2, <1>10, <1>11, <1>12, <1>19, <1>20, <1>21, OwnRequestStep

LEMMA RevisionBaseKeeps ==
  ASSUME RevisionInv, NEW q \in Requests, RevisionBase(q)
  PROVE  RevisionInv'
<1>1. PICK me \in RequestRows : me = request[q]
  BY RequestBefore
<1>2. me.pc = "base" /\ UNCHANGED <<revisions, online, sibling, faults, scratch, records>>
  BY <1>1 DEF RevisionBase, In, world
<1>3. PICK base \in Nat : request' = [request EXCEPT ![q] = [me EXCEPT !.pc = "extract", !.base = base]]
  <2> DEFINE ancestors == {s \in Kept : revisions[s].commit <= me.commit}
             nearest == {s \in ancestors : \A t \in ancestors : revisions[t].commit <= revisions[s].commit}
  <2>1. nearest \in SUBSET Kept
    OBVIOUS
  <2>2. (IF nearest # {} THEN Max(nearest) ELSE HeadSnapshot) \in Nat
    <3> HIDE DEF nearest
    <3> QED BY <2>1, SettledIs DEF HeadSnapshot
  <2>3. request' = [request EXCEPT ![q] = [me EXCEPT !.pc = "extract",
                                             !.base = IF nearest # {} THEN Max(nearest) ELSE HeadSnapshot]]
    BY <1>1, RequestBefore DEF RevisionBase
  <2> HIDE DEF nearest
  <2> QED BY <2>2, <2>3
<1>4. PICK y : y = [me EXCEPT !.pc = "extract", !.base = base]
  OBVIOUS
<1>5. y \in RequestRows
  <2>1. "extract" \in RequestPlaces
    BY DEF RequestPlaces, WithTree, Doing
  <2> QED BY <1>4, <2>1 DEF RequestRows
<1>6. /\ y.pc = "extract" /\ y.result = me.result
      /\ y.commit = me.commit /\ y.mode = me.mode /\ y.joined = me.joined /\ y.tree = me.tree /\ y.began = me.began
  BY <1>4 DEF RequestRows
<1>7. request'[q] = y
  BY <1>1, <1>3, <1>4, <1>5, <1>6, Stepped
<1>8. me.result = 0 /\ me.joined = 0 /\ me.began <= sibling /\ me.mode = "index"
  BY <1>1, <1>2, RequestBefore DEF PlaceOK
<1>9. PlaceOK(q)' /\ FoundOK(q)' /\ LoadOK(q)'
  BY <1>2, <1>6, <1>7, <1>8 DEF PlaceOK, FoundOK, LoadOK
<1>10. TreesOK(q)'
  <2>1. request[q].pc \in Doing /\ request'[q].pc \in Doing
    BY <1>1, <1>2, <1>6, <1>7 DEF Doing
  <2> QED BY <1>1, <1>2, <1>6, <1>7, <2>1, RequestBefore, WorktreeStays
<1>11. RequestOK(q)'
  BY <1>9, <1>10 DEF RequestOK
<1>12. (y.mode = "index" /\ y.joined = 0 /\ y.pc \notin {"idle", "start", "done", "failed"}) => IsRunning(q)
  BY <1>1, <1>2, <1>6 DEF IsRunning
<1>13. scratch' \subseteq Requests \X Modes /\ records' \subseteq Requests \X Modes /\ faults' \in Nat /\ faults <= faults'
  BY <1>2, RequestBefore
<1> QED BY <1>1, <1>2, <1>3, <1>4, <1>5, <1>6, <1>11, <1>12, <1>13, OwnRequestStep

LEMMA ExtractRevisionKeeps ==
  ASSUME RevisionInv, NEW q \in Requests, ExtractRevision(q)
  PROVE  RevisionInv'
<1>1. PICK me \in RequestRows : me = request[q]
  BY RequestBefore
<1>2. me.pc = "extract" /\ UNCHANGED <<revisions, online, sibling, faults, scratch, records>>
  BY <1>1 DEF ExtractRevision, In, world
<1>3. PICK load : load = Load(q)
  OBVIOUS
<1>4. /\ load \in Loads /\ (load.coverage = "degraded" => ~online)
      /\ me.commit \in ReadsSibling => load.sibling = sibling
  BY <1>1, <1>3, RequestBefore DEF Load, Loads, Coverages
<1>5. PICK same \in SUBSET Kept :
        /\ same = Identical(q, load)
        /\ \A s \in Kept : s \in same <=> /\ revisions[s].commit = me.commit
                                          /\ revisions[s].coverage = load.coverage /\ revisions[s].sibling = load.sibling
  <2> DEFINE ID == {s \in Kept : revisions[s].commit = me.commit /\ revisions[s].coverage = load.coverage /\ revisions[s].sibling = load.sibling}
  <2>1. Identical(q, load) = ID
    BY <1>1, Zenon DEF Identical
  <2>2. ID \in SUBSET Kept
    OBVIOUS
  <2>3. \A s \in Kept : s \in ID <=> /\ revisions[s].commit = me.commit
                                     /\ revisions[s].coverage = load.coverage /\ revisions[s].sibling = load.sibling
    BY Zenon
  <2> QED BY <2>1, <2>2, <2>3, Zenon
<1>6. PICK outage \in BOOLEAN : outage <=> me.outage \/ ~online
  OBVIOUS
<1>7. me.result = 0 /\ me.joined = 0 /\ me.began <= sibling /\ me.mode = "index"
  BY <1>1, <1>2, RequestBefore DEF PlaceOK
<1>8. PICK y : /\ request' = [request EXCEPT ![q] = y]
               /\ same # {} => y = [me EXCEPT !.pc = "remove", !.result = Max(same), !.outage = outage]
               /\ same = {} => y = [me EXCEPT !.pc = "publish", !.load = load, !.outage = outage]
  <2>1. outage = (me.outage \/ ~online)
    BY <1>6, RequestBefore DEF RequestRows
  <2>2. same # {} => request' = [request EXCEPT ![q] = [me EXCEPT !.pc = "remove", !.result = Max(same), !.outage = outage]]
    BY <1>1, <1>3, <1>5, <2>1, RequestBefore DEF ExtractRevision
  <2>3. same = {} => request' = [request EXCEPT ![q] = [me EXCEPT !.pc = "publish", !.load = load, !.outage = outage]]
    BY <1>1, <1>3, <1>5, <2>1, RequestBefore DEF ExtractRevision
  <2> QED BY <2>2, <2>3
<1>9. same # {} => /\ Max(same) \in same /\ Max(same) \in DOMAIN revisions /\ Max(same) \in Nat \ {0}
  BY <1>5, SettledIs
<1>10. "remove" \in RequestPlaces /\ "publish" \in RequestPlaces
  BY DEF RequestPlaces, WithTree, Doing
<1>11. y \in RequestRows
  <2>1. CASE same # {}
    <3>1. Max(same) \in Int
      BY <1>9, <2>1
    <3> QED BY <1>8, <1>10, <2>1, <3>1, ZenonT(40) DEF RequestRows
  <2>2. CASE same = {}
    BY <1>4, <1>8, <1>10, <2>2, ZenonT(40) DEF RequestRows
  <2> QED BY <2>1, <2>2
<1>12. /\ y.commit = me.commit /\ y.mode = me.mode /\ y.joined = me.joined /\ y.tree = me.tree
       /\ y.began = me.began /\ y.outage = outage
  BY <1>8 DEF RequestRows
<1>13. (same # {} => y.pc = "remove" /\ y.result = Max(same)) /\ (same = {} => y.pc = "publish" /\ y.load = load /\ y.result = 0)
  BY <1>7, <1>8 DEF RequestRows
<1>14. request'[q] = y
  BY <1>1, <1>8, <1>11, <1>12, Stepped
<1>15. PlaceOK(q)'
  <2>1. CASE same # {}
    <3>1. y.result \in Nat \ {0} /\ y.pc = "remove"
      BY <1>9, <1>13, <2>1
    <3> QED BY <1>2, <1>7, <1>12, <1>14, <3>1 DEF PlaceOK
  <2>2. CASE same = {}
    BY <1>2, <1>7, <1>12, <1>13, <1>14, <2>2 DEF PlaceOK
  <2> QED BY <2>1, <2>2
<1>16. FoundOK(q)'
  <2>1. CASE same # {}
    <3>1. PICK s \in same : s = Max(same) /\ s \in DOMAIN revisions
      BY <1>9, <2>1
    <3>2. /\ y.result = s /\ revisions[s].commit = me.commit
          /\ revisions[s].coverage = load.coverage /\ revisions[s].sibling = load.sibling
      BY <1>5, <1>13, <2>1, <3>1
    <3>3. revisions[s].coverage = "degraded" => outage
      BY <1>4, <1>6, <3>2
    <3>4. me.commit \in ReadsSibling => revisions[s].sibling >= me.began
      BY <1>4, <1>7, <3>2, RequestBefore DEF RequestRows
    <3> QED BY <1>2, <1>12, <1>14, <3>1, <3>2, <3>3, <3>4 DEF FoundOK
  <2>2. CASE same = {}
    BY <1>13, <1>14, <2>2 DEF FoundOK
  <2> QED BY <2>1, <2>2
<1>17. LoadOK(q)'
  <2>1. CASE same # {}
    BY <1>13, <1>14, <2>1 DEF LoadOK
  <2>2. CASE same = {}
    <3>1. \A s \in Kept : revisions[s].commit = me.commit =>
            revisions[s].coverage # load.coverage \/ revisions[s].sibling # load.sibling
      BY <1>5, <2>2
    <3>2. me.commit \in ReadsSibling => load.sibling >= 1 /\ load.sibling >= me.began
      <4>1. sibling \in Nat \ {0} /\ me.began \in Nat
        BY RequestBefore DEF RequestRows
      <4>2. sibling >= 1 /\ sibling >= me.began
        BY <1>7, <4>1
      <4> QED BY <1>4, <4>2
    <3>3. Kept' = Kept
      BY <1>2 DEF Kept
    <3>4. load.coverage = "degraded" => outage
      BY <1>4, <1>6
    <3> QED BY <1>2, <1>4, <1>12, <1>13, <1>14, <2>2, <3>1, <3>2, <3>3, <3>4 DEF LoadOK
  <2> QED BY <2>1, <2>2
<1>18. TreesOK(q)'
  <2>1. request[q].pc \in Doing /\ request'[q].pc \in Doing
    BY <1>1, <1>2, <1>13, <1>14 DEF Doing
  <2> QED BY <1>1, <1>2, <1>12, <1>14, <2>1, RequestBefore, WorktreeStays
<1>19. RequestOK(q)'
  BY <1>15, <1>16, <1>17, <1>18 DEF RequestOK
<1>20. (y.mode = "index" /\ y.joined = 0 /\ y.pc \notin {"idle", "start", "done", "failed"}) => IsRunning(q)
  BY <1>1, <1>2, <1>12 DEF IsRunning
<1>21. scratch' \subseteq Requests \X Modes /\ records' \subseteq Requests \X Modes /\ faults' \in Nat /\ faults <= faults'
  BY <1>2, RequestBefore
<1> QED BY <1>1, <1>2, <1>8, <1>11, <1>12, <1>19, <1>20, <1>21, OwnRequestStep

LEMMA RemoveWorktreeKeeps ==
  ASSUME RevisionInv, NEW q \in Requests, RemoveWorktree(q)
  PROVE  RevisionInv'
<1>1. PICK me \in RequestRows : me = request[q]
  BY RequestBefore
<1>2. faults' \in Nat /\ faults <= faults' /\ me.pc = "remove" /\ UNCHANGED <<revisions, online, sibling>>
  BY <1>1, RequestBefore DEF RemoveWorktree, In, Fault
<1>3. \/ records' = records \ {me.tree} /\ scratch' = scratch \ {me.tree}
      \/ UNCHANGED <<records, scratch>> /\ faults' > 0
  BY <1>1, RequestBefore DEF RemoveWorktree, Fault
<1>4. PICK y : y = [me EXCEPT !.pc = "prune"]
  OBVIOUS
<1>5. request' = [request EXCEPT ![q] = y]
  BY <1>1, <1>4, RequestBefore DEF RemoveWorktree, To
<1>6. y \in RequestRows
  <2>1. "prune" \in RequestPlaces
    BY DEF RequestPlaces, WithTree
  <2> QED BY <1>4, <2>1 DEF RequestRows
<1>7. /\ y.pc = "prune" /\ y.result = me.result /\ y.outage = me.outage
      /\ y.commit = me.commit /\ y.mode = me.mode /\ y.joined = me.joined /\ y.tree = me.tree /\ y.began = me.began
  BY <1>4 DEF RequestRows
<1>8. request'[q] = y
  BY <1>1, <1>5, <1>6, <1>7, Stepped
<1>9. me.result >= -1 /\ me.joined = 0 /\ me.began <= sibling
  BY <1>1, <1>2, RequestBefore DEF PlaceOK
<1>10. PlaceOK(q)'
  <2>1. me.result \in Int /\ me.result >= -2
    BY <1>9 DEF RequestRows
  <2> QED BY <1>2, <1>7, <1>8, <1>9, <2>1 DEF PlaceOK
<1>11. FoundOK(q)' /\ LoadOK(q)'
  BY <1>1, <1>2, <1>7, <1>8, RequestBefore DEF FoundOK, LoadOK
<1>12. me.tree = <<q, me.mode>> /\ me.mode \in Modes
  BY <1>1, <1>2, RequestBefore DEF TreesOK, WithTree, Doing, RequestRows
<1>13. TreesOK(q)'
  <2>1. /\ scratch \cap TreesOf(q) \subseteq {me.tree}
        /\ records \cap TreesOf(q) # {} => faults > 0 \/ records \cap TreesOf(q) \subseteq {me.tree}
    BY <1>1, <1>2, RequestBefore DEF TreesOK, WithTree, Doing
  <2>2. TreesOf(q)' = TreesOf(q)
    BY DEF TreesOf
  <2>3. faults > 0 => faults' > 0
    BY <1>2, RequestBefore
  <2>4. scratch' \cap TreesOf(q) \subseteq {me.tree}
    BY <1>3, <2>1
  <2>5. records' \cap TreesOf(q) # {} => faults' > 0
    BY <1>3, <2>1, <2>3
  <2> QED BY <1>7, <1>8, <1>12, <2>2, <2>4, <2>5 DEF TreesOK, WithTree, Doing
<1>14. RequestOK(q)'
  BY <1>10, <1>11, <1>13 DEF RequestOK
<1>15. (y.mode = "index" /\ y.joined = 0 /\ y.pc \notin {"idle", "start", "done", "failed"}) => IsRunning(q)
  BY <1>1, <1>2, <1>7 DEF IsRunning
<1>16. scratch' \subseteq Requests \X Modes /\ records' \subseteq Requests \X Modes
  BY <1>3, RequestBefore
<1>17. ASSUME NEW p \in Requests \ {q}
       PROVE  /\ scratch' \cap TreesOf(p) = scratch \cap TreesOf(p)
              /\ records' \cap TreesOf(p) \subseteq records \cap TreesOf(p)
  <2>1. (scratch \ {me.tree}) \cap TreesOf(p) = scratch \cap TreesOf(p)
    BY <1>12, TreesDiffer
  <2> QED BY <1>3, <2>1
<1> QED BY <1>1, <1>2, <1>5, <1>6, <1>7, <1>14, <1>15, <1>16, <1>17, OwnRequestStep

LEMMA PruneWorktreesKeeps ==
  ASSUME RevisionInv, NEW q \in Requests, PruneWorktrees(q)
  PROVE  RevisionInv'
<1>1. PICK me \in RequestRows : me = request[q]
  BY RequestBefore
<1>2. faults' \in Nat /\ faults <= faults' /\ me.pc = "prune" /\ UNCHANGED <<revisions, online, sibling, scratch>>
  BY <1>1, RequestBefore DEF PruneWorktrees, In, Fault
<1>3. records' \subseteq records
  BY DEF PruneWorktrees
<1>4. PICK y : y = [me EXCEPT !.pc = "delete"]
  OBVIOUS
<1>5. request' = [request EXCEPT ![q] = y]
  BY <1>1, <1>4, RequestBefore DEF PruneWorktrees, To
<1>6. y \in RequestRows
  <2>1. "delete" \in RequestPlaces
    BY DEF RequestPlaces, WithTree
  <2> QED BY <1>4, <2>1 DEF RequestRows
<1>7. /\ y.pc = "delete" /\ y.result = me.result /\ y.outage = me.outage
      /\ y.commit = me.commit /\ y.mode = me.mode /\ y.joined = me.joined /\ y.tree = me.tree /\ y.began = me.began
  BY <1>4 DEF RequestRows
<1>8. request'[q] = y
  BY <1>1, <1>5, <1>6, <1>7, Stepped
<1>9. me.result >= -1 /\ me.joined = 0 /\ me.began <= sibling
  BY <1>1, <1>2, RequestBefore DEF PlaceOK
<1>10. PlaceOK(q)'
  <2>1. me.result \in Int /\ me.result >= -2
    BY <1>9 DEF RequestRows
  <2> QED BY <1>2, <1>7, <1>8, <1>9, <2>1 DEF PlaceOK
<1>11. FoundOK(q)' /\ LoadOK(q)'
  BY <1>1, <1>2, <1>7, <1>8, RequestBefore DEF FoundOK, LoadOK
<1>12. TreesOK(q)'
  <2>1. /\ me.tree = <<q, me.mode>> /\ scratch \cap TreesOf(q) \subseteq {me.tree}
        /\ records \cap TreesOf(q) # {} => faults > 0
    BY <1>1, <1>2, RequestBefore DEF TreesOK, WithTree, Doing
  <2>2. TreesOf(q)' = TreesOf(q)
    BY DEF TreesOf
  <2>3. faults > 0 => faults' > 0
    BY <1>2, RequestBefore
  <2>4. records' \cap TreesOf(q) # {} => faults' > 0
    BY <1>3, <2>1, <2>3
  <2> QED BY <1>2, <1>7, <1>8, <2>1, <2>2, <2>4 DEF TreesOK, WithTree, Doing
<1>13. RequestOK(q)'
  BY <1>10, <1>11, <1>12 DEF RequestOK
<1>14. (y.mode = "index" /\ y.joined = 0 /\ y.pc \notin {"idle", "start", "done", "failed"}) => IsRunning(q)
  BY <1>1, <1>2, <1>7 DEF IsRunning
<1>15. scratch' \subseteq Requests \X Modes /\ records' \subseteq Requests \X Modes
  BY <1>2, <1>3, RequestBefore
<1> QED BY <1>1, <1>2, <1>3, <1>5, <1>6, <1>7, <1>13, <1>14, <1>15, OwnRequestStep

LEMMA RemoveScratchKeeps ==
  ASSUME RevisionInv, NEW q \in Requests, RemoveScratch(q)
  PROVE  RevisionInv'
<1>1. PICK me \in RequestRows : me = request[q]
  BY RequestBefore
<1>2. me.pc = "delete" /\ UNCHANGED <<revisions, online, sibling, faults, records>> /\ scratch' = scratch \ {me.tree}
  BY <1>1, RequestBefore DEF RemoveScratch, In, world
<1>3. PICK pc : pc = IF me.result = -1 THEN "failed" ELSE IF me.result = 0 THEN "start" ELSE "done"
  OBVIOUS
<1>4. PICK y : y = [me EXCEPT !.pc = pc]
  OBVIOUS
<1>5. request' = [request EXCEPT ![q] = y]
  BY <1>1, <1>3, <1>4, RequestBefore DEF RemoveScratch, To
<1>6. y \in RequestRows
  <2>1. pc \in RequestPlaces
    BY <1>3 DEF RequestPlaces
  <2> QED BY <1>4, <2>1 DEF RequestRows
<1>7. /\ y.pc = pc /\ y.result = me.result /\ y.outage = me.outage
      /\ y.commit = me.commit /\ y.mode = me.mode /\ y.joined = me.joined /\ y.tree = me.tree /\ y.began = me.began
  BY <1>4 DEF RequestRows
<1>8. request'[q] = y
  BY <1>1, <1>5, <1>6, <1>7, Stepped
<1>9. me.result \in Int /\ me.result >= -1 /\ me.joined = 0 /\ me.began <= sibling
  BY <1>1, <1>2, RequestBefore DEF PlaceOK, RequestRows
<1>10. PlaceOK(q)'
  <2>1. /\ pc \in {"failed", "start", "done"} /\ me.result >= -2
        /\ pc = "done" => me.result > 0
        /\ pc = "start" => me.result = 0
    BY <1>3, <1>9
  <2> QED BY <1>2, <1>7, <1>8, <1>9, <2>1 DEF PlaceOK
<1>11. FoundOK(q)' /\ LoadOK(q)'
  BY <1>1, <1>2, <1>3, <1>7, <1>8, RequestBefore DEF FoundOK, LoadOK
<1>12. me.tree = <<q, me.mode>> /\ me.mode \in Modes
  BY <1>1, <1>2, RequestBefore DEF TreesOK, WithTree, Doing, RequestRows
<1>13. TreesOK(q)'
  <2>1. scratch \cap TreesOf(q) \subseteq {me.tree} /\ (records \cap TreesOf(q) # {} => faults > 0)
    BY <1>1, <1>2, RequestBefore DEF TreesOK, WithTree, Doing
  <2>2. TreesOf(q)' = TreesOf(q)
    BY DEF TreesOf
  <2>3. scratch' \cap TreesOf(q) = {}
    BY <1>2, <2>1
  <2> QED BY <1>2, <1>3, <1>7, <1>8, <2>1, <2>2, <2>3 DEF TreesOK, WithTree, Doing
<1>14. RequestOK(q)'
  BY <1>10, <1>11, <1>13 DEF RequestOK
<1>15. (y.mode = "index" /\ y.joined = 0 /\ y.pc \notin {"idle", "start", "done", "failed"}) => IsRunning(q)
  BY <1>3, <1>7
<1>16. scratch' \subseteq Requests \X Modes /\ records' \subseteq Requests \X Modes /\ faults' \in Nat /\ faults <= faults'
  BY <1>2, RequestBefore
<1>17. ASSUME NEW p \in Requests \ {q}
       PROVE  /\ scratch' \cap TreesOf(p) = scratch \cap TreesOf(p)
              /\ records' \cap TreesOf(p) \subseteq records \cap TreesOf(p)
  BY <1>2, <1>12, TreesDiffer
<1> QED BY <1>1, <1>2, <1>5, <1>6, <1>7, <1>14, <1>15, <1>16, <1>17, OwnRequestStep

LEMMA WaitForRunKeeps ==
  ASSUME RevisionInv, NEW q \in Requests, WaitForRun(q)
  PROVE  RevisionInv'
<1>1. PICK me \in RequestRows : me = request[q]
  BY RequestBefore
<1>2. me.pc = "joined" /\ UNCHANGED <<revisions, online, sibling, faults, scratch, records>>
  BY <1>1 DEF WaitForRun, In, world
<1>3. me.result = 0 /\ me.joined \in Requests /\ request[me.joined].commit = me.commit /\ me.began <= sibling
  BY <1>1, <1>2, RequestBefore DEF PlaceOK, RequestRows
<1>4. PICK led \in RequestRows : /\ led = request[me.joined] /\ led.pc \in {"done", "failed"} /\ led.commit = me.commit
  BY <1>1, <1>3, RequestBefore DEF WaitForRun
<1>5. /\ led.result \in Int /\ led.result >= -2 /\ (led.pc = "done" => led.result > 0)
      /\ led.result > 0 => /\ led.result \in DOMAIN revisions /\ revisions[led.result].commit = me.commit
                           /\ revisions[led.result].coverage = "degraded" => led.outage
  <2>1. PlaceOK(me.joined) /\ FoundOK(me.joined)
    BY <1>3 DEF RevisionInv, RequestOK
  <2> QED BY <1>4, <2>1 DEF PlaceOK, FoundOK, RequestRows
<1>6. PICK outage \in BOOLEAN : outage = (me.outage \/ led.outage)
  OBVIOUS
<1>7. PICK y : y = [me EXCEPT !.pc = led.pc, !.result = led.result, !.outage = outage]
  OBVIOUS
<1>8. request' = [request EXCEPT ![q] = y]
  BY <1>1, <1>4, <1>6, <1>7, RequestBefore DEF WaitForRun
<1>9. y \in RequestRows
  <2>1. led.pc \in RequestPlaces
    BY <1>4 DEF RequestPlaces
  <2> QED BY <1>5, <1>7, <2>1 DEF RequestRows
<1>10. /\ y.pc = led.pc /\ y.result = led.result /\ y.outage = outage
       /\ y.commit = me.commit /\ y.mode = me.mode /\ y.joined = me.joined /\ y.tree = me.tree /\ y.began = me.began
  BY <1>7 DEF RequestRows
<1>11. request'[q] = y /\ \A p \in Requests : request'[p].commit = request[p].commit
  BY <1>1, <1>8, <1>9, <1>10, Stepped
<1>12. PlaceOK(q)'
  <2>1. request'[me.joined].commit = me.commit
    BY <1>3, <1>11
  <2> QED BY <1>2, <1>3, <1>4, <1>5, <1>10, <1>11, <2>1 DEF PlaceOK
<1>13. FoundOK(q)'
  <2>1. led.outage => outage
    BY <1>6
  <2>2. me.joined # 0
    BY <1>3, RevisionConstants
  <2> QED BY <1>2, <1>5, <1>10, <1>11, <2>1, <2>2 DEF FoundOK
<1>14. LoadOK(q)'
  BY <1>4, <1>10, <1>11 DEF LoadOK
<1>15. TreesOK(q)'
  <2>1. TreesOf(q)' = TreesOf(q)
    BY DEF TreesOf
  <2>2. scratch \cap TreesOf(q) = {} /\ (records \cap TreesOf(q) # {} => faults > 0)
    BY <1>1, <1>2, <1>3, RequestBefore DEF TreesOK, WithTree, Doing
  <2> QED BY <1>2, <1>4, <1>10, <1>11, <2>1, <2>2 DEF TreesOK, WithTree, Doing
<1>16. RequestOK(q)'
  BY <1>12, <1>13, <1>14, <1>15 DEF RequestOK
<1>17. (y.mode = "index" /\ y.joined = 0 /\ y.pc \notin {"idle", "start", "done", "failed"}) => IsRunning(q)
  BY <1>4, <1>10
<1>18. scratch' \subseteq Requests \X Modes /\ records' \subseteq Requests \X Modes /\ faults' \in Nat /\ faults <= faults'
  BY <1>2, RequestBefore
<1> QED BY <1>1, <1>2, <1>8, <1>9, <1>10, <1>16, <1>17, <1>18, OwnRequestStep

LEMMA StartRevisionTaskKeeps ==
  ASSUME RevisionInv, NEW q \in Requests, StartRevisionTask(q)
  PROVE  RevisionInv'
<1>1. PICK me \in RequestRows : me = request[q]
  BY RequestBefore
<1>2. me.pc = "start" /\ UNCHANGED <<revisions, online, sibling, faults, scratch, records>>
  BY <1>1 DEF StartRevisionTask, In, world
<1>3. PICK runs \in SUBSET Requests :
        /\ runs = Running(q)
        /\ \A p \in Requests : p \in runs <=> /\ RequestProcess[p] = RequestProcess[q]
                                              /\ request[p].commit = me.commit /\ IsRunning(p)
  <2>1. Running(q) \in SUBSET Requests
    BY DEF Running
  <2>2. \A p \in Requests : p \in Running(q) <=> /\ RequestProcess[p] = RequestProcess[q]
                                                 /\ request[p].commit = me.commit /\ IsRunning(p)
    BY <1>1 DEF Running, IsRunning
  <2> QED BY <2>1, <2>2
<1>4. PICK y : /\ request' = [request EXCEPT ![q] = y]
               /\ runs # {} => y = [me EXCEPT !.pc = "joined", !.joined = Min(runs)]
               /\ runs = {} => y = [me EXCEPT !.pc = "begin", !.mode = "index"]
  <2>1. runs # {} => request' = [request EXCEPT ![q] = [me EXCEPT !.pc = "joined", !.joined = Min(runs)]]
    BY <1>1, <1>3, RequestBefore DEF StartRevisionTask
  <2>2. runs = {} => request' = [request EXCEPT ![q] = [me EXCEPT !.pc = "begin", !.mode = "index"]]
    BY <1>1, <1>3, RequestBefore DEF StartRevisionTask
  <2> QED BY <2>1, <2>2
<1>5. runs # {} => Min(runs) \in runs /\ Min(runs) \in Requests /\ Min(runs) # 0
  BY <1>3, LeastOf, RevisionConstants
<1>6. y \in RequestRows
  <2>1. "joined" \in RequestPlaces /\ "begin" \in RequestPlaces /\ "index" \in Modes
    BY DEF RequestPlaces, Modes
  <2>2. CASE runs # {}
    BY <1>4, <1>5, <2>1, <2>2 DEF RequestRows
  <2>3. CASE runs = {}
    BY <1>4, <2>1, <2>3 DEF RequestRows
  <2> QED BY <2>2, <2>3
<1>7. /\ y.result = me.result /\ y.commit = me.commit /\ y.tree = me.tree /\ y.began = me.began /\ y.outage = me.outage
      /\ runs # {} => y.pc = "joined" /\ y.joined = Min(runs) /\ y.mode = me.mode
      /\ runs = {} => y.pc = "begin" /\ y.joined = me.joined /\ y.mode = "index"
  BY <1>4 DEF RequestRows
<1>8. /\ request' \in [Requests -> RequestRows] /\ request'[q] = y /\ request'[q].commit = request[q].commit
      /\ \A p \in Requests \ {q} : request'[p] = request[p]
  BY <1>1, <1>4, <1>6, <1>7, Stepped
<1>9. me.result = 0 /\ me.joined = 0 /\ me.began <= sibling
  BY <1>1, <1>2, RequestBefore DEF PlaceOK
<1>10. \A p \in Requests : request'[p].commit = request[p].commit
  BY <1>8
<1>11. PlaceOK(q)'
  <2>1. CASE runs # {}
    <3>1. PICK led \in Requests : led = Min(runs) /\ led \in runs /\ led # 0
      BY <1>5, <2>1
    <3>2. request'[led].commit = me.commit
      BY <1>3, <1>10, <3>1
    <3> QED BY <1>2, <1>7, <1>8, <1>9, <2>1, <3>1, <3>2 DEF PlaceOK
  <2>2. CASE runs = {}
    BY <1>2, <1>7, <1>8, <1>9, <2>2 DEF PlaceOK
  <2> QED BY <2>1, <2>2
<1>12. y.pc \in {"joined", "begin"}
  BY <1>7
<1>13. FoundOK(q)' /\ LoadOK(q)'
  BY <1>7, <1>8, <1>9, <1>12 DEF FoundOK, LoadOK
<1>14. TreesOK(q)'
  <2>1. TreesOf(q)' = TreesOf(q)
    BY DEF TreesOf
  <2>2. scratch \cap TreesOf(q) = {} /\ (records \cap TreesOf(q) # {} => faults > 0)
    BY <1>1, <1>2, <1>9, RequestBefore DEF TreesOK, WithTree, Doing
  <2> QED BY <1>2, <1>8, <1>12, <2>1, <2>2 DEF TreesOK, WithTree, Doing
<1>15. RequestOK(q)'
  BY <1>11, <1>13, <1>14 DEF RequestOK
<1>16. OthersStay(q)
  BY <1>2, <1>8, RequestBefore DEF OthersStay
<1>17. OneRun'
  <2>1. CASE runs # {}
    <3>1. ~ IsRunning(q)'
      BY <1>5, <1>7, <1>8, <2>1 DEF IsRunning
    <3> QED BY <1>16, <3>1, RunsKeep
  <2>2. CASE runs = {}
    <3>1. \A p \in Requests \ {q} : IsRunning(p)' = IsRunning(p)
      BY <1>8 DEF IsRunning
    <3>2. \A p \in Requests \ {q} : ~ (RequestProcess[p] = RequestProcess[q] /\ request[p].commit = me.commit /\ IsRunning(p))
      BY <1>3, <2>2
    <3> QED BY <1>1, <1>10, <3>1, <3>2 DEF RevisionInv, OneRun
  <2> QED BY <2>1, <2>2
<1>18. scratch' \subseteq Requests \X Modes /\ records' \subseteq Requests \X Modes /\ faults' \in Nat
  BY <1>2, RequestBefore
<1> QED BY <1>2, <1>8, <1>15, <1>16, <1>17, <1>18, RequestStepKeeps

\* A new snapshot leaves what the other requests know as it is: none of them is about to
\* publish the same commit in the same process.
LEMMA PublicationsStay ==
  ASSUME RevisionInv, NEW q \in Requests, OthersStay(q), faults' \in Nat, IsRunning(q),
         NEW row \in RevisionRows, revisions' = Append(revisions, row),
         row.by = RequestProcess[q], row.commit = request[q].commit,
         NEW p \in Requests \ {q}
  PROVE  RequestOK(p)'
<1>1. request'[p] = request[p] /\ RequestOK(p)
  BY DEF OthersStay, RevisionInv
<1>2. \A x \in Requests : request'[x].commit = request[x].commit
  BY DEF OthersStay
<1>3. request[p] \in RequestRows /\ revisions \in Seq(RevisionRows) /\ faults \in Nat
  BY DEF RevisionInv, TypesOK
<1>4. PlaceOK(p)'
  <2>1. request[p].joined # 0 => request[p].joined \in Requests
    BY <1>3 DEF RequestRows
  <2> QED BY <1>1, <1>2, <2>1 DEF RequestOK, PlaceOK, OthersStay
<1>5. TreesOK(p)'
  <2>1. TreesOf(p)' = TreesOf(p)
    BY DEF TreesOf
  <2> QED BY <1>1, <1>3, <2>1 DEF RequestOK, TreesOK, OthersStay
<1>6. /\ DOMAIN revisions \subseteq DOMAIN revisions' /\ \A s \in DOMAIN revisions : revisions'[s] = revisions[s]
      /\ \A s \in DOMAIN revisions' : s \in DOMAIN revisions \/ revisions'[s] = row
  BY <1>3
<1>7. FoundOK(p)'
  BY <1>1, <1>6 DEF RequestOK, FoundOK
<1>8. LoadOK(p)'
  <2>1. SUFFICES ASSUME request[p].pc = "publish" PROVE LoadOK(p)'
    BY <1>1 DEF LoadOK
  <2>2. IsRunning(p)
    BY <1>1, <2>1 DEF RequestOK, PlaceOK, IsRunning
  <2>3. ~ (RequestProcess[p] = RequestProcess[q] /\ request[p].commit = request[q].commit)
    BY <2>2 DEF RevisionInv, OneRun
  <2>4. ASSUME NEW s \in Kept', revisions'[s].by = RequestProcess[p], revisions'[s].commit = request[p].commit
        PROVE  s \in Kept /\ revisions'[s] = revisions[s]
    BY <1>6, <2>3, <2>4 DEF Kept
  <2>5. LoadOK(p)
    BY <1>1 DEF RequestOK
  <2>6. \A s \in Kept' : revisions'[s].by = RequestProcess[p] /\ revisions'[s].commit = request[p].commit =>
          revisions'[s].coverage # request[p].load.coverage \/ revisions'[s].sibling # request[p].load.sibling
    BY <2>1, <2>4, <2>5 DEF LoadOK
  <2>7. /\ request[p].load \in Loads
        /\ request[p].load.coverage = "degraded" => request[p].outage
        /\ request[p].commit \in ReadsSibling => request[p].load.sibling >= 1 /\ request[p].load.sibling >= request[p].began
    BY <2>1, <2>5 DEF LoadOK
  <2> QED BY <1>1, <2>6, <2>7 DEF LoadOK
<1> QED BY <1>4, <1>5, <1>7, <1>8 DEF RequestOK

LEMMA PublishRevisionKeeps ==
  ASSUME RevisionInv, NEW q \in Requests, PublishRevision(q)
  PROVE  RevisionInv'
<1>1. PICK me \in RequestRows : me = request[q]
  BY RequestBefore
<1>2. me.pc = "publish" /\ UNCHANGED <<online, sibling, faults, scratch, records>>
  BY <1>1 DEF PublishRevision, In
<1>3. /\ me.result = 0 /\ me.joined = 0 /\ me.began <= sibling /\ me.mode = "index"
      /\ me.load \in Loads /\ (me.load.coverage = "degraded" => me.outage)
      /\ me.commit \in ReadsSibling => me.load.sibling >= 1 /\ me.load.sibling >= me.began
      /\ \A s \in Kept : revisions[s].by = RequestProcess[q] /\ revisions[s].commit = me.commit =>
           revisions[s].coverage # me.load.coverage \/ revisions[s].sibling # me.load.sibling
  BY <1>1, <1>2, RequestBefore DEF PlaceOK, LoadOK
<1>4. /\ revisions \in Seq(RevisionRows) /\ faults \in Nat /\ sibling \in Nat \ {0} /\ online \in BOOLEAN
      /\ scratch \subseteq Requests \X Modes /\ records \subseteq Requests \X Modes
  BY DEF RevisionInv, TypesOK
<1>5. IsRunning(q)
  BY <1>1, <1>2, <1>3 DEF IsRunning
<1>6. "remove" \in RequestPlaces
  BY DEF RequestPlaces, WithTree, Doing
<1>7. scratch' \subseteq Requests \X Modes /\ records' \subseteq Requests \X Modes /\ faults' \in Nat /\ faults <= faults'
  BY <1>2, <1>4
<1>8. CASE me.base \notin Kept
  <2>1. PICK y : y = [me EXCEPT !.pc = "remove", !.result = -1]
    OBVIOUS
  <2>2. request' = [request EXCEPT ![q] = y] /\ UNCHANGED revisions
    BY <1>1, <1>8, <2>1, RequestBefore DEF PublishRevision
  <2>3. y \in RequestRows
    <3>1. -1 \in Int
      OBVIOUS
    <3> QED BY <1>6, <2>1, <3>1 DEF RequestRows
  <2>4. /\ y.pc = "remove" /\ y.result = -1
        /\ y.commit = me.commit /\ y.mode = me.mode /\ y.joined = me.joined /\ y.tree = me.tree /\ y.began = me.began
    BY <2>1 DEF RequestRows
  <2>5. request'[q] = y
    BY <1>1, <2>2, <2>3, <2>4, Stepped
  <2>6. PlaceOK(q)' /\ FoundOK(q)' /\ LoadOK(q)'
    BY <1>2, <1>3, <2>4, <2>5 DEF PlaceOK, FoundOK, LoadOK
  <2>7. TreesOK(q)'
    <3>1. request[q].pc \in Doing /\ request'[q].pc \in Doing
      BY <1>1, <1>2, <2>4, <2>5 DEF Doing
    <3> QED BY <1>1, <1>2, <2>4, <2>5, <3>1, RequestBefore, WorktreeStays
  <2>8. RequestOK(q)'
    BY <2>6, <2>7 DEF RequestOK
  <2> QED BY <1>1, <1>2, <1>5, <1>7, <2>2, <2>3, <2>4, <2>8, OwnRequestStep
<1>9. CASE me.base \in Kept
  <2>1. PICK row : row = [commit |-> me.commit, coverage |-> me.load.coverage, sibling |-> me.load.sibling,
                          base |-> me.base, by |-> RequestProcess[q], kept |-> TRUE]
    OBVIOUS
  <2>2. row \in RevisionRows
    <3>1. RequestProcess[q] \in Range(RequestProcess)
      BY RevisionConstants DEF Range
    <3> QED BY <1>3, <2>1, <3>1 DEF RevisionRows, RequestRows, Loads
  <2>3. /\ row.commit = me.commit /\ row.coverage = me.load.coverage /\ row.sibling = me.load.sibling
        /\ row.base = me.base /\ row.by = RequestProcess[q] /\ row.kept = TRUE
    BY <2>1
  <2>4. PICK new \in Nat : new = Len(revisions) + 1 /\ DOMAIN revisions = 1..(new - 1) /\ new > 0
    BY <1>4
  <2>5. PICK y : y = [me EXCEPT !.pc = "remove", !.result = new]
    OBVIOUS
  <2>6. revisions' = Append(revisions, row) /\ request' = [request EXCEPT ![q] = y]
    BY <1>1, <1>9, <2>1, <2>4, <2>5, RequestBefore DEF PublishRevision
  <2>7. y \in RequestRows
    <3>1. new \in Int
      OBVIOUS
    <3> QED BY <1>6, <2>5, <3>1 DEF RequestRows
  <2>8. /\ y.pc = "remove" /\ y.result = new /\ y.outage = me.outage
        /\ y.commit = me.commit /\ y.mode = me.mode /\ y.joined = me.joined /\ y.tree = me.tree /\ y.began = me.began
    BY <2>5 DEF RequestRows
  <2>9. /\ request' \in [Requests -> RequestRows] /\ request'[q] = y /\ request'[q].commit = request[q].commit
        /\ \A p \in Requests \ {q} : request'[p] = request[p]
    BY <1>1, <2>6, <2>7, <2>8, Stepped
  <2>10. /\ revisions' \in Seq(RevisionRows) /\ DOMAIN revisions' = DOMAIN revisions \cup {new}
         /\ new \notin DOMAIN revisions /\ revisions'[new] = row
         /\ \A s \in DOMAIN revisions : revisions'[s] = revisions[s]
    BY <1>4, <2>2, <2>4, <2>6
  <2>11. Kept' = Kept \cup {new}
    BY <2>3, <2>10 DEF Kept
  <2>12. OthersStay(q)
    BY <1>2, <1>4, <2>9 DEF OthersStay
  <2>13. me.base \in DOMAIN revisions
    BY <1>9 DEF Kept
  <2>14. RowsOK'
    <3>1. row.base < new
      BY <2>3, <2>4, <2>13
    <3>2. row.commit \in ReadsSibling => row.sibling >= 1
      BY <1>3, <2>3
    <3> QED BY <2>10, <3>1, <3>2 DEF RevisionInv, RowsOK
  <2>15. BasesAreKept'
    BY <1>9, <2>3, <2>10, <2>11 DEF RevisionInv, BasesAreKept, Kept
  <2>16. OneSnapshotPerCommit'
    <3>1. \A s \in Kept : revisions'[s] = revisions[s]
      BY <2>10 DEF Kept
    <3>2. \A s \in Kept : (row.by = revisions[s].by /\ row.commit = revisions[s].commit)
            => revisions[s].coverage # row.coverage \/ revisions[s].sibling # row.sibling
      BY <1>3, <2>3
    <3>3. OneSnapshotPerCommit
      BY DEF RevisionInv
    <3>4. ASSUME NEW s \in Kept', NEW t \in Kept', s # t,
                 revisions'[s].by = revisions'[t].by, revisions'[s].commit = revisions'[t].commit
          PROVE  revisions'[s].coverage # revisions'[t].coverage \/ revisions'[s].sibling # revisions'[t].sibling
      <4>1. CASE s \in Kept /\ t \in Kept
        BY <3>1, <3>3, <3>4, <4>1 DEF OneSnapshotPerCommit
      <4>2. CASE s = new /\ t \in Kept
        BY <2>10, <3>1, <3>2, <3>4, <4>2
      <4>3. CASE s \in Kept /\ t = new
        BY <2>10, <3>1, <3>2, <3>4, <4>3
      <4> QED BY <2>11, <3>4, <4>1, <4>2, <4>3
    <3> QED BY <3>4 DEF OneSnapshotPerCommit
  <2>17. OneRun'
    BY <1>5, <2>12, RunsKeep
  <2>18. RequestOK(q)'
    <3>1. PlaceOK(q)'
      BY <1>2, <1>3, <2>4, <2>8, <2>9 DEF PlaceOK
    <3>2. FoundOK(q)'
      BY <1>2, <1>3, <2>3, <2>8, <2>9, <2>10 DEF FoundOK
    <3>3. LoadOK(q)'
      BY <2>8, <2>9 DEF LoadOK
    <3>4. TreesOK(q)'
      <4>1. request[q].pc \in Doing /\ request'[q].pc \in Doing
        BY <1>1, <1>2, <2>8, <2>9 DEF Doing
      <4> QED BY <1>1, <1>2, <2>8, <2>9, <4>1, RequestBefore, WorktreeStays
    <3> QED BY <3>1, <3>2, <3>3, <3>4 DEF RequestOK
  <2>19. ASSUME NEW p \in Requests \ {q} PROVE RequestOK(p)'
    BY <1>1, <1>5, <1>7, <2>2, <2>3, <2>6, <2>12, PublicationsStay
  <2>20. \A p \in Requests : RequestOK(p)'
    BY <2>18, <2>19
  <2>21. TypesOK'
    BY <1>2, <1>4, <1>7, <2>9, <2>10 DEF TypesOK
  <2> QED BY <2>14, <2>15, <2>16, <2>17, <2>20, <2>21 DEF RevisionInv
<1> QED BY <1>8, <1>9

-----------------------------------------------------------------------------
(* The environment.                                                        *)

\* An outage and an edited sibling leave requests and snapshots alone.
LEMMA OutsideKeeps ==
  ASSUME RevisionInv, Outage \/ EditSibling
  PROVE  RevisionInv'
<1>1. TypesOK
  BY DEF RevisionInv
<1>2. /\ UNCHANGED <<revisions, request, scratch, records>>
      /\ online' \in BOOLEAN /\ sibling' \in Nat \ {0} /\ sibling <= sibling' /\ faults' \in Nat /\ faults <= faults'
  <2>1. faults \in Nat /\ sibling \in Nat \ {0} /\ online \in BOOLEAN
    BY <1>1 DEF TypesOK
  <2>2. faults' \in Nat /\ faults <= faults'
    BY <2>1 DEF Outage, EditSibling, Fault
  <2>3. online' \in BOOLEAN /\ UNCHANGED <<revisions, request, scratch, records>>
    BY <2>1 DEF Outage, EditSibling
  <2>4. sibling' = sibling \/ sibling' = sibling + 1
    BY DEF Outage, EditSibling
  <2>5. sibling' \in Nat \ {0} /\ sibling <= sibling'
    BY <2>1, <2>4
  <2> QED BY <2>2, <2>3, <2>5
<1>3. TypesOK' /\ RowsOK' /\ BasesAreKept' /\ OneSnapshotPerCommit' /\ OneRun'
  BY <1>1, <1>2 DEF RevisionInv, TypesOK, RowsOK, BasesAreKept, OneSnapshotPerCommit, OneRun, IsRunning, Kept
<1>4. ASSUME NEW q \in Requests PROVE RequestOK(q)'
  <2>1. request[q] \in RequestRows /\ request[q].began \in Nat
    BY <1>1 DEF TypesOK, RequestRows
  <2>2. PlaceOK(q) /\ TreesOK(q) /\ FoundOK(q) /\ LoadOK(q) /\ faults \in Nat /\ sibling \in Nat
    BY <1>1 DEF RevisionInv, RequestOK, TypesOK
  <2>3. PlaceOK(q)'
    <3>1. request[q].began <= sibling'
      BY <1>2, <2>1, <2>2 DEF PlaceOK
    <3> QED BY <1>2, <2>2, <3>1 DEF PlaceOK
  <2>4. TreesOK(q)'
    <3>1. TreesOf(q)' = TreesOf(q)
      BY DEF TreesOf
    <3> QED BY <1>2, <2>2, <3>1 DEF TreesOK
  <2>5. FoundOK(q)' /\ LoadOK(q)'
    BY <1>2, <2>2 DEF FoundOK, LoadOK, Kept
  <2> QED BY <2>3, <2>4, <2>5 DEF RequestOK
<1> QED BY <1>3, <1>4 DEF RevisionInv

\* Pruning a snapshot moves its dependents to its base.
LEMMA PruneRevisionKeeps ==
  ASSUME RevisionInv, NEW s \in Kept, PruneRevision(s)
  PROVE  RevisionInv'
<1>1. /\ TypesOK /\ RowsOK /\ BasesAreKept /\ OneSnapshotPerCommit
      /\ revisions \in Seq(RevisionRows) /\ faults \in Nat /\ s \in DOMAIN revisions
  BY DEF RevisionInv, TypesOK, Kept
<1>2. /\ UNCHANGED <<online, sibling, request, scratch, records>> /\ faults' \in Nat /\ faults <= faults'
  <2>1. UNCHANGED <<online, sibling, request, scratch, records>> /\ faults' = faults + 1
    BY Zenon DEF PruneRevision, Fault
  <2> QED BY <1>1, <2>1
<1>3. DOMAIN revisions' = DOMAIN revisions /\ DOMAIN revisions = 1..Len(revisions) /\ Len(revisions) \in Nat
  <2>1. DOMAIN revisions' = DOMAIN revisions
    BY Zenon DEF PruneRevision
  <2> QED BY <1>1, <2>1
<1>4. ASSUME NEW t \in DOMAIN revisions
      PROVE  /\ revisions[t] \in RevisionRows /\ revisions'[t] \in RevisionRows
             /\ revisions'[t].commit = revisions[t].commit /\ revisions'[t].coverage = revisions[t].coverage
             /\ revisions'[t].sibling = revisions[t].sibling /\ revisions'[t].by = revisions[t].by
             /\ revisions'[t].kept <=> revisions[t].kept /\ t # s
             /\ revisions'[t].base = IF revisions[t].base = s THEN revisions[s].base ELSE revisions[t].base
  <2>1. PICK row \in RevisionRows : row = revisions[t]
    BY <1>1
  <2>2. PICK kept \in BOOLEAN : kept = (row.kept /\ t # s)
    OBVIOUS
  <2>3. PICK base : base = IF row.base = s THEN revisions[s].base ELSE row.base
    OBVIOUS
  <2>4. base \in Nat
    <3>1. revisions[s] \in RevisionRows
      BY <1>1
    <3>2. revisions[s].base \in Nat /\ row.base \in Nat
      BY <3>1 DEF RevisionRows
    <3> QED BY <2>3, <3>2
  <2>5. PICK new : new = [row EXCEPT !.kept = kept, !.base = base]
    OBVIOUS
  <2>6. revisions'[t] = new
    BY <2>1, <2>2, <2>3, <2>5 DEF PruneRevision
  <2>7. /\ new \in RevisionRows /\ new.commit = row.commit /\ new.coverage = row.coverage
        /\ new.sibling = row.sibling /\ new.by = row.by /\ new.kept = kept /\ new.base = base
    BY <2>4, <2>5 DEF RevisionRows
  <2>8. row.kept \in BOOLEAN
    BY DEF RevisionRows
  <2>9. revisions'[t].kept <=> revisions[t].kept /\ t # s
    BY <2>1, <2>2, <2>6, <2>7, <2>8
  <2>10. revisions'[t].base = IF revisions[t].base = s THEN revisions[s].base ELSE revisions[t].base
    BY <2>1, <2>3, <2>6, <2>7
  <2> QED BY <2>1, <2>6, <2>7, <2>9, <2>10
<1>5. Kept' = Kept \ {s}
  BY <1>3, <1>4 DEF Kept
<1>6. TypesOK'
  <2>1. revisions' = [t \in 1..Len(revisions) |-> revisions'[t]]
    BY <1>3 DEF PruneRevision
  <2>2. \A t \in 1..Len(revisions) : revisions'[t] \in RevisionRows
    BY <1>3, <1>4
  <2>3. revisions' \in [1..Len(revisions) -> RevisionRows]
    BY <2>1, <2>2
  <2>4. revisions' \in Seq(RevisionRows)
    BY <1>3, <2>3
  <2> QED BY <1>1, <1>2, <2>4 DEF TypesOK
<1>7. RowsOK'
  <2>1. ASSUME NEW t \in DOMAIN revisions PROVE revisions'[t].base < t
    <3>1. revisions[t].base < t /\ revisions[s].base < s
      BY <1>1 DEF RowsOK
    <3>2. s \in Int /\ t \in Int /\ revisions[t].base \in Int /\ revisions[s].base \in Int
      BY <1>1, <1>3, <1>4 DEF RevisionRows
    <3>3. revisions[t].base = s => revisions[s].base < t
      BY <3>1, <3>2
    <3> QED BY <1>4, <3>1, <3>3
  <2>2. \A t \in DOMAIN revisions : revisions'[t].commit \in ReadsSibling => revisions'[t].sibling >= 1
    BY <1>1, <1>4 DEF RowsOK
  <2> QED BY <1>3, <2>1, <2>2 DEF RowsOK
<1>8. BasesAreKept'
  <2>1. ASSUME NEW t \in Kept, t # s
        PROVE  revisions'[t].base = 0 \/ revisions'[t].base \in Kept \ {s}
    <3>1. revisions[s].base # s
      <4>1. revisions[s].base < s /\ s \in Int
        BY <1>1, <1>3 DEF RowsOK
      <4> QED BY <4>1
    <3>2. (revisions[t].base = 0 \/ revisions[t].base \in Kept) /\ (revisions[s].base = 0 \/ revisions[s].base \in Kept)
      BY <1>1 DEF BasesAreKept
    <3>3. t \in DOMAIN revisions
      BY DEF Kept
    <3>4. revisions'[t].base = IF revisions[t].base = s THEN revisions[s].base ELSE revisions[t].base
      BY <1>4, <3>3
    <3>5. CASE revisions[t].base = s
      BY <3>1, <3>2, <3>4, <3>5
    <3>6. CASE revisions[t].base # s
      BY <3>2, <3>4, <3>6
    <3> QED BY <3>5, <3>6
  <2> QED BY <1>5, <2>1 DEF BasesAreKept
<1>9. OneSnapshotPerCommit'
  <2>1. \A t \in Kept : t \in DOMAIN revisions
    BY DEF Kept
  <2> QED BY <1>1, <1>4, <1>5, <2>1 DEF OneSnapshotPerCommit
<1>10. OneRun'
  BY <1>2 DEF RevisionInv, OneRun, IsRunning
<1>11. ASSUME NEW q \in Requests PROVE RequestOK(q)'
  <2>1. PlaceOK(q) /\ TreesOK(q) /\ FoundOK(q) /\ LoadOK(q)
    BY DEF RevisionInv, RequestOK
  <2>2. PlaceOK(q)'
    BY <1>2, <2>1 DEF PlaceOK
  <2>3. TreesOK(q)'
    <3>1. TreesOf(q)' = TreesOf(q)
      BY DEF TreesOf
    <3> QED BY <1>1, <1>2, <2>1, <3>1 DEF TreesOK
  <2>4. FoundOK(q)'
    BY <1>2, <1>3, <1>4, <2>1 DEF FoundOK
  <2>5. LoadOK(q)'
    <3>1. \A t \in Kept' : /\ t \in Kept /\ revisions'[t].commit = revisions[t].commit /\ revisions'[t].by = revisions[t].by
                           /\ revisions'[t].coverage = revisions[t].coverage /\ revisions'[t].sibling = revisions[t].sibling
      BY <1>4, <1>5 DEF Kept
    <3> QED BY <1>2, <2>1, <3>1 DEF LoadOK
  <2> QED BY <2>2, <2>3, <2>4, <2>5 DEF RequestOK
<1> QED BY <1>6, <1>7, <1>8, <1>9, <1>10, <1>11 DEF RevisionInv

\* A process that stops leaves behind whatever its requests had on disk.
LEMMA StopProcessKeeps ==
  ASSUME RevisionInv, NEW p \in Range(RequestProcess), StopProcess(p)
  PROVE  RevisionInv'
<1>1. TypesOK /\ RowsOK /\ BasesAreKept /\ OneSnapshotPerCommit /\ faults \in Nat
  BY DEF RevisionInv, TypesOK
<1>2. UNCHANGED <<revisions, online, sibling, scratch, records>> /\ faults' \in Nat /\ faults' > 0
  <2>1. UNCHANGED <<revisions, online, sibling, scratch, records>> /\ faults' = faults + 1
    BY Zenon DEF StopProcess, Fault
  <2> QED BY <1>1, <2>1
<1>3. ASSUME NEW q \in Requests
      PROVE  /\ request'[q] \in RequestRows
             /\ \/ request'[q] = request[q]
                \/ /\ request'[q].pc = "failed" /\ request'[q].result = -2
                   /\ request'[q].commit = request[q].commit /\ request'[q].mode = request[q].mode
                   /\ request'[q].joined = request[q].joined /\ request'[q].began = request[q].began
  <2>1. PICK me \in RequestRows : me = request[q]
    BY RequestBefore
  <2>2. PICK y : y = [me EXCEPT !.pc = "failed", !.result = -2]
    OBVIOUS
  <2>3. request'[q] = y \/ request'[q] = me
    BY <2>1, <2>2 DEF StopProcess
  <2>4. y \in RequestRows
    <3>1. "failed" \in RequestPlaces /\ -2 \in Int
      BY DEF RequestPlaces
    <3> QED BY <2>2, <3>1 DEF RequestRows
  <2>5. /\ y.pc = "failed" /\ y.result = -2
        /\ y.commit = me.commit /\ y.mode = me.mode /\ y.joined = me.joined /\ y.began = me.began
    BY <2>2 DEF RequestRows
  <2> QED BY <2>1, <2>3, <2>4, <2>5
<1>4. request' \in [Requests -> RequestRows]
  <2>1. request' = [q \in Requests |-> request'[q]]
    BY DEF StopProcess
  <2> QED BY <1>3, <2>1
<1>5. TypesOK' /\ RowsOK' /\ BasesAreKept' /\ OneSnapshotPerCommit'
  BY <1>1, <1>2, <1>4 DEF TypesOK, RowsOK, BasesAreKept, OneSnapshotPerCommit, Kept
<1>6. OneRun'
  <2>1. \A q \in Requests : (IsRunning(q)' => IsRunning(q)) /\ request'[q].commit = request[q].commit
    BY <1>3 DEF IsRunning
  <2> QED BY <2>1 DEF RevisionInv, OneRun
<1>7. ASSUME NEW q \in Requests PROVE RequestOK(q)'
  <2>1. PlaceOK(q) /\ TreesOK(q) /\ FoundOK(q) /\ LoadOK(q) /\ request[q] \in RequestRows
    BY RequestBefore
  <2>2. TreesOf(q)' = TreesOf(q)
    BY DEF TreesOf
  <2>3. request[q].joined # 0 => request'[request[q].joined].commit = request[request[q].joined].commit
    <3>1. request[q].joined # 0 => request[q].joined \in Requests
      BY <2>1 DEF RequestRows
    <3> QED BY <1>3, <3>1
  <2>4. CASE request'[q] = request[q]
    <3>1. PlaceOK(q)'
      BY <1>2, <2>1, <2>3, <2>4 DEF PlaceOK
    <3>2. TreesOK(q)'
      BY <1>2, <2>1, <2>2, <2>4 DEF TreesOK
    <3>3. FoundOK(q)' /\ LoadOK(q)'
      BY <1>2, <2>1, <2>4 DEF FoundOK, LoadOK, Kept
    <3> QED BY <3>1, <3>2, <3>3 DEF RequestOK
  <2>5. CASE /\ request'[q].pc = "failed" /\ request'[q].result = -2
             /\ request'[q].commit = request[q].commit /\ request'[q].mode = request[q].mode
             /\ request'[q].joined = request[q].joined /\ request'[q].began = request[q].began
    <3>1. PlaceOK(q)'
      BY <1>2, <2>1, <2>3, <2>5 DEF PlaceOK
    <3>2. TreesOK(q)'
      BY <1>2, <2>2, <2>5 DEF TreesOK, WithTree, Doing
    <3>3. FoundOK(q)' /\ LoadOK(q)'
      BY <2>5 DEF FoundOK, LoadOK
    <3> QED BY <3>1, <3>2, <3>3 DEF RequestOK
  <2> QED BY <1>3, <2>4, <2>5
<1> QED BY <1>5, <1>6, <1>7 DEF RevisionInv

-----------------------------------------------------------------------------
(* The specification.                                                      *)

LEMMA RevisionStarts == RevisionInit => RevisionInv
<1> SUFFICES ASSUME RevisionInit PROVE RevisionInv
  OBVIOUS
<1>1. PICK row : row = [commit |-> HeadCommit, coverage |-> "complete", sibling |-> IF HeadCommit \in ReadsSibling THEN 1 ELSE 0,
                        base |-> 0, by |-> 0, kept |-> TRUE]
  OBVIOUS
<1>2. row \in RevisionRows
  <2>1. (IF HeadCommit \in ReadsSibling THEN 1 ELSE 0) \in Nat
    OBVIOUS
  <2> QED BY <1>1, <2>1, HeadCommitIs DEF RevisionRows, Coverages
<1>3. row.base = 0 /\ row.commit = HeadCommit /\ (HeadCommit \in ReadsSibling => row.sibling = 1)
  BY <1>1
<1>4. /\ revisions = <<row>> /\ online = TRUE /\ sibling = 1 /\ scratch = {} /\ records = {} /\ faults = 0
  BY <1>1 DEF RevisionInit
<1>5. revisions \in Seq(RevisionRows) /\ DOMAIN revisions = {1} /\ revisions[1] = row
  BY <1>2, <1>4
<1>6. PICK asked \in [Requests -> Commits] : request = [q \in Requests |-> NewRequest(asked[q])]
  BY RevisionConstants DEF RevisionInit
<1>7. ASSUME NEW q \in Requests
      PROVE  /\ request[q] \in RequestRows
             /\ request[q].pc = "idle" /\ request[q].mode = "probe" /\ request[q].joined = 0
             /\ request[q].result = 0 /\ request[q].began = 0
  <2>1. PICK c \in Commits : c = asked[q]
    OBVIOUS
  <2>2. request[q] = [pc |-> "idle", commit |-> c, mode |-> "probe", joined |-> 0, tree |-> 0, base |-> 0,
                      load |-> <<>>, result |-> 0, began |-> 0, outage |-> FALSE]
    BY <1>6, <2>1 DEF NewRequest
  <2>3. "idle" \in RequestPlaces /\ "probe" \in Modes
    BY DEF RequestPlaces, Modes
  <2> QED BY <2>2, <2>3 DEF RequestRows
<1>8. request \in [Requests -> RequestRows]
  BY <1>6, <1>7
<1>9. TypesOK
  BY <1>4, <1>5, <1>8 DEF TypesOK
<1>10. RowsOK
  BY <1>3, <1>5 DEF RowsOK
<1>11. BasesAreKept /\ OneSnapshotPerCommit
  BY <1>3, <1>5 DEF BasesAreKept, OneSnapshotPerCommit, Kept
<1>12. OneRun
  BY <1>7 DEF OneRun, IsRunning
<1>13. ASSUME NEW q \in Requests PROVE RequestOK(q)
  BY <1>4, <1>7 DEF RequestOK, PlaceOK, TreesOK, FoundOK, LoadOK, WithTree, Doing
<1> QED BY <1>9, <1>10, <1>11, <1>12, <1>13 DEF RevisionInv

LEMMA RevisionSteps == RevisionInv /\ [RevisionNext]_revisionVars => RevisionInv'
<1> SUFFICES ASSUME RevisionInv, [RevisionNext]_revisionVars PROVE RevisionInv'
  OBVIOUS
<1>1. ASSUME NEW q \in Requests, RevisionStep(q) PROVE RevisionInv'
  BY <1>1, MakeScratchKeeps, AddWorktreeKeeps, DiscoverKeeps, ReusableRevisionKeeps, RevisionBaseKeeps, ExtractRevisionKeeps,
     PublishRevisionKeeps, RemoveWorktreeKeeps, PruneWorktreesKeeps, RemoveScratchKeeps, StartRevisionTaskKeeps, WaitForRunKeeps
     DEF RevisionStep
<1>2. CASE Outage \/ EditSibling
  BY <1>2, OutsideKeeps
<1>3. ASSUME NEW s \in Kept, PruneRevision(s) PROVE RevisionInv'
  BY <1>3, PruneRevisionKeeps
<1>4. ASSUME NEW p \in Range(RequestProcess), StopProcess(p) PROVE RevisionInv'
  BY <1>4, StopProcessKeeps
<1>5. CASE UNCHANGED revisionVars
  BY <1>5 DEF revisionVars, RevisionInv, TypesOK, RowsOK, BasesAreKept, OneSnapshotPerCommit, OneRun, IsRunning,
              RequestOK, PlaceOK, TreesOK, TreesOf, FoundOK, LoadOK, Kept
<1> QED BY <1>1, <1>2, <1>3, <1>4, <1>5 DEF RevisionNext

LEMMA RevisionInvAnswers == RevisionInv => RevisionsAreAnswered
<1> SUFFICES ASSUME RevisionInv PROVE RevisionsAreAnswered
  OBVIOUS
<1>1. /\ TypesOK /\ revisions \in Seq(RevisionRows) /\ Len(revisions) \in Nat /\ DOMAIN revisions = 1..Len(revisions)
  BY DEF RevisionInv, TypesOK
<1>2. ASSUME NEW q \in Requests
      PROVE  PlaceOK(q) /\ TreesOK(q) /\ FoundOK(q) /\ request[q] \in RequestRows /\ request[q].result \in Int
  BY <1>1 DEF RevisionInv, RequestOK, TypesOK, RequestRows
<1>3. RevisionTypeOK
  <2>1. \A s \in DOMAIN revisions : revisions[s].commit \in Commits /\ revisions[s].coverage \in Coverages
    <3>1. \A s \in DOMAIN revisions : revisions[s] \in RevisionRows
      BY <1>1
    <3> QED BY <3>1 DEF RevisionRows
  <2>2. ASSUME NEW q \in Requests
        PROVE  request[q].result \in -2..Len(revisions) /\ (request[q].pc = "done" => request[q].result > 0)
    <3>1. PICK r \in Int : r = request[q].result
      BY <1>2
    <3>2. r >= -2 /\ (request[q].pc = "done" => r > 0)
      BY <1>2, <3>1 DEF PlaceOK
    <3>3. r > 0 => r <= Len(revisions)
      BY <1>1, <1>2, <3>1 DEF FoundOK
    <3>4. r <= Len(revisions)
      BY <1>1, <3>3
    <3>5. r \in -2..Len(revisions)
      BY <1>1, <3>2, <3>4
    <3> QED BY <3>1, <3>2, <3>5
  <2> QED BY <1>1, <2>1, <2>2 DEF RevisionTypeOK, TypesOK, Modes, Coverages
<1>4. EndedRequestsLeaveNoScratch
  <2>1. ASSUME NEW q \in Requests, request[q].pc \in {"done", "failed", "start", "joined"}, request[q].result # -2
        PROVE  /\ \A m \in Modes : <<q, m>> \notin scratch
               /\ (\E m \in Modes : <<q, m>> \in records) => faults > 0
    <3>1. scratch \cap TreesOf(q) = {} /\ (records \cap TreesOf(q) # {} => faults > 0)
      BY <1>2, <2>1 DEF TreesOK, WithTree, Doing
    <3> QED BY <3>1 DEF TreesOf
  <2> QED BY <2>1 DEF EndedRequestsLeaveNoScratch, Modes
<1>5. AnswersAreFresh
  <2>1. ASSUME NEW q \in Requests, request[q].pc = "done"
        PROVE  /\ revisions[request[q].result].commit = request[q].commit
               /\ revisions[request[q].result].coverage = "degraded" => request[q].outage
               /\ (request[q].commit \in ReadsSibling /\ request[q].joined = 0) =>
                    revisions[request[q].result].sibling >= request[q].began
    <3>1. PlaceOK(q) /\ FoundOK(q)
      BY <1>2
    <3>2. request[q].result > 0
      BY <2>1, <3>1 DEF PlaceOK
    <3> QED BY <3>1, <3>2 DEF FoundOK
  <2> QED BY <2>1 DEF AnswersAreFresh
<1> QED BY <1>3, <1>4, <1>5 DEF RevisionInv, RevisionsAreAnswered

(* Whatever is asked, fails, stops, is pruned or shared on the way, a request  *)
(* for a revision answers with that revision, loaded no earlier than the       *)
(* request, against a base that stays; a process stores a commit once; and     *)
(* a request that ends has cleaned up (ReusableRevision, IndexRevision,        *)
(* StartRevisionTask, publishRevision, revisionWorktree).                      *)
THEOREM RevisionsStayAnswered == RevisionSpec => []RevisionsAreAnswered
<1>1. RevisionInv /\ [RevisionNext]_revisionVars => RevisionInv'
  BY RevisionSteps
<1> QED BY RevisionStarts, <1>1, RevisionInvAnswers, PTL DEF RevisionSpec
=============================================================================
