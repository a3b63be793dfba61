------------------------------ MODULE CallGraph ------------------------------
(***************************************************************************)
(* The bounded call graph of package graph: references resolved by name    *)
(* (resolver.go), structural parts absorbed into the nodes they belong to  *)
(* (absorb.go), and the breadth-first walk from the roots (build.go).      *)
(*                                                                         *)
(* A request is a record.  Its references are what the bodies of the nodes *)
(* refer to: [from, name, status, targets].  A node that is absorbed is    *)
(* drawn as its parent.  Sites, kinds and properties are left out; the     *)
(* type of an edge follows from the status of its reference.               *)
(***************************************************************************)
EXTENDS Integers, Sequences, FiniteSets, SequencesExt

CONSTANTS
    Requests       \* what graphs are asked for

VARIABLES
    request,       \* the request being answered
    nodes,         \* the graph's nodes and their display depths
    edges,         \* the edges drawn: <<from, to, type>>
    walks,         \* the queue of walks: <<node, depth, direction>>
    walked,        \* the walks ever queued: <<node, direction>>
    counts,        \* the edges the source reported: <<node, direction>> -> count
    omitted,       \* [limit, beyond, excluded]
    build          \* "roots", "walking", "done" or "failed"

graphVars == <<request, nodes, edges, walks, walked, counts, omitted, build>>

Leaf == 0          \* the node of a name nothing resolves
Cycle == -1        \* no node: nodes are absorbed into one another forever

-----------------------------------------------------------------------------
(* The source: a resolver, absorbing.                                      *)

EdgeType(ref) == IF ref.status \in {"dynamic", "ambiguous"} THEN "dispatch" ELSE "call"

\* Reference.Steps: the edges a reference draws from its body.
Steps(ref) ==
    IF ref.status = "unresolved" THEN {<<Leaf, "call">>}
    ELSE {<<t, EdgeType(ref)>> : t \in ref.targets}

ResolverOut(r, id) == UNION {Steps(ref) : ref \in {ref \in r.references : ref.from = id}}

\* Reference.EdgeTo: an unresolved reference reaches nothing.
ResolverIn(r, id) ==
    {<<ref.from, EdgeType(ref)>> : ref \in {ref \in r.references : ref.status # "unresolved" /\ id \in ref.targets}}

Absorbed(r, id) == id \in DOMAIN r.parent

RECURSIVE AbsorbedOut(_, _, _)

\* The callees of id, each absorbed one replaced by its own; Cycle when an
\* absorbed node is reached again while it is being expanded.
AbsorbedOut(r, id, expanding) ==
    UNION {IF ~Absorbed(r, step[1]) THEN {step}
           ELSE IF step[1] \in expanding THEN {<<Cycle, "call">>}
           ELSE AbsorbedOut(r, step[1], expanding \cup {step[1]}) : step \in ResolverOut(r, id)}

Out(r, id) == AbsorbedOut(r, id, {id})

\* Mutant: an absorbed caller is drawn as itself.
InUnabsorbed(r, id) == ResolverIn(r, id)

\* An absorbed caller is drawn as the node its parent describes.
In(r, id) == {<<IF Absorbed(r, step[1]) THEN r.parent[step[1]] ELSE step[1], step[2]>> : step \in ResolverIn(r, id)}

-----------------------------------------------------------------------------
(* Build.                                                                  *)

Follows(r, type) == r.access = {} \/ type \in r.access \/ (type = "dispatch" /\ "call" \in r.access)

GraphInit ==
    /\ request \in Requests
    /\ nodes = <<>> /\ edges = {} /\ walks = <<>> /\ walked = {} /\ counts = <<>>
    /\ omitted = [limit |-> FALSE, beyond |-> 0, excluded |-> {}]
    /\ build = "roots"

\* The walks a node starts when it is added at a depth: callees away from and
\* beyond the roots, callers on the other side.
FirstWalks(r, id, depth) ==
    IF id = Leaf THEN <<>>
    ELSE (IF depth >= 0 /\ r.direction # "callers" THEN <<<<id, depth, 1>>>> ELSE <<>>)
         \o (IF depth <= 0 /\ r.direction # "callees" THEN <<<<id, depth, -1>>>> ELSE <<>>)

SideOf(walk) == <<walk[1], walk[3]>>

\* enqueue: a side of a node is walked once.
Enqueued(b, ws) ==
    LET new == SelectSeq(ws, LAMBDA w : SideOf(w) \notin b.walked)
    IN  [b EXCEPT !.walks = @ \o new, !.walked = @ \cup {SideOf(new[i]) : i \in DOMAIN new}]

Added(b, id, depth) == Enqueued([b EXCEPT !.nodes = (id :> depth) @@ @], FirstWalks(request, id, depth))

Now == [nodes |-> nodes, edges |-> edges, walks |-> walks, walked |-> walked, omitted |-> omitted, beyond |-> FALSE]

Become(b) ==
    /\ nodes' = b.nodes /\ edges' = b.edges /\ walks' = b.walks /\ walked' = b.walked /\ omitted' = b.omitted

Full(b) == Cardinality(DOMAIN b.nodes) >= request.limit

\* addRoot for each root in turn; a root past the limit is left out.
AddRoots ==
    /\ build = "roots"
    /\ LET Add(b, root) == IF root \in DOMAIN b.nodes THEN b
                           ELSE IF Full(b) THEN [b EXCEPT !.omitted.limit = TRUE]
                           ELSE Added(b, root, 0)
       IN  Become(FoldLeft(Add, Now, request.roots))
    /\ build' = "walking"
    /\ UNCHANGED <<request, counts>>

\* One step to a neighbour: past the depth it is only noticed, past the limit
\* left out; one that is drawn is walked in the same direction.
Follow(b, node, depth, direction, step) ==
    LET atDepth == depth = direction * request.depth
        edge == IF direction > 0 THEN <<node, step[1], step[2]>> ELSE <<step[1], node, step[2]>>
        present == step[1] \in DOMAIN b.nodes
        in == IF present THEN b ELSE Added(b, step[1], depth + direction)
        on == IF atDepth \/ step[1] = Leaf THEN in ELSE Enqueued(in, <<<<step[1], depth + direction, direction>>>>)
    IN  IF ~present /\ atDepth THEN [b EXCEPT !.beyond = TRUE]
        ELSE IF ~present /\ Full(b) THEN [b EXCEPT !.omitted.limit = TRUE]
        ELSE [on EXCEPT !.edges = @ \cup {edge}]

\* The steps to a node's neighbours in one direction, without those excluded,
\* which are tallied unless the node is at the depth bound.
Expand ==
    /\ build = "walking" /\ walks # <<>>
    /\ LET node == Head(walks)[1]
           depth == Head(walks)[2]
           direction == Head(walks)[3]
           reported == IF direction > 0 THEN Out(request, node) ELSE In(request, node)
           followed == {s \in reported : Follows(request, s[2])}
           dropped == {s \in followed : s[1] \in request.exclude \ DOMAIN nodes}
           atDepth == depth = direction * request.depth
           start == [Now EXCEPT !.walks = Tail(@),
                                !.omitted.excluded = @ \cup (IF atDepth THEN {} ELSE {s[1] : s \in dropped})]
           end == FoldLeft(LAMBDA b, s : Follow(b, node, depth, direction, s), start,
                           SetToSortSeq(followed \ dropped, LAMBDA s, t : s[1] < t[1] \/ (s[1] = t[1] /\ s[2] = "call" /\ t[2] # "call")))
       IN  IF <<Cycle, "call">> \in reported
           THEN build' = "failed" /\ UNCHANGED <<nodes, edges, walks, walked, omitted, counts>>
           ELSE /\ Become([end EXCEPT !.omitted.beyond = @ + (IF end.beyond THEN 1 ELSE 0)])
                /\ counts' = (<<node, direction>> :> Cardinality(followed \ dropped)) @@ counts
                /\ UNCHANGED build
    /\ UNCHANGED request

FinishGraph ==
    /\ build = "walking" /\ walks = <<>>
    /\ build' = "done"
    /\ UNCHANGED <<request, nodes, edges, walks, walked, counts, omitted>>

GraphNext == AddRoots \/ Expand \/ FinishGraph

GraphSpec == GraphInit /\ [][GraphNext]_graphVars

-----------------------------------------------------------------------------
(* Correctness.                                                            *)

Roots == {request.roots[i] : i \in DOMAIN request.roots}

\* The neighbours a walk may go to: followed, and not excluded unless roots.
Reached(direction, S) ==
    {s[1] : s \in {s \in UNION {IF direction > 0 THEN Out(request, id) ELSE In(request, id) : id \in S \ {Leaf}} :
                     Follows(request, s[2]) /\ s[1] \notin request.exclude \ Roots}}

RECURSIVE Within(_, _)
Within(direction, n) == IF n = 0 THEN Roots ELSE Within(direction, n - 1) \cup Reached(direction, Within(direction, n - 1))

Directions == IF request.direction = "both" THEN {1, -1} ELSE IF request.direction = "callees" THEN {1} ELSE {-1}

\* Without a limit the graph holds exactly the nodes that callees, or callers,
\* reach from a root within the depth, each at its shortest distance; with one
\* it holds fewer only if it says so, and never more than the limit.
GraphIsTheNeighbourhood ==
    build = "done" =>
        LET all == UNION {Within(d, request.depth) : d \in Directions}
            Distance(d, id) == CHOOSE n \in 0 .. request.depth : id \in Within(d, n) /\ (n > 0 => id \notin Within(d, n - 1))
            Nearest(id) == CHOOSE n \in {Distance(d, id) : d \in {d \in Directions : id \in Within(d, request.depth)}} :
                              \A d \in Directions : id \in Within(d, request.depth) => n <= Distance(d, id)
        IN  /\ DOMAIN nodes \subseteq all
            /\ Cardinality(DOMAIN nodes) <= request.limit
            /\ omitted.limit <=> DOMAIN nodes # all
            /\ ~omitted.limit => \A id \in all : nodes[id] \in {Nearest(id), -Nearest(id)}

\* Every drawn edge joins nodes of the graph and is one the source reports
\* from both ends, absorbed parts included; without a limit, an edge between
\* two nodes of the graph is missing only where neither end was walked its way.
EdgesAreTheSources ==
    build = "done" =>
        /\ \A e \in edges : {e[1], e[2]} \subseteq DOMAIN nodes /\ <<e[2], e[3]>> \in Out(request, e[1])
        /\ \A from, to \in DOMAIN nodes : \A type \in {"call", "dispatch"} :
              /\ <<to, type>> \in Out(request, from) /\ Follows(request, type)
              /\ <<from, 1>> \in walked \/ (<<to, -1>> \in walked /\ to # Leaf)
              => <<from, to, type>> \in edges

\* What is left out is told: a side of a node whose reported edges are all
\* drawn has its count, and one with more is at the depth bound or the limit.
OmissionsAreCounted ==
    build = "done" =>
        \A side \in DOMAIN counts :
            LET drawn == {e \in edges : IF side[2] > 0 THEN e[1] = side[1] ELSE e[2] = side[1]}
            IN  /\ Cardinality(drawn) <= counts[side] \/ request.direction = "both"
                /\ Cardinality(drawn) < counts[side] => omitted.limit \/ omitted.beyond > 0

CallGraphIsBounded == GraphIsTheNeighbourhood /\ EdgesAreTheSources /\ OmissionsAreCounted

=============================================================================
