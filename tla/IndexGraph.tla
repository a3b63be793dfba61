----------------------------- MODULE IndexGraph -----------------------------
(***************************************************************************)
(* The call graph of an indexed root and its change query (package query:  *)
(* graph*.go).  The source reads steps from the index of QueryEval; the    *)
(* walk is that of package graph, over callees; a change query walks the   *)
(* root in two snapshots and compares what it reached.                     *)
(*                                                                         *)
(* A request is a record: the index and, of one of its scopes, the earlier *)
(* snapshot (from), the root symbol, and the options.  Entries carry their *)
(* fingerprints, <<public, private, content>>.  A caller has one name that *)
(* does not resolve.  Sites and their guards are left out.                 *)
(***************************************************************************)
EXTENDS QueryEval

CONSTANTS
    GraphRequests        \* what is asked

VARIABLES
    asked,               \* the request being answered
    told                 \* the changes told, NoChanges before

changeVars == <<asked, told>>

Std == <<<<"std">>>>     \* the module of the standard library
Builtin == <<<<"builtin">>>>
NoChanges == [failed |-> FALSE, before |-> <<>>, after |-> <<>>, nodes |-> {}, edges |-> {}, dependencies |-> <<>>, changed |-> FALSE]
Refused == [NoChanges EXCEPT !.failed = TRUE]

-----------------------------------------------------------------------------
(* Nodes, and what exclusion patterns see of them.                         *)

Unresolved(caller) == <<"unresolved", caller>>
PackageScope(package) == <<"package", package>>

Category(x, id) ==
    CASE id[1] # "symbol" -> "container"
      [] x.symbols[id].kind \in {"func", "method"} -> "callable"
      [] x.symbols[id].kind \in {"type", "table"} -> "type"
      [] OTHER -> "member"

DataSymbol(x, id) ==
    \/ Category(x, id) = "member" /\ x.symbols[id].kind # "builtin"
    \/ Category(x, id) = "type" /\ x.symbols[id].kind # "type"

\* The package of a node: an unresolved callee is in its caller's.
RECURSIVE Group(_, _)
Group(x, node) ==
    CASE node[1] = "unresolved" -> Group(x, node[2])
      [] node[1] = "package" -> node[2]
      [] x.symbols[node].kind = "builtin" -> Builtin
      [] OTHER -> x.symbols[node].package

\* notePackage: the module that its symbols are of.
RECURSIVE ModuleOf(_, _)
ModuleOf(x, node) ==
    CASE node[1] = "unresolved" -> ModuleOf(x, node[2])
      [] node[1] = "package" -> <<>>
      [] OTHER -> x.symbols[node].module

ScopePackages(x) == {x.documents[p[2]].package : p \in Places(x)}

Excludes(x, patterns, node) ==
    LET package == Group(x, node)
    IN  \/ "std" \in patterns /\ ModuleOf(x, node) = Std
        \/ "builtin" \in patterns /\ package = Builtin
        \/ "external" \in patterns /\ package \notin ScopePackages(x)
        \/ "tree" \in patterns /\ \E base \in asked.trees : IsPrefix(base, package)

-----------------------------------------------------------------------------
(* The source: steps out of and into a symbol.                             *)

AccessTypes == [reference |-> "read", write |-> "write"]
FollowsType(access, type) == access = {} \/ type \in access \/ (type = "dispatch" /\ "call" \in access)
AccessRoles(access) == {role \in DOMAIN AccessTypes : FollowsType(access, AccessTypes[role])}

CallSteps(x, id) ==
    LET called == {row.symbol : row \in Callees(x, id)}
    IN  {<<c, "call">> : c \in called \ {None}}
        \cup {<<m, "dispatch">> : m \in UNION {MethodImplementations(x, c) : c \in called \ {None}}}
        \cup (IF None \in called THEN {<<Unresolved(id), "call">>} ELSE {})

\* accesses: a package that qualifies a name is not read.
AccessSteps(x, id, access) ==
    UNION {{<<o.symbol, AccessTypes[o.role]>> :
              o \in {o \in x.documents[p[2]].occurrences : o.role \in AccessRoles(access) /\ o.symbol # None /\ o.enclosing = id}} :
           p \in Definitions(x, id)}

OutSteps(x, id, access) ==
    IF id[1] # "symbol" THEN {}
    ELSE CallSteps(x, id) \cup {s \in AccessSteps(x, id, access) : Category(x, s[1]) # "container"}

\* enclosingSteps: from the declaration around each row, or its package's scope.
EnclosingNode(x, row) == IF row.enclosing = None THEN PackageScope(x.documents[row.document].package) ELSE row.enclosing

Members(x, id) == {m \in DOMAIN x.symbols : x.symbols[m].owner = id /\ Category(x, m) = "member"}

\* users: of a type, also the uses of its members.
Users(x, id, access) ==
    LET of == {id} \cup (IF Category(x, id) = "type" THEN Members(x, id) ELSE {})
    IN  {<<EnclosingNode(x, row), AccessTypes[row.role]>> :
            row \in Occurrences(x, [s \in of |-> s], "reference", AccessRoles(access), EveryRoot)}

Includes(x, id, access) ==
    IF Category(x, id) # "type" \/ ~FollowsType(access, "call") THEN {}
    ELSE {<<EnclosingNode(x, row), "call">> : row \in Occurrences(x, [s \in {id} |-> id], "caller", {"call"}, EveryRoot)}

InSteps(x, id, access) ==
    CASE id[1] # "symbol" -> {}
      [] Category(x, id) = "callable" ->
            {<<EnclosingNode(x, row), IF row.dispatch THEN "dispatch" ELSE "call">> : row \in IncomingCalls(x, id, EveryRoot)}
      [] DataSymbol(x, id) -> Users(x, id, access) \cup Includes(x, id, access)
      [] OTHER -> {}

-----------------------------------------------------------------------------
(* The walk over callees from the root (graph.Build).                      *)

StepOrder(x, steps) ==
    LET Rank(node) == IF node[1] = "symbol" THEN node[2] ELSE 100
        Kind(type) == CASE type = "call" -> 0 [] type = "dispatch" -> 1 [] type = "read" -> 2 [] OTHER -> 3
    IN  SetToSortSeq(steps, LAMBDA s, t : 4 * Rank(s[1]) + Kind(s[2]) < 4 * Rank(t[1]) + Kind(t[2]))

\* One step of the walk from a node at a depth.
Draw(r, node, depth, b, step) ==
    CASE step[1] \in DOMAIN b.nodes -> [b EXCEPT !.edges = Append(@, <<node, step[1], step[2]>>)]
      [] depth = r.depth -> [b EXCEPT !.limited = TRUE]
      [] Cardinality(DOMAIN b.nodes) >= r.limit -> [b EXCEPT !.limited = TRUE]
      [] OTHER -> [b EXCEPT !.nodes = (step[1] :> depth + 1) @@ @, !.edges = Append(@, <<node, step[1], step[2]>>),
                            !.queue = IF step[1][1] = "unresolved" THEN @ ELSE Append(@, step[1])]

RECURSIVE Drawn(_, _, _)
Drawn(x, r, b) ==
    IF b.queue = <<>> THEN b
    ELSE LET node == Head(b.queue)
             depth == b.nodes[node]
             steps == {s \in OutSteps(x, node, r.access) : FollowsType(r.access, s[2])}
             left == {s \in steps : s[1] \notin DOMAIN b.nodes /\ Excludes(x, r.exclude, s[1])}
             start == [b EXCEPT !.queue = Tail(@),
                                !.excluded = IF depth = r.depth THEN @ ELSE @ \cup {s[1] : s \in left}]
         IN  Drawn(x, r, FoldLeft(LAMBDA c, s : Draw(r, node, depth, c, s), start, StepOrder(x, steps \ left)))

\* buildIndexedGraph
Built(x, r) ==
    Drawn(x, r, [root |-> r.root, nodes |-> (r.root :> 0), edges |-> <<>>, queue |-> <<r.root>>, excluded |-> {}, limited |-> FALSE])

\* graph.Paths: the parents of a breadth-first walk of the edges in their order.
RECURSIVE Parents(_, _, _)
Parents(edges, queue, parent) ==
    IF queue = <<>> THEN parent
    ELSE LET Visit(b, e) == IF e[1] = Head(queue) /\ e[2] \notin DOMAIN b.parent
                            THEN [queue |-> Append(b.queue, e[2]), parent |-> (e[2] :> e[1]) @@ b.parent] ELSE b
             b == FoldLeft(Visit, [queue |-> Tail(queue), parent |-> parent], edges)
         IN  Parents(edges, b.queue, b.parent)

RECURSIVE PathFrom(_, _)
PathFrom(parent, node) == IF parent[node] = None THEN <<node>> ELSE Append(PathFrom(parent, parent[node]), node)

PathTo(g, node) == PathFrom(Parents(g.edges, <<g.root>>, (g.root :> None)), node)

-----------------------------------------------------------------------------
(* The change query (graph_since.go).                                      *)

\* previousGraph: the scopes with the earlier snapshot of the root in place.
Previous(r) ==
    [r.index EXCEPT !.scopes[r.to].documents = r.from.documents,
                    !.implements = {f \in @ : f[1] # r.to} \cup {<<r.to, f[1], f[2]>> : f \in r.from.implements}]

EffectiveSymbols(x, s) ==
    LET entries == UNION {x.documents[d].symbols : d \in x.scopes[s].documents}
    IN  [id \in {e.id : e \in entries} |-> (CHOOSE e \in entries : e.id = id).fp]

\* symbolChanges: the outermost layer of the fingerprints that differs.
SymbolChanges(before, after) ==
    LET changed == {id \in DOMAIN before \cup DOMAIN after :
                      id \notin DOMAIN before \/ id \notin DOMAIN after \/ before[id] # after[id]}
    IN  [id \in changed |->
            CASE id \notin DOMAIN before -> "added"
              [] id \notin DOMAIN after -> "removed"
              [] before[id][1] # after[id][1] -> "signature"
              [] before[id][2] # after[id][2] -> "structure"
              [] OTHER -> "body"]

\* dependencySelection: the selected version, or the declared one, its replacement and target.
Selection(d) == <<IF d.selected = 0 THEN d.declared ELSE d.selected, d.replace, d.target>>

\* changedDependencies
ChangedDependencies(before, after) ==
    {m \in DOMAIN before \cup DOMAIN after :
        m \notin DOMAIN before \/ m \notin DOMAIN after \/ Selection(before[m]) # Selection(after[m])}

\* Mutant: only the edges the selected snapshot gained are compared.
EdgeChangesGained(before, after) ==
    {[edge |-> e, reason |-> "added", side |-> "to", path |-> Append(PathTo(after, e[1]), e[2])] :
       e \in Range(after.edges) \ Range(before.edges)}

\* edgeChanges: the edges only one of the walks drew.
EdgeChanges(before, after) ==
    {[edge |-> e, reason |-> "added", side |-> "to", path |-> Append(PathTo(after, e[1]), e[2])] :
       e \in Range(after.edges) \ Range(before.edges)}
    \cup {[edge |-> e, reason |-> "removed", side |-> "from", path |-> Append(PathTo(before, e[1]), e[2])] :
       e \in Range(before.edges) \ Range(after.edges)}

\* The changed nodes of the selected snapshot, then the earlier one's symbols.
NodeChanges(x, before, after, symbols, modules) ==
    LET Node(id, reason, side, g) == [id |-> id, reason |-> reason, side |-> side, path |-> PathTo(g, id)]
        now == {Node(id, symbols[id], "to", after) : id \in DOMAIN after.nodes \cap DOMAIN symbols}
               \cup {Node(id, "dependency-version", "to", after) :
                       id \in {id \in DOMAIN after.nodes \ DOMAIN symbols : ModuleOf(x, id) \in modules}}
    IN  now \cup {Node(id, symbols[id], "from", before) :
                    id \in (DOMAIN before.nodes \cap DOMAIN symbols) \ {n.id : n \in now}}

NoGraph == [root |-> None, nodes |-> <<>>, edges |-> <<>>, queue |-> <<>>, excluded |-> {}, limited |-> FALSE]

\* sinceSides: the snapshot must be comparable with the one selected of its root.
SidesMatch(r) ==
    /\ Cardinality({s \in DOMAIN r.index.scopes : r.index.scopes[s].root = r.index.scopes[r.to].root}) = 1
    /\ r.from.configuration = r.index.scopes[r.to].configuration

\* graphRoots of a symbol: active, and a step can be drawn from it.
Drawable(x, r) ==
    \/ Category(x, r.root) = "callable"
    \/ DataSymbol(x, r.root) /\ (\/ Category(x, r.root) = "type" /\ FollowsType(r.access, "call")
                                 \/ AccessRoles(r.access) # {})

\* The graph of an earlier snapshot, which may not have the root.
EarlierGraph(old, r) == IF ActiveSymbols(old, {r.root}) = {} THEN NoGraph ELSE Built(old, r)

\* What the walks of the two snapshots tell.
ChangesBetween(r, before, after, symbols, modules) ==
    LET Told(nodes, edges, left) ==
            [failed |-> FALSE, before |-> before, after |-> after, nodes |-> nodes, edges |-> edges,
             dependencies |-> [m \in modules |-> m \in left], changed |-> nodes # {} \/ edges # {} \/ left # {}]
    IN  Told(NodeChanges(r.index, before, after, symbols, modules), EdgeChanges(before, after),
             {ModuleOf(r.index, n) : n \in before.excluded \cup after.excluded} \cap modules)

\* graphChanges
ChangesOf(r) ==
    LET Since(old) == ChangesBetween(r, EarlierGraph(old, r), Built(r.index, r),
                                     SymbolChanges(EffectiveSymbols(old, r.to), EffectiveSymbols(r.index, r.to)),
                                     ChangedDependencies(r.from.dependencies, r.dependencies))
    IN  Since(Previous(r))

ChangeInit == asked \in GraphRequests /\ told = NoChanges

AskSince ==
    /\ told = NoChanges
    /\ told' = IF SidesMatch(asked) /\ ActiveSymbols(asked.index, {asked.root}) # {} /\ Drawable(asked.index, asked)
                  /\ asked.from.captured = asked.captured
               THEN ChangesOf(asked) ELSE Refused
    /\ UNCHANGED asked

ChangeSpec == ChangeInit /\ [][AskSince]_changeVars

-----------------------------------------------------------------------------
(* Correctness.                                                            *)

Answers == told # NoChanges /\ ~told.failed

\* What calls reach from nodes, except into packages left out.
RECURSIVE Closure(_, _, _)
Closure(x, r, S) ==
    LET more == S \cup {s[1] : s \in {s \in UNION {OutSteps(x, id, r.access) : id \in S} :
                                        FollowsType(r.access, s[2]) /\ ~Excludes(x, r.exclude, s[1])}}
    IN  IF more = S THEN S ELSE Closure(x, r, more)

\* What a root does: the steps among what it reaches, the fingerprints of the
\* symbols of its module there, and the modules that it reaches or leaves out.
Behaviour(x, r) ==
    LET Steps(reached) ==
            UNION {{<<id, s>> : s \in {s \in OutSteps(x, id, r.access) : FollowsType(r.access, s[2])}} : id \in reached}
        Does(reached, steps, effective) ==
            [steps |-> {t \in steps : t[2][1] \in reached},
             facts |-> {<<id, effective[id]>> : id \in reached \cap DOMAIN effective},
             modules |-> {ModuleOf(x, t[2][1]) : t \in steps}]
        From(reached) == Does(reached, Steps(reached), EffectiveSymbols(x, r.to))
    IN  From(Closure(x, r, {r.root}))

\* At the depth bound what is left out is not even tallied.
StoppedNowhere(g) == ~g.limited /\ \A id \in DOMAIN g.nodes : g.nodes[id] < asked.depth

\* A change query that says nothing changed, of walks that stopped nowhere, is
\* right: both snapshots' roots reach the same along the same steps, with the
\* same fingerprints, and what is reached or left out is of dependencies whose
\* selection is the same.
NoChangeIsMissed ==
    Answers /\ ~told.changed /\ StoppedNowhere(told.before) /\ StoppedNowhere(told.after) =>
        LET Same(was, now) ==
                /\ now.steps = was.steps /\ now.facts = was.facts
                /\ (now.modules \cup was.modules) \cap ChangedDependencies(asked.from.dependencies, asked.dependencies) = {}
        IN  Same(Behaviour(Previous(asked), asked), Behaviour(asked.index, asked))

Side(change) == IF change.side = "to" THEN asked.index ELSE Previous(asked)
DistanceOf(g, id) == g.nodes[id]

\* A change is told with a walk that its snapshot has: from the root, along
\* steps of that snapshot, as short as any; and with a reason that holds.
ChangesHavePaths ==
    Answers =>
        /\ \A c \in told.nodes \cup told.edges :
              LET x == Side(c)
              IN  /\ c.path[1] = asked.root
                  /\ \A i \in 1 .. Len(c.path) - 1 : \E s \in OutSteps(x, c.path[i], asked.access) : s[1] = c.path[i + 1]
        /\ \A c \in told.nodes :
              LET g == IF c.side = "to" THEN told.after ELSE told.before
              IN  Last(c.path) = c.id /\ Len(c.path) = DistanceOf(g, c.id) + 1
        /\ \A c \in told.edges : \E s \in OutSteps(Side(c), c.edge[1], asked.access) : s = <<c.edge[2], c.edge[3]>>
        /\ \A c, d \in told.nodes : c.id = d.id => c = d

\* Callers and callees are the same steps seen from their two ends.  The uses
\* of a type's members are drawn at the type, a step into a package's scope is
\* taken by nobody, and a function that is read as a value has no users.
SourceSidesAgree ==
    Answers =>
        LET x == asked.index
            a == asked.access
        IN  \A id \in {id \in DOMAIN x.symbols : Definitions(x, id) # {}} :
              /\ \A s \in InSteps(x, id, a) : s[1][1] = "symbol" /\ Definitions(x, s[1]) # {} =>
                    \E t \in OutSteps(x, s[1], a) : t[2] = s[2] /\ (t[1] = id \/ t[1] \in Members(x, id))
              /\ \A s \in OutSteps(x, id, a) : s[1][1] = "symbol" /\ FollowsType(a, s[2]) =>
                    \/ <<id, s[2]>> \in InSteps(x, s[1], a)
                    \/ Category(x, s[1]) = "callable" /\ s[2] \in {"read", "write"}
                    \/ ~DataSymbol(x, s[1]) /\ Category(x, s[1]) # "callable"
                    \/ Category(x, s[1]) = "member" /\ s[2] = "call"

ChangesAreFound == NoChangeIsMissed /\ ChangesHavePaths /\ SourceSidesAgree

=============================================================================
