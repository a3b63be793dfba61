------------------------------ MODULE QueryEval ------------------------------
(***************************************************************************)
(* Compact query expressions over the selected snapshots (package query:   *)
(* compact_*.go, selector_*.go, scope_predicate.go, module_index_ops.go).  *)
(*                                                                         *)
(* An index is a record: symbols, by id, with kind, module, package, owner *)
(* and name; scopes, the selected snapshots, each with its root and active *)
(* documents; documents, with the symbols they declare and the occurrences *)
(* in them; and implements, the facts <<scope, type, interface>>.  Rows    *)
(* are a set: their order and repetition are left out, and so are texts,   *)
(* columns and stages.  A package path is a sequence of segments and a     *)
(* query name ends in the sequence of its dotted names; a pattern's "*"    *)
(* stands for a segment, or for the rest of the last one, and its "**" for *)
(* any number of segments.                                                 *)
(***************************************************************************)
EXTENDS Integers, Sequences, FiniteSets, SequencesExt

CONSTANTS
    Questions,           \* what is asked: [index, expression]
    MaxGraphSymbols      \* maxGraphSymbols: the most symbols a walk visits

VARIABLES
    question,            \* the question asked
    answered             \* what it evaluated to, NoValue before

queryVars == <<question, answered>>

None == <<"none">>       \* no symbol
NoExpression == [kind |-> "none"]
Nowhere == 0             \* the scope of a row that is nowhere declared
EveryRoot == {}          \* no predicate

NoValue == [symbols |-> {}, targets |-> {}, rows |-> {}, path |-> <<>>, failed |-> FALSE]
Failed == [NoValue EXCEPT !.failed = TRUE]
Value(symbols, rows) == [NoValue EXCEPT !.symbols = symbols, !.rows = rows]

Row(scope, document, at, kind, role, symbol, enclosing) ==
    [scope |-> scope, document |-> document, at |-> at, kind |-> kind, role |-> role, symbol |-> symbol,
     enclosing |-> enclosing, dispatch |-> FALSE, relation |-> "", source |-> None, depth |-> 0]

Callable(x, id) == id[1] = "symbol" /\ x.symbols[id].kind \in {"func", "method"}
KindOf(x, id) == IF id[1] = "symbol" THEN x.symbols[id].kind ELSE id[1]

-----------------------------------------------------------------------------
(* Globs (selector_glob.go).                                               *)

SegmentMatches(pattern, segment) ==
    \/ pattern = segment
    \/ /\ pattern # <<>> /\ Last(pattern) = "*" /\ Len(segment) >= Len(pattern)
       /\ \A i \in 1 .. Len(pattern) - 1 : pattern[i] = segment[i]

RECURSIVE GlobMatches(_, _)
GlobMatches(pattern, path) ==
    IF pattern = <<>> THEN path = <<>>
    ELSE IF Head(pattern) = <<"**">>
         THEN GlobMatches(Tail(pattern), path) \/ (path # <<>> /\ GlobMatches(pattern, Tail(path)))
         ELSE path # <<>> /\ SegmentMatches(Head(pattern), Head(path)) /\ GlobMatches(Tail(pattern), Tail(path))

IsWild(pattern) == \E i \in DOMAIN pattern : \E j \in DOMAIN pattern[i] : pattern[i][j] \in {"*", "**"}

RECURSIVE Names(_, _)
Names(x, id) == (IF x.symbols[id].owner = None THEN <<>> ELSE Names(x, x.symbols[id].owner)) \o <<x.symbols[id].name>>

\* queryName: the package path, its last segment extended by the owners' names and the name.
QueryName(x, id) == LET p == x.symbols[id].package IN Front(p) \o <<Last(p) \o Names(x, id)>>

\* relativePackage: the path below the module's root; <<<<".">>>> for the root, <<>> for a package outside it.
RelativePackage(package, module) ==
    IF package = module THEN <<<<".">>>>
    ELSE IF IsStrictPrefix(module, package) THEN SubSeq(package, Len(module) + 1, Len(package)) ELSE <<>>

\* pathMatchesSymbol: the module, the package, the name, or what lies between them.
PathMatchesSymbol(x, pattern, id) ==
    LET s == x.symbols[id]
        name == QueryName(x, id)
        owners == {Front(name) \o <<SubSeq(Last(name), 1, n)>> : n \in Len(Last(s.package)) .. Len(Last(name))}
        packages == {SubSeq(s.package, 1, n) : n \in Len(s.module) .. Len(s.package)}
    IN  \E path \in owners \cup packages \cup {s.module, s.package} :
            GlobMatches(pattern, path) \/ (Last(pattern) = <<"**">> /\ Front(pattern) = path)

-----------------------------------------------------------------------------
(* Scope predicates (scope_predicate.go): sets of mod: and pkg: terms.     *)

IsScope(e) == e.kind = "selector" /\ e.selector.kind \in {"mod", "pkg"}

RECURSIVE ScopeTerms(_)
\* compileScopePredicate: the terms of a union of scope selectors, {} for anything else.
ScopeTerms(e) ==
    IF IsScope(e) THEN {e.selector}
    ELSE IF e.kind = "union" /\ ScopeTerms(e.left) # {} /\ ScopeTerms(e.right) # {}
         THEN ScopeTerms(e.left) \cup ScopeTerms(e.right) ELSE {}

TermAdmitsRoot(term, root) ==
    IF term.kind = "mod" THEN GlobMatches(term.pattern, root) ELSE term.module = <<>> \/ GlobMatches(term.module, root)

AdmitsRoot(terms, root) == terms = EveryRoot \/ \E term \in terms : TermAdmitsRoot(term, root)

\* packageFilter: by the full path or, with a module pattern, by the path below the module.
PackageMatches(selector, package, module) ==
    IF selector.module = <<>> THEN GlobMatches(selector.pattern, package)
    ELSE RelativePackage(package, module) # <<>> /\ GlobMatches(selector.pattern, RelativePackage(package, module))

AdmitsPackage(terms, package, module) ==
    \E term \in terms : TermAdmitsRoot(term, module) /\ (term.kind = "mod" \/ PackageMatches(term, package, module))

Admits(terms, root, module, package) == module = root /\ AdmitsPackage(terms, package, module)

-----------------------------------------------------------------------------
(* Postings, declarations and occurrences (module_index_ops.go).           *)

Places(x) == {<<s, d>> \in (DOMAIN x.scopes) \X (DOMAIN x.documents) : d \in x.scopes[s].documents}

DeclaredIn(x, d, id) == {e \in x.documents[d].symbols : e.id = id}

\* definitionPostings: a symbol's definitions are those in its own module's root.
Definitions(x, id) ==
    {p \in Places(x) : x.scopes[p[1]].root = x.symbols[id].module /\ DeclaredIn(x, p[2], id) # {}}

DeclarationRow(p, kind, role, entry) == Row(p[1], p[2], entry.from, kind, role, entry.id, None)

Declarations(x, ids, kind) ==
    UNION {{DeclarationRow(p, kind, "definition", CHOOSE e \in DeclaredIn(x, p[2], id) : TRUE) : p \in Definitions(x, id)} : id \in ids}

OccurrenceRow(p, kind, o) == Row(p[1], p[2], o.from, kind, o.role, o.symbol, o.enclosing)

\* occurrences: the uses of the symbols, each standing for the target that targets maps it to.
Occurrences(x, targets, kind, roles, terms) ==
    UNION {{[OccurrenceRow(p, kind, o) EXCEPT !.dispatch = targets[o.symbol] # o.symbol] :
              o \in {o \in x.documents[p[2]].occurrences : o.symbol \in DOMAIN targets /\ o.role \in roles}} :
           p \in {p \in Places(x) : AdmitsRoot(terms, x.scopes[p[1]].root)}}

Uses == {"call", "reference", "write"}
Referenced(x, id) == \E p \in Places(x) : \E o \in x.documents[p[2]].occurrences : o.symbol = id /\ o.role \in Uses

\* activeSymbols: defined, used, or a type that a scope's types implement.
ActiveSymbols(x, ids) ==
    {id \in ids : \/ Definitions(x, id) # {} \/ Referenced(x, id)
                  \/ x.symbols[id].kind = "type" /\ \E fact \in x.implements : fact[3] = id}

\* implementations: the declarations of the types each scope relates to the interface, in that scope.
Implementations(x, iface) ==
    UNION {{DeclarationRow(p, "implementation", "implements", CHOOSE e \in DeclaredIn(x, p[2], fact[2]) : TRUE) :
              p \in {p \in Definitions(x, fact[2]) : p[1] = fact[1]}} :
           fact \in {f \in x.implements : f[3] = iface}}

Embedders(x, id) ==
    UNION {{DeclarationRow(p, "inheritance", "embeds", e) : e \in {e \in x.documents[p[2]].symbols : id \in e.embeds}} : p \in Places(x)}

MethodsNamed(x, owners, id) ==
    {m \in DOMAIN x.symbols : x.symbols[m].kind = "method" /\ x.symbols[m].owner \in owners /\ x.symbols[m].name = x.symbols[id].name}

\* Mutant: the calls through an interface are those of every method of the name.
DispatchByName(x, id) == MethodsNamed(x, {s \in DOMAIN x.symbols : x.symbols[s].kind = "type"}, id)

\* dispatchMethods: I.M for every interface I that T implements where T is declared.
DispatchMethods(x, id) ==
    LET owner == x.symbols[id].owner
        declaring == {p[1] : p \in Definitions(x, owner)}
    IN  MethodsNamed(x, {fact[3] : fact \in {f \in x.implements : f[2] = owner /\ f[1] \in declaring}}, id)

\* incomingCalls: with the calls through interfaces when the receiver is declared in scope.
IncomingCalls(x, id, terms) ==
    LET dispatch == x.symbols[id].kind = "method" /\ Definitions(x, x.symbols[id].owner) # {}
        through == IF dispatch THEN DispatchMethods(x, id) ELSE {}
    IN  Occurrences(x, [s \in {id} \cup through |-> id], "caller", {"call"}, terms)

Callees(x, id) ==
    UNION {{OccurrenceRow(p, "callee", o) : o \in {o \in x.documents[p[2]].occurrences : o.role = "call" /\ o.enclosing = id}} :
           p \in Definitions(x, id)}

InBody(inner, outer) == inner.from >= outer.from /\ inner.to <= outer.to

\* compact_uses.go: what a declaration's body uses, apart from what is declared in it.
UsesOf(x, id) ==
    UNION {LET d == x.documents[p[2]]
               entry == CHOOSE e \in d.symbols : e.id = id
               nested == {e.id : e \in {e \in d.symbols : e.id # id /\ InBody(e, entry)}}
           IN  {OccurrenceRow(p, "use", o) : o \in {o \in d.occurrences :
                    /\ o.symbol # None /\ o.role # "definition" /\ o.symbol \notin nested
                    /\ o.enclosing = id \/ InBody(o, entry)}} :
           p \in Definitions(x, id)}

-----------------------------------------------------------------------------
(* Selectors (compact_selector.go, selector_ranges.go).                    *)

SymbolSelectors == {"func", "method", "field", "struct", "type", "var"}

SelectorKinds(selector) ==
    CASE selector.kind = "func" -> {"func", "method"}
      [] selector.kind \in {"type", "struct"} -> {"type"}
      [] selector.kind \in {"method", "field", "var"} -> {selector.kind}
      [] OTHER -> {"func", "method", "type", "field", "var"}

\* selectorKey: the name, or the qualified name when the pattern has a package.
SelectorKey(x, selector, id) ==
    LET s == x.symbols[id]
    IN  CASE selector.kind = "mod" -> s.module
          [] selector.kind = "pkg" -> IF selector.module = <<>> THEN s.package ELSE RelativePackage(s.package, s.module)
          [] selector.kind \in SymbolSelectors /\ Len(selector.pattern) > 1 -> QueryName(x, id)
          [] selector.kind \in SymbolSelectors /\ Len(selector.pattern[1]) > 1 -> <<Names(x, id)>>
          [] OTHER -> <<<<s.name>>>>

Selects(x, selector, id) ==
    IF selector.kind = "path" THEN PathMatchesSymbol(x, selector.pattern, id)
    ELSE LET key == SelectorKey(x, selector, id)
         IN  /\ selector.module # <<>> => GlobMatches(selector.module, x.symbols[id].module)
             /\ key # <<>> /\ GlobMatches(selector.pattern, key)

\* selectorScopes: the scopes whose root the selector, and the predicate it is within, admit.
SelectorScopes(x, selector, within) ==
    {s \in DOMAIN x.scopes :
        /\ selector.module # <<>> => GlobMatches(selector.module, x.scopes[s].root)
        /\ selector.kind = "mod" => GlobMatches(selector.pattern, x.scopes[s].root)
        /\ AdmitsRoot(within, x.scopes[s].root)}

\* qualifiedPackageFilter: the literal segments before the last lie above the
\* package, or the package is their beginning up to a dot.
QualifiedPackage(pattern, package) ==
    LET wild == {i \in DOMAIN pattern : IsWild(<<pattern[i]>>)}
        n == IF wild = {} THEN Len(pattern) - 1 ELSE (CHOOSE i \in wild : \A j \in wild : i <= j) - 1
        segments == SubSeq(pattern, 1, n)
    IN  segments = <<>> \/ IsStrictPrefix(segments, package)
        \/ /\ Len(package) <= Len(segments) /\ Front(package) = SubSeq(segments, 1, Len(package) - 1)
           /\ IsPrefix(Last(package), segments[Len(package)]) /\ Last(package) # segments[Len(package)]

\* selectorRanges: the packages whose symbols are read at all.
InRanges(x, selector, within, id) ==
    LET s == x.symbols[id]
    IN  CASE selector.kind = "pkg" -> PackageMatches(selector, s.package, s.module)
          [] selector.kind # "mod" /\ Len(selector.pattern) > 1 -> QualifiedPackage(selector.pattern, s.package)
          [] within # EveryRoot /\ \A term \in within : term.kind = "pkg" -> AdmitsPackage(within, s.package, s.module)
          [] OTHER -> TRUE

SelectorCandidates(x, selector, within) ==
    {id \in DOMAIN x.symbols :
        /\ x.symbols[id].kind \in SelectorKinds(selector)
        /\ InRanges(x, selector, within, id)
        /\ within = EveryRoot \/ AdmitsPackage(within, x.symbols[id].package, x.symbols[id].module)
        /\ \E p \in Definitions(x, id) : p[1] \in SelectorScopes(x, selector, within)}

Listed(rows) == Value({row.symbol : row \in rows}, rows)

\* selectorDeclarations: the matched symbols at their declarations; a struct selector keeps the structs.
ResolveWithin(x, selector, within) ==
    LET Kept(row) == selector.kind = "struct" => \E e \in DeclaredIn(x, row.document, row.symbol) : e.form = "struct"
    IN  Listed({row \in Declarations(x, {id \in SelectorCandidates(x, selector, within) : Selects(x, selector, id)}, "symbol") :
                  Kept(row)})

\* resolveTreeSelector: the roots, or the packages of the documents, as symbols of their own.
TreeSelector(x, selector) ==
    LET paths == IF selector.kind = "module" THEN {<<s, x.scopes[s].root>> : s \in DOMAIN x.scopes}
                 ELSE {<<p[1], x.documents[p[2]].package>> : p \in Places(x)}
    IN  Listed({Row(path[1], 0, 0, selector.kind, "definition", <<selector.kind, path[2]>>, None) :
                  path \in {path \in paths : GlobMatches(selector.pattern, path[2])}})

ResolveSelector(x, selector) ==
    IF selector.kind \in {"module", "package"} THEN TreeSelector(x, selector) ELSE ResolveWithin(x, selector, EveryRoot)

\* resolve: the active symbols whose qualified name, or the end of it, is the pattern.
ResolveSymbol(x, pattern) ==
    LET Matches(id) ==
            LET name == QueryName(x, id)
                short == Last(name)
                suffixes == {SubSeq(short, n, Len(short)) : n \in DOMAIN short}
            IN  IF Len(pattern) > 1 THEN GlobMatches(pattern, name)
                ELSE \E suffix \in suffixes : SegmentMatches(pattern[1], suffix)
    IN  ActiveSymbols(x, {id \in DOMAIN x.symbols : Matches(id)})

\* symbolRows: the declarations of a set, a tree symbol's own rows, and one row for a symbol nowhere declared.
SymbolRows(x, ids) ==
    LET plain == {id \in ids : id[1] = "symbol"}
        declared == Declarations(x, plain, "symbol")
        tree == UNION {TreeSelector(x, [kind |-> id[1], pattern |-> id[2], module |-> <<>>]).rows : id \in ids \ plain}
    IN  declared \cup tree
        \cup {Row(Nowhere, 0, 0, "symbol", "", id, None) : id \in plain \ {row.symbol : row \in declared}}

-----------------------------------------------------------------------------
(* Relations (compact_relation.go).                                        *)

RelationAccepts(x, relation, id) ==
    CASE relation = ">" -> Callable(x, id)
      [] relation \in {":impl", ":inherits", ":methods"} -> KindOf(x, id) = "type"
      [] OTHER -> id[1] = "symbol"

RelationRows(x, id, relation, terms) ==
    CASE relation = "<" /\ Callable(x, id) -> IncomingCalls(x, id, terms)
      [] relation = "<" -> Occurrences(x, [s \in {id} |-> id], "reference", Uses, terms)
      [] relation = "~w" -> Occurrences(x, [s \in {id} |-> id], "reference", {"write"}, terms)
      [] relation = ">" -> Callees(x, id)
      [] relation = "=" -> Declarations(x, {id}, "definition")
      [] relation = ":impl" -> Implementations(x, id)
      [] relation = ":inherits" -> Embedders(x, id)
      [] relation = ":methods" -> SymbolRows(x, ActiveSymbols(x, {m \in DOMAIN x.symbols : x.symbols[m].owner = id /\ x.symbols[m].kind = "method"}))
      [] relation = ":uses" -> UsesOf(x, id)

Sourced(rows, relation, id) == {[row EXCEPT !.relation = relation, !.source = id] : row \in rows}

Batched(x, relation, id) == relation = "~w" \/ (relation = "<" /\ x.symbols[id].kind # "method")

\* batchedRows: the calls of the callable targets and the other uses of the rest, read together.
BatchedRows(x, targets, relation, terms) ==
    LET calls == {id \in targets : relation = "<" /\ Callable(x, id)}
        roles == IF relation = "~w" THEN {"write"} ELSE Uses
        rows == Occurrences(x, [s \in calls |-> s], "caller", {"call"}, terms)
                \cup Occurrences(x, [s \in targets \ calls |-> s], "reference", roles, terms)
    IN  UNION {Sourced({row \in rows : row.symbol = id}, relation, id) : id \in targets}

\* applyCompactFilters.
Filtered(x, rows, filters) ==
    LET Package(row) == IF row.document = 0 THEN <<>> ELSE x.documents[row.document].package
    IN {row \in rows : \A f \in filters :
        CASE f.kind = "-f" -> row.document # f.value
          [] f.kind = "+pkg" -> Package(row) = f.value
          [] f.kind = "-pkg" -> Package(row) # f.value
          [] f.kind = "~w" -> row.role = "write"}

FiltersApply(relation, filters) == (\E f \in filters : f.kind = "~w") => relation \in {"<", "~w", ":uses"}

\* The rows of the scopes the left operand selected, in the roots it selected any of.
InSelectedScopes(x, rows, left) ==
    LET scopes == {row.scope : row \in left} \ {Nowhere}
        roots == {x.scopes[s].root : s \in scopes}
    IN  {row \in rows : row.scope # Nowhere /\ x.scopes[row.scope].root \in roots => row.scope \in scopes}

\* The rows of each target alone.
SingleRows(x, targets, relation, terms) ==
    UNION {Sourced(RelationRows(x, id, relation, terms), relation, id) : id \in targets}

RelationMatches(x, e, left, terms) ==
    LET accepted == {id \in left.symbols : RelationAccepts(x, e.relation, id)}
        batch == {id \in accepted : Batched(x, e.relation, id)}
    IN  Filtered(x, InSelectedScopes(x, SingleRows(x, accepted \ batch, e.relation, terms)
                                        \cup BatchedRows(x, batch, e.relation, terms), left.rows), e.filters)

\* A row's symbol on the far side of the relation.
Projected(relation, row) == IF relation \in {"<", "~w"} THEN row.enclosing ELSE row.symbol

Project(rows, relation) == {Projected(relation, row) : row \in rows} \ {None}

ProjectedOver(value, rows, relation) == [value EXCEPT !.rows = rows, !.symbols = Project(rows, relation)]

RECURSIVE ProjectedID(_, _)
ProjectedID(e, row) ==
    IF e.kind = "modifier" THEN ProjectedID(e.left, row)
    ELSE Projected(IF e.kind = "relation" THEN e.relation ELSE "", row)

\* valueScopes: the scopes the rows of a value place a symbol in.
ValueScopes(e, rows, id) == {row.scope : row \in {row \in rows : ProjectedID(e, row) = id}} \ {Nowhere}

\* filterRelationRight: the rows whose symbol the right operand holds, in a scope it holds it in.
FilterRelationRight(x, value, e, right) ==
    LET Keeps(row) ==
            LET id == Projected(e.relation, row)
                scopes == ValueScopes(e.right, right.rows, id)
            IN  id \in right.symbols /\ (scopes # {} => row.scope \in scopes)
    IN  IF right.failed \/ (e.relation = ">" /\ right.symbols # {} /\ ~\E id \in right.symbols : Callable(x, id)) THEN Failed
        ELSE ProjectedOver(value, {row \in value.rows : Keeps(row)}, e.relation)

\* filterRelationScope: the rows whose enclosing declaration, or used symbol, the scope admits.
FilterRelationScope(x, value, relation, terms) ==
    LET Keeps(row) ==
            LET id == IF relation = ":uses" THEN row.symbol ELSE row.enclosing
                s == x.symbols[id]
            IN  /\ id # None
                /\ IF relation = ":uses" THEN AdmitsPackage(terms, s.package, s.module)
                   ELSE Admits(terms, x.scopes[row.scope].root, s.module, s.package)
    IN  ProjectedOver(value, {row \in value.rows : Keeps(row)}, relation)

-----------------------------------------------------------------------------
(* Walks (compact_graph.go).                                               *)

Enqueue(queue, ids, depth) == FoldLeft(LAMBDA q, id : Append(q, <<id, depth>>), queue, ids)

RECURSIVE CallerWalk(_, _, _, _, _)
\* transitiveCallers: breadth first, each caller once; None stands for a walk that met too many.
CallerWalk(x, queue, seen, depth, filters) ==
    IF queue = <<>> THEN seen
    ELSE IF queue[1][2] = depth THEN CallerWalk(x, Tail(queue), seen, depth, filters)
    ELSE LET Callers(rows) == {id \in {row.enclosing : row \in rows} : id # None /\ id \notin DOMAIN seen /\ Callable(x, id)}
             Onward(new, grown) ==
                 IF Cardinality(DOMAIN grown) > MaxGraphSymbols THEN [id \in {None} |-> 0]
                 ELSE CallerWalk(x, Enqueue(Tail(queue), SetToSeq(new), queue[1][2] + 1), grown, depth, filters)
             Met(new) == Onward(new, [id \in DOMAIN seen \cup new |-> IF id \in new THEN queue[1][2] + 1 ELSE seen[id]])
         IN  Met(Callers(Filtered(x, RelationRows(x, queue[1][1], "<", EveryRoot), filters)))

CallersAtDepths(x, seen, callers) ==
    Value(callers, {[row EXCEPT !.depth = seen[row.symbol]] : row \in SymbolRows(x, callers)})

CallersReached(x, seen) ==
    IF None \in DOMAIN seen THEN Failed ELSE CallersAtDepths(x, seen, {id \in DOMAIN seen : seen[id] > 0})

TransitiveCallers(x, targets, depth, filters) ==
    IF \E id \in targets : ~Callable(x, id) THEN Failed
    ELSE CallersReached(x, CallerWalk(x, Enqueue(<<>>, SetToSeq(targets), 0), [id \in targets |-> 0], depth, filters))

\* methodImplementations: the active methods of the types that implement the method's interface.
MethodImplementations(x, id) ==
    IF x.symbols[id].kind # "method" THEN {}
    ELSE ActiveSymbols(x, MethodsNamed(x, {row.symbol : row \in Implementations(x, x.symbols[id].owner)}, id))

\* forwardEdges: a call leads to its target and to the methods that implement it.
ForwardEdges(x, id) ==
    LET called == {row.symbol : row \in Callees(x, id)} \ {None}
    IN  called \cup UNION {MethodImplementations(x, c) : c \in called}

\* buildPath: the parents, from the goal back, in the order they are called.
BuildPath(path) == Reverse(path)

RECURSIVE PathWalk(_, _, _, _, _)
\* shortestPath: the queue holds the path to each symbol met, its last symbol first.
PathWalk(x, queue, seen, goal, depth) ==
    IF queue = <<>> THEN <<>>
    ELSE LET path == queue[1]
             Onward(new) ==
                 IF Cardinality(seen \cup new) > MaxGraphSymbols THEN <<None>>
                 ELSE PathWalk(x, FoldLeft(LAMBDA q, id : Append(q, <<id>> \o path), Tail(queue), SetToSeq(new)), seen \cup new, goal, depth)
         IN  IF path[1] \in goal THEN BuildPath(path)
             ELSE IF Len(path) - 1 = depth THEN PathWalk(x, Tail(queue), seen, goal, depth)
             ELSE Onward(ForwardEdges(x, path[1]) \ seen)

PathFound(path) == IF path = <<None>> THEN Failed ELSE [NoValue EXCEPT !.path = path]

PathBetween(x, from, goal, depth) ==
    IF from = {} \/ goal = {} THEN Failed
    ELSE PathFound(PathWalk(x, FoldLeft(LAMBDA q, id : Append(q, <<id>>), <<>>, SetToSeq(from)), from, goal, depth))

ShortestPath(x, sources, targets, depth) ==
    PathBetween(x, {id \in sources : Callable(x, id)}, {id \in targets : Callable(x, id)}, depth)

-----------------------------------------------------------------------------
(* Expressions (compact_execute.go).                                       *)

\* setScopes: the scopes a set keeps the rows of a symbol in.
SetScopes(e, left, right, id) ==
    LET l == ValueScopes(e.left, left.rows, id)
        r == ValueScopes(e.right, right.rows, id)
    IN  IF e.kind = "union" \/ l = {} \/ r = {} THEN l \cup r ELSE l \cap r

\* The members of a set; an intersection drops a symbol its operands place in disjoint scopes.
SetSymbols(e, left, right) ==
    IF e.kind = "union" THEN left.symbols \cup right.symbols
    ELSE {id \in left.symbols \cap right.symbols :
            \/ ValueScopes(e.left, left.rows, id) = {} \/ ValueScopes(e.right, right.rows, id) = {}
            \/ SetScopes(e, left, right, id) # {}}

InScopes(row, scopes) == row.scope = Nowhere \/ scopes = {} \/ row.scope \in scopes

SetRows(x, e, left, right, symbols) ==
    IF e.kind = "union" /\ "relation" \in {e.left.kind, e.right.kind} THEN left.rows \cup right.rows ELSE SymbolRows(x, symbols)

SetOver(x, e, left, right, symbols) ==
    Value(symbols, {row \in SetRows(x, e, left, right, symbols) :
                      row.symbol \notin symbols \/ InScopes(row, SetScopes(e, left, right, row.symbol))})

\* evaluateSet without its shortcut.
EvaluateSet(x, e, left, right) ==
    IF left.failed \/ right.failed THEN Failed ELSE SetOver(x, e, left, right, SetSymbols(e, left, right))

OwnRootSelectors == SymbolSelectors \cup {"all", "path"}

\* scopedSelector: a symbol selector within a scope predicate.
ScopedOperands(e) ==
    {o \in {<<e.left, e.right>>, <<e.right, e.left>>} :
        o[1].kind = "selector" /\ o[1].selector.kind \in OwnRootSelectors /\ ScopeTerms(o[2]) # {}}

ModifierMatches(x, value, s) ==
    IF s.kind = "path" THEN {id \in value.symbols : id[1] = "symbol" /\ PathMatchesSymbol(x, s.pattern, id)}
    ELSE ResolveSelector(x, s).symbols

\* evaluateModifiers: per kind of modifier, one of the included and none of the excluded.
Modified(x, value, modifiers, e) ==
    LET Of(kind, include) == {m \in modifiers : m.selector.kind = kind /\ m.include = include}
        Passes(hits) == \A kind \in {m.selector.kind : m \in modifiers} :
                           /\ Of(kind, TRUE) # {} => Of(kind, TRUE) \cap hits # {}
                           /\ Of(kind, FALSE) \cap hits = {}
        Kept(symbols) ==
            [value EXCEPT !.symbols = symbols, !.rows = {row \in value.rows : ProjectedID(e.left, row) \in symbols}]
    IN  Kept({id \in value.symbols : Passes({m \in modifiers : id \in ModifierMatches(x, value, m.selector)})})

RECURSIVE Evaluate(_, _)
EvaluateRelation(x, e, left) ==
    LET terms == IF e.right # NoExpression /\ e.relation \in {"<", "~w", ":uses"} THEN ScopeTerms(e.right) ELSE EveryRoot
        Right(value) == IF value.failed \/ e.right = NoExpression THEN value
                        ELSE FilterRelationRight(x, [value EXCEPT !.targets = left.symbols], e, Evaluate(x, e.right))
        Related(value) == IF terms # EveryRoot THEN FilterRelationScope(x, value, e.relation, terms)
                          ELSE Right(ProjectedOver(value, value.rows, e.relation))
    IN  CASE left.failed -> Failed
          [] e.relation = "<<" -> Right(TransitiveCallers(x, left.symbols, e.depth, e.filters))
          [] ~FiltersApply(e.relation, e.filters) -> Failed
          [] left.symbols # {} /\ ~\E id \in left.symbols : RelationAccepts(x, e.relation, id) -> Failed
          [] OTHER -> Related([NoValue EXCEPT !.targets = left.symbols,
                                              !.rows = RelationMatches(x, e, left, IF e.relation = ":uses" THEN EveryRoot ELSE terms)])

Evaluate(x, e) ==
    CASE e.kind = "selector" -> ResolveSelector(x, e.selector)
      [] e.kind = "symbol" -> LET ids == ResolveSymbol(x, e.symbol)
                              IN  IF ids = {} \/ (Cardinality(ids) > 1 /\ ~IsWild(e.symbol)) THEN Failed
                                  ELSE Value(ids, SymbolRows(x, ids))
      [] e.kind = "modifier" -> Modified(x, Evaluate(x, e.left), e.modifiers, e)
      [] e.kind = "relation" -> EvaluateRelation(x, e, Evaluate(x, e.left))
      [] e.kind = "path" -> LET left == Evaluate(x, e.left) right == Evaluate(x, e.right)
                            IN  IF left.failed \/ right.failed THEN Failed ELSE ShortestPath(x, left.symbols, right.symbols, e.depth)
      [] e.kind = "intersection" /\ ScopedOperands(e) # {} ->
            LET o == CHOOSE o \in ScopedOperands(e) : TRUE IN ResolveWithin(x, o[1].selector, ScopeTerms(o[2]))
      [] OTHER -> EvaluateSet(x, e, Evaluate(x, e.left), Evaluate(x, e.right))

QueryInit == question \in Questions /\ answered = NoValue

Answer ==
    /\ answered = NoValue
    /\ answered' = Evaluate(question.index, question.expression)
    /\ answered' # NoValue
    /\ UNCHANGED question

QuerySpec == QueryInit /\ [][Answer]_queryVars

-----------------------------------------------------------------------------
(* Correctness.                                                            *)

\* The parts below take the question, x and e, and the values of its operands.
Asked(kind) == answered # NoValue /\ ~answered.failed /\ question.expression.kind = kind

\* A symbol selector resolved within a scope alone answers as its intersection
\* with the scope's symbols does; a struct selector shows fewer declarations.
ScopedAsListed(x, e, left, right) ==
    Asked("intersection") /\ ScopedOperands(e) # {} =>
        LET Spots(rows) == {<<row.symbol, row.scope>> : row \in rows}
            SaysAs(plain) ==
                /\ answered.symbols = plain.symbols
                /\ Spots(answered.rows) = Spots(plain.rows)
                /\ "struct" \notin {o[1].selector.kind : o \in ScopedOperands(e)} => answered.rows = plain.rows
        IN  SaysAs(EvaluateSet(x, e, left, right))

\* An incoming relation filtered by a scope predicate, read in the admitted
\* roots alone, keeps the rows that listing the scope's symbols would keep.
RelationScopedAsListed(x, e, left, right) ==
    Asked("relation") /\ e.relation \in {"<", "~w"} /\ ScopeTerms(e.right) # {} =>
        answered.rows = FilterRelationRight(x, [NoValue EXCEPT !.rows = RelationMatches(x, e, left, EveryRoot)], e, right).rows

\* Targets read together have the rows each has alone.
BatchedAsOneByOne(x, e, left) ==
    Asked("relation") /\ e.relation \in {"<", "~w"} /\ e.right = NoExpression =>
        answered.rows = Filtered(x, InSelectedScopes(x, SingleRows(x, {id \in left.symbols : id[1] = "symbol"}, e.relation, EveryRoot),
                                                     left.rows), e.filters)

\* Transitive callers and call paths walk the same calls: each caller has a
\* path to a target no longer than its depth, and a callable with a path of
\* callables is a caller at the length of the shortest one.
CallersHavePaths(x, e, left) ==
    Asked("relation") /\ e.relation = "<<" /\ e.filters = {} /\ e.right = NoExpression =>
        LET DepthOf(id) == {row.depth : row \in {row \in answered.rows : row.symbol = id}}
            Agrees(id, path) ==
                /\ id \in answered.symbols => path # <<>> /\ \A n \in DepthOf(id) : Len(path) - 1 <= n
                /\ path # <<>> /\ (\A i \in DOMAIN path : Callable(x, path[i])) => DepthOf(id) = {Len(path) - 1}
        IN  \A id \in {id \in DOMAIN x.symbols : Callable(x, id)} \ left.symbols :
                Agrees(id, ShortestPath(x, {id}, left.symbols, e.depth).path)

RECURSIVE ReachedBy(_, _, _)
ReachedBy(x, ids, n) == IF n = 0 THEN ids ELSE LET r == ReachedBy(x, ids, n - 1) IN r \cup UNION {ForwardEdges(x, id) : id \in r}

\* A call path starts and ends in its operands, follows calls, and is as short
\* as any within the depth; there is none exactly if no call leads there.
PathsAreShortest(x, e, from, goal) ==
    Asked("path") =>
        LET path == answered.path
        IN  /\ path[1] \in from /\ Last(path) \in goal /\ Len(path) - 1 <= e.depth
            /\ \A i \in 1 .. Len(path) - 1 : path[i + 1] \in ForwardEdges(x, path[i])
            /\ Len(path) > 1 => ReachedBy(x, from, Len(path) - 2) \cap goal = {}

PathsAreFound(x, e, from, goal) ==
    answered = NoValue /\ e.kind = "path" /\ from # {} /\ goal # {} =>
        (ShortestPath(x, from, goal, e.depth) = NoValue <=> ReachedBy(x, from, e.depth) \cap goal = {})

PathsFrom(x, e, from, goal) == PathsAreShortest(x, e, from, goal) /\ PathsAreFound(x, e, from, goal)

PathsAreTrue(x, e, left, right) ==
    e.kind = "path" => PathsFrom(x, e, {id \in left.symbols : Callable(x, id)}, {id \in right.symbols : Callable(x, id)})

\* What a selector selects when nothing narrows what it reads: every symbol of
\* its kind that matches and is defined in its own module's root.
SelectedUnnarrowed(x, s) ==
    {id \in DOMAIN x.symbols :
        /\ x.symbols[id].kind \in SelectorKinds(s) /\ Selects(x, s, id)
        /\ \E p \in Definitions(x, id) : s.kind = "struct" => \E d \in DeclaredIn(x, p[2], id) : d.form = "struct"}

\* The handle ranges a selector reads are a necessary condition only, and the glob decides each symbol
\* (selector_ranges.go): narrowing misses nothing.  Excepted is a path with everything below it, whose own
\* package is not read.
RangesMissNothing ==
    /\ Asked("selector") /\ question.expression.selector.kind \notin {"module", "package"}
    /\ ~(question.expression.selector.kind = "path" /\ Last(question.expression.selector.pattern) = <<"**">>)
    => answered.symbols = SelectedUnnarrowed(question.index, question.expression.selector)

KeepsOnly(include, left, both) == answered.symbols = IF include THEN both ELSE left.symbols \ both

SelectedBoth(x, operand, left, selector) ==
    EvaluateSet(x, [kind |-> "intersection", left |-> operand, right |-> [kind |-> "selector", selector |-> selector]],
                left, ResolveSelector(x, selector)).symbols

\* One included selector after a selector keeps the symbols of both.
ModifiersIntersect(x, e, left) ==
    Asked("modifier") /\ e.left.kind = "selector" /\ Cardinality(e.modifiers) = 1 =>
        \A m \in e.modifiers : KeepsOnly(m.include, left, SelectedBoth(x, e.left, left, m.selector))

\* What uses a symbol is used by it: a use of Y that X's declaration encloses is
\* among X's uses, unless Y is declared within X.
UsesAnswerReferences(x, e) ==
    Asked("relation") /\ e.relation = ":uses" /\ e.right = NoExpression /\ e.filters = {} =>
        LET Uses1(row) == \E use \in answered.rows : use.scope = row.scope /\ use.document = row.document /\ use.at = row.at /\ use.symbol = row.symbol
            Nested(inner, outer, d) == \E a \in DeclaredIn(x, d, inner), b \in DeclaredIn(x, d, outer) : InBody(a, b)
        IN  \A id \in answered.targets : \A y \in DOMAIN x.symbols \ {id} :
              \A row \in RelationRows(x, y, "<", EveryRoot) :
                  /\ row.enclosing = id /\ ~Nested(y, id, row.document)
                  /\ \E p \in Definitions(x, id) : p = <<row.scope, row.document>>
                  => Uses1(row) \/ row.dispatch

MeansItsSet(x, e, left, right) ==
    /\ ScopedAsListed(x, e, left, right) /\ RelationScopedAsListed(x, e, left, right) /\ BatchedAsOneByOne(x, e, left)
    /\ CallersHavePaths(x, e, left) /\ PathsAreTrue(x, e, left, right) /\ ModifiersIntersect(x, e, left)

\* The shortcuts of the evaluation answer what the plain evaluation would.
QueriesMeanTheirSets ==
    /\ LET x == question.index
           e == question.expression
       IN  MeansItsSet(x, e, Evaluate(x, e.left), Evaluate(x, e.right)) /\ UsesAnswerReferences(x, e)
    /\ RangesMissNothing

=============================================================================
