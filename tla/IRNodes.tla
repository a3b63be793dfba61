----------------------------- MODULE IRNodes -----------------------------
(***************************************************************************)
(* How nodes come together: the fluent builders (builders_node.go,         *)
(* table.go), the places UIR.Add and PackageNode.Add give a node (uir.go,  *)
(* node_types.go, noderef.go), decoding a flat list of nodes (marshal.go), *)
(* and merging and coalescing trees (uir.go).                              *)
(*                                                                         *)
(* Coalesce takes its receiver by value but shares the property maps of    *)
(* the nodes with it, so it is an operation on its input too.              *)
(***************************************************************************)
EXTENDS Integers, Sequences, FiniteSets, SequencesExt

CONSTANTS Tasks,        \* what is asked: calls of a builder, nodes to place, types to coalesce
          PathOrder     \* every path in byte order

VARIABLES task,         \* the task at hand
          outcome       \* what came of it, Unstarted before

nodeVars == <<task, outcome>>

Unstarted == [kind |-> "unstarted"]

----------------------------------------------------------------------------
(* The builders: a sequence of calls and a Build. *)

MemberOf(owner, member) ==
  [member EXCEPT !.module = owner.module, !.package = owner.package, !.type = owner.type]

Identified(name, nodeType) == [module |-> "", package |-> "", type |-> "", name |-> name, nodeType |-> nodeType]

NewType(name) ==
  [module |-> "", package |-> "", type |-> name, methods |-> << >>, variables |-> << >>, inner |-> << >>,
   constructor |-> << >>, destructor |-> << >>]

TypeWith(b, call) ==
  CASE call.op = "package"     -> [b EXCEPT !.package = call.name]
    [] call.op = "module"      -> [b EXCEPT !.module = call.name]
    [] call.op = "method"      -> [b EXCEPT !.methods = Append(@, Identified(call.name, "method"))]
    [] call.op = "variable"    -> [b EXCEPT !.variables = Append(@, Identified(call.name, "field"))]
    [] call.op = "inner"       -> [b EXCEPT !.inner = Append(@, Identified(call.name, "type"))]
    [] call.op = "constructor" -> [b EXCEPT !.constructor = <<Identified(call.name, "method")>>]
    [] call.op = "destructor"  -> [b EXCEPT !.destructor = <<Identified(call.name, "method")>>]

\* Build qualifies the members, so the package may be named after them.
TypeBuild(name, calls) ==
  LET b == FoldLeft(TypeWith, NewType(name), calls)
      qualified(ms) == [i \in DOMAIN ms |-> MemberOf(b, ms[i])]
  IN  [b EXCEPT !.methods = qualified(@), !.variables = qualified(@),
                !.constructor = qualified(@), !.destructor = qualified(@)]

\* A method's statements are its body unless it was given a whole one.
MethodBuild(calls) ==
  LET statements == SelectSeq(calls, LAMBDA c : c.op = "statement")
      bodies     == SelectSeq(calls, LAMBDA c : c.op = "body")
  IN  IF bodies # << >> THEN Last(bodies).names ELSE [i \in DOMAIN statements |-> statements[i].name]

\* A table names its members as they are added; a primary column is in its key.
TableWith(b, column) ==
  [b EXCEPT !.columns = Append(@, [column EXCEPT !.id = MemberOf(b, @)]),
            !.key = IF column.primary THEN Append(@, column.id.name) ELSE @]

NewTable(name, id) ==
  [module |-> id.module, package |-> id.package, type |-> name, columns |-> << >>, key |-> << >>]

TableBuild(name, id, columns) == FoldLeft(TableWith, NewTable(name, id), columns)

\* The generic record of a table.
AsRecord(table) ==
  [fields |-> [i \in DOMAIN table.columns |->
                 [name |-> table.columns[i].id.name, required |-> ~table.columns[i].nullable,
                  readOnly |-> table.columns[i].auto]]]

----------------------------------------------------------------------------
(* Placing nodes. *)

NoLists ==
  [modules |-> << >>, packages |-> << >>, types |-> << >>, records |-> << >>, tables |-> << >>,
   endpoints |-> << >>, functions |-> << >>]

PlaceOf ==
  [ModuleNode |-> "modules", PackageNode |-> "packages", TypedNode |-> "types", ASTRecord |-> "records",
   RecordTable |-> "tables", ASTEndpoint |-> "endpoints", MethodNode |-> "functions"]

EmptyUIR == [lists |-> NoLists, warnings |-> << >>]

\* UIRNode.Value: the first of a wrapper's nodes that is set.
WrapperOrder == <<"ModuleNode", "PackageNode", "TypedNode", "ASTRecord", "RecordTable", "ASTEndpoint", "MethodNode">>

Value(wrapper) ==
  LET set == SelectSeq(WrapperOrder, LAMBDA go : go \in wrapper.held)
  IN  IF set = << >> THEN [go |-> "nilNode", id |-> 0] ELSE [go |-> set[1], id |-> wrapper.id]

\* UIR.Add: a node of no list is named in the warnings; an empty wrapper is not.
Add(uir, node) ==
  LET n == IF node.go = "UIRNode" THEN Value(node) ELSE node
  IN  IF node.go = "UIRNode" /\ n.go = "nilNode" THEN uir
      ELSE IF n.go \in DOMAIN PlaceOf THEN [uir EXCEPT !.lists[PlaceOf[n.go]] = Append(@, n.id)]
      ELSE [uir EXCEPT !.warnings = Append(@, n.id)]

\* UnmarshalJSON: the flat array of nodes, none of them null.
Decoded(nodes) ==
  IF \E i \in DOMAIN nodes : nodes[i].go = "null" THEN [failed |-> TRUE]
  ELSE [failed |-> FALSE, uir |-> FoldLeft(Add, EmptyUIR, nodes)]

\* PackageNode.Add: a package holds neither a module nor a package.
PackageAdd(lists, node) ==
  LET n == IF node.go = "UIRNode" THEN Value(node) ELSE node
  IN  IF n.go \in DOMAIN PlaceOf \ {"ModuleNode", "PackageNode"}
      THEN [failed |-> FALSE, lists |-> [lists EXCEPT ![PlaceOf[n.go]] = Append(@, n.id)]]
      ELSE [failed |-> TRUE, lists |-> lists]

Merge(a, b) ==
  [lists |-> [l \in DOMAIN a.lists |-> a.lists[l] \o b.lists[l]], warnings |-> a.warnings \o b.warnings]

IsEmpty(uir) == \A l \in DOMAIN uir.lists : uir.lists[l] = << >>
Count(uir)   == FoldSet(LAMBDA l, n : n + Len(uir.lists[l]), 0, DOMAIN uir.lists)

----------------------------------------------------------------------------
(* Coalescing the parts of a type. *)

\* unionParams, unionTypeReferences, unionImportHints: what is not there yet.
UnionOf(a, b) == FoldLeft(LAMBDA u, x : IF x \in ToSet(u) THEN u ELSE Append(u, x), a, b)

NoTransaction == 99

\* A path is the sequence of its segments: those after tr/<transaction> count.
Score(path) ==
  LET at == {i \in 1 .. Len(path) - 1 : path[i] = "tr" /\ path[i + 1] # ""}
  IN  [after |-> IF at = {} THEN NoTransaction ELSE Len(path) - Min(at) - 1,
       rank  |-> CASE Last(path) = "XMLData.xml" -> 0
                   [] Last(path) = "data.xml"    -> 1
                   [] OTHER                      -> 2]

Position(path) == CHOOSE i \in DOMAIN PathOrder : PathOrder[i] = path

\* Mutant: the shorter path wins, and of two as long the one met first.
PreferSourceOfLength(candidate, current) ==
  current = << >> \/ (candidate # << >> /\ Len(candidate) < Len(current))

PreferSource(candidate, current) ==
  IF current = << >> THEN candidate # << >>
  ELSE IF candidate = << >> THEN FALSE
  ELSE LET a == Score(candidate)
           b == Score(current)
       IN  IF a.after = NoTransaction /\ b.after = NoTransaction THEN FALSE
           ELSE IF a.after # b.after THEN a.after < b.after
           ELSE IF a.rank # b.rank THEN a.rank < b.rank
           ELSE Position(candidate) < Position(current)

\* mergeMetadata's properties: the hints are a union, the first scalar stays.
MergeProperties(a, b) ==
  [set |-> a.set \/ b.set, hints |-> UnionOf(a.hints, b.hints), scalar |-> IF a.scalar # 0 THEN a.scalar ELSE b.scalar]

MergeTypedNode(a, b) ==
  [a EXCEPT !.methods = @ \o b.methods,
            !.variables = UnionOf(@, b.variables),
            !.implements = UnionOf(@, b.implements),
            !.properties = MergeProperties(@, b.properties),
            !.constructor = IF @ = 0 THEN b.constructor ELSE @,
            !.abstract = @ \/ b.abstract,
            !.path = IF PreferSource(b.path, @) THEN b.path ELSE @]

\* Each type joins the first of its name; types nothing names stay apart. Where the first
\* has a map of properties the caller's node holds that same map, and sees it change.
Coalesce(types) ==
  LET named(t) == t.package # "" \/ t.type # ""
      same(t, u) == named(t) /\ <<t.module, t.package, t.type>> = <<u.module, u.package, u.type>>
      join(c, i) ==
        LET t  == c.input[i]
            at == SelectInSeq(c.merged, LAMBDA g : same(t, g.node))
        IN  IF at = 0 THEN [c EXCEPT !.merged = Append(@, [node |-> t, first |-> i])]
            ELSE LET g == c.merged[at]
                     into(node) ==
                       [merged |-> [c.merged EXCEPT ![at].node = node],
                        input  |-> IF g.node.properties.set /\ c.input[g.first].properties.set /\ t.properties.set
                                   THEN [c.input EXCEPT ![g.first].properties = node.properties] ELSE c.input]
                 IN  into(MergeTypedNode(g.node, t))
      joined(done) == [types |-> [i \in DOMAIN done.merged |-> done.merged[i].node], input |-> done.input]
  IN  IF Len(types) <= 1 THEN [types |-> types, input |-> types]
      ELSE joined(FoldLeft(join, [merged |-> << >>, input |-> types], [i \in DOMAIN types |-> i]))

----------------------------------------------------------------------------
NodesInit == task \in Tasks /\ outcome = Unstarted

Perform ==
  /\ outcome = Unstarted
  /\ outcome' =
       CASE task.kind = "type"     -> [kind |-> "type", node |-> TypeBuild("T", task.calls)]
         [] task.kind = "method"   -> [kind |-> "method", body |-> MethodBuild(task.calls)]
         [] task.kind = "table"    -> LET t == TableBuild("T", task.id, task.columns)
                                      IN  [kind |-> "table", table |-> t, record |-> AsRecord(t)]
         [] task.kind = "place"    -> [kind |-> "place", decoded |-> Decoded(task.nodes),
                                       added |-> [i \in DOMAIN task.nodes |-> PackageAdd(NoLists, task.nodes[i])]]
         [] task.kind = "coalesce" -> [kind |-> "coalesce", result |-> Coalesce(task.types)]
  /\ UNCHANGED task

NodesSpec == NodesInit /\ [][Perform]_nodeVars

----------------------------------------------------------------------------
(* What the operations promise. *)

\* Whatever the order of the calls, every member of a built type carries the type's final
\* module and package, and a table's carries the one it started with (TypeBuilder.Build,
\* TableBuilder.memberOf); the key names the primary columns in their order.
MembersAreQualified ==
  /\ outcome.kind = "type" =>
       LET t    == outcome.node
           last(op) == LET cs == SelectSeq(task.calls, LAMBDA c : c.op = op) IN IF cs = << >> THEN "" ELSE Last(cs).name
           named(op) == LET cs == SelectSeq(task.calls, LAMBDA c : c.op = op) IN [i \in DOMAIN cs |-> cs[i].name]
       IN  /\ \A m \in ToSet(t.methods) \cup ToSet(t.variables) \cup ToSet(t.constructor) \cup ToSet(t.destructor) :
                <<m.module, m.package, m.type>> = <<last("module"), last("package"), "T">>
           /\ [i \in DOMAIN t.methods |-> t.methods[i].name] = named("method")
           /\ [i \in DOMAIN t.variables |-> t.variables[i].name] = named("variable")
  /\ outcome.kind = "table" =>
       /\ \A c \in ToSet(outcome.table.columns) : <<c.id.module, c.id.package, c.id.type>> = <<task.id.module, task.id.package, "T">>
       /\ outcome.table.key = LET ps == SelectSeq(task.columns, LAMBDA c : c.primary) IN [i \in DOMAIN ps |-> ps[i].id.name]
       /\ Len(outcome.record.fields) = Len(task.columns)

\* A decoded list loses no node silently: each is in exactly one list, in its order, or in the
\* warnings, but for a wrapper that holds nothing; a package refuses what it cannot hold.
NodesArePlaced ==
  outcome.kind = "place" /\ ~outcome.decoded.failed =>
    LET u     == outcome.decoded.uir
        lost  == {i \in DOMAIN task.nodes : task.nodes[i].go = "UIRNode" /\ task.nodes[i].held = {}}
        kept  == {task.nodes[i].id : i \in DOMAIN task.nodes \ lost}
        lists == DOMAIN u.lists
    IN  /\ UNION {ToSet(u.lists[l]) : l \in lists} \cup ToSet(u.warnings) = kept
        /\ Count(u) + Len(u.warnings) = Len(task.nodes) - Cardinality(lost)
        /\ \A l \in lists : \A i, j \in DOMAIN u.lists[l] : i < j => u.lists[l][i] < u.lists[l][j]
        /\ IsEmpty(u) = (Count(u) = 0)
        /\ Merge(EmptyUIR, u) = u /\ Count(Merge(u, u)) = 2 * Count(u)
        /\ \A i \in DOMAIN outcome.added :
             outcome.added[i].failed = (outcome.added[i].lists = NoLists)

\* A coalesced tree has one type per name with the methods of all its parts in order, every
\* hint and contract once, and the source its transaction's root gave, in whatever order the
\* parts came; coalescing it again, or the input again though its maps were shared, changes
\* nothing (UIR.Coalesce: "Coalesce is idempotent").
PartsComeTogether ==
  outcome.kind = "coalesce" =>
    LET ts    == outcome.result.types
        parts(t) == SelectSeq(task.types, LAMBDA u : <<u.module, u.package, u.type>> = <<t.module, t.package, t.type>>)
        rooted(ps) == {p.path : p \in {p \in ToSet(ps) : p.path # << >> /\ Score(p.path).after # NoTransaction}}
        weight(p) == 1000 * Score(p).after + 100 * Score(p).rank + Position(p)
        best(path, paths) == \A p \in paths : weight(path) <= weight(p)
    IN  /\ \A i, j \in DOMAIN ts : i # j /\ (ts[i].package # "" \/ ts[i].type # "") =>
             <<ts[i].module, ts[i].package, ts[i].type>> # <<ts[j].module, ts[j].package, ts[j].type>>
        /\ \A i \in DOMAIN ts : (ts[i].package # "" \/ ts[i].type # "") =>
             LET ps == parts(ts[i])
             IN  /\ ts[i].methods = FlattenSeq([n \in DOMAIN ps |-> ps[n].methods])
                 /\ ToSet(ts[i].implements) = UNION {ToSet(p.implements) : p \in ToSet(ps)}
                 /\ IsInjective(ts[i].properties.hints)
                 /\ ToSet(ts[i].properties.hints) = UNION {ToSet(p.properties.hints) : p \in ToSet(ps)}
                 /\ rooted(ps) # {} => ts[i].path \in rooted(ps) /\ best(ts[i].path, rooted(ps))
        /\ Coalesce(ts).types = ts
        /\ Coalesce(outcome.result.input).types = ts

\* The three together.
NodesComeTogether == MembersAreQualified /\ NodesArePlaced /\ PartsComeTogether
=============================================================================
