---------------------------- MODULE MCTreeInputs ----------------------------
(* What is drawn, walked and built: graphs of calls, bodies, their sites and nodes. *)
EXTENDS Integers, Sequences, FiniteSets, SequencesExt

-----------------------------------------------------------------------------
(* Requests for CallGraph over small graphs, with each limit and filter.   *)

Ref(f, t, status) == [from |-> f, name |-> t, status |-> status, targets |-> t]
Pairs == {<<a, b>> \in (1 .. 4) \X (1 .. 4) : a # b}
Graphs == {E \in SUBSET Pairs : Cardinality(E) \in {2, 3} /\ \E e \in E : e[1] = 1}
RefsOf(E) == {Ref(e[1], {e[2]}, "static") : e \in E}
Asked(refs, dir, depth, limit, exclude, parent, access) == [references |-> refs, roots |-> <<1>>, direction |-> dir,
    depth |-> depth, limit |-> limit, exclude |-> exclude, parent |-> parent, access |-> access]
Asks == {Asked(RefsOf(E), dir, depth, o[1], o[2], <<>>, {}) : E \in Graphs, dir \in {"callees", "both"}, depth \in {1,
    2}, o \in {<<9, {}>>, <<2, {}>>, <<9, {3}>>}}
   \cup {Asked(RefsOf(E) \cup {Ref(2, {1, 3}, "dynamic"), Ref(3, {}, "unresolved")}, "callers", 2, 9, {}, <<>>,
       a) : E \in Graphs, a \in {{"read"}, {"call"}}}
   \cup {Asked(RefsOf(E \cup {<<2, 4>>}), dir, 2, 9, {}, (4 :> 2), {}) : E \in {E \in Graphs : \A e \in E : e[2] # 4},
       dir \in {"callees", "both"}}
   \cup {Asked({Ref(1, {3}, "static"), Ref(3, {4}, "static"), Ref(4, {3}, "static")}, "callees", 2, 9, {},
       (3 :> 1) @@ (4 :> 3), {})}

-----------------------------------------------------------------------------
(* Bodies for BodyWalk: each statement that guards or scopes, nested.      *)
Walking == INSTANCE BodyWalk WITH Bodies <- {}, Environments <- {}, body <- {}, edited <- {}, collected <- {}

Atoms == {"p", "q"}
Envs == [Atoms -> BOOLEAN]
Var(a) == Walking!ExprOf(Walking!Stmt("variable", a, <<>>))
Text(a) == Walking!Stmt("expr", a, <<>>)
Cond(e) == Walking!NewCondition(e)
Call(t) == Walking!Stmt("methodCall", [target |-> t, receiver |-> FALSE], <<>>)
CallIn(t, u) == Walking!Stmt("methodCall", [target |-> t, receiver |-> FALSE], <<Walking!ExprOf(Call(u))>>)
Dispatch(t) == Walking!Stmt("dispatchCall", [target |-> t, receiver |-> TRUE, candidates |-> <<"m2", "m3">>], <<Var("p")>>)
Write(t) == Walking!Stmt("recordWrite", [target |-> t], <<>>)
Block(ss) == Walking!Stmt("block", Walking!NoData, ss)
Simple == {<<Call("m1")>>, <<Write("r")>>, <<Dispatch("nil"), Walking!Stmt("return", Walking!NoData, <<Var("q")>>)>>}
Wrap(b, c) ==
  {Walking!Stmt("if", Walking!NoData, <<Cond(Var("p")), Block(b), Block(c)>>), Walking!Stmt("if", Walking!NoData, <<Cond(Var("p")), Block(b)>>),
   Walking!Stmt("while", Walking!NoData, <<Cond(Var("q")), Block(b)>>), Walking!Stmt("try", Walking!NoData, <<Block(b), Block(c)>>),
   Walking!Stmt("for", Walking!NoData, <<Walking!Stmt("assignment", "i", <<Var("p")>>), Cond(Text("")), Block(b), Walking!ExprOf(Call("m2"))>>),
   Walking!Stmt("for", Walking!NoData, <<Walking!Stmt("assignment", "i", <<Var("p")>>), Cond(Var("q")), Block(b), Walking!ExprOf(Call("m2"))>>),
   Walking!Stmt("foreach", Walking!NoData, <<Walking!Stmt("assignment", "i", <<Var("p")>>), Var("q"), Block(b)>>),
   Walking!Stmt("switch", Walking!NoData, <<Var("p"), Cond(Var("q")), Block(b), Cond(Text("")), Block(c)>>),
   Walking!Stmt("switch", Walking!NoData, <<Text(""), Cond(Var("p")), Block(b), Cond(Var("q")), Block(c), Cond(Text("")),
       Block(<<Call("m3")>>)>>),
   Walking!Stmt("switch", Walking!NoData, <<Var("p"), Cond(Text("")), Block(b)>>)}
Flat == {<<s>> : s \in UNION {Wrap(b, c) : b \in Simple, c \in {<<Call("m1")>>, <<CallIn("m2", "m1")>>}}}
Inner == {f \in Flat : IF f[1].kind = "switch" THEN f[1].parts[1] = Text("") ELSE f[1].kind = "if" /\ Len(f[1].parts) = 3}
Nested == {<<s>> : s \in UNION {Wrap(b, <<Call("m1")>>) : b \in Inner}}
BodySet == Simple \cup Flat \cup {n \in Nested : n[1].kind \in {"if", "switch"}}
   \cup {<<Walking!Stmt("functionDecl", [name |-> n, shape |-> 1], <<Block(<<Call("m1")>>)>>)>> : n \in {"f", "g"}}
   \cup {<<Walking!Stmt("typeDecl", [name |-> "T", type |-> t], <<>>), Call("m1")>> : t \in {1, 2}}
   \cup {<<Walking!Stmt("if", Walking!NoData, <<Cond(Text(a)), Block(<<Call("m1")>>)>>)>> : a \in Atoms}

-----------------------------------------------------------------------------
(* Builder calls, nodes to place and types to coalesce for IRNodes.        *)
Building == INSTANCE IRNodes WITH Tasks <- {}, PathOrder <- <<>>, task <- {}, outcome <- {}

Calls == {[op |-> o, name |-> n] : o \in {"package", "module", "method", "variable"}, n \in {"a", "b"}}
    \cup {[op |-> o, name |-> "c"] : o \in {"inner", "constructor", "destructor"}}
CallSeqs == UNION {[1 .. n -> Calls] : n \in 0 .. 3}
MethodCalls == UNION {[1 .. n -> {[op |-> "statement", name |-> "s"], [op |-> "statement", name |-> "t"],
    [op |-> "body", names |-> <<"u">>]}] : n \in 0 .. 3}
Columns == [id : {Building!Identified("id", "column"), Building!Identified("x", "column")}, primary : BOOLEAN, nullable : BOOLEAN,
    auto : {FALSE}]
Gos == {"ModuleNode", "PackageNode", "TypedNode", "ASTRecord", "RecordTable", "ASTEndpoint", "MethodNode",
    "RecordColumn", "NodeRef"}
NodesAt(i) == {[go |-> g, id |-> i] : g \in Gos \cup {"null"}}
    \cup {[go |-> "UIRNode", id |-> i, held |-> h] : h \in {{}, {"TypedNode"}, {"MethodNode", "PackageNode"}}}
SourcePaths == << << "a", "tr", "t", "XMLData.xml" >>, <<"a", "tr", "t", "b", "data.xml">>, <<"a", "tr", "t", "data.xml">>,
    <<"a", "tr", "t", "x.xml">>, <<"b", "x.xml">>, <<"c", "x.xml">>, <<"tr">> >>
Props == {[set |-> FALSE, hints |-> <<>>, scalar |-> 0], [set |-> TRUE, hints |-> <<"h">>, scalar |-> 1],
    [set |-> TRUE, hints |-> <<"g", "h">>, scalar |-> 2]}
Type(n, m, p, pr, v) == [module |-> "", package |-> n, type |-> n, methods |-> m, variables |-> v, implements |-> v,
    properties |-> pr, constructor |-> 0, abstract |-> FALSE, path |-> p]
TypesOf(S) == {Type(n, <<"m">>, p, pr, <<"v">>) : n \in {"T"}, p \in S, pr \in Props}
    \cup {Type("", <<"m2">>, <<>>, pr, <<"w">>) : pr \in Props}
PathSet == {SourcePaths[i] : i \in DOMAIN SourcePaths} \cup {<<>>}
TheTasks == [kind : {"type"}, calls : CallSeqs] \cup [kind : {"method"}, calls : MethodCalls]
  \cup [kind : {"table"}, id : {Building!Identified("", "table"), [Building!Identified("", "table") EXCEPT !.module = "m",
      !.package = "p"]}, columns : UNION {[1 .. n -> Columns] : n \in 0 .. 2}]
  \cup {[kind |-> "place", nodes |-> <<a, b>>] : a \in NodesAt(1), b \in NodesAt(2)}
  \cup [kind : {"coalesce"}, types : {<<a, b>> : a, b \in TypesOf(PathSet)}]
  \cup [kind : {"coalesce"}, types : {<<a, b, c>> : a, b, c \in {Type("T", <<"m">>, p, pr, <<"v">>) : p \in {SourcePaths[2],
      SourcePaths[3], <<>>}, pr \in Props}}]

-----------------------------------------------------------------------------
(* Bodies, steps, files and relationships for SiteGuards.                  *)
Guarding == INSTANCE SiteGuards WITH SiteQuestions <- {}, Valuations <- {}, siteQuestion <- {}, siteReply <- {}

Site(n) == <<[kind |-> "site", id |-> n]>>
P == Guarding!Atom("p")
Q == Guarding!Atom("q")
None == << >>
TheValuations == {[true |-> t \cup (IF {"recv", "send"} \cap t = {} THEN {"default"} ELSE {}),
    tags |-> [t1 |-> x]] : t \in SUBSET {"p", "q", "recv", "send"}, x \in 1 .. 3}
If(n, c, b, e) == <<[kind |-> "if", cond |-> c, before |-> Site(n), body |-> b, else |-> e]>>
For(n, c, b) == <<[kind |-> "for", cond |-> c, before |-> Site(n), body |-> b, post |-> Site(n \o "post")]>>
Func(b) == <<[kind |-> "func", body |-> b]>>
Clause(vs, b, f) == [values |-> vs, body |-> b, falls |-> f]
Names == <<"c1", "c2", "c3">>
Switch(tag, cs) == <<[kind |-> "switch", tag |-> tag, before |-> Site("tag"), clauses |-> cs]>>
\* Every order of three clauses, at most one of them the default, each falling through or not.
Lists(tag) == IF tag = "none" THEN {None, <<P>>, <<Q>>, <<P, Q>>} ELSE {None, <<1>>, <<2>>, <<2, 3>>}
Clauses(tag, inner) ==
  UNION {{[i \in 1 .. n |-> Clause(vs[i], Site(Names[i]) \o (IF i = n THEN inner ELSE None), i < n /\ i \in fs)] :
          vs \in {vs \in [1 .. n -> Lists(tag)] : Cardinality({i \in 1 .. n : vs[i] = None}) <= 1},
              fs \in SUBSET (1 .. n - 1)} : n \in 1 .. 3}
Select(d) == <<[kind |-> "select", clauses |-> <<[comm |-> "recv", before |-> Site("chan"), body |-> Site("got")],
    [comm |-> d, before |-> None, body |-> Site("else")]>>]>>
SimpleSites == {Site("x"), If("if", P, Site("then"), None), If("if", P, Site("then"), If("if2", Q, Site("elseif"),
    Site("final"))), For("for", P, Site("loop")), For("for", Guarding!NoCondition, If("if", Q, Site("then"), Site("else"))),
    Select("default"), Select("send")}
GuardedBodies == UNION {{b, If("out", Q, b, None), If("out", Q, None, b), For("out", Q, b), Func(b)} : b \in SimpleSites}
  \cup {Switch(t, cs) : t \in {"none"}, cs \in Clauses("none", None)}
      \cup {Switch("t1", cs) : cs \in Clauses("t1", If("if", P, Site("deep"), None))}
S(l) == [line |-> l, guards |-> None]
G(l) == [line |-> l, guards |-> <<P>>]
Member(o, n, p, c) == [owner |-> o, name |-> n, property |-> p, covers |-> c]
Members == [col |-> Member("tab", "col", "columns", TRUE), key |-> Member("tab", "key", "columns", FALSE),
    idx |-> Member("tab", "idx", "indexes", TRUE)]
Step(n, t, ss, k) == [node |-> n, type |-> t, sites |-> ss, kinds |-> k]
Steps1 == {Step(n, t, ss, {n}) : n \in {"col", "key", "idx", "tab", "other"}, t \in {"read", "write"}, ss \in {None,
    <<S(1)>>, <<S(2), G(1)>>}}
StepSeqs == {<<a, b>> : a, b \in Steps1} \cup {<<Step("tab", "read", <<S(1)>>, {"tab"}), b, Step("col", "read", ss,
    {"col"})>> : b \in Steps1, ss \in {<<S(1)>>, <<S(2)>>}}
Keys == {[snapshot |-> s, path |-> p] : s \in {1, 2}, p \in {"a"}} \cup {[snapshot |-> 1, path |-> "b"]}
KA == [snapshot |-> 1, path |-> "a"] 
KB == [snapshot |-> 1, path |-> "b"] 
KC == [snapshot |-> 2, path |-> "a"]
Batches == {<< <<KA, KC, KB>> >>, << <<KA>>, <<KA, KB, KC, KA>> >>, << <<KC, KC>>, <<KA>> >>}
SitesOf == {[path |-> p, line |-> l, guards |-> g] : p \in {"none", "a", "b"}, l \in {0, 1}, g \in {"old", "none"}}
Rels == {[from |-> f, to |-> t, type |-> ty, site |-> 1] : f, t \in {"nil", "x", "y"}, ty \in {"call", "import"}}
TheSiteQuestions == [kind : {"body"}, block : GuardedBodies]
  \cup [kind : {"steps"}, steps : StepSeqs, members : {Members}, fold : BOOLEAN]
  \cup [kind : {"files"}, causes : [Keys -> {"parses", "torn", "missing", "external"}], batches : Batches]
  \cup {[kind |-> "graph", sites |-> <<a, b>>, guards |-> [a |-> x, b |-> y]] : a, b \in SitesOf, x, y \in {"fails",
      "unreadable", "read"}}
  \cup {[kind |-> "relationships", declared |-> d, relationships |-> <<a, b>>] : d \in {{}, {"z"}, {"nil"}}, a,
      b \in Rels}
=============================================================================
