---------------------------- MODULE MCIndexInputs ----------------------------
(* Indexes and what is asked about them. *)
EXTENDS Integers, Sequences, FiniteSets, SequencesExt, TLC

-----------------------------------------------------------------------------
(* Indexes of two modules and the questions QueryEval answers about them.  *)
Querying == INSTANCE QueryEval WITH Questions <- {}, MaxGraphSymbols <- 20, question <- {}, answered <- {}

Id(n) == <<"symbol", n>>
M1 == <<<<"a">>>>
M2 == <<<<"b">>, <<"m">>>>
P == <<<<"a">>, <<"p">>>>
Symbol(kind, module, package, owner, name) == [kind |-> kind, module |-> module, package |-> package, owner |-> owner,
    name |-> name]
TheSymbols == [id \in {Id(n) : n \in 1 .. 9} |->
   CASE id = Id(1) -> Symbol("func", M1, M1, Querying!None, "f") [] id = Id(2) -> Symbol("func", M1, P, Querying!None, "g")
     [] id = Id(3) -> Symbol("type", M1, M1, Querying!None, "I") [] id = Id(4) -> Symbol("method", M1, M1, Id(3), "do")
     [] id = Id(5) -> Symbol("type", M2, M2, Querying!None, "T") [] id = Id(6) -> Symbol("method", M2, M2, Id(5), "do")
     [] id = Id(7) -> Symbol("func", M2, M2, Querying!None, "h") [] id = Id(8) -> Symbol("var", M1, P, Querying!None, "v")
     [] id = Id(9) -> Symbol("field", M2, M2, Id(5), "n")]
Entry(n, from, to, form, embeds) == [id |-> Id(n), from |-> from, to |-> to, form |-> form, embeds |-> embeds]
Declared == [d \in 1 .. 4 |->
   CASE d = 1 -> {Entry(1, 1, 9, "", {}), Entry(3, 10, 19, "interface", {}), Entry(4, 11, 12, "", {})}
     [] d = 2 -> {Entry(2, 1, 9, "", {}), Entry(8, 10, 19, "", {})}
     [] d = 3 -> {Entry(5, 1, 9, "struct", {Id(3)}), Entry(9, 2, 3, "", {}), Entry(6, 10, 19, "", {}), Entry(7, 20,
         29, "", {})}
     [] d = 4 -> {Entry(1, 1, 9, "", {}), Entry(5, 20, 24, "other", {})}]
Where == [n \in 1 .. 9 |-> CASE n \in {1, 3, 4} -> 1 [] n \in {2, 8} -> 2 [] OTHER -> 3]
StartOf(n) == (CHOOSE e \in Declared[Where[n]] : e.id = Id(n)).from
\* An occurrence of a symbol in the declaration of another.
Occ(n, from, role) == <<Where[from], [symbol |-> IF n = 0 THEN Querying!None ELSE Id(n), role |-> role, enclosing |-> Id(from),
    from |-> StartOf(from) + (n % 4) + 1, to |-> StartOf(from) + (n % 4) + 1]>>
Fixed == {Occ(9, 6, "write"), Occ(8, 2, "reference"), <<4, [symbol |-> Id(2), role |-> "call", enclosing |-> Id(1),
    from |-> 5, to |-> 5]>>, <<3, [symbol |-> Id(8), role |-> "write", enclosing |-> Querying!None, from |-> 30, to |-> 30]>>}
Calls == {Occ(c[2], c[1], "call") : c \in {<<1, 2>>, <<2, 1>>, <<2, 4>>, <<7, 1>>, <<7, 4>>, <<6, 7>>, <<1, 8>>, <<8,
    2>>, <<1, 1>>, <<6, 0>>}}
Index(occurrences, implements, scopes) ==
   [symbols |-> TheSymbols, scopes |-> scopes,
    documents |-> [d \in 1 .. 4 |-> [package |-> CASE d \in {1, 4} -> M1 [] d = 2 -> P
        [] d = 3 -> M2, symbols |-> Declared[d],
                                     occurrences |-> {o[2] : o \in {o \in occurrences : o[1] = d}}]],
    implements |-> implements]
Both == [s \in 1 .. 3 |-> CASE s = 1 -> [root |-> M1, documents |-> {1, 2}]
    [] s = 2 -> [root |-> M2, documents |-> {3}] [] s = 3 -> [root |-> M1, documents |-> {4, 2}]]
Indexes == {Index(Fixed \cup C, I, Both) : C \in {C \in SUBSET Calls : Cardinality(C) = 3}, I \in {{}, {<<2, Id(5),
    Id(3)>>}}}
Selector(kind, pattern) == [kind |-> "selector", selector |-> [kind |-> kind, pattern |-> pattern, module |-> <<>>]]
Pkg(module, pattern) == [kind |-> "selector", selector |-> [kind |-> "pkg", pattern |-> pattern, module |-> module]]
Sym(s) == [kind |-> "symbol", symbol |-> s]
Rel(left, relation, right) == [kind |-> "relation", left |-> left, relation |-> relation, right |-> right,
    filters |-> {}, depth |-> 2]
Set(kind, left, right) == [kind |-> kind, left |-> left, right |-> right]
Mod(left, include, right) == [kind |-> "modifier", left |-> left, modifiers |-> {[include |-> include,
    selector |-> right.selector]}]
Star == <<<<"*">>>>
Funcs == Selector("func", Star)
Named(n) == Sym(<<<<n>>>>)
Scope1 == Selector("mod", M1)
Scope2 == Selector("pkg", <<<<"**">>>>)
Scope3 == Pkg(<<<<"*">>>>, <<<<"p">>>>)
Scope4 == Set("union", Scope3, Selector("mod", M2))
Scopes == {Scope1, Scope2, Scope3, Scope4}
Walks == {Rel(Named("g"), "<<", Querying!NoExpression), Rel(Sym(<<<<"T", "do">>>>), "<<", Querying!NoExpression), Rel(Named("f"), "<<",
    Funcs),
  [kind |-> "path", left |-> Named("h"), right |-> Named("g"), depth |-> 3], [kind |-> "path", left |-> Named("f"),
      right |-> Sym(<<<<"T", "do">>>>), depth |-> 2]}
Relations == {Rel(Funcs, "<", s) : s \in Scopes \cup {Querying!NoExpression}}
    \cup {Rel(Selector("all", Star), "<", Querying!NoExpression), Rel(Selector("field", Star), "~w", Querying!NoExpression),
    Rel(Selector("var", Star), "~w", Scope1), Rel(Funcs, ">", Funcs), Rel(Funcs, ">", Selector("type", Star)),
  Rel(Funcs, ":uses", Querying!NoExpression), Rel(Selector("all", Star), ":uses", Scope3), Rel(Selector("module", Star), "<",
      Querying!NoExpression)}
Sets == {Set("intersection", s, t) : s \in {Funcs, Selector("struct", Star)}, t \in Scopes}
    \cup {Set("intersection", Scope1, Rel(Funcs, ">", Querying!NoExpression)), Set("union", Named("f"), Selector("package",
    <<<<"**">>>>))}
   \cup {Mod(Funcs, i, t) : i \in BOOLEAN, t \in {Scope1, Scope3, Selector("path", <<<<"b">>, <<"**">>>>)}}
       \cup {Mod(Rel(Funcs, "<", Querying!NoExpression), TRUE, Scope1)}
   \cup {Selector(k, p) : k \in {"func", "method", "struct", "type", "path"}, p \in {<<<<"a">>, <<"p", "g">>>>,
       <<<<"b">>, <<"m", "*">>>>, <<<<"a">>, <<"**">>>>, <<<<"**">>, <<"*">>>>, <<<<"T", "*">>>>}}
   \cup {Rel(Selector("type", Star), r, Querying!NoExpression) : r \in {":impl", ":inherits", ":methods", "=", "<"}}
OneIndex == Index(Fixed \cup {Occ(4, 2, "call"), Occ(1, 7, "call")}, {<<2, Id(5), Id(3)>>}, Both)
TheQuestions == {[index |-> x, expression |-> e] : x \in Indexes, e \in Walks}
    \cup {[index |-> OneIndex, expression |-> e] : e \in Relations \cup Sets}

-----------------------------------------------------------------------------
(* Two versions of an index and what IndexGraph tells of their difference. *)
Telling == INSTANCE IndexGraph WITH Questions <- {}, GraphRequests <- {}, MaxGraphSymbols <- 9, asked <- {}, told <- {},
                              question <- {}, answered <- {}

D == <<<<"d">>>>
VersionSymbols == [id \in {Id(n) : n \in 1 .. 11} |->
   CASE id = Id(1) -> Symbol("func", M1, M1, Querying!None, "f") [] id = Id(2) -> Symbol("func", M1, P, Querying!None, "g")
     [] id = Id(3) -> Symbol("type", M1, M1, Querying!None, "I") [] id = Id(4) -> Symbol("method", M1, M1, Id(3), "do")
     [] id = Id(5) -> Symbol("type", M1, P, Querying!None, "T") [] id = Id(6) -> Symbol("method", M1, P, Id(5), "do")
     [] id = Id(7) -> Symbol("func", M2, M2, Querying!None, "h") [] id = Id(8) -> Symbol("table", M1, P, Querying!None, "t")
     [] id = Id(9) -> Symbol("field", M1, P, Id(8), "n") [] id = Id(10) -> Symbol("func", D, D, Querying!None, "dep")
     [] id = Id(11) -> Symbol("func", Telling!Std, Telling!Std, Querying!None, "print")]
VersionEntry(n, fp) == [id |-> Id(n), from |-> n, to |-> n, form |-> "", embeds |-> {}, fp |-> fp]
Fp(n, changed) == IF n \in DOMAIN changed THEN changed[n] ELSE <<1, 1, 1>>
VersionDocument(n) == IF n \in {1, 3, 4} THEN 1 ELSE IF n = 7 THEN 3 ELSE 2
VersionUse(from, to, role) == [symbol |-> IF to = 0 THEN Querying!None ELSE Id(to), role |-> role,
    enclosing |-> IF from = 0 THEN Querying!None ELSE Id(from), from |-> 1, to |-> 1]
Occs(uses, doc) == {VersionUse(u[1], u[2], u[3]) : u \in {u \in uses : u[1] # 0 /\ VersionDocument(u[1]) = doc}}
    \cup (IF doc = 2 THEN {VersionUse(0, 9, "write")} ELSE {})
\* Documents 1 to 3 are the selected ones, 4 and 5 the earlier versions of 1 and 2.
Docs(uses, old, changed, missing) == [d \in 1 .. 5 |->
    CASE d = 1 -> [package |-> M1, symbols |-> {VersionEntry(n, Fp(n, changed)) : n \in {1, 3, 4}},
        occurrences |-> Occs(uses, 1)]
      [] d = 2 -> [package |-> P, symbols |-> {VersionEntry(n, Fp(n, changed)) : n \in {2, 5, 6, 8, 9}},
          occurrences |-> Occs(uses, 2)]
      [] d = 3 -> [package |-> M2, symbols |-> {VersionEntry(7, <<1, 1, 1>>)}, occurrences |-> Occs(uses, 3)]
      [] d = 4 -> [package |-> M1, symbols |-> {VersionEntry(n, <<1, 1, 1>>) : n \in {1, 3, 4} \ missing},
          occurrences |-> Occs(old, 1)]
      [] d = 5 -> [package |-> P, symbols |-> {VersionEntry(n, <<1, 1, 1>>) : n \in {2, 5, 6, 8, 9} \ missing},
          occurrences |-> Occs(old, 2)]]
VersionCalls == {<<1, 2, "call">>, <<1, 4, "call">>, <<2, 10, "call">>, <<2, 11, "call">>, <<2, 9, "write">>, <<6, 7,
    "call">>, <<7, 10, "call">>, <<1, 0, "call">>, <<1, 6, "reference">>, <<2, 8, "call">>}
Impl == <<1, Id(5), Id(3)>>
Version(selected, declared, replace) == [selected |-> selected, declared |-> declared, replace |-> replace,
    target |-> 0]
TheIndex(docs, implements) == [symbols |-> VersionSymbols, documents |-> docs, implements |-> implements,
    scopes |-> [s \in 1 .. 2 |-> IF s = 1 THEN [root |-> M1, documents |-> {1, 2},
        configuration |-> 1] ELSE [root |-> M2, documents |-> {3}, configuration |-> 1]]]
Ask(uses, old, changed, missing, now, was, opts, ver) ==
    [index |-> TheIndex(Docs(uses, old, changed, missing), now), to |-> 1,
     from |-> [documents |-> {4, 5}, implements |-> was, configuration |-> opts.configuration,
         dependencies |-> (D :> Version(1, 1, 0)), captured |-> TRUE],
     root |-> Id(opts.root), depth |-> opts.depth, limit |-> opts.limit, exclude |-> opts.exclude, trees |-> {P},
         access |-> opts.access,
     dependencies |-> (D :> ver), captured |-> opts.captured]
Options(root, depth, limit, exclude, access) ==
    [root |-> root, depth |-> depth, limit |-> limit, exclude |-> exclude, access |-> access,
     configuration |-> 1, captured |-> TRUE]
Opts == {Options(1, 9, 9, {"std"}, {"call"}), Options(1, 9, 9, {"external"}, {}),
         Options(1, 9, 9, {"tree"}, {"call", "write"}), Options(2, 1, 2, {"builtin", "external"}, {"call"})}
Odd == {[Options(1, 9, 9, {}, {"call"}) EXCEPT !.configuration = 2], [Options(1, 9, 9, {}, {"call"}) EXCEPT !.captured = FALSE],
        Options(9, 9, 9, {}, {"call"}), Options(8, 9, 9, {}, {"read"})}
\* Two uses of the root, or one and one of what it uses or dispatches to; edited by one use.
TwoCalls == {{u, v} : u \in {u \in VersionCalls : u[1] = 1}, v \in VersionCalls}
Chains == {U \in TwoCalls : Cardinality(U) = 2 /\ \E u, v \in U : u[1] = 1 /\ u # v /\ v[1] \in {1, u[2], u[2] + 2}}
Pairs == {<<U, U \ {u}>> : U \in Chains, u \in VersionCalls} \cup {<<U, U \cup {u}>> : U \in Chains, u \in VersionCalls}
TheAsks ==
    {Ask(p[1], p[2], <<>>, {}, now, {<<Id(5), Id(3)>>}, o, Version(1, 1, 0)) : p \in Pairs, now \in {{}, {Impl}},
        o \in Opts}
    \cup {Ask(U, U, ch, {}, {Impl}, {<<Id(5), Id(3)>>}, o, Version(2, 1, 0)) : U \in Chains, o \in Opts,
            ch \in {<<>>, 2 :> <<1, 1, 2>>, 6 :> <<1, 2, 2>>, 4 :> <<2, 1, 1>>}}
    \cup {Ask(U, U, <<>>, miss, {}, {}, o, v) : U \in Chains, o \in Opts, miss \in {{1}, {2}, {6}}, 
            v \in {Version(0, 1, 0), Version(0, 1, 1)}}
    \cup {Ask(U, U, <<>>, {}, {}, {}, o, Version(1, 1, 0)) : U \in Chains, o \in Odd}
=============================================================================
