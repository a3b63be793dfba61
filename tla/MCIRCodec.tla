---------------------------- MODULE MCIRCodec ----------------------------
(* Statements, nodes and spoiled documents for IRCodec. *)
EXTENDS IRCodec

V(n) == VarExpr(<<n>>)
Call(n) == NewMethodCall(<<n>>)
Method == [Zero("MethodNode") EXCEPT !.text = <<"m">>]
Record == [Zero("ASTRecord") EXCEPT !.text = <<"r">>]
Exprs == {V("x"), LitExpr(<<"1">>), BinaryExpr(V("x"), LitExpr(<<"2">>)), UnaryExpr(V("x")), CastExpr(V("y")),
    ObjectExpr(<<V("x")>>), Zero("ExprStmt"),
  Holding(New("ExprStmt"), "method_call", WithReceiver(Call("f"), V("x"))),
  Holding(New("ExprStmt"), "dispatch_call", NewDispatchCall(<<"g">>)),
  Holding(New("ExprStmt"), "record_read", NewRecordRead(Record)) }
Kinds == {<< >>, <<"control", "block">>, <<"control", "block", "finally">>, <<"doc">>, <<"doc", "x">>, <<"call">>,
    <<"call", "package">>, <<"call", "read", "record">>, <<"call", "read">>,
  <<"call", "api", "get">>, <<"control">>, <<"control", "if">>, <<"control", "if", "x">>, <<"assignment">>,
      <<"assignment", "binary">>, <<"test">>, <<"test", "suite">>, <<"dispatch_call">>, <<"ref", "var">>}
Typed(s) == {[s EXCEPT !.type = k] : k \in Kinds}
Leaves == UNION {Typed(s) : s \in {NewBlock(<< >>), Call("f"), NewIf(V("x")), NewAssignment(V("x")), NewTest(<< >>),
    NewEndpointCall(Record), NewRecordRead(Ref(<<"r">>)), NewDispatchCall(<<"g">>), New("DocStmt")}}
  \cup {Holding(Call("f"), "Method", n) : n \in {Nil, Method, Record, Ref(<<"q">>)}}
  \cup {WithCandidate(NewDispatchCall(<<"g">>), n) : n \in {Nil, Method, Ref(<<"q">>)}}
  \cup {NewReturn(e) : e \in Exprs} \cup {NewThrow(V("x")), NewCondition(V("x")), New("BreakStmt"), New("RawStmt"),
      Zero("RawStmt"), New("VariableDeclStmt")}
  \cup {[Zero("ScopedVariableRef") EXCEPT !.text = <<"x">>], NewRecordWrite(Record), WithArgument(Call("f"), V("x")),
      New("TemplateLiteralStmt")}
Blocks == {NewBlock(<<l>>) : l \in Leaves} \cup {Zero("BlockStmt"), NewBlock(<<Nil>>), NewBlock(<<New("BreakStmt"),
    Nil>>)}
Some == {NewBlock(<< >>), Zero("BlockStmt"), [NewBlock(<<Call("f")>>) EXCEPT !.type = <<"doc">>],
    [NewBlock(<< >>) EXCEPT !.type = <<"control", "if">>], NewBlock(<<Call("f"), [Call("g") EXCEPT !.type = <<"call",
    "package">>]>>)}
Nested == UNION {
   {WithThen(NewIf(V("x")), b), WithElse(NewIf(V("x")), b), NewFor(NewAssignment(V("x")), NewCondition(V("x")),
       V("y"), b),
    NewForEach(Zero("AssignmentStmt"), V("xs"), b), NewWhile(Zero("ConditionStmt"), b), WithCase(NewSwitch(V("x")),
        NewCondition(V("x")), b), NewTry(b, Zero("BlockStmt")),
    NewTest(<<b>>), NewBlock(<<b, New("BreakStmt")>>),
    Holding(New("FunctionDeclStmt"), "function", Holding(Method, "body", b)),
    Holding(Method, "body", b), AddTo(NewReturn(V("x")), Holding(Method, "body", b)),
    Adding(Zero("TypedNode"), "methods", Holding(Method, "body", b)),
    Adding(Zero("ModuleNode"), "packages", Adding(Zero("PackageNode"), "types", Holding(Zero("TypedNode"), "constructor",
        Holding(Method, "body", b)))),
    Holding(Zero("RecordTable"), "definition", b)} : b \in Some}
   \cup {AddTo(NewReturn(V("x")), Method)}
TheValues == Leaves \cup Blocks \cup Nested
    \cup {NewBlock(<<n>>) : n \in {n \in Nested : n.go \in DOMAIN StatementKinds}}
\* Documents of both layouts with one thing changed.
RECURSIVE Tampered(_)
Tampered(j) ==
  CASE j.json = "slot" -> {[j EXCEPT !.kind = k] : k \in {<<"call">>, <<"control", "block">>, <<"call", "x">>,
      <<"doc">>, <<"method">>, <<"ref">>}} \cup {[j EXCEPT !.more = TRUE], [j EXCEPT !.value = Null]}
            \cup {[j EXCEPT !.value = t] : t \in Tampered(j.value)} \cup {j.value}
    [] j.json = "array" -> {Array([j.items EXCEPT ![i] = t]) : i \in DOMAIN j.items, t \in {Null} }
        \cup UNION {{Array([j.items EXCEPT ![i] = t]) : t \in Tampered(j.items[i])} : i \in DOMAIN j.items}
    [] j.json = "object" ->
         {Object([n \in DOMAIN j.members \ {m} |-> j.members[n]]) : m \in DOMAIN j.members \cap {"statement_type",
             "node_kind", "statement_refinement"}}
         \cup {Stamped(j, "statement_type", k) : k \in Kinds \ {<< >>}}
         \cup {Stamped(j, "statement_refinement", k) : k \in Kinds \ {<< >>}}
         \cup UNION {{Object([j.members EXCEPT ![m] = t]) : t \in Tampered(j.members[m])} : m \in DOMAIN j.members}
    [] OTHER -> {}
Sound == {NewBlock(<<Call("f")>>), [Call("g") EXCEPT !.type = <<"call", "package">>], WithThen(NewIf(V("x")),
    NewBlock(<<NewBlock(<<New("BreakStmt")>>)>>)), NewTest(<<New("DocStmt")>>),
    WithCandidate(NewDispatchCall(<<"g">>), Method)}
TheSpoiled == UNION {Tampered(Marshal(StatementMarshaler, s))
    \cup Tampered(InlineDocument(StatementMarshaler, s)) : s \in Sound}
==========================================================================
