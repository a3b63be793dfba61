------------------------------ MODULE IRCodec ------------------------------
(***************************************************************************)
(* The JSON codec of the intermediate representation: statements and nodes *)
(* are written under their kind in every interface-typed slot, a Type      *)
(* refined past its kind travels beside it, and documents of the older     *)
(* inline layout still decode (codec_stream*.go, registry.go, marshal.go,  *)
(* node_codec.go, assertion_env.go).                                       *)
(*                                                                         *)
(* A statement or a node is a record [go, type, text, parts]: its Go type, *)
(* its Type field (a kind as the sequence of its ':'-words, << >> unset),  *)
(* the plain fields as one value, and the fields that hold others.  JSON   *)
(* is a record: an "object" with a function from member names to values, a *)
(* "slot" for an object whose first key starts with "$", an "array", a     *)
(* "text", "null", and "error" where the operation fails.                  *)
(***************************************************************************)
EXTENDS Integers, Sequences, FiniteSets, SequencesExt

CONSTANTS Values,     \* the statements and nodes that are written
          Spoiled     \* the documents that are read, not all well formed

VARIABLES subject,    \* the value or the document at hand
          written,    \* what writing it gave in each layout
          read        \* what reading gave

codecVars == <<subject, written, read>>

Nil == [go |-> "nil"]

----------------------------------------------------------------------------
(* The registries. *)

\* The kind each statement type is registered under.
StatementKinds ==
  [AssignmentStmt |-> <<"assignment">>, BinaryStmt |-> <<"assignment", "binary">>,
   BlockStmt |-> <<"control", "block">>, BreakStmt |-> <<"control", "break">>,
   CastStmt |-> <<"assignment", "cast">>, ConditionStmt |-> <<"control", "condition">>,
   ConstDeclStmt |-> <<"decl", "const">>, ContinueStmt |-> <<"control", "continue">>,
   EndpointCallStmt |-> <<"call", "api">>, ExprStmt |-> <<"assignment", "expression">>,
   ForStmt |-> <<"control", "loop", "for">>, ForEachStmt |-> <<"control", "loop", "foreach">>,
   FunctionDeclStmt |-> <<"decl", "func">>, IfStmt |-> <<"control", "if">>,
   LiteralStmt |-> <<"assignment", "literal">>, MethodCallStmt |-> <<"call">>,
   DispatchCallStmt |-> <<"dispatch_call">>, RecordReadStmt |-> <<"call", "read", "record">>,
   RecordWriteStmt |-> <<"call", "write", "record">>, ReturnStmt |-> <<"control", "return">>,
   SwitchStmt |-> <<"control", "switch">>, ThrowStmt |-> <<"control", "throw">>,
   TryStmt |-> <<"control", "try">>, TupleStmt |-> <<"assignment", "tuple">>,
   ObjectLiteralStmt |-> <<"assignment", "object">>, TypeDeclStmt |-> <<"decl", "type">>,
   UnaryStmt |-> <<"assignment", "unary">>, VariableDeclStmt |-> <<"decl", "var">>,
   VariableStmt |-> <<"assignment", "variable">>, WhileStmt |-> <<"control", "loop", "while">>,
   DocStmt |-> <<"doc">>, TestStmt |-> <<"test">>, RawStmt |-> <<"raw">>,
   DestructuringStmt |-> <<"assignment", "destructure">>,
   TemplateLiteralStmt |-> <<"assignment", "template">>, ScopedVariableRef |-> <<"ref", "var">>]

\* The kind each node type is registered under; a reference has one of its own.
NodeKinds ==
  [ModuleNode |-> <<"module">>, PackageNode |-> <<"package">>, TypedNode |-> <<"type">>,
   MethodNode |-> <<"method">>, ASTRecord |-> <<"record">>, ASTEndpoint |-> <<"endpoint">>,
   RecordField |-> <<"field">>, RecordTable |-> <<"table">>, RecordColumn |-> <<"column">>,
   RecordIndex |-> <<"index">>, RecordForeignKey |-> <<"foreign_key">>, NodeRef |-> <<"ref">>]

StatementMarshaler == [field |-> "statement_type", kinds |-> StatementKinds, refines |-> TRUE]
NodeMarshaler      == [field |-> "node_kind", kinds |-> NodeKinds, refines |-> FALSE]

Registered(r) == {r.kinds[g] : g \in DOMAIN r.kinds}
GoTypeOf(r, kind) == CHOOSE g \in DOMAIN r.kinds : r.kinds[g] = kind

\* A statement that keeps a Type of its own; a variable reference does not.
CarriesType(go) == go \in DOMAIN StatementKinds \ {"ScopedVariableRef"}

RECURSIVE LongestRegisteredPrefix(_, _)
LongestRegisteredPrefix(r, kind) ==
  IF kind = << >> \/ kind \in Registered(r) THEN kind
  ELSE LongestRegisteredPrefix(r, Front(kind))

CrossHierarchy(kind) == IF kind = StatementKinds.BlockStmt THEN {StatementKinds.DocStmt} ELSE {}

\* Mutant: a refined kind is compared by its first word.
CheckRefinementByWord(r, kind, refined) == r.refines /\ refined # << >> /\ refined[1] = kind[1]

\* May a value registered under kind carry the Type refined?
CheckRefinement(r, kind, refined) ==
  /\ r.refines
  /\ \/ refined \in CrossHierarchy(kind)
     \/ refined # << >> /\ LongestRegisteredPrefix(r, refined) = kind

----------------------------------------------------------------------------
(* The fields that hold statements and nodes. *)

One(go)   == [form |-> "one", go |-> go]      \* a struct held by value
Opt(go)   == [form |-> "opt", go |-> go]      \* a pointer
Many(go)  == [form |-> "many", go |-> go]     \* a slice of structs
NodeSlot  == [form |-> "node", go |-> "Node"]
NodeSlots == [form |-> "nodes", go |-> "Node"]
StatementSlots == [form |-> "stmts", go |-> "Statement"]

NoFields == [f \in {} |-> NodeSlot]

ControlFields ==
  [IfStmt |-> [condition |-> One("ConditionStmt"), then |-> One("BlockStmt"), else |-> Opt("BlockStmt")],
   SwitchStmt |-> [value |-> One("ExprStmt"), cases |-> Many("SwitchCase")],
   SwitchCase |-> [condition |-> One("ConditionStmt"), body |-> One("BlockStmt")],
   ForStmt |-> [init |-> One("AssignmentStmt"), cond |-> One("ConditionStmt"),
                body |-> One("BlockStmt"), update |-> One("ExprStmt")],
   ForEachStmt |-> [variable |-> One("AssignmentStmt"), iterable |-> One("ExprStmt"),
                    body |-> One("BlockStmt")],
   WhileStmt |-> [condition |-> One("ConditionStmt"), body |-> One("BlockStmt")],
   BlockStmt |-> [children |-> StatementSlots],
   TestStmt |-> [children |-> StatementSlots]]

JumpFields ==
  [ReturnStmt |-> [value |-> One("ExprStmt")],
   ThrowStmt |-> [exception |-> One("ExprStmt")],
   TryStmt |-> [body |-> One("BlockStmt"), catch |-> One("BlockStmt")],
   ConditionStmt |-> [expr |-> One("ExprStmt")]]

CallFields ==
  [FunctionDeclStmt |-> [function |-> One("MethodNode")],
   MethodCallStmt |-> [Method |-> NodeSlot, receiver |-> Opt("ExprStmt"), arguments |-> Many("ExprStmt")],
   DispatchCallStmt |-> [Method |-> NodeSlot, receiver |-> Opt("ExprStmt"),
                         arguments |-> Many("ExprStmt"), candidates |-> NodeSlots],
   EndpointCallStmt |-> [endpoint |-> NodeSlot, arguments |-> Many("ExprStmt")],
   RecordReadStmt |-> [Record |-> NodeSlot, arguments |-> Many("ExprStmt")],
   RecordWriteStmt |-> [Record |-> NodeSlot, arguments |-> Many("ExprStmt")]]

ExpressionFields ==
  [AssignmentStmt |-> [value |-> One("ExprStmt")],
   UnaryStmt |-> [operand |-> One("ExprStmt")],
   BinaryStmt |-> [left |-> One("ExprStmt"), right |-> One("ExprStmt")],
   CastStmt |-> [expr |-> One("ExprStmt")],
   TupleStmt |-> [elements |-> Many("ExprStmt")],
   ObjectLiteralStmt |-> [entries |-> Many("ExprStmt")],
   ExprStmt |-> [literal |-> Opt("LiteralStmt"), variable |-> Opt("ScopedVariableRef"),
                 binary |-> Opt("BinaryStmt"), cast |-> Opt("CastStmt"), unary |-> Opt("UnaryStmt"),
                 method_call |-> Opt("MethodCallStmt"), dispatch_call |-> Opt("DispatchCallStmt"),
                 endpoint_call |-> Opt("EndpointCallStmt"), record_read |-> Opt("RecordReadStmt"),
                 tuple |-> Opt("TupleStmt"), object_literal |-> Opt("ObjectLiteralStmt")]]

PatternFields ==
  [DestructuringStmt |-> [value |-> One("ExprStmt")],
   TemplateLiteralStmt |-> [expressions |-> Many("ExprStmt"), tag |-> Opt("ExprStmt")]]

DocFields == [children |-> Many("DocStmt")]

NodeFields ==
  [MethodNode |-> [body |-> Opt("BlockStmt")],
   TypedNode |-> [methods |-> Many("MethodNode"), types |-> Many("TypedNode"),
                  constructor |-> Opt("MethodNode"), destructor |-> Opt("MethodNode")],
   PackageNode |-> [types |-> Many("TypedNode"), functions |-> Many("MethodNode"),
                    tables |-> Many("RecordTable"), initFunctions |-> Many("MethodNode")],
   ModuleNode |-> [packages |-> Many("PackageNode")]]

TableFields == [definition |-> Opt("BlockStmt"), triggers |-> Many("MethodNode")]

HeldFields ==
  ControlFields @@ JumpFields @@ PatternFields @@ [DocStmt |-> DocFields, RecordTable |-> TableFields]
    @@ CallFields @@ ExpressionFields @@ NodeFields

FieldsIn(table, go) == IF go \in DOMAIN table THEN table[go] ELSE NoFields

FieldsOf(go) == FieldsIn(HeldFields, go)

RECURSIVE Zero(_)
Zero(go) ==
  LET Empty(field)  == CASE field.form = "one" -> Zero(field.go) [] field.form \in {"opt", "node"} -> Nil [] OTHER -> << >>
      Parts(fields) == [f \in DOMAIN fields |-> Empty(fields[f])]
  IN  [go |-> go, type |-> << >>, text |-> << >>, parts |-> Parts(FieldsOf(go))]

----------------------------------------------------------------------------
(* The builders. *)

New(go)            == [Zero(go) EXCEPT !.type = StatementKinds[go]]
Holding(s, f, part)   == [s EXCEPT !.parts[f] = part]
Adding(s, f, part) == [s EXCEPT !.parts[f] = Append(@, part)]
Ref(name)          == [Zero("NodeRef") EXCEPT !.text = name]

NewBlock(statements)      == Holding(New("BlockStmt"), "children", statements)
NewIf(condition)          == Holding(New("IfStmt"), "condition", Holding(Zero("ConditionStmt"), "expr", condition))
WithThen(s, block)        == Holding(s, "then", block)
WithElse(s, block)        == Holding(s, "else", block)
NewAssignment(value)      == Holding(New("AssignmentStmt"), "value", value)
NewMethodCall(name)       == Holding(New("MethodCallStmt"), "Method", Ref(name))
WithReceiver(s, e)        == Holding(s, "receiver", e)
WithArgument(s, e)        == Adding(s, "arguments", e)
AddTo(s, method)          == IF method.parts.body = Nil
                             THEN Holding(method, "body", Adding(Zero("BlockStmt"), "children", s))
                             ELSE Holding(method, "body", Adding(method.parts.body, "children", s))
NewEndpointCall(endpoint) == Holding(New("EndpointCallStmt"), "endpoint", endpoint)
NewRecordRead(record)     == Holding(New("RecordReadStmt"), "Record", record)
NewRecordWrite(record)    == Holding(New("RecordWriteStmt"), "Record", record)
NewFor(init, cond, update, body) ==
  Holding(Holding(Holding(Holding(New("ForStmt"), "init", init), "cond", cond), "update", update), "body", body)
NewForEach(variable, iterable, body) ==
  Holding(Holding(Holding(New("ForEachStmt"), "variable", variable), "iterable", iterable), "body", body)
NewWhile(condition, body) == Holding(Holding(New("WhileStmt"), "condition", condition), "body", body)
NewSwitch(value)          == Holding(New("SwitchStmt"), "value", value)
WithCase(s, condition, body) ==
  Adding(s, "cases", Holding(Holding(Zero("SwitchCase"), "condition", condition), "body", body))
NewTry(body, catch)       == Holding(Holding(New("TryStmt"), "body", body), "catch", catch)
NewDispatchCall(name)     == Holding(New("DispatchCallStmt"), "Method", Ref(name))
WithCandidate(s, node)    == Adding(s, "candidates", node)
VarExpr(name)             == Holding(New("ExprStmt"), "variable", [Zero("ScopedVariableRef") EXCEPT !.text = name])
LitExpr(value)            == Holding(New("ExprStmt"), "literal", [New("LiteralStmt") EXCEPT !.text = value])
ObjectExpr(entries)       == Holding(New("ExprStmt"), "object_literal", Holding(New("ObjectLiteralStmt"), "entries", entries))
NewCondition(e)           == Holding(New("ConditionStmt"), "expr", e)
BinaryExpr(left, right)   == Holding(New("ExprStmt"), "binary", Holding(Holding(New("BinaryStmt"), "left", left), "right", right))
UnaryExpr(e)              == Holding(New("ExprStmt"), "unary", Holding(New("UnaryStmt"), "operand", e))
CastExpr(e)               == Holding(New("ExprStmt"), "cast", Holding(New("CastStmt"), "expr", e))
NewReturn(e)              == Holding(New("ReturnStmt"), "value", e)
NewThrow(e)               == Holding(New("ThrowStmt"), "exception", e)
NewTest(statements)       == Holding(New("TestStmt"), "children", statements)

----------------------------------------------------------------------------
(* Writing. *)

Error     == [json |-> "error"]
Null      == [json |-> "null"]
Text(x)   == [json |-> "text", value |-> x]
Array(xs) == [json |-> "array", items |-> xs]
Object(m) == [json |-> "object", members |-> m]
Slot(kind, value) == [json |-> "slot", kind |-> kind, value |-> value, more |-> FALSE]

\* Adds a member to an object; an empty text is left out.
Stamped(j, name, x) ==
  IF j.json # "object" \/ x = << >> THEN j
  ELSE Object([n \in DOMAIN j.members \cup {name} |-> IF n = name THEN Text(x) ELSE j.members[n]])

IsBlock(go) == go \in {"BlockStmt", "TestStmt"}

Present(form, part) ==
  CASE form = "one"             -> TRUE
    [] form \in {"opt", "node"} -> part # Nil
    [] OTHER                    -> part # << >>

\* stampBlock: a block is stamped with its kind, and with what it refines it to.
StampBlock(body, kind, type) ==
  IF type \in {<< >>, kind} THEN Stamped(body, "statement_type", kind)
  ELSE IF ~CheckRefinement(StatementMarshaler, kind, type) THEN Error
  ELSE Stamped(Stamped(body, "statement_type", kind), "statement_refinement", type)

RECURSIVE Encode(_, _), WriteSlot(_, _, _), RegistryMarshal(_, _, _)

EncodePart(form, part, layout) ==
  CASE form \in {"one", "opt"} -> Encode(part, layout)
    [] form = "many"  -> Array([i \in DOMAIN part |-> Encode(part[i], layout)])
    [] form = "node"  -> WriteSlot(NodeMarshaler, part, layout)
    [] form = "nodes" -> Array([i \in DOMAIN part |-> WriteSlot(NodeMarshaler, part[i], layout)])
    [] form = "stmts" -> Array([i \in DOMAIN part |-> WriteSlot(StatementMarshaler, part[i], layout)])

EncodeParts(fields, parts, layout) ==
  [f \in {g \in DOMAIN fields : Present(fields[g].form, parts[g])} |-> EncodePart(fields[f].form, parts[f], layout)]

StampType(s, body) ==
  IF IsBlock(s.go) THEN StampBlock(body, StatementKinds[s.go], s.type) ELSE Stamped(body, "statement_type", s.type)

\* The members a value writes for itself, in the layout of its slots.
Encode(s, layout) == StampType(s, Stamped(Object(EncodeParts(FieldsOf(s.go), s.parts, layout)), "text", s.text))

TaggedSlot(r, s, kind, layout) ==
  IF ~CarriesType(s.go) THEN Slot(kind, Stamped(Encode(s, layout), r.field, kind))
  ELSE IF s.type \notin {<< >>, kind} /\ ~CheckRefinement(r, kind, s.type) THEN Error
  ELSE Slot(kind, Encode([s EXCEPT !.type = IF @ = << >> THEN kind ELSE @], layout))

\* The legacy layout holds the value itself where the tagged one holds a slot.
WriteSlot(r, s, layout) ==
  IF s = Nil THEN Error
  ELSE IF layout = "inline" THEN RegistryMarshal(r, s, layout)
  ELSE TaggedSlot(r, s, r.kinds[s.go], layout)

MarshalAs(r, s, kind, refinement, layout) ==
  IF ~CarriesType(s.go) THEN Stamped(Encode(s, layout), r.field, kind)
  ELSE IF refinement # << >> /\ ~CheckRefinement(r, kind, refinement) THEN Error
  ELSE Stamped(Encode([s EXCEPT !.type = kind], layout), "statement_refinement", refinement)

RegistryMarshal(r, s, layout) ==
  IF s = Nil THEN Error
  ELSE MarshalAs(r, s, r.kinds[s.go], IF s.type = r.kinds[s.go] THEN << >> ELSE s.type, layout)

RECURSIVE Fails(_)
Fails(j) ==
  \/ j.json = "error"
  \/ j.json = "slot" /\ Fails(j.value)
  \/ j.json = "array" /\ \E i \in DOMAIN j.items : Fails(j.items[i])
  \/ j.json = "object" /\ \E n \in DOMAIN j.members : Fails(j.members[n])

Checked(j) == IF Fails(j) THEN Error ELSE j

Marshal(r, s) == Checked(RegistryMarshal(r, s, "tagged"))

\* The layout the other producers and the older artifacts write.
InlineDocument(r, s) == Checked(RegistryMarshal(r, s, "inline"))

\* Every slot as the value it holds, stamped as the inline layout stamps it.
RECURSIVE UnwrapSlots(_)
UnwrapSlots(j) ==
  CASE j.json = "slot" /\ ~j.more /\ j.value.json = "object" ->
         LET inner   == j.value.members
             carried == IF "statement_type" \in DOMAIN inner THEN inner["statement_type"].value ELSE j.kind
         IN  UnwrapSlots(IF carried = j.kind THEN j.value
                         ELSE Stamped(Stamped(j.value, "statement_refinement", carried), "statement_type", j.kind))
    [] j.json = "array"  -> Array([i \in DOMAIN j.items |-> UnwrapSlots(j.items[i])])
    [] j.json = "object" -> Object([n \in DOMAIN j.members |-> UnwrapSlots(j.members[n])])
    [] OTHER -> j

----------------------------------------------------------------------------
(* Reading. *)

Refused == [go |-> "error"]

Member(j, name) == IF name \in DOMAIN j.members THEN j.members[name].value ELSE << >>

CheckBlockType(s, kind) ==
  IF s.type \in {<< >>, kind} \/ CheckRefinement(StatementMarshaler, kind, s.type) THEN s ELSE Refused

\* A block is refused when it is stamped as anything that is not its kind.
CheckBlockKind(s, kind, refinement) ==
  IF refinement = << >> THEN CheckBlockType(s, kind)
  ELSE IF s.type # kind THEN Refused
  ELSE CheckBlockType([s EXCEPT !.type = refinement], kind)

\* Gives a tagged statement its kind when it carried none.
CheckSlotType(r, kind, s) ==
  IF s = Refused \/ ~CarriesType(s.go) THEN s
  ELSE IF s.type = << >> THEN [s EXCEPT !.type = kind]
  ELSE IF s.type = kind \/ CheckRefinement(r, kind, s.type) THEN s
  ELSE Refused

RECURSIVE DecodeInto(_, _), DecodeSlot(_, _), DecodeFields(_, _, _)

DecodeList(field, items) ==
  CASE field.form = "many"  -> [i \in DOMAIN items |-> DecodeInto(field.go, items[i])]
    [] field.form = "nodes" -> [i \in DOMAIN items |-> DecodeSlot(NodeMarshaler, items[i])]
    [] OTHER                -> [i \in DOMAIN items |-> DecodeSlot(StatementMarshaler, items[i])]

DecodePart(field, member) ==
  CASE field.form = "opt" /\ member.json = "null" -> Nil
    [] field.form = "node"           -> DecodeSlot(NodeMarshaler, member)
    [] field.form \in {"one", "opt"} -> DecodeInto(field.go, member)
    [] OTHER                         -> DecodeList(field, member.items)

WrongPart(form, part) ==
  IF form \in {"one", "opt", "node"} THEN part = Refused
  ELSE \E i \in DOMAIN part : part[i] = Refused \/ (form = "nodes" /\ part[i] = Nil)

\* A value of the Go type with the parts decoded from j.
DecodedAs(go, j, fields, parts) ==
  LET decoded == [go |-> go, text |-> Member(j, "text"), parts |-> parts,
                  type |-> IF CarriesType(go) THEN Member(j, "statement_type") ELSE << >>]
  IN  IF \E f \in DOMAIN fields : WrongPart(fields[f].form, parts[f]) THEN Refused
      ELSE IF IsBlock(go) THEN CheckBlockKind(decoded, StatementKinds[go], Member(j, "statement_refinement"))
      ELSE decoded

\* What j leaves out stays as it is in the zero value.
DecodedOver(zero, j, fields) ==
  DecodedAs(zero.go, j, fields,
            [f \in DOMAIN fields |-> IF f \in DOMAIN j.members THEN DecodePart(fields[f], j.members[f]) ELSE zero.parts[f]])

DecodeInto(go, j) ==
  CASE j.json = "null"   -> Zero(go)
    [] j.json = "object" -> DecodedOver(Zero(go), j, FieldsOf(go))
    [] OTHER             -> Refused

\* An object without a tag names its kind in its own discriminator.
DecodeSlot(r, j) ==
  IF j.json = "null" THEN Nil
  ELSE IF j.json = "object" THEN DecodeFields(r, Member(j, r.field), j)
  ELSE IF j.json # "slot" \/ j.kind \notin Registered(r) \/ j.more THEN Refused
  ELSE CheckSlotType(r, j.kind, DecodeInto(GoTypeOf(r, j.kind), j.value))

\* UnmarshalByType: a refinement is moved under the discriminator first.
DecodeFields(r, kind, j) ==
  LET refined == r.refines /\ "statement_refinement" \in DOMAIN j.members
      moved   == [n \in DOMAIN j.members \ {"statement_refinement"} |->
                    IF n = r.field THEN j.members["statement_refinement"] ELSE j.members[n]]
  IN  IF kind \notin Registered(r) \/ (refined /\ ~CheckRefinement(r, kind, Member(j, "statement_refinement"))) THEN Refused
      ELSE DecodeInto(GoTypeOf(r, kind), IF refined THEN Object(moved) ELSE j)

UnmarshalByType(r, j) == IF j.json # "object" THEN Refused ELSE DecodeFields(r, Member(j, r.field), j)

----------------------------------------------------------------------------
(* One value written and read, or one document read. *)

RegistryOf(s) == IF s.go \in DOMAIN NodeKinds THEN NodeMarshaler ELSE StatementMarshaler

CodecInit == /\ subject \in [value : Values] \cup [document : Spoiled]
             /\ written = Null
             /\ read = Nil

WriteAndRead ==
  /\ written = Null
  /\ "value" \in DOMAIN subject
  /\ written' = Marshal(RegistryOf(subject.value), subject.value)
  /\ read' = IF written' = Error THEN Refused ELSE UnmarshalByType(RegistryOf(subject.value), written')
  /\ UNCHANGED subject

ReadDocument ==
  /\ written = Null
  /\ "document" \in DOMAIN subject
  /\ written' = subject.document
  /\ read' = UnmarshalByType(StatementMarshaler, subject.document)
  /\ UNCHANGED subject

CodecSpec == CodecInit /\ [][WriteAndRead \/ ReadDocument]_codecVars

----------------------------------------------------------------------------
(* What the codec promises. *)

\* The value a reader gets: a statement in a slot, and a block anywhere, has
\* its kind when it had no Type.
RECURSIVE AsRead(_, _)
AsRead(s, slotted) ==
  LET Part(form, part) == CASE form \in {"one", "opt"} -> AsRead(part, FALSE)
                            [] form = "node" -> AsRead(part, TRUE)
                            [] OTHER -> [i \in DOMAIN part |-> AsRead(part[i], form # "many")]
      Parts(fields) == [f \in DOMAIN fields |-> Part(fields[f].form, s.parts[f])]
  IN  IF s = Nil THEN s
      ELSE [s EXCEPT !.parts = Parts(FieldsOf(s.go)),
                     !.type = IF @ = << >> /\ CarriesType(s.go) /\ (slotted \/ IsBlock(s.go))
                              THEN StatementKinds[s.go] ELSE @]

\* Every statement in a slot and every block has a Type that stands for its kind:
\* its own kind, one that no finer kind claims, or doc for a block; and no slot of a
\* list is empty.
RECURSIVE WellTyped(_, _)
WellTyped(s, slotted) ==
  LET Stands(kind, type) ==
        \/ type = << >>
        \/ kind = <<"control", "block">> /\ type = <<"doc">>
        \/ /\ IsPrefix(kind, type)
           /\ \A finer \in Registered(StatementMarshaler) :
                IsPrefix(finer, type) => Len(finer) <= Len(kind)
      Part(form, part) ==
        IF form \in {"one", "opt", "node"} THEN part = Nil \/ WellTyped(part, form = "node")
        ELSE \A i \in DOMAIN part : part[i] # Nil /\ WellTyped(part[i], form # "many")
      Parts(fields) == \A f \in DOMAIN fields : Part(fields[f].form, s.parts[f])
  IN  /\ CarriesType(s.go) /\ (slotted \/ IsBlock(s.go)) => Stands(StatementKinds[s.go], s.type)
      /\ Parts(FieldsOf(s.go))

InlineReadBack(r, s) == UnmarshalByType(r, InlineDocument(r, s))

\* A value is written exactly when its Types stand for its kinds, and then both layouts
\* read back as that value, refinements and references included (registry.go, Marshal;
\* codec_stream.go, decodeSlot).
ValuesReadBack ==
  "value" \in DOMAIN subject /\ written # Null =>
    /\ (written # Error) = WellTyped(subject.value, TRUE)
    /\ written # Error =>
         /\ read = AsRead(subject.value, TRUE)
         /\ InlineReadBack(RegistryOf(subject.value), subject.value) = read

\* A walker of maps sees one shape in both layouts (assertion_env.go, UnwrapSlots).
OneShapeForWalkers ==
  "value" \in DOMAIN subject /\ written \notin {Null, Error} =>
    LET Same(inline) == UnwrapSlots(written) = inline /\ UnwrapSlots(inline) = inline
    IN  Same(InlineDocument(RegistryOf(subject.value), subject.value))

\* Whatever document is accepted, what it decodes to is well typed but for a null among a
\* block's children, and when it can be written it reads back as itself: a misplaced kind is
\* refused, never guessed.
RECURSIVE HoldsNull(_)
HoldsNull(s) ==
  LET Part(form, part) ==
        IF form \in {"one", "opt", "node"} THEN part # Nil /\ HoldsNull(part)
        ELSE \E i \in DOMAIN part : part[i] = Nil \/ HoldsNull(part[i])
      Parts(fields) == \E f \in DOMAIN fields : Part(fields[f].form, s.parts[f])
  IN  Parts(FieldsOf(s.go))

ReadsBackAgain(document) ==
  IF HoldsNull(read) THEN document = Error
  ELSE WellTyped(read, TRUE) /\ UnmarshalByType(StatementMarshaler, document) = AsRead(read, TRUE)

DocumentsAreNotGuessed ==
  "document" \in DOMAIN subject /\ read \notin {Nil, Refused} =>
    ReadsBackAgain(Marshal(StatementMarshaler, read))

TreesSurviveTheCodec == ValuesReadBack /\ OneShapeForWalkers /\ DocumentsAreNotGuessed
=============================================================================
