------------------------------ MODULE BodyWalk ------------------------------
(***************************************************************************)
(* A method's lowered body: the walk that reaches every statement with the *)
(* conditions that guard it (walk_stmt.go), the relationships collected    *)
(* from it (relationship_collect.go) and the hash that names its content   *)
(* (hash.go, hash_stmt.go).                                                *)
(*                                                                         *)
(* A statement is [kind, data, parts]: its own facts, and the statements   *)
(* it holds in the order of its fields.  The pointer and the value form of *)
(* a statement are one.  An expression is the statement "expr" around its  *)
(* one variant; one without a variant has at most a text, its data.        *)
(***************************************************************************)
EXTENDS Integers, Sequences, FiniteSets, SequencesExt

CONSTANTS
    Bodies,        \* the bodies compared, each the children of a block, none empty
    Environments   \* the values the atoms of conditions may have together

VARIABLES
    body,          \* the body a method has
    edited,        \* the body it is edited to, Unedited before
    collected      \* what its two bodies relate to, before and after

bodyVars == <<body, edited, collected>>

Unedited == <<>>

Stmt(kind, data, parts) == [kind |-> kind, data |-> data, parts |-> parts]
NoData == <<>>

-----------------------------------------------------------------------------
(* Conditions.                                                             *)

\* emptyExpr: no variant and no text.
EmptyExpr(e) == e.parts = <<>> /\ e.data = ""
EmptyCondition(c) == EmptyExpr(c.parts[1])

ExprOf(value) == Stmt("expr", "", <<value>>)
NewCondition(e) == Stmt("condition", NoData, <<e>>)
Negated(c) == NewCondition(ExprOf(Stmt("unary", "not", <<c.parts[1]>>)))
BinaryExpr(l, op, r) == ExprOf(Stmt("binary", op, <<l, r>>))

\* What must hold for a case to run: its condition, compared to the value of
\* the switch when it has one.
CaseMatch(value, c) == IF EmptyExpr(value) THEN c.parts[1] ELSE BinaryExpr(value, "equal", c.parts[1])

AnyOf(es) == FoldLeft(LAMBDA either, e : BinaryExpr(either, "or", e), es[1], Tail(es))

-----------------------------------------------------------------------------
(* WalkStatements.                                                         *)

GuardedBy(scope, c) == [scope EXCEPT !.guards = Append(@, c)]

Looping(scope, c) ==
    LET in == [scope EXCEPT !.loops = @ + 1]
    IN  IF EmptyCondition(c) THEN in ELSE GuardedBy(in, c)

\* A switch holds its value and, alternating, each case's condition and body.
CaseAt(s) == SelectSeq([i \in 1 .. Len(s.parts) |-> i], LAMBDA i : i % 2 = 0)

Matches(s) ==
    LET cases == SelectSeq(CaseAt(s), LAMBDA i : ~EmptyCondition(s.parts[i]))
    IN  [k \in DOMAIN cases |-> CaseMatch(s.parts[1], s.parts[cases[k]])]

\* The default runs when no case matches; a switch with only a default always.
CaseScope(s, scope, i) ==
    IF ~EmptyCondition(s.parts[i]) THEN GuardedBy(scope, NewCondition(CaseMatch(s.parts[1], s.parts[i])))
    ELSE IF Matches(s) # <<>> THEN GuardedBy(scope, Negated(NewCondition(AnyOf(Matches(s))))) ELSE scope

\* The scope a part of a statement is walked in: its own, except for the
\* branches and the bodies of control statements.
PartScope(s, scope, i) ==
    CASE s.kind = "if" /\ i = 2 -> GuardedBy(scope, s.parts[1])
      [] s.kind = "if" /\ i = 3 -> GuardedBy(scope, Negated(s.parts[1]))
      [] s.kind = "switch" /\ i > 1 /\ i % 2 = 1 -> CaseScope(s, scope, i - 1)
      [] s.kind = "for" /\ i > 2 -> Looping(scope, s.parts[2])
      [] s.kind = "foreach" /\ i = 3 -> Looping(scope, NewCondition(Stmt("expr", "", <<>>)))
      [] s.kind = "while" /\ i = 2 -> Looping(scope, s.parts[1])
      [] OTHER -> scope

RECURSIVE WalkFrom(_, _, _, _)

\* Every statement among the parts of s from the i-th on, in walk order, each
\* with its place and its scope.
WalkFrom(s, at, scope, i) ==
    IF i > Len(s.parts) THEN <<>>
    ELSE LET in == PartScope(s, scope, i)
         IN  <<[stmt |-> s.parts[i], at |-> Append(at, i), guards |-> in.guards, loops |-> in.loops]>>
             \o WalkFrom(s.parts[i], Append(at, i), in, 1) \o WalkFrom(s, at, scope, i + 1)

WalkStatements(stmts) == WalkFrom(Stmt("block", NoData, stmts), <<>>, [guards |-> <<>>, loops |-> 0], 1)

-----------------------------------------------------------------------------
(* CollectRelationships.  A call's data has its target, "nil" for none, and *)
(* the candidates of a dispatch.                                           *)

TargetsOf(s) ==
    LET named(type) == IF s.data.target = "nil" THEN <<>> ELSE <<<<type, s.data.target>>>>
    IN  CASE s.kind \in {"methodCall", "endpointCall"} -> named("call")
          [] s.kind = "dispatchCall" -> named("call") \o [i \in DOMAIN s.data.candidates |-> <<"dispatch", s.data.candidates[i]>>]
          [] s.kind = "recordRead" -> named("read")
          [] s.kind = "recordWrite" -> named("write")
          [] OTHER -> <<>>

CollectRelationships(stmts) ==
    FoldLeft(LAMBDA rels, reached :
                LET targets == TargetsOf(reached.stmt)
                IN  rels \o [i \in DOMAIN targets |-> [type |-> targets[i][1], to |-> targets[i][2], guards |-> reached.guards]],
             <<>>, WalkStatements(stmts))

-----------------------------------------------------------------------------
(* Hash: what a digest tells apart.  Its fields are named, and their order *)
(* fixed, so two digests are equal exactly when what they digest is.       *)

\* Own facts that reach no hash: the text of an expression, the name of what
\* a declaration declares (a field and a method hash as their fingerprints,
\* which leave their names out) and the type a declared type is.
HashedData(s) ==
    CASE s.kind = "expr" -> NoData
      [] s.kind \in {"variableDecl", "constDecl", "functionDecl"} -> s.data.shape
      [] s.kind = "typeDecl" -> s.data.name
      [] OTHER -> s.data

RECURSIVE HashStatement(_)
HashStatement(s) == <<s.kind, HashedData(s), [i \in DOMAIN s.parts |-> HashStatement(s.parts[i])]>>

HashBody(stmts) == [i \in DOMAIN stmts |-> HashStatement(stmts[i])]

-----------------------------------------------------------------------------

BodyInit ==
    /\ body \in Bodies
    /\ edited = Unedited
    /\ collected = <<CollectRelationships(body)>>

EditBody ==
    /\ edited = Unedited
    /\ edited' \in Bodies
    /\ collected' = Append(collected, CollectRelationships(edited'))
    /\ UNCHANGED body

BodySpec == BodyInit /\ [][EditBody]_bodyVars

-----------------------------------------------------------------------------
(* Correctness, against running the body.  An atom's value does not change *)
(* while the body runs; what follows a jump is taken to run, and so is a   *)
(* catch, and a loop runs once: no more of the body could be reached.      *)

RECURSIVE Value(_, _)
Value(e, env) ==
    CASE e.kind = "condition" -> Value(e.parts[1], env)
      [] e.kind = "expr" -> IF e.parts = <<>> THEN env[e.data] ELSE Value(e.parts[1], env)
      [] e.kind = "unary" -> ~Value(e.parts[1], env)
      [] e.kind = "binary" /\ e.data = "equal" -> Value(e.parts[1], env) = Value(e.parts[2], env)
      [] e.kind = "binary" /\ e.data = "or" -> Value(e.parts[1], env) \/ Value(e.parts[2], env)
      [] OTHER -> env[e.data]

\* Does case i of a switch hold in env, the default aside?
Holds(s, env, i) ==
    /\ ~EmptyCondition(s.parts[i])
    /\ IF EmptyExpr(s.parts[1]) THEN Value(s.parts[i], env) ELSE Value(s.parts[1], env) = Value(s.parts[i], env)

\* Does running s run its part i?  First matching case, and the default when
\* there is none.
Runs(s, env, i) ==
    CASE s.kind = "if" /\ i = 2 -> Value(s.parts[1], env)
      [] s.kind = "if" /\ i = 3 -> ~Value(s.parts[1], env)
      [] s.kind = "while" /\ i = 2 -> EmptyCondition(s.parts[1]) \/ Value(s.parts[1], env)
      [] s.kind = "for" /\ i > 2 -> EmptyCondition(s.parts[2]) \/ Value(s.parts[2], env)
      [] s.kind = "switch" /\ i > 1 /\ i % 2 = 1 ->
            IF EmptyCondition(s.parts[i - 1]) THEN \A j \in Range(CaseAt(s)) : ~Holds(s, env, j)
            ELSE Holds(s, env, i - 1) /\ \A j \in Range(CaseAt(s)) : j < i - 1 => ~Holds(s, env, j)
      [] OTHER -> TRUE

RECURSIVE RunPart(_, _, _)
RunPart(s, at, env) ==
    {at} \cup UNION {RunPart(s.parts[i], Append(at, i), env) : i \in {i \in DOMAIN s.parts : Runs(s, env, i)}}

Exclusive(reached, env) ==
    \A s \in {reached[k].stmt : k \in DOMAIN reached} :
        s.kind = "switch" => \A i, j \in Range(CaseAt(s)) : Holds(s, env, i) /\ Holds(s, env, j) => i = j

\* Whatever the conditions evaluate to, a statement that runs has all of its
\* guards true, and one whose guards are all true runs, unless two cases of
\* one switch match and the first hides the second.
GuardsAreTheConditions ==
    LET reached == WalkStatements(body)
    IN  edited = Unedited =>
            \A env \in Environments :
                LET ran == UNION {RunPart(body[i], <<i>>, env) : i \in DOMAIN body}
                    open == {reached[k].at : k \in {k \in DOMAIN reached :
                                                      \A g \in Range(reached[k].guards) : Value(g, env)}}
                IN  ran \subseteq open /\ (Exclusive(reached, env) => open = ran)

\* An edit that leaves the hash of the body as it was leaves what the body
\* calls, reads and writes as it was, in order and under the same guards:
\* content that compares equal needs no new relationships.
HashCoversRelationships ==
    edited # Unedited =>
        (HashBody(body) = HashBody(edited) =>
            LET Told(rels) == [i \in DOMAIN rels |-> <<rels[i].type, rels[i].to, HashBody(rels[i].guards)>>]
            IN  Told(collected[1]) = Told(collected[2]))

BodiesAreToldApart == GuardsAreTheConditions /\ HashCoversRelationships

=============================================================================
