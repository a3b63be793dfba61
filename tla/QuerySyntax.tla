----------------------------- MODULE QuerySyntax -----------------------------
(***************************************************************************)
(* Reading a compact query (package query: grammar.peg, parser.go and      *)
(* selector_glob.go): the parsing expression grammar, which records tokens *)
(* as it goes and never takes one back, the expression parser over those   *)
(* tokens, and the spelling of selectors.                                  *)
(*                                                                         *)
(* A text is a sequence of atoms: a character, or a word that the grammar  *)
(* tells apart whole, so that "f" "unc" is func and "-" "f" the start of   *)
(* -func as well as a filter.                                              *)
(***************************************************************************)
EXTENDS Integers, Sequences, FiniteSets, SequencesExt

CONSTANTS
    Texts,           \* texts that are read
    Trees,           \* expressions that are written and read back
    Literals         \* literals that are quoted and read back

VARIABLES
    text,            \* what is read: [kind, of]
    parse            \* what it was read as, Unread before

syntaxVars == <<text, parse>>

Letters ==
    {"f", "unc", "package", "mod", "ule", "method", "s", "struct", "ield", "type", "path", "all", "var", "pkg", "kind",
     "impl", "inherits", "uses", "x"}
Digits == {"2", "9"}
End == "end"

Unread == [kind |-> "unread"]
Invalid == [kind |-> "invalid"]      \* InvalidQueryError
Absent == [kind |-> "none"]          \* no right operand

-----------------------------------------------------------------------------
(* Parsing expressions, and the rules of the grammar.                      *)

Char(atoms) == [op |-> "char", atoms |-> atoms]
Word(atoms) == [op |-> "word", atoms |-> atoms]
Dot == [op |-> "dot"]
Cat(of) == [op |-> "cat", of |-> of]
Alt(of) == [op |-> "alt", of |-> of]
Star(of) == [op |-> "star", of |-> of]
Plus(of) == Cat(<<of, Star(of)>>)
Opt(of) == Alt(<<of, Cat(<<>>)>>)
Not(of) == [op |-> "not", of |-> of]
Rule(name) == [op |-> "rule", name |-> name]
Text(of) == [op |-> "text", of |-> of]                       \* <of>
Add(kind, prefix, with) == [op |-> "add", kind |-> kind, prefix |-> prefix, with |-> with]  \* {addToken}
Token(kind, atoms) == Cat(<<Word(atoms), Add(kind, atoms, FALSE)>>)

Gap == Star(Char({" "}))                                     \* _
Spacing == Plus(Char({" "}))
Query == Cat(<<Gap, Rule("Set"), Gap, Not(Dot)>>)
Set == Cat(<<Rule("Intersection"), Star(Cat(<<Gap, Rule("UnionOperator"), Gap, Rule("Intersection")>>))>>)
Intersection == Cat(<<Rule("Chain"), Star(Cat(<<Gap, Rule("IntersectionOperator"), Gap, Rule("Chain")>>))>>)
Chain == Cat(<<Rule("Primary"), Star(Cat(<<Gap, Alt(<<Rule("PathStep"), Rule("Step"), Rule("Modifier")>>)>>))>>)
Primary ==
    Alt(<<Rule("Selector"), Rule("EntityField"), Rule("Symbol"), Cat(<<Rule("Open"), Gap, Rule("Set"), Gap, Rule("Close")>>)>>)
Step ==
    Cat(<<Rule("Relation"), Star(Cat(<<Gap, Rule("Filter")>>)),
          Opt(Cat(<<Gap, Rule("Primary"), Star(Cat(<<Gap, Rule("Modifier")>>))>>))>>)

Selector == Cat(<<Text(Rule("SelectorText")), Add("selector", <<>>, TRUE)>>)
Modifier == Cat(<<Text(Cat(<<Char({"+", "-"}), Rule("SelectorText")>>)), Add("modifier", <<>>, TRUE)>>)
SelectorText ==
    Cat(<<Rule("SelectorPrefix"), Char({":"}), Rule("SelectorValue"), Opt(Cat(<<Char({":"}), Rule("SelectorValue")>>))>>)
SelectorPrefix ==
    Alt(<<Word(<<"package">>), Word(<<"mod", "ule">>), Word(<<"method">>), Word(<<"struct">>), Word(<<"f", "ield">>),
          Word(<<"f", "unc">>), Word(<<"type">>), Word(<<"path">>), Word(<<"all">>), Word(<<"var">>), Word(<<"pkg">>),
          Word(<<"mod">>), Word(<<"kind">>)>>)
SelectorValue ==
    Alt(<<Rule("Quoted"), Plus(Alt(<<Char(Letters \cup Digits \cup {".", "/", "*", "-"}), Cat(<<Char({"\\"}), Dot>>)>>))>>)

\* Mutant: a relation's name may be a field.
EntityFieldOfAny ==
    Cat(<<Text(Cat(<<Not(Cat(<<Rule("SelectorPrefix"), Char({":"})>>)), Rule("EntityName"), Char({":"}),
                     Alt(<<Rule("Quoted"), Plus(Rule("EntityChar"))>>)>>)),
          Add("entity_field", <<>>, TRUE)>>)

EntityField ==
    Cat(<<Text(Cat(<<Not(Cat(<<Rule("SelectorPrefix"), Char({":"})>>)), Rule("EntityName"), Char({":"}),
                     Not(Cat(<<Rule("RelationName"), Not(Rule("EntityChar"))>>)),
                     Alt(<<Rule("Quoted"), Plus(Rule("EntityChar"))>>)>>)),
          Add("entity_field", <<>>, TRUE)>>)
EntityName == Alt(<<Rule("Quoted"), Cat(<<Char(Letters \cup {"*"}), Star(Rule("EntityChar"))>>)>>)
EntityChar == Char(Letters \cup Digits \cup {"*", "-"})
RelationName == Alt(<<Word(<<"impl">>), Word(<<"inherits">>), Word(<<"method", "s">>), Word(<<"uses">>)>>)
Symbol ==
    Alt(<<Cat(<<Char({"\""}), Text(Rule("QuotedText")), Char({"\""}), Add("symbol", <<>>, TRUE)>>),
          Cat(<<Text(Cat(<<Char(Letters \cup {"*"}), Star(Char(Letters \cup Digits \cup {".", "/", "*", "-"}))>>)),
                Add("symbol", <<>>, TRUE)>>)>>)
Quoted == Cat(<<Char({"\""}), Rule("QuotedText"), Char({"\""})>>)
QuotedText == Star(Alt(<<Cat(<<Char({"\\"}), Dot>>), Cat(<<Not(Char({"\""})), Dot>>)>>))

Relation ==
    Alt(<<Rule("Transitive"), Rule("Implementers"), Rule("Inheritors"), Rule("Methods"), Rule("Uses"), Rule("Incoming"),
          Rule("Outgoing"), Rule("Definition"), Rule("Writes")>>)
Transitive == Cat(<<Word(<<"<", "<">>), Text(Star(Char(Digits))), Add("relation", <<"<", "<">>, TRUE)>>)
Implementers == Token("relation", <<":", "impl">>)
Inheritors == Token("relation", <<":", "inherits">>)
Methods == Token("relation", <<":", "method", "s">>)
Uses == Token("relation", <<":", "uses">>)
Incoming == Token("relation", <<"<">>)
Outgoing == Token("relation", <<">">>)
Definition == Token("relation", <<"=">>)
Writes == Token("relation", <<"~w">>)
Filter == Alt(<<Rule("RoleFilter"), Rule("ValueFilter")>>)
RoleFilter == Cat(<<Text(Word(<<"~w">>)), Add("filter", <<>>, TRUE)>>)
ValueFilter ==
    Cat(<<Text(Alt(<<Word(<<"-", "f">>), Word(<<"+", "pkg">>), Word(<<"-", "pkg">>)>>)), Add("filter", <<>>, TRUE),
          Rule("Spacing"), Rule("Value")>>)
Value == Cat(<<Text(Plus(Char(Letters \cup Digits \cup {".", "/", "*", "-"}))), Add("value", <<>>, TRUE)>>)
PathStep == Cat(<<Rule("PathOperator"), Gap, Rule("Primary")>>)
PathOperator == Cat(<<Word(<<">", ">">>), Text(Star(Char(Digits))), Add("path", <<">", ">">>, TRUE)>>)
UnionOperator == Token("or", <<"|">>)
IntersectionOperator == Token("and", <<"&">>)
Open == Token("open", <<"(">>)
Close == Token("close", <<")">>)

Grammar ==
    [Set |-> Set, Intersection |-> Intersection, Chain |-> Chain, Primary |-> Primary, Step |-> Step, Selector |-> Selector,
     Modifier |-> Modifier, SelectorText |-> SelectorText, SelectorPrefix |-> SelectorPrefix, SelectorValue |-> SelectorValue,
     EntityField |-> EntityField, EntityName |-> EntityName, EntityChar |-> EntityChar, RelationName |-> RelationName,
     Symbol |-> Symbol, Quoted |-> Quoted, QuotedText |-> QuotedText, Relation |-> Relation, Transitive |-> Transitive,
     Implementers |-> Implementers, Inheritors |-> Inheritors, Methods |-> Methods, Uses |-> Uses,
     Incoming |-> Incoming, Outgoing |-> Outgoing, Definition |-> Definition, Writes |-> Writes,
     Filter |-> Filter, RoleFilter |-> RoleFilter, ValueFilter |-> ValueFilter, Value |-> Value, PathStep |-> PathStep,
     PathOperator |-> PathOperator, UnionOperator |-> UnionOperator, IntersectionOperator |-> IntersectionOperator,
     Open |-> Open, Close |-> Close, Spacing |-> Spacing]

-----------------------------------------------------------------------------
(* Matching: a failure gives back the position and, when keep is set, as   *)
(* the generated parser does, none of the tokens.                          *)

At(s, i) == IF i <= Len(s) THEN s[i] ELSE End

Back(b, from, keep) == [b EXCEPT !.ok = FALSE, !.at = from.at, !.tokens = IF keep THEN @ ELSE from.tokens]

RECURSIVE Match(_, _, _, _), MatchEach(_, _, _, _, _), MatchFirst(_, _, _, _, _)

Match(e, s, b, keep) ==
    CASE e.op = "char" -> IF At(s, b.at) \in e.atoms THEN [b EXCEPT !.at = @ + 1] ELSE [b EXCEPT !.ok = FALSE]
      [] e.op = "word" -> IF IsPrefix(e.atoms, SubSeq(s, b.at, Len(s))) THEN [b EXCEPT !.at = @ + Len(e.atoms)] ELSE [b EXCEPT !.ok = FALSE]
      [] e.op = "dot" -> IF At(s, b.at) # End THEN [b EXCEPT !.at = @ + 1] ELSE [b EXCEPT !.ok = FALSE]
      [] e.op = "cat" -> LET m == MatchEach(e.of, 1, s, b, keep) IN IF m.ok THEN m ELSE Back(m, b, keep)
      [] e.op = "alt" -> MatchFirst(e.of, 1, s, b, keep)
      [] e.op = "star" -> LET m == Match(e.of, s, b, keep) IN IF m.ok THEN Match(e, s, m, keep) ELSE [Back(m, b, keep) EXCEPT !.ok = TRUE]
      [] e.op = "not" -> LET m == Match(e.of, s, b, keep) IN [Back(m, b, keep) EXCEPT !.ok = ~m.ok]
      [] e.op = "rule" -> Match(Grammar[e.name], s, b, keep)
      [] e.op = "text" -> LET m == Match(e.of, s, b, keep) IN IF m.ok THEN [m EXCEPT !.text = SubSeq(s, b.at, m.at - 1)] ELSE Back(m, b, keep)
      [] e.op = "add" -> [b EXCEPT !.tokens = Append(@, <<e.kind, e.prefix \o (IF e.with THEN b.text ELSE <<>>)>>)]

MatchEach(of, i, s, b, keep) ==
    IF i > Len(of) \/ ~b.ok THEN b ELSE MatchEach(of, i + 1, s, Match(of[i], s, b, keep), keep)

MatchFirst(of, i, s, b, keep) ==
    LET m == Match(of[i], s, b, keep)
    IN  IF m.ok \/ i = Len(of) THEN m ELSE MatchFirst(of, i + 1, s, [Back(m, b, keep) EXCEPT !.ok = TRUE], keep)

Matched(s, keep) == Match(Query, s, [ok |-> TRUE, at |-> 1, tokens |-> <<>>, text |-> <<>>], keep)

-----------------------------------------------------------------------------
(* Selectors (selector_glob.go).                                           *)

\* splitSelector: at the colons outside quotes and escapes; <<>> if it cannot.
SplitSelector(value) ==
    LET Next(b, c) ==
            CASE b.failed -> b
              [] b.escape -> [b EXCEPT !.escape = FALSE, !.part = Append(@, c)]
              [] c = ":" /\ ~b.quoted -> [b EXCEPT !.parts = Append(@, b.part), !.part = <<>>, !.closed = FALSE]
              [] b.closed -> [b EXCEPT !.failed = TRUE]
              [] c = "\\" -> [b EXCEPT !.escape = TRUE, !.part = Append(@, c)]
              [] c = "\"" /\ b.quoted -> [b EXCEPT !.quoted = FALSE, !.closed = TRUE]
              [] c = "\"" /\ b.part = <<>> -> [b EXCEPT !.quoted = TRUE]
              [] c = "\"" -> [b EXCEPT !.failed = TRUE]
              [] OTHER -> [b EXCEPT !.part = Append(@, c)]
        Parts(end) == IF end.failed \/ end.quoted \/ end.escape THEN <<>> ELSE Append(end.parts, end.part)
    IN  Parts(FoldLeft(Next, [parts |-> <<>>, part |-> <<>>, quoted |-> FALSE, closed |-> FALSE, escape |-> FALSE, failed |-> FALSE], value))

Wild(p) == \E i \in DOMAIN p : p[i] = "*" /\ (i = 1 \/ p[i - 1] # "\\")

\* compileGlob: no empty segment, and no two stars side by side in one.
Segments(p) ==
    FoldLeft(LAMBDA r, c : IF c = "/" THEN Append(r, <<>>) ELSE [r EXCEPT ![Len(r)] = Append(@, c)], <<<<>>>>, p)
GlobCompiles(p) ==
    \A segment \in ToSet(Segments(p)) :
        /\ segment # <<>>
        /\ segment = <<"*", "*">> \/ \A j \in 1 .. Len(segment) - 1 : ~(segment[j] = "*" /\ segment[j + 1] = "*")

\* globLiteral, without escapes.
Unescaped(p) ==
    FoldLeft(LAMBDA b, c : IF c = "\\" /\ ~b.escape THEN [b EXCEPT !.escape = TRUE] ELSE [text |-> Append(b.text, c), escape |-> FALSE],
             [text |-> <<>>, escape |-> FALSE], p).text

SelectorOf(kind, pattern, module, of) == [kind |-> "selector", of |-> kind, pattern |-> pattern, module |-> module, owner |-> of]

SelectorFrom(parts) ==
    LET three == Len(parts) = 3
    IN  CASE Len(parts) \notin {2, 3} -> Invalid
          [] parts[2] = <<>> \/ (three /\ parts[3] = <<>>) -> Invalid
          [] \E i \in 2 .. Len(parts) : ~GlobCompiles(parts[i]) -> Invalid
          [] parts[1] = <<"kind">> ->
                IF Wild(parts[2]) THEN Invalid
                ELSE SelectorOf(parts[1], IF three THEN parts[3] ELSE <<"*">>, <<>>, Unescaped(parts[2]))
          [] three /\ parts[1] # <<"pkg">> -> Invalid
          [] three -> SelectorOf(parts[1], parts[3], parts[2], <<>>)
          [] OTHER -> SelectorOf(parts[1], parts[2], <<>>, <<>>)

ParseSelector(value) == SelectorFrom(SplitSelector(value))

EntityFieldFrom(parts) ==
    IF Len(parts) # 2 \/ \E part \in ToSet(parts) : part = <<>> \/ ~GlobCompiles(part) THEN Invalid
    ELSE SelectorOf(<<"f", "ield">>, parts[2], <<>>, parts[1])

ParseEntityField(value) == EntityFieldFrom(SplitSelector(value))

\* validateSymbolPattern
SymbolValid(p) ==
    /\ p # <<>> /\ Last(p) # "." /\ GlobCompiles(p)
    /\ \A i \in 1 .. Len(p) - 1 : ~(p[i] = "." /\ p[i + 1] = ".")

\* QuoteSelectorValue
Plain == Letters \cup Digits \cup {".", "/", "-"}
QuoteSelectorValue(literal) ==
    IF literal # <<>> /\ \A i \in DOMAIN literal : literal[i] \in Plain THEN literal
    ELSE <<"\"">> \o FoldLeft(LAMBDA r, c : IF c \in {"\\", "\"", "*"} THEN r \o <<"\\", c>> ELSE Append(r, c), <<>>, literal) \o <<"\"">>

-----------------------------------------------------------------------------
(* The expression parser (parser.go).  It is at token i, with expression e *)
(* so far; an invalid one ends it.                                         *)

KindAt(t, i) == IF i <= Len(t) THEN t[i][1] ELSE End

RECURSIVE Level(_, _, _), LevelRest(_, _, _), ChainRest(_, _), Modifiers(_, _), Filters(_, _)

Stop(i) == [i |-> i, e |-> Invalid]

\* primary
Operand(t, i) ==
    CASE KindAt(t, i) = "selector" -> [i |-> i + 1, e |-> ParseSelector(t[i][2])]
      [] KindAt(t, i) = "entity_field" -> [i |-> i + 1, e |-> ParseEntityField(t[i][2])]
      [] KindAt(t, i) = "symbol" -> [i |-> i + 1, e |-> IF SymbolValid(t[i][2]) THEN [kind |-> "symbol", symbol |-> t[i][2]] ELSE Invalid]
      [] KindAt(t, i) = "open" -> LET inner == Level(1, t, i + 1)
                                  IN  IF inner.e # Invalid /\ KindAt(t, inner.i) = "close" THEN [inner EXCEPT !.i = @ + 1] ELSE Stop(i)
      [] OTHER -> Stop(i)

\* modifiers: gathered on one expression.
Modifiers(t, p) ==
    IF p.e = Invalid \/ KindAt(t, p.i) # "modifier" THEN p
    ELSE LET value == t[p.i][2]
             selector == ParseSelector(Tail(value))
             one == [include |-> Head(value) = "+", selector |-> selector]
         IN  IF selector = Invalid THEN Stop(p.i)
             ELSE Modifiers(t, [i |-> p.i + 1,
                                e |-> IF p.e.kind = "modifier" THEN [p.e EXCEPT !.modifiers = Append(@, one)]
                                      ELSE [kind |-> "modifier", left |-> p.e, modifiers |-> <<one>>]])

\* relationDepth: one digit, 1 through 8.
Depth(value, fallback) ==
    LET digits == SelectSeq(value, LAMBDA c : c \in Digits)
    IN  CASE digits = <<>> -> fallback [] digits = <<"2">> -> 2 [] OTHER -> 0

\* The filters after a relation: the role filter has no value.
Filters(t, f) ==
    IF f.failed \/ KindAt(t, f.i) # "filter" THEN f
    ELSE IF t[f.i][2] = <<"~w">> THEN Filters(t, [f EXCEPT !.i = @ + 1, !.of = Append(@, <<<<"~w">>, <<>>>>)])
    ELSE IF KindAt(t, f.i + 1) # "value" THEN [f EXCEPT !.failed = TRUE]
    ELSE Filters(t, [f EXCEPT !.i = @ + 2, !.of = Append(@, <<t[f.i][2], t[f.i + 1][2]>>)])

\* A relation whose filters are f, and then its right operand, if one follows.
Starts == {"selector", "entity_field", "symbol", "open"}
RightOf(t, f) ==
    IF ~f.failed /\ KindAt(t, f.i) \in Starts THEN Modifiers(t, Operand(t, f.i))
    ELSE [i |-> f.i, e |-> IF f.failed THEN Invalid ELSE Absent]

Related(left, relation, depth, f, right) ==
    IF \/ right.e = Invalid
       \/ relation = <<"<", "<">> /\ depth = 0
       \/ relation = <<"=">> /\ right.e # Absent
    THEN Stop(right.i)
    ELSE [i |-> right.i, e |-> [kind |-> "relation", relation |-> relation, depth |-> depth,
                                filters |-> f.of, left |-> left, right |-> right.e]]

RelatedAfter(t, p, value, f) ==
    LET transitive == IsPrefix(<<"<", "<">>, value)
    IN  Related(p.e, IF transitive THEN <<"<", "<">> ELSE value, IF transitive THEN Depth(value, 3) ELSE 0, f, RightOf(t, f))

ChainRest(t, p) ==
    IF p.e = Invalid \/ KindAt(t, p.i) # "relation" THEN p
    ELSE ChainRest(t, RelatedAfter(t, p, t[p.i][2], Filters(t, [i |-> p.i + 1, of |-> <<>>, failed |-> FALSE])))

\* A union joins intersections and an intersection chains, each to the left.
Joins == <<[token |-> "or", kind |-> "union"], [token |-> "and", kind |-> "intersection"]>>

Level(n, t, i) ==
    IF n > Len(Joins) THEN ChainRest(t, Modifiers(t, Operand(t, i))) ELSE LevelRest(n, t, Level(n + 1, t, i))

LevelRest(n, t, p) ==
    IF p.e = Invalid \/ KindAt(t, p.i) # Joins[n].token THEN p
    ELSE LET right == Level(n + 1, t, p.i + 1)
         IN  IF right.e = Invalid THEN right
             ELSE LevelRest(n, t, [i |-> right.i, e |-> [kind |-> Joins[n].kind, left |-> p.e, right |-> right.e]])

\* expression: one path at most, of the whole expression.
Whole(t, p) == IF p.i = Len(t) + 1 THEN p.e ELSE Invalid

PathTo(t, left, right, depth) ==
    IF right.e = Invalid \/ depth = 0 THEN Invalid
    ELSE Whole(t, [i |-> right.i, e |-> [kind |-> "path", left |-> left, right |-> right.e, depth |-> depth]])

ExpressionAfter(t, left) ==
    IF left.e # Invalid /\ KindAt(t, left.i) = "path" THEN PathTo(t, left.e, Level(1, t, left.i + 1), Depth(t[left.i][2], 8))
    ELSE Whole(t, left)

Expression(t) == ExpressionAfter(t, Level(1, t, 1))

\* Parse
Parse(s) ==
    LET Of(m) == IF m.ok THEN Expression(m.tokens) ELSE Invalid
    IN  Of(Matched(s, TRUE))

-----------------------------------------------------------------------------
(* Writing an expression, as its readers would.                            *)

RECURSIVE Written(_), WrittenChain(_), WrittenOperand(_), WrittenModifiers(_)

Parens(s) == <<"(">> \o s \o <<")">>
WrittenSelector(e) ==
    CASE e.owner # <<>> /\ e.of = <<"f", "ield">> -> e.owner \o <<":">> \o e.pattern
      [] e.of = <<"kind">> -> e.of \o <<":">> \o e.owner \o <<":">> \o e.pattern
      [] OTHER -> e.of \o <<":">> \o (IF e.module = <<>> THEN <<>> ELSE e.module \o <<":">>) \o e.pattern

WrittenPrimary(e) == CASE e.kind = "symbol" -> e.symbol [] e.kind = "selector" -> WrittenSelector(e) [] OTHER -> Parens(Written(e))

WrittenModifiers(e) ==
    FoldLeft(LAMBDA s, one : s \o <<" ", IF one.include THEN "+" ELSE "-">> \o WrittenSelector(one.selector), WrittenPrimary(e.left), e.modifiers)

WrittenOperand(e) == IF e.kind = "modifier" THEN WrittenModifiers(e) ELSE WrittenPrimary(e)

WrittenFilters(filters) ==
    FoldLeft(LAMBDA s, f : s \o <<" ">> \o f[1] \o (IF f[2] = <<>> THEN <<>> ELSE <<" ">> \o f[2]), <<>>, filters)

WrittenChain(e) ==
    CASE e.kind = "relation" ->
            (IF e.left.kind = "relation" /\ e.relation = <<"~w">> THEN Parens(Written(e.left)) ELSE WrittenChain(e.left))
            \o (IF e.relation[1] = ":" /\ e.left.kind = "symbol" THEN <<>> ELSE <<" ">>) \o e.relation \o (IF e.depth = 2 THEN <<"2">> ELSE <<>>)
            \o WrittenFilters(e.filters) \o (IF e.right = Absent THEN <<>> ELSE <<" ">> \o WrittenOperand(e.right))
      [] OTHER -> WrittenOperand(e)

WrittenTerm(e) == IF e.kind = "intersection" THEN Written(e) ELSE WrittenChain(e)

Written(e) ==
    CASE e.kind = "intersection" -> WrittenTerm(e.left) \o <<"&">> \o WrittenChain(e.right)
      [] e.kind = "union" -> Written(e.left) \o <<"|">> \o WrittenTerm(e.right)
      [] e.kind = "path" -> Written(e.left) \o <<" ", ">", ">">> \o (IF e.depth = 2 THEN <<"2">> ELSE <<>>) \o Written(e.right)
      [] OTHER -> WrittenChain(e)

-----------------------------------------------------------------------------
(* Reading.                                                                *)

SyntaxInit ==
    /\ text \in {[kind |-> "text", of |-> s] : s \in Texts} \cup {[kind |-> "tree", of |-> e] : e \in Trees}
                \cup {[kind |-> "literal", of |-> s] : s \in Literals}
    /\ parse = Unread

Read ==
    /\ parse = Unread
    /\ parse' = Parse(CASE text.kind = "text" -> text.of
                        [] text.kind = "tree" -> Written(text.of)
                        [] text.kind = "literal" -> <<"f", "unc", ":">> \o QuoteSelectorValue(text.of))
    /\ UNCHANGED text

SyntaxSpec == SyntaxInit /\ [][Read]_syntaxVars

-----------------------------------------------------------------------------
(* Correctness.                                                            *)

\* An expression written with the parentheses it needs is read as itself:
\* precedence, association, modifiers, filters and operands are as written.
TreesReadBack == text.kind = "tree" /\ parse # Unread => parse = text.of

\* A quoted literal is one value of a selector, and its glob matches that
\* literal and nothing else.
LiteralsReadBack ==
    text.kind = "literal" /\ parse # Unread =>
        parse.kind = "selector" /\ ~Wild(parse.pattern) /\ Unescaped(parse.pattern) = text.of

\* A query that is accepted is read from the tokens of its own derivation:
\* what an abandoned alternative recorded is in none, since the expression
\* parser refuses all that have such tokens.
AcceptedAsDerived ==
    text.kind = "text" /\ parse # Unread /\ parse # Invalid =>
        Matched(text.of, TRUE).tokens = Matched(text.of, FALSE).tokens /\ Parse(Written(parse)) = parse

QueriesReadBack == TreesReadBack /\ LiteralsReadBack /\ AcceptedAsDerived

=============================================================================
