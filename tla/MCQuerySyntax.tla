---------------------------- MODULE MCQuerySyntax ----------------------------
(* Texts, expressions and literals for QuerySyntax. *)
EXTENDS QuerySyntax

Alphabet == {"f", "unc", "mod", "impl", ":", "<", ">", "|", "(", ")", "-", " ", "2"}
Short == UNION {[1 .. n -> Alphabet] : n \in 1 .. 3}
Tails == {<<"<">>, <<">">>, <<">", ">">>, <<"-", "f">>, <<"-", "f", "unc", ":", "x">>, <<" ", "x">>, <<"~w">>, <<"(",
    "x", ")">>, <<":", "impl">>, <<"|", "f">>, <<"&", "x">>, <<"=">>, <<"<", "<", "9">>, <<".">>, <<"-", "pkg", " ">>}
Heads == {<<"<">>, <<">", ">">>, <<"-", "f">>, <<"-", "f", "unc", ":", "x">>, <<"~w">>, <<":", "impl">>, <<"|", "f">>}
Long == {<<"f">> \o a \o b \o c : a \in Heads, b, c \in Tails}
TheTexts == Short \cup Long
Name(s) == [kind |-> "symbol", symbol |-> s]
A == {Name(<<"f">>), SelectorOf(<<"f", "unc">>, <<"x">>, <<>>, <<>>)}
B == A \cup {SelectorOf(<<"f", "ield">>, <<"impl", "x">>, <<>>, <<"x">>), SelectorOf(<<"pkg">>, <<"x", "/", "*",
    "*">>, <<"*">>, <<>>), SelectorOf(<<"kind">>, <<"*">>, <<>>, <<"x">>), SelectorOf(<<"mod", "ule">>, <<"x">>, <<>>,
    <<>>), SelectorOf(<<"f", "ield">>, <<"method", "s">>, <<>>, <<>>)}
Relate(l, rel, depth, fs, r) == [kind |-> "relation", relation |-> rel, depth |-> depth, filters |-> fs, left |-> l,
    right |-> r]
Modify(l, ms) == [kind |-> "modifier", left |-> l, modifiers |-> ms]
M(include) == [include |-> include, selector |-> SelectorOf(<<"f", "unc">>, <<"x">>, <<>>, <<>>)]
Pair(k, l, r) == [kind |-> k, left |-> l, right |-> r]
NoF == <<>>
Rels(L, R) == {Relate(l, rel, 0, fs, r) : l \in L, rel \in {<<"<">>, <<":", "impl">>, <<":", "method", "s">>,
    <<"~w">>}, fs \in {NoF, <<<<<<"-", "f">>, <<"x">>>>, <<<<"~w">>, <<>>>>>>}, r \in R \cup {Absent}}
   \cup {Relate(l, <<"=">>, 0, NoF, Absent) : l \in L} \cup {Relate(l, <<"<", "<">>, d, NoF, Absent) : l \in L,
       d \in {2, 3}}
Level1 == B \cup Rels(A, A) \cup {Modify(l, ms) : l \in A, ms \in {<<M(TRUE)>>, <<M(FALSE), M(TRUE)>>}}
    \cup {Pair(k, l, r) : k \in {"union", "intersection"}, l, r \in A}
Few == {Name(<<"f">>), Relate(Name(<<"f">>), <<"<">>, 0, NoF, Absent), Modify(Name(<<"f">>), <<M(FALSE)>>),
    Pair("union", Name(<<"f">>), Name(<<"x">>)), Pair("intersection", Name(<<"f">>), Name(<<"x">>)),
    Relate(Name(<<"f">>), <<">">>, 0, NoF, Name(<<"x">>))}
\* A modifier of a modified expression is one more modifier of it.
Level2 == Level1 \cup Rels(Level1, {Name(<<"x">>)}) \cup Rels(Few, Few)
    \cup {Modify(l, <<M(TRUE)>>) : l \in {l \in Level1 : l.kind # "modifier"}}
    \cup {Pair(k, l, r) : k \in {"union", "intersection"}, l, r \in Few \cup Rels(A, {})}
TheTrees == Level2 \cup {[kind |-> "path", left |-> l, right |-> r, depth |-> d] : l, r \in Few, d \in {2, 8}}
TheLiterals == UNION {[1 .. n -> {"x", "\"", "\\", "*", ":", " ", "("}] : n \in 1 .. 3}
==============================================================================
