---------------------------- MODULE MCDiffInputs ----------------------------
(* What the diffs are given: pairs of snapshots, patches and documents. *)
EXTENDS Integers, Sequences, FiniteSets, SequencesExt

-----------------------------------------------------------------------------
(* Pairs of snapshots: a declaration edited, moved, hidden, retyped, dropped. *)
Pairing == INSTANCE SymbolPairs WITH Comparisons <- {}, PackageOf <- <<>>, Exported <- {}, compared <- {}, reported <- {}

Packages == <<"P", "P", "Q">>
ExportedNames == {"F"}
D(name) == [name |-> name, par |-> 1, sig |-> 1, hidden |-> 1, qualified |-> FALSE, body |-> 1, text |-> 1,
    proven |-> TRUE]
Edited == {D("F"), [D("F") EXCEPT !.sig = 2, !.text = 2], [D("F") EXCEPT !.hidden = 2], [D("F") EXCEPT !.body = 2,
    !.text = 2],
           [D("F") EXCEPT !.text = 2], [D("F") EXCEPT !.par = 2, !.text = 2], [D("F") EXCEPT !.qualified = TRUE,
               !.text = 2]}
Doc(coverage, symbols, imports) ==
    [coverage |-> coverage, symbols |-> IF coverage = "excluded" THEN <<>> ELSE symbols, imports |-> imports,
     bytes |-> <<[i \in DOMAIN symbols |-> <<symbols[i].name, symbols[i].par, symbols[i].text>>], imports>>]
Before1 == {Doc("indexed", <<D("F")>>, <<1>>), Doc("indexed", <<D("F"), D("f")>>, <<1>>), Doc("partial",
    <<[D("F") EXCEPT !.proven = FALSE]>>, <<1>>)}
After1 == {Doc("indexed", <<e>>, <<1>>) : e \in Edited}
          \cup {Doc("syntax", <<D("F")>>, <<1>>), Doc("indexed", <<[D("F") EXCEPT !.body = 2], D("f")>>, <<2>>),
                Doc("indexed", <<>>, <<1>>), Doc("excluded", <<D("F")>>, <<1>>)}
Before2 == {Doc("indexed", <<D("f")>>, <<>>)}
After2 == {Doc("indexed", sy, <<>>) : sy \in {<<>>, <<D("f")>>, <<[D("F") EXCEPT !.body = 2, !.text = 2]>>}}
After3 == {Doc("indexed", <<e>>, <<>>) : e \in {D("F"), [D("F") EXCEPT !.qualified = TRUE, !.text = 2],
    [D("F") EXCEPT !.sig = 2]}}
SidesOf(one, two, three) ==
    {f \in UNION {[S -> one \cup two \cup three] : S \in SUBSET (1 .. 3)} :
        /\ 1 \in DOMAIN f => f[1] \in one
        /\ 2 \in DOMAIN f => f[2] \in two
        /\ 3 \in DOMAIN f => f[3] \in three}
Unique(docs) ==
    \A p, q \in DOMAIN docs : \A i \in DOMAIN docs[p].symbols, j \in DOMAIN docs[q].symbols :
        docs[p].symbols[i].name = docs[q].symbols[j].name /\ docs[p].symbols[i].par = docs[q].symbols[j].par /\ Packages[p] = Packages[q]
           => <<p, i>> = <<q, j>>
Olds == {d \in SidesOf(Before1, Before2, {Doc("indexed", <<D("F")>>, <<>>)}) : Unique(d)}
News == {d \in SidesOf(After1, After2, After3) : Unique(d)}
Asked(o, n, st, v) == [documents |-> <<o, n>>, stat |-> st, visibility |-> v, changeTypes |-> Pairing!Classes,
    unreadable |-> {}]
\* Half of the comparisons count lines, the others list what is exported.
Base == {Asked(o, n, FALSE, "exported") : o \in {o \in Olds : 2 \in DOMAIN o}, n \in News}
        \cup {Asked(o, n, TRUE, "all") : o \in {o \in Olds : 2 \notin DOMAIN o}, n \in News}

-----------------------------------------------------------------------------
(* Patches for PatchReader: every kind of section, alone and followed.     *)

Git(path) == [kind |-> "git", first |-> "d", path |-> path]
Index(o, n) == [kind |-> "index", first |-> "i", old |-> o, new |-> n]
Header(kind) == [kind |-> kind, first |-> "x"]
OldLine(path) == [kind |-> "old", first |-> "-", path |-> path]
NewLine(path) == [kind |-> "new", first |-> "+", path |-> path]
HunkLineOf(o, n) == [kind |-> "hunk", first |-> "@", old |-> o, new |-> n]
Body(c) == [kind |-> "body", first |-> c]
File(status, op, np, ob, nb) == <<[status |-> status, oldPath |-> op, newPath |-> np, oldBlob |-> ob,
    newBlob |-> nb]>>
Hunks == {<<HunkLineOf(1, 1), Body("-"), Body("+")>>,
          <<HunkLineOf(1, 1), OldLine("x"), NewLine("x")>>,
          <<HunkLineOf(2, 1), Body(" "), OldLine("")>>,
          <<HunkLineOf(0, 1), NewLine("x"), Body("\\")>>}
Edits(p) == {[lines |-> <<Git(p), Index("b1", "b2"), OldLine(p), NewLine(p)>> \o h, file |-> File("modified", p, p,
    "b1", "b2"), refused |-> FALSE] : h \in Hunks}
Others(p, q) ==
    {[lines |-> <<Git(p), Header("newFile"), Index("", "b2"), OldLine(""), NewLine(p), HunkLineOf(0, 1), Body("+")>>,
        file |-> File("added", "", p, "", "b2"), refused |-> FALSE],
     [lines |-> <<Git(p), Header("newFile"), Index("", "b2")>>, file |-> File("added", "", p, "", "b2"),
         refused |-> FALSE],
     [lines |-> <<Git(p), Header("deletedFile"), Index("b1", ""), OldLine(p), NewLine(""), HunkLineOf(1, 0),
         OldLine("y")>>, file |-> File("removed", p, "", "b1", ""), refused |-> FALSE],
     [lines |-> <<Git(p), Header("mode"), Header("mode")>>, file |-> <<>>, refused |-> FALSE],
     [lines |-> <<Git(p), Header("mode"), Header("mode"), Index("b1", "b2"), OldLine(p), NewLine(p), HunkLineOf(1, 0),
         Body("-")>>, file |-> File("modified", p, p, "b1", "b2"), refused |-> FALSE],
     [lines |-> <<Git(""), [kind |-> "renameFrom", first |-> "r", path |-> p], [kind |-> "renameTo", first |-> "r",
         path |-> q], Index("b1", "b2"), OldLine(p), NewLine(q), HunkLineOf(1, 1), Body("-"), Body("+")>>,
         file |-> File("modified", p, q, "b1", "b2"), refused |-> FALSE],
     [lines |-> <<Git(""), [kind |-> "renameFrom", first |-> "r", path |-> p], [kind |-> "renameTo", first |-> "r",
         path |-> q]>>, file |-> <<>>, refused |-> TRUE],
     [lines |-> <<Git(""), Header("copy")>>, file |-> <<>>, refused |-> TRUE],
     [lines |-> <<Header("combined")>>, file |-> <<>>, refused |-> TRUE],
     [lines |-> <<Git(p), Index("b1", "b2"), OldLine(p), NewLine(p), HunkLineOf(2, 1), Body("-"), Body("+")>>,
         file |-> <<>>, refused |-> TRUE]}
SectionsOf(p, q) == Edits(p) \cup Others(p, q)
PatchSet == {<<s>> : s \in SectionsOf("p", "q")} \cup {<<s, t>> : s \in SectionsOf("p", "q"), t \in SectionsOf("r",
    "s")}

-----------------------------------------------------------------------------
(* Documents for NodeDiff: every kind of node that holds others.           *)
Diffing == INSTANCE NodeDiff WITH Documents <- {}, before <- {}, edit <- {}, after <- {}

None == <<>>
Leaf(kind, name, vis, pub, priv, own) == [kind |-> kind, name |-> name, visibility |-> vis, public |-> pub,
    private |-> priv, own |-> own, groups |-> <<>>]
Groups(kind, given) == [g \in Range(Diffing!GroupsOf(kind)) |-> IF g \in DOMAIN given THEN given[g] ELSE <<>>]
Holder(kind, name, vis, own, given) == [kind |-> kind, name |-> name, visibility |-> vis, public |-> 1, private |-> 1,
    own |-> own, groups |-> Groups(kind, given)]
Fields(v) == <<Leaf("field", 1, "public", 1, 1, None), Leaf("field", 2, v, 2, 1, None), Leaf("field", 3, "public", 3,
    1, None)>>
Methods(v, d) == <<Leaf("method", 2, v, 1, 1, <<<<1, 2>>>>), Leaf("method", 1, "public", d, 1, None)>>
TypeOf(name, v, fv, mv, d) == Holder("type", name, v, None, [variables |-> Fields(fv), methods |-> Methods(mv, d),
    constructor |-> <<Leaf("method", 3, "na", 5, 1, <<<<3>>>>)>>])
Table == Holder("table", 4, "na", <<<<1, 2>>>>, [columns |-> <<Leaf("column", 3, "na", 1, 1, None), Leaf("column", 1,
    "na", 2, 1, None), Leaf("column", 2, "na", 3, 1, None)>>,
           indexes |-> <<Leaf("index", 2, "na", 0, 1, None), Leaf("index", 1, "na", 0, 2, None)>>,
               triggers |-> <<Leaf("method", 5, "na", 6, 1, <<<<4>>>>)>>])
Record == Holder("record", 5, "na", None, [fields |-> <<Leaf("field", 2, "na", 7, 1, None), Leaf("field", 1,
    "private", 8, 1, None)>>])
Package(ts) == Holder("package", 6, "na", None, [types |-> ts, records |-> <<Record>>, tables |-> <<Table>>,
    functions |-> <<Leaf("method", 7, "public", 10, 1, <<<<5>>>>)>>,
           packageVariables |-> <<Leaf("field", 8, "private", 11, 1, None)>>, initFunctions |-> <<Leaf("method", 8,
               "na", 12, 1, <<<<6>>>>)>>])
Docs == {Package(<<TypeOf(1, v[1], v[2], v[3], v[4])>>) :
             v \in {<<"public", "private", "public", 1>>, <<"public", "public", "private", 4>>, <<"private", "public", "public", 4>>}}
        \cup {Table, Record, Holder("module", 1, "na", None,
                [packages |-> <<Package(<<TypeOf(1, "public", "private", "public", 4)>>)>>])}
=============================================================================
