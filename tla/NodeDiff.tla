------------------------------ MODULE NodeDiff ------------------------------
(***************************************************************************)
(* The fingerprints of a node in three layers (fingerprint.go,             *)
(* fingerprint_layers.go, fingerprint_table.go) and the structural diffs   *)
(* that rest on them (package diff).                                       *)
(*                                                                         *)
(* A node is [kind, name, visibility, public, private, own, groups]: the   *)
(* facts of each layer, its body or view definition as <<statements>>, or  *)
(* <<>> without one, and its members by group.  A digest is what it        *)
(* digests.  Every node is in one file; names and facts are numbers; the   *)
(* order of a kind stands for the order of its text.                       *)
(***************************************************************************)
EXTENDS Integers, Sequences, FiniteSets, SequencesExt

CONSTANTS
    Documents      \* the nodes that are edited

VARIABLES
    before,        \* the node as it was
    edit,          \* the edit made: [what, at]; what is "none" before
    after          \* the node as it is

diffVars == <<before, edit, after>>

-----------------------------------------------------------------------------
(* How a container lays its groups of members out.                         *)

Kinds == <<"module", "package", "type", "record", "table", "method", "field", "column", "index">>
KindOrder(kind) == CHOOSE i \in DOMAIN Kinds : Kinds[i] = kind

GroupsOf(kind) ==
    CASE kind = "module" -> <<"packages">>
      [] kind = "package" -> <<"types", "records", "tables", "functions", "packageVariables", "initFunctions">>
      [] kind = "type" -> <<"variables", "constructor", "methods", "types">>
      [] kind = "record" -> <<"fields">>
      [] kind = "table" -> <<"columns", "indexes", "triggers">>
      [] OTHER -> <<>>

Declared == {"variables", "constructor", "fields"}         \* in source order
OrderedPrivately == {"columns"}                            \* a set in public
PrivateOnly == {"initFunctions", "indexes", "triggers"}    \* in no public layer
StructLike == {"type", "record"}

IsPublic(n) == n.visibility # "private"

-----------------------------------------------------------------------------
(* Fingerprint.                                                            *)

Facts(n, layer) ==
    CASE n.kind = "index" /\ layer = "public" -> <<>>
      [] GroupsOf(n.kind) = <<>> /\ layer = "private" -> <<n.visibility, n.public, n.private>>
      [] OTHER -> <<n.visibility, n.public>>

\* By kind, then by name: a stable sort of the members' lines.
Sorted(lines) ==
    SortSeq(lines, LAMBDA a, b : KindOrder(a[1]) < KindOrder(b[1]) \/ (a[1] = b[1] /\ a[2] < b[2]))

Digest(layers, layer) == IF layer = "public" THEN layers.public ELSE <<layers.public, layers.private>>

\* A member m, with its layers, in its container: inline, and by its digest
\* when it has members.
MemberLine(m, layer) ==
    <<m.node.kind, m.node.name, Facts(m.node, layer),
      IF m.layers[layer].members = <<>> THEN <<>> ELSE Digest(m.layers, layer)>>

\* The lines of a group in a layer.
LinesOf(members, layer) == [i \in DOMAIN members |-> MemberLine(members[i], layer)]

InOrder(lines, g, layer) == IF g \in Declared \/ (g \in OrderedPrivately /\ layer = "private") THEN lines ELSE Sorted(lines)

MemberLines(members, g, layer) ==
    InOrder(LinesOf(SelectSeq(members, LAMBDA m : layer = "private" \/ (g \notin PrivateOnly /\ IsPublic(m.node))), layer),
            g, layer)

\* Mutant: hidden members are left out without a mark.
OpaqueUnmarked(n) == <<>>

\* What a struct-like container shows of the members it hides.
Opaque(n) ==
    IF n.kind \in StructLike /\ \E g \in Range(GroupsOf(n.kind)) : \E m \in Range(n.groups[g]) : ~IsPublic(m)
    THEN <<"opaque">> ELSE <<>>

\* The content of the members that have some, keyed by member and sorted.
ComposeContent(own, members) ==
    LET Content(m) == <<m.node.kind, m.node.name, m.layers.content>>
        filled == SelectSeq(members, LAMBDA m : m.layers.content # <<>>)
    IN  IF own = <<>> /\ filled = <<>> THEN <<>> ELSE <<own, Sorted([i \in DOMAIN filled |-> Content(filled[i])])>>

RECURSIVE LayersOf(_)
LayeredGroup(n, g) ==
    [j \in DOMAIN n.groups[g] |-> [node |-> n.groups[g][j], group |-> g, layers |-> LayersOf(n.groups[g][j])]]

GroupLines(members, groups, layer) ==
    FlattenSeq([i \in DOMAIN groups |-> MemberLines(SelectSeq(members, LAMBDA m : m.group = groups[i]), groups[i], layer)])

\* The layers of n over its groups of members, which have theirs.
LayersOver(n, groups, members) ==
    [public |-> [kind |-> n.kind, facts |-> Facts(n, "public"), members |-> GroupLines(members, groups, "public") \o Opaque(n)],
     private |-> [kind |-> n.kind, facts |-> Facts(n, "private"),
                  members |-> GroupLines(members, groups, "private") \o (IF groups = <<>> THEN <<>> ELSE <<<<"own", n.private>>>>)],
     content |-> ComposeContent(n.own, members)]

LayersOf(n) ==
    LET groups == GroupsOf(n.kind)
    IN  LayersOver(n, groups, <<>> \o FlattenSeq([i \in DOMAIN groups |-> LayeredGroup(n, groups[i])]))

Digested(layers) == [public |-> layers.public, private |-> Digest(layers, "private"), content |-> layers.content]

Fingerprint(n) == Digested(LayersOf(n))

Hash(n) == Fingerprint(n)

ChangedLayer(x, y) == IF x.public # y.public THEN "public" ELSE IF x.private # y.private THEN "private" ELSE "content"

-----------------------------------------------------------------------------
(* DiffNode.  A change is [kind, at, detail]; a symbol is the path of names *)
(* to a node and its kind.                                                 *)

Change(kind, at, detail) == [kind |-> kind, at |-> at, detail |-> detail]
Symbol(n, parent) == <<n.kind, Append(parent, n.name)>>

\* The groups GetChildren lists, and those whose members are diffed.
ChildGroups(kind) == SelectSeq(GroupsOf(kind), LAMBDA g : g # "packageVariables")
DiffedGroups(kind) == SelectSeq(ChildGroups(kind), LAMBDA g : g # "constructor")

\* A key repeated within a list pairs its occurrences in order.
PairByKey(b, a) ==
    LET Nth(s, i) == Cardinality({j \in 1 .. i : s[j].kind = s[i].kind /\ s[j].name = s[i].name})
    IN  {<<i, j>> \in (DOMAIN b) \X (DOMAIN a) : b[i].kind = a[j].kind /\ b[i].name = a[j].name /\ Nth(b, i) = Nth(a, j)}

RECURSIVE RunEndingAt(_, _)
Beats(length, other, earlier) == length > other \/ (length = other /\ earlier)

\* The end of the longest increasing run that ends at one of them, the earliest of those.
BestEnd(seq, ends) ==
    CHOOSE j \in ends : \A k \in ends : Beats(Cardinality(RunEndingAt(seq, j)), Cardinality(RunEndingAt(seq, k)), j <= k)

RunThrough(seq, i, lower) == IF lower = {} THEN {i} ELSE RunEndingAt(seq, BestEnd(seq, lower)) \cup {i}

RunEndingAt(seq, i) == RunThrough(seq, i, {j \in 1 .. i - 1 : seq[j] < seq[i]})

\* longestIncreasingSubsequence: ties keep the earliest-ending run.
Kept(seq) == IF seq = <<>> THEN {} ELSE RunEndingAt(seq, BestEnd(seq, DOMAIN seq))

\* What is outside the longest run that kept its order, each with its place.
Moved(order, kept) == SelectSeq([k \in DOMAIN order |-> <<k, order[k]>>], LAMBDA m : m[1] \notin kept)

\* The pairs in the order of the new side.
PairOrder(a, pairs) ==
    LET paired == SelectSeq([j \in DOMAIN a |-> j], LAMBDA j : \E p \in pairs : p[2] = j)
    IN  [k \in DOMAIN paired |-> CHOOSE p \in pairs : p[2] = paired[k]]

MovedChanges(moved, at) == [k \in DOMAIN moved |-> Change("moved", at, moved[k][2])]

MovedFrom(order, at) == MovedChanges(Moved(order, Kept([k \in DOMAIN order |-> order[k][1]])), at)

\* The columns of both sides that left the longest run that kept its order.
ReorderedColumns(b, a, at) == MovedFrom(PairOrder(a, PairByKey(b, a)), at)

\* Statements deleted and inserted around what both bodies keep in order; one
\* that is deleted once and inserted once has moved.
Inserted(b, a) == SelectSeq(a, LAMBDA s : s \notin Range(b))
MovedStatements(b, order, at) ==
    MovedChanges(Moved(order, Kept([k \in DOMAIN order |-> CHOOSE i \in DOMAIN b : b[i] = order[k]])), at)

DiffStatements(b, a, at) ==
    LET EachOf(kind, ss) == [k \in DOMAIN ss |-> Change(kind, at, "statement")]
    IN  MovedStatements(b, SelectSeq(a, LAMBDA s : s \in Range(b)), at)
        \o EachOf("deleted", Inserted(a, b)) \o EachOf("added", Inserted(b, a))

DiffBlocks(b, a, at) ==
    IF b = a THEN <<>>
    ELSE IF b = <<>> THEN <<Change("added", at, "body")>>
    ELSE IF a = <<>> THEN <<Change("deleted", at, "body")>>
    ELSE DiffStatements(b[1], a[1], at)

RECURSIVE Identity(_, _)
Identity(n, parent) ==
    <<Symbol(n, parent),
      [i \in DOMAIN ChildGroups(n.kind) |->
         LET members == n.groups[ChildGroups(n.kind)[i]]
         IN  [k \in DOMAIN members |-> Identity(members[k], Append(parent, n.name))]]>>

Modified(x, y, at) == IF x = y THEN <<>> ELSE <<Change("modified", at, ChangedLayer(x, y))>>

RECURSIVE NodeChanges(_, _, _, _, _)

MemberChanges(b, i, a, bp, ap, with) ==
    IF with = {} THEN <<Change("deleted", Symbol(b[i], bp), "member")>>
    ELSE NodeChanges(b[i], a[CHOOSE j \in with : TRUE], bp, ap, TRUE)

PairedChanges(b, a, bp, ap, pairs) ==
    LET added == SelectSeq([j \in DOMAIN a |-> j], LAMBDA j : \A p \in pairs : p[2] # j)
    IN  FlattenSeq([i \in DOMAIN b |-> MemberChanges(b, i, a, bp, ap, {j \in DOMAIN a : <<i, j>> \in pairs})])
        \o [k \in DOMAIN added |-> Change("added", Symbol(a[added[k]], ap), "member")]

\* members: paired by symbol, never by position or digest.
Members(b, a, bp, ap, walk) ==
    IF ~walk THEN <<>> ELSE PairedChanges(b, a, bp, ap, IF bp = ap THEN PairByKey(b, a) ELSE {})

\* contents: x and y are the fingerprints of the node, at its place.
NodeContents(b, a, bp, ap, walk, at, x, y) ==
    IF x = y /\ Identity(b, bp) = Identity(a, ap) THEN <<>>
    ELSE LET groups == DiffedGroups(a.kind)
         IN  (IF walk /\ b.name # a.name THEN <<Change("renamed", at, "node")>> ELSE <<>>)
             \o FlattenSeq([i \in DOMAIN groups |->
                   Members(b.groups[groups[i]], a.groups[groups[i]], Append(bp, b.name), Append(ap, a.name), walk)])
             \o (IF a.kind = "table" THEN ReorderedColumns(b.groups["columns"], a.groups["columns"], at) ELSE <<>>)
             \o (IF a.kind \in {"table", "method"} THEN DiffBlocks(b.own, a.own, at) ELSE <<>>)
             \o Modified(x, y, at)

\* node; walk is set by DiffNode, which goes into the members and reports the
\* node's own identity.
NodeChanges(b, a, bp, ap, walk) ==
    IF b.kind # a.kind THEN <<Change("replaced", Symbol(a, ap), "kind")>>
    ELSE NodeContents(b, a, bp, ap, walk, Symbol(a, ap), Hash(b), Hash(a))

DiffNode(b, a) == NodeChanges(b, a, <<>>, <<>>, TRUE)

-----------------------------------------------------------------------------
(* DiffTree: every node an entry, matched by symbol and then by digest.    *)

RECURSIVE Flatten(_, _)
Flatten(n, parent) ==
    LET groups == ChildGroups(n.kind)
        members == FlattenSeq([i \in DOMAIN groups |-> n.groups[groups[i]]])
    IN  <<[node |-> n, parent |-> parent, symbol |-> Symbol(n, parent), hash |-> Hash(n)]>>
        \o FlattenSeq([i \in DOMAIN members |-> Flatten(members[i], Append(parent, n.name))])

\* A key held once on each side, among the entries not matched yet.
MatchUnique(b, a, matches, key) ==
    LET openB == {i \in DOMAIN b : \A m \in matches : m[1] # i}
        openA == {j \in DOMAIN a : \A m \in matches : m[2] # j}
    IN  matches \cup {<<i, j>> \in openB \X openA :
                         /\ b[i][key] = a[j][key]
                         /\ \A k \in openB : b[k][key] = b[i][key] => k = i
                         /\ \A k \in openA : a[k][key] = a[j][key] => k = j}

Relocation(b, a) ==
    LET renamed == b.node.name # a.node.name
        moved == b.parent # a.parent
    IN  IF b.symbol = a.symbol THEN <<>>
        ELSE IF renamed /\ moved THEN <<Change("rename_move", a.symbol, "entry")>>
        ELSE IF renamed THEN <<Change("renamed", a.symbol, "entry")>>
        ELSE IF moved THEN <<Change("moved", a.symbol, "entry")>> ELSE <<>>

EntryChanges(x, y) == Relocation(x, y) \o NodeChanges(x.node, y.node, x.parent, y.parent, FALSE)

\* The entries of the old side that are matched, and those of a side that are not, in order.
MatchedEntries(b, matches) == SelectSeq([i \in DOMAIN b |-> i], LAMBDA i : \E m \in matches : m[1] = i)
UnmatchedEntries(side, entries, matches) == SelectSeq([i \in DOMAIN entries |-> i], LAMBDA i : \A m \in matches : m[side] # i)

MatchedChanges(b, a, matches, order) ==
    FlattenSeq([k \in DOMAIN order |-> EntryChanges(b[order[k]], a[(CHOOSE m \in matches : m[1] = order[k])[2]])])

UnmatchedChanges(kind, entries, order) == [k \in DOMAIN order |-> Change(kind, entries[order[k]].symbol, "entry")]

ReportMatches(b, a, matches) ==
    MatchedChanges(b, a, matches, MatchedEntries(b, matches))
    \o UnmatchedChanges("deleted", b, UnmatchedEntries(1, b, matches))
    \o UnmatchedChanges("added", a, UnmatchedEntries(2, a, matches))

\* relocations: the Moves and Renames options, together.
CompareEntries(b, a, same, relocations) ==
    ReportMatches(b, a, IF relocations THEN MatchUnique(b, a, same, "hash") ELSE same)

DiffEntries(b, a, relocations) == CompareEntries(b, a, MatchUnique(b, a, {}, "symbol"), relocations)

DiffTree(bs, as, relocations) == DiffEntries(Flatten(bs, <<>>), Flatten(as, <<>>), relocations)

-----------------------------------------------------------------------------
(* One edit of a document: of a node's facts, body, name or visibility, or *)
(* of where a group's last member stands in it.                            *)

RECURSIVE Positions(_)
Positions(n) ==
    {<<>>} \cup UNION {{<<<<g, i>>>> \o p : p \in Positions(n.groups[g][i])} :
                         <<g, i>> \in {<<g, i>> \in Range(GroupsOf(n.kind)) \X (1 .. 3) : i \in DOMAIN n.groups[g]}}

RECURSIVE NodeAt(_, _)
NodeAt(n, at) == IF at = <<>> THEN n ELSE NodeAt(n.groups[at[1][1]][at[1][2]], Tail(at))

RECURSIVE Put(_, _, _)
Put(n, at, m) ==
    IF at = <<>> THEN m ELSE [n EXCEPT !.groups[at[1][1]][at[1][2]] = Put(@, Tail(at), m)]

Parent(at) == Front(at)
Place(at) == Last(at)

\* The number 9 stands for a name, a fact and a statement used nowhere yet.
Edited(n, what, at) ==
    LET m == NodeAt(n, at)
        in == NodeAt(n, Parent(at))
        g == Place(at)[1]
        i == Place(at)[2]
        s == in.groups[g]
    IN  CASE what = "public" -> Put(n, at, [m EXCEPT !.public = 9])
          [] what = "private" -> Put(n, at, [m EXCEPT !.private = 9])
          [] what = "body" -> Put(n, at, [m EXCEPT !.own = <<<<9>> \o @[1]>>])
          [] what = "rename" -> Put(n, at, [m EXCEPT !.name = 9])
          [] what = "hide" -> Put(n, at, [m EXCEPT !.visibility = "private"])
          [] what = "raise" -> Put(n, Parent(at), [in EXCEPT !.groups[g] = InsertAt(Front(s), i, Last(s))])
          [] what = "remove" -> Put(n, Parent(at), [in EXCEPT !.groups[g] = RemoveAt(s, i)])

\* The edits a node admits: an index has no public facts, and only types,
\* methods and fields have a visibility.
Admits(n, what, at) ==
    LET m == NodeAt(n, at)
    IN  CASE what = "public" -> m.kind # "index"
          [] what = "body" -> m.own # <<>>
          [] what = "hide" -> m.kind \in {"type", "method", "field"} /\ IsPublic(m)
          [] what = "remove" -> at # <<>>
          [] what = "raise" -> at # <<>> /\ Place(at)[2] < Len(NodeAt(n, Parent(at)).groups[Place(at)[1]])
          [] OTHER -> TRUE

DiffInit ==
    /\ before \in Documents
    /\ edit = [what |-> "none", at |-> <<>>]
    /\ after = before

EditNode ==
    /\ edit.what = "none"
    /\ \E at \in Positions(before), what \in {"public", "private", "body", "rename", "hide", "raise", "remove"} :
          /\ Admits(before, what, at)
          /\ edit' = [what |-> what, at |-> at]
          /\ after' = Edited(before, what, at)
    /\ UNCHANGED before

DiffSpec == DiffInit /\ [][EditNode]_diffVars

-----------------------------------------------------------------------------
(* Correctness.                                                            *)

\* Can a consumer of the root see the node at this position?
Visible(at) ==
    \A k \in DOMAIN at : at[k][1] \notin PrivateOnly /\ IsPublic(NodeAt(before, SubSeq(at, 1, k)))

HasContent(n) == \E p \in Positions(n) : NodeAt(n, p).own # <<>>

\* Is the node the only one its struct-like container hides?
OnlyHidden(at) ==
    LET in == NodeAt(before, Parent(at))
        hidden == {<<g, i>> \in Range(GroupsOf(in.kind)) \X (1 .. 3) : i \in DOMAIN in.groups[g] /\ ~IsPublic(in.groups[g][i])}
    IN  in.kind \in StructLike /\ hidden = {Place(at)}

\* The layers of the root an edit changes.
LayersChanged ==
    LET at == edit.at
        in == Parent(at)
        g == Place(at)[1]
        passed == Place(at)[2] .. Len(NodeAt(before, in).groups[g]) - 1
        raised == <<g, Len(NodeAt(before, in).groups[g])>>
        node == NodeAt(before, at)
        public == CASE edit.what \in {"public", "hide"} -> Visible(at)
                    [] edit.what = "rename" -> at # <<>> /\ Visible(at)
                    [] edit.what = "remove" -> Visible(at) \/ (Visible(in) /\ OnlyHidden(at))
                    [] edit.what = "raise" -> g \in Declared /\ Visible(Append(in, raised)) /\ \E i \in passed : Visible(Append(in, <<g, i>>))
                    [] OTHER -> FALSE
        private == CASE edit.what \in {"public", "hide", "private", "remove"} -> TRUE
                     [] edit.what = "rename" -> at # <<>>
                     [] edit.what = "raise" -> g \in Declared \cup OrderedPrivately
                     [] OTHER -> FALSE
        content == edit.what = "body" \/ (edit.what \in {"rename", "remove"} /\ at # <<>> /\ HasContent(node))
    IN  (IF public THEN {"public"} ELSE {}) \cup (IF private THEN {"private"} ELSE {}) \cup (IF content THEN {"content"} ELSE {})

Differing(x, y) == {l \in {"public", "private", "content"} : x[l] # y[l]}

\* An edit anywhere in a document changes exactly the layers of the document
\* that show it: the public one when every container on the way shows the
\* node edited, the private one for every declared fact and order, the content
\* one for bodies; the order of an unordered group and the document's own name
\* are in none.
LayersFollowTheEdit ==
    edit.what # "none" => Differing(Fingerprint(before), Fingerprint(after)) = LayersChanged

Of(changes, kind) == SelectSeq(changes, LAMBDA c : c.kind = kind)

RECURSIVE NamesTo(_, _)
NamesTo(n, at) == <<n.name>> \o IF at = <<>> THEN <<>> ELSE NamesTo(n.groups[at[1][1]][at[1][2]], Tail(at))
SymbolAt(n, at) == <<NodeAt(n, at).kind, NamesTo(n, at)>>

\* A diff that is empty means that no layer and no name differs, and a change
\* of a node's facts or body is reported at that node and at every container
\* on the way to it, and nowhere else; below a constructor or a package's
\* variable DiffNode stops at the container, and DiffTree at the package.
EditsAreReported(changes, tree) ==
    LET Stop(groups) == {k \in DOMAIN edit.at : edit.at[k][1] \in groups}
        Way(groups) == {SymbolAt(before, SubSeq(edit.at, 1, k)) :
                          k \in {k \in 0 .. Len(edit.at) : \A j \in Stop(groups) : k < j}}
        Reported(cs) == {c.at : c \in Range(Of(cs, "modified"))}
    IN  /\ changes = <<>> <=> (LayersChanged = {} /\ ~(edit.what = "rename" /\ edit.at = <<>>))
        /\ edit.what \in {"public", "private", "body", "hide"} =>
              /\ Reported(changes) = Way({"constructor", "packageVariables"})
              /\ Reported(tree) = Way({"packageVariables"})
              /\ \A c \in Range(changes \o tree) : c.kind \in {"modified", "added"}
              /\ Len(Of(changes, "added")) = (IF edit.what = "body" /\ Stop({"constructor"}) = {} THEN 1 ELSE 0)

\* A renamed node, and all that it contains, is one rename and moves when no
\* two of them look alike, and additions and deletions that balance when some
\* do or when relocations are not asked for.  As few columns and statements as
\* can be are reported moved.
RelocationsBalance(tree, plain, whole) ==
    LET size == Cardinality({p \in Positions(NodeAt(before, edit.at)) : \A k \in DOMAIN p : p[k][1] # "packageVariables"})
        alike == \E i, j \in DOMAIN whole : i # j /\ whole[i].hash = whole[j].hash
        entries == \A k \in DOMAIN edit.at : edit.at[k][1] # "packageVariables"
        Count(changes, kind) == Len(Of(changes, kind))
    IN  /\ edit.what = "rename" /\ entries =>
              /\ Count(plain, "added") = size /\ Count(plain, "deleted") = size
              /\ Count(tree, "added") = Count(tree, "deleted")
              /\ ~alike => Count(tree, "renamed") = 1 /\ Count(tree, "added") = 0 /\ Count(tree, "moved") = size - 1
        /\ edit.what = "raise" /\ Place(edit.at)[1] = "columns" => Count(plain, "moved") = 1
        /\ edit.what = "remove" /\ entries =>
              Count(plain, "deleted") = size /\ Count(plain, "moved") = 0 /\ Count(tree, "added") = 0

ReportsAreRight(changes, tree, plain) ==
    EditsAreReported(changes, tree) /\ RelocationsBalance(tree, plain, Flatten(before, <<>>))

NodesDiffAsEdited ==
    /\ LayersFollowTheEdit
    /\ edit.what # "none" =>
          ReportsAreRight(DiffNode(before, after), DiffTree(before, after, TRUE), DiffTree(before, after, FALSE))

=============================================================================
