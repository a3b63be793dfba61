---------------------------- MODULE SymbolPairs ----------------------------
(***************************************************************************)
(* The symbol diff of two snapshots of one root (symboldiff/): which       *)
(* files changed, which documents the output needs read, how the           *)
(* declarations of the two sides pair, the class of every pair, the rows   *)
(* reported and the lines counted under each file.                         *)
(*                                                                         *)
(* A comparison is a record: side 1 is the old snapshot, side 2 the new    *)
(* one, and each is a function from the paths it serves to documents.  A   *)
(* declaration stands for one line of source, its extent.  Two documents   *)
(* with equal content have equal ids.                                      *)
(***************************************************************************)
EXTENDS Integers, Sequences, FiniteSets, SequencesExt

CONSTANTS
    Comparisons,   \* the pairs of snapshots that may be compared
    PackageOf,     \* the package of a path
    Exported       \* the names that are exported

VARIABLES
    compared,      \* the comparison a diff was asked for
    reported       \* what it answered: [failed, rows, files]

pairVars == <<compared, reported>>

Sides == {1, 2}
NoID == <<>>
Absent == [index |-> -1]
Pending == [failed |-> FALSE, rows |-> {}, files |-> <<>>]

Classes == {"added", "removed", "signature", "structure", "body", "format", "moved", "import"}

-----------------------------------------------------------------------------
(* Files, documents and declarations.                                      *)

SidePaths(c, s) == DOMAIN c.documents[s]

ChangedFiles(c) ==
    {p \in SidePaths(c, 1) \cup SidePaths(c, 2) :
        ~(p \in SidePaths(c, 1) \cap SidePaths(c, 2) /\ c.documents[1][p] = c.documents[2][p])}

Coverage(c, s, p) == c.documents[s][p].coverage

Excluded(c, p) == \E s \in Sides : p \in SidePaths(c, s) /\ Coverage(c, s, p) = "excluded"

KeyedPackages(c) ==
    {PackageOf[p] : p \in {p \in ChangedFiles(c) :
        \E s \in Sides : p \in SidePaths(c, s) /\ Coverage(c, s, p) \in {"syntax", "partial"}}}

KeyedFile(c, p) == PackageOf[p] \in KeyedPackages(c)

\* The canonical id of a declaration; a syntax document has none, and a
\* partial one only those it proved.
IDOf(c, s, p, d) ==
    IF Coverage(c, s, p) = "indexed" \/ (Coverage(c, s, p) = "partial" /\ d.proven)
    THEN <<PackageOf[p], d.name, d.par>>
    ELSE NoID

\* One symbol declared by one side of a file.
Entry(c, s, p, i) ==
    LET d == c.documents[s][p].symbols[i] IN
    [side |-> s, path |-> p, index |-> i, id |-> IDOf(c, s, p, d),
     key |-> <<PackageOf[p], d.name, d.par>>, name |-> d.name]

\* A declaration described from its symbols row because its document was not read.
LightEntry(s, p, id) ==
    [side |-> s, path |-> p, index |-> 0, id |-> id, key |-> NoID, name |-> id[2]]

Decoded(e) == e.index > 0

EntriesOf(c, s, p) == {Entry(c, s, p, i) : i \in DOMAIN c.documents[s][p].symbols}

Declaration(c, e) == c.documents[e.side][e.path].symbols[e.index]

\* The layer hashes of a declaration.
PublicHash(d) == <<d.sig, d.qualified>>
PrivateHash(d) == <<d.sig, d.hidden, d.qualified>>
Fingerprints(d) == <<PublicHash(d), PrivateHash(d), d.body>>

-----------------------------------------------------------------------------
(* The plan: what symbol deltas classify, and which documents are read.    *)

FingerprintsOf(c, proven) ==
    [id \in {e.id : e \in proven} |-> {Fingerprints(Declaration(c, e)) : e \in {e \in proven : e.id = id}}]

\* The effective symbols of a snapshot: each proven id with the fingerprints
\* of its declarations.
EffectiveSymbols(c, s) == FingerprintsOf(c, UNION {{e \in EntriesOf(c, s, p) : e.id # NoID} : p \in SidePaths(c, s)})

\* The definition postings of the changed typed documents outside keyed packages.
Postings(c, s) ==
    UNION {EntriesOf(c, s, p) : p \in {p \in ChangedFiles(c) \cap SidePaths(c, s) :
        ~KeyedFile(c, p) /\ Coverage(c, s, p) = "indexed"}}

Sites(c, id, s) == {e \in Postings(c, s) : e.id = id}

SiteIDs(c) == {e.id : e \in UNION {Postings(c, s) : s \in Sides}}

Multiple(c, id) == \E s \in Sides : Cardinality(Sites(c, id, s)) > 1

ChangedClass(public, private, content, moved) ==
    CASE public -> "signature"
      [] ~public /\ private -> "structure"
      [] ~public /\ ~private /\ content -> "body"
      [] ~public /\ ~private /\ ~content /\ moved -> "moved"
      [] OTHER -> "none"

\* The declaration of a symbol that has at most one on the side.
OneOf(sites) == IF sites = {} THEN Absent ELSE CHOOSE e \in sites : TRUE
SiteOf(c, id, s) == OneOf(Sites(c, id, s))

ClassOf(was, is, identified, moved) ==
    ChangedClass(identified /\ PublicHash(was) # PublicHash(is),
                 identified /\ PrivateHash(was) # PrivateHash(is),
                 was.body # is.body, moved)

Classify(c, old, new) ==
    IF old = Absent THEN "added"
    ELSE IF new = Absent THEN "removed"
    ELSE ClassOf(Declaration(c, old), Declaration(c, new), old.id # NoID /\ new.id # NoID, old.path # new.path)

SiteClass(c, id) == Classify(c, SiteOf(c, id, 1), SiteOf(c, id, 2))

\* classify: changed documents define a symbol exactly when the side's
\* effective symbols contain it.
SitesAgree(c) ==
    \A id \in SiteIDs(c), s \in Sides : (id \in DOMAIN EffectiveSymbols(c, s)) <=> (Sites(c, id, s) # {})

Shows(visibility, class, name) ==
    \/ visibility = "all"
    \/ class = "structure" /\ visibility = "internal"
    \/ class # "structure" /\ visibility = (IF name \in Exported THEN "exported" ELSE "internal")

ImportsShown(c) == c.visibility \in {"all", "internal"}

ImportsCompared(c, p) == p \in SidePaths(c, 1) \cap SidePaths(c, 2) /\ ~Excluded(c, p)

ReadForFile(c) ==
    {sp \in Sides \X ChangedFiles(c) :
        /\ sp[2] \in SidePaths(c, sp[1])
        /\ \/ c.stat
           \/ KeyedFile(c, sp[2])
           \/ Coverage(c, sp[1], sp[2]) = "excluded"
           \/ ImportsShown(c) /\ ImportsCompared(c, sp[2])}

\* Mutant: a removed symbol is taken to show nothing.
ShownNewSides(class) ==
    IF class = "added" THEN {2} ELSE IF class \in {"signature", "structure"} THEN Sides ELSE {}

\* The sides whose shapes a visible row of the class shows.
ShownSides(class) ==
    CASE class = "removed" -> {1}
      [] class = "added" -> {2}
      [] class \in {"signature", "structure"} -> Sides
      [] OTHER -> {}

SidesToRead(c, id, class) == IF Shows(c.visibility, class, id[2]) THEN ShownSides(class) ELSE {}

ReadForSymbol(c, id) ==
    UNION {{<<s, e.path>> : e \in Sites(c, id, s)} :
             s \in IF Multiple(c, id) THEN Sides ELSE SidesToRead(c, id, SiteClass(c, id))}

ChooseReads(c) == ReadForFile(c) \cup UNION {ReadForSymbol(c, id) : id \in SiteIDs(c)}

-----------------------------------------------------------------------------
(* Pairing.                                                                *)

Pair(old, new, class) == [before |-> old, after |-> new, class |-> class]

\* The place of an entry among those of its side with the same id.
Rank(entries, i) == Cardinality({j \in 1 .. i : entries[j].id = entries[i].id})

MatchByID(before, after) ==
    {<<i, j>> \in (DOMAIN before) \X (DOMAIN after) :
        /\ before[i].id # NoID
        /\ before[i].id = after[j].id
        /\ Rank(before, i) = Rank(after, j)}

\* Each unmatched old entry, in order, takes the first entry left under its
\* key of which it or the other has no id.
FreeFor(before, after, matched, i) ==
    {j \in DOMAIN after : /\ \A m \in matched : m[2] # j
                          /\ after[j].key = before[i].key
                          /\ before[i].id = NoID \/ after[j].id = NoID}

TakeFirst(matched, i, free) ==
    IF free = {} \/ (\E m \in matched : m[1] = i) THEN matched
    ELSE matched \cup {<<i, CHOOSE j \in free : \A k \in free : j <= k>>}

MatchByKey(before, after, byID) ==
    FoldLeft(LAMBDA matched, i : TakeFirst(matched, i, FreeFor(before, after, matched, i)),
             byID, [i \in DOMAIN before |-> i])

PairsOf(c, before, after, matched) ==
    {Pair(before[m[1]], after[m[2]], Classify(c, before[m[1]], after[m[2]])) : m \in matched}
    \cup {Pair(before[i], Absent, "removed") : i \in {i \in DOMAIN before : \A m \in matched : m[1] # i}}
    \cup {Pair(Absent, after[j], "added") : j \in {j \in DOMAIN after : \A m \in matched : m[2] # j}}

MatchSymbols(c, before, after) == PairsOf(c, before, after, MatchByKey(before, after, MatchByID(before, after)))

\* The decoded declarations that deltas cannot classify, by path and position.
Unclassified(c, s, p, read) ==
    IF p \notin ChangedFiles(c) \/ <<s, p>> \notin read THEN <<>>
    ELSE SelectSeq([i \in DOMAIN c.documents[s][p].symbols |-> Entry(c, s, p, i)],
                   LAMBDA e : KeyedFile(c, p) \/ Multiple(c, e.id))

MatchedEntries(c, s, read) == FlattenSeq([p \in DOMAIN PackageOf |-> Unclassified(c, s, p, read)])

\* A symbol with one declaration per side is paired by handle; both ends are
\* light when the document of either was not read.
EndOf(e, light) == IF e # Absent /\ light THEN LightEntry(e.side, e.path, e.id) ELSE e

SinglePair(c, old, new, read) ==
    LET light == \E e \in {old, new} \ {Absent} : <<e.side, e.path>> \notin read
    IN  Pair(EndOf(old, light), EndOf(new, light), Classify(c, old, new))

SinglePairings(c, read) ==
    {pair \in {SinglePair(c, SiteOf(c, id, 1), SiteOf(c, id, 2), read) : id \in {id \in SiteIDs(c) : ~Multiple(c, id)}} :
        pair.class # "none" \/ c.stat}

PairSymbols(c, read) ==
    SinglePairings(c, read) \cup MatchSymbols(c, MatchedEntries(c, 1, read), MatchedEntries(c, 2, read))

\* verifyCovered: a symbol whose effective state differs is declared by a
\* changed document.
Covered(c, read) ==
    \A s \in Sides : \A id \in DOMAIN EffectiveSymbols(c, s) :
        \/ id \in DOMAIN EffectiveSymbols(c, 3 - s) /\ EffectiveSymbols(c, 3 - s)[id] = EffectiveSymbols(c, s)[id]
        \/ id \in SiteIDs(c)
        \/ \E t \in Sides : \E e \in Range(MatchedEntries(c, t, read)) : e.id = id

-----------------------------------------------------------------------------
(* Symbols moved between packages.                                         *)

\* Exactly one removed and one added symbol of a name, in different packages.
Moves(removed, added) ==
    {<<r, a>> \in removed \X added :
        /\ r.before.name = a.after.name
        /\ \A o \in removed \ {r} : o.before.name # r.before.name
        /\ \A o \in added \ {a} : o.after.name # a.after.name
        /\ PackageOf[r.before.path] # PackageOf[a.after.path]}

MoveCandidates(pairings) ==
    Moves({p \in pairings : p.class = "removed"}, {p \in pairings : p.class = "added"})

UnreadMoveSides(pairings) ==
    UNION {{<<e.side, e.path>> : e \in {e \in {m[1].before, m[2].after} : ~Decoded(e)}} : m \in MoveCandidates(pairings)}

\* Shapes without the qualifiers of the two packages.
MovedShapeEqual(was, is) == <<was.par, was.sig, was.hidden>> = <<is.par, is.sig, is.hidden>>

Joined(c, pairings, moved) ==
    (pairings \ UNION {{m[1], m[2]} : m \in moved})
    \cup {Pair(m[1].before, m[2].after, Classify(c, m[1].before, m[2].after)) : m \in moved}

PairAcrossPackages(c, pairings) ==
    Joined(c, pairings, {m \in MoveCandidates(pairings) :
                           MovedShapeEqual(Declaration(c, m[1].before), Declaration(c, m[2].after))})

\* compareSnapshots: pair, read what moves need, and pair again.
WithMoves(c, read) == read \cup UnreadMoveSides(PairSymbols(c, read))

ReadDocuments(c) == WithMoves(c, ChooseReads(c))

PairingsOver(c, read) == PairAcrossPackages(c, PairSymbols(c, read))

Pairings(c) == PairingsOver(c, ReadDocuments(c))

-----------------------------------------------------------------------------
(* Lines.  A side whose bytes cannot be read fails its file's counts.      *)

Zero == [added |-> 0, removed |-> 0]
Plus(a, b) == [added |-> a.added + b.added, removed |-> a.removed + b.removed]

NoText == <<>>

\* The line diff of two texts, each one line or none.
CountLines(old, new) ==
    IF old = new THEN Zero
    ELSE [added |-> IF new = NoText THEN 0 ELSE 1, removed |-> IF old = NoText THEN 0 ELSE 1]

Failed(c, p) == \E s \in Sides : p \in SidePaths(c, s) /\ <<s, p>> \in c.unreadable

\* A declaration owns its line unless a side of its file was excluded.
Owner(c, e) == e # Absent /\ Decoded(e) /\ ~Excluded(c, e.path)

PairFailed(c, pair) == \E e \in {pair.before, pair.after} : Owner(c, e) /\ <<e.side, e.path>> \in c.unreadable

OwnedText(c, e) == IF Owner(c, e) THEN <<Declaration(c, e).text>> ELSE NoText

PairLines(c, pair) ==
    IF PairFailed(c, pair) THEN Zero ELSE CountLines(OwnedText(c, pair.before), OwnedText(c, pair.after))

\* The text outside every symbol's extent: the imports, and all of an excluded file.
GapText(c, s, p) ==
    IF p \notin SidePaths(c, s) THEN NoText
    ELSE IF Excluded(c, p) THEN c.documents[s][p].bytes
    ELSE c.documents[s][p].imports

FileScope(c, p) == CountLines(GapText(c, 1, p), GapText(c, 2, p))

-----------------------------------------------------------------------------
(* Rows.                                                                   *)

ShapesRead(pair) == \A s \in ShownSides(pair.class) : Decoded(IF s = 1 THEN pair.before ELSE pair.after)

ShownShape(c, e, class) ==
    IF ~Decoded(e) THEN NoID
    ELSE LET d == Declaration(c, e)
         IN  IF class = "signature" THEN <<d.par, d.sig, d.qualified>> ELSE <<d.par, d.sig, d.hidden, d.qualified>>

Reported(pair) == IF pair.after # Absent THEN pair.after ELSE pair.before

\* An unchanged pair is reported when its counted lines changed.
RowClass(c, pair) ==
    IF pair.class = "none" /\ c.stat /\ PairLines(c, pair) # Zero THEN "format" ELSE pair.class

\* Of two ends with one shape neither is shown.
ShownShapes(pair, was, is) ==
    IF pair.before = Absent \/ pair.after = Absent \/ was # is THEN <<was, is>> ELSE <<NoID, NoID>>

NewRow(c, pair, class) ==
    [class |-> class, name |-> Reported(pair).name, path |-> Reported(pair).path,
     pathBefore |-> IF pair.before = Absent THEN 0 ELSE pair.before.path,
     shapes |-> ShownShapes(pair, ShownShape(c, pair.before, class), ShownShape(c, pair.after, class)),
     id |-> Reported(pair).id, away |-> FALSE,
     visible |-> /\ \E e \in {pair.before, pair.after} : e # Absent /\ Shows(c.visibility, class, e.name)
                 /\ class \in c.changeTypes]

\* A symbol that left a file is reported there too, without its lines.
RowsUnder(row) ==
    IF row.class = "none" THEN {}
    ELSE {row} \cup (IF row.pathBefore \notin {0, row.path}
                     THEN {[row EXCEPT !.path = row.pathBefore, !.away = TRUE]} ELSE {})

RowsOf(c, pair) == RowsUnder(NewRow(c, pair, RowClass(c, pair)))

\* groupRetypedPairs: one removed and one added canonical symbol of a name in
\* a package are one signature edit, and the added row shows the old shape.
ShowingOld(row, removed, added) ==
    IF Cardinality(removed) = 1 /\ Cardinality(added) = 1
    THEN [row EXCEPT !.shapes[1] = (CHOOSE r \in removed : TRUE).shapes[1]]
    ELSE row

Namesakes(rows, row, class) ==
    {r \in rows : /\ r.class = class /\ r.id # NoID /\ ~r.away
                  /\ r.name = row.name /\ PackageOf[r.path] = PackageOf[row.path]}

Grouped(rows) ==
    {IF row.class = "added" /\ row.id # NoID
     THEN ShowingOld(row, Namesakes(rows, row, "removed"), Namesakes(rows, row, "added"))
     ELSE row : row \in rows}

ImportRows(c) ==
    IF ~ImportsShown(c) THEN {}
    ELSE {[class |-> "import", name |-> "import", path |-> p, pathBefore |-> p,
           shapes |-> <<<<c.documents[1][p].imports>>, <<c.documents[2][p].imports>>>>,
           id |-> NoID, away |-> FALSE, visible |-> "import" \in c.changeTypes] :
             p \in {p \in ChangedFiles(c) : ImportsCompared(c, p)
                                            /\ c.documents[1][p].imports # c.documents[2][p].imports}}

BuildRows(c, pairings) == ImportRows(c) \cup Grouped(UNION {RowsOf(c, pair) : pair \in pairings})

-----------------------------------------------------------------------------
(* The answer.                                                             *)

\* totalFile: the file's scope and the lines of the pairs reported under it,
\* or nothing when a side, or a segment of a reported pair, cannot be read.
TotalFile(c, p, under) ==
    IF Failed(c, p) \/ \E pair \in under : PairFailed(c, pair) THEN <<>>
    ELSE <<MapThenFoldSet(Plus, FileScope(c, p), LAMBDA pair : PairLines(c, pair),
                          LAMBDA S : CHOOSE pair \in S : TRUE, under)>>

FileLines(c, pairings, p) ==
    TotalFile(c, p, {pair \in pairings : Reported(pair).path = p /\ RowClass(c, pair) # "none"})

\* assemble: a file with equal bytes and no row is left out; a change-type
\* filter also hides the files it leaves no visible row.
SameBytes(c, p) == /\ p \in SidePaths(c, 1) \cap SidePaths(c, 2)
                   /\ c.documents[1][p].bytes = c.documents[2][p].bytes

FileDiffs(c, pairings, rows) ==
    [p \in {p \in ChangedFiles(c) : SameBytes(c, p) => \E r \in rows : r.path = p} |->
        [hidden |-> c.changeTypes # Classes /\ ~\E r \in rows : r.path = p /\ r.visible,
         lines |-> IF c.stat THEN FileLines(c, pairings, p) ELSE <<>>]]

\* What Diff refuses: postings and effective symbols that disagree, a changed
\* symbol nothing declares, and a row that shows a shape that was not read.
ShowsUnread(c, pair, class) == class # "none" /\ NewRow(c, pair, class).visible /\ ~ShapesRead(pair)

Refused(c, read, pairings) ==
    \/ ~SitesAgree(c)
    \/ ~Covered(c, ChooseReads(c))
    \/ \E pair \in pairings : ShowsUnread(c, pair, RowClass(c, pair))
    \/ \E p \in ChangedFiles(c), s \in Sides : ImportsShown(c) /\ ImportsCompared(c, p) /\ <<s, p>> \notin read

Assemble(c, pairings, rows) == [failed |-> FALSE, rows |-> rows, files |-> FileDiffs(c, pairings, rows)]

Answered(c, read, pairings) ==
    IF Refused(c, read, pairings) THEN [Pending EXCEPT !.failed = TRUE]
    ELSE Assemble(c, pairings, BuildRows(c, pairings))

AnswerOver(c, read) == Answered(c, read, PairingsOver(c, read))

Answer(c) == AnswerOver(c, ReadDocuments(c))

PairInit == compared \in Comparisons /\ reported = Pending

Diff == reported = Pending /\ reported' = Answer(compared) /\ UNCHANGED compared

PairSpec == PairInit /\ [][Diff]_pairVars

-----------------------------------------------------------------------------
(* Correctness.                                                            *)

Visible(rows) == {r \in rows : r.visible /\ r.class # "format"}
SaysTheSame(full) == ~full.failed /\ Visible(reported.rows) = Visible(full.rows)

\* Which documents a diff reads never changes what it says: asked without
\* line counts, it reports the rows it reports when every changed document is
\* read, and neither diff is refused (chooseReads, unreadMoveSides, lightEntry).
RowsIgnoreReads ==
    /\ ~reported.failed
    /\ reported # Pending /\ ~compared.stat => SaysTheSame(Answer([compared EXCEPT !.stat = TRUE]))

\* One pair has the entry, and it has both its ends if it must.
OncePaired(mine, joined) ==
    /\ Cardinality(mine) = 1
    /\ joined => \A pair \in mine : pair.before # Absent /\ pair.after # Absent

AllPairedIn(c, pairings) ==
    \A s \in Sides : \A e \in UNION {EntriesOf(c, s, p) : p \in ChangedFiles(c) \cap SidePaths(c, s)} :
        OncePaired({pair \in pairings : e \in {pair.before, pair.after}},
                   e.id # NoID /\ ~Multiple(c, e.id) /\ e.id \in DOMAIN EffectiveSymbols(c, 3 - s))

\* Every declaration of a changed document that was read is an end of exactly
\* one pair, and a symbol both sides prove is one pair, wherever it is declared.
EveryDeclarationPairsOnce == reported # Pending /\ compared.stat => AllPairedIn(compared, Pairings(compared))

LinesOf(c, s, p) ==
    IF p \notin SidePaths(c, s) THEN 0
    ELSE IF Excluded(c, p) THEN 1
    ELSE Len(c.documents[s][p].symbols) + Len(c.documents[s][p].imports)

\* Over the whole diff the lines added less the lines removed are the lines
\* the files gained, moved and hidden symbols included: no line is counted
\* under two files or under none.
LinesAreConserved ==
    LET c == compared
        Gained(p) == LinesOf(c, 2, p) - LinesOf(c, 1, p)
        SumOf(f(_), S) == MapThenFoldSet(+, 0, f, LAMBDA T : CHOOSE p \in T : TRUE, S)
        Net(p) == reported.files[p].lines[1].added - reported.files[p].lines[1].removed
    IN  reported # Pending /\ ~reported.failed /\ c.stat /\ c.unreadable = {} =>
            SumOf(Net, DOMAIN reported.files) = SumOf(Gained, DOMAIN reported.files)

\* A file whose counts are given needed no bytes that could not be read: of
\* itself, or of the file a symbol reported under it came from.
CountsAreRead ==
    \A p \in DOMAIN reported.files :
        compared.stat /\ reported.files[p].lines # <<>> =>
            /\ ~Failed(compared, p)
            /\ \A r \in reported.rows :
                  r.path = p /\ ~r.away /\ r.pathBefore # 0 /\ r.class # "import" /\ ~Excluded(compared, r.pathBefore)
                    => <<1, r.pathBefore>> \notin compared.unreadable

SymbolsPairFaithfully == RowsIgnoreReads /\ EveryDeclarationPairsOnce

EachLineCountsOnce == LinesAreConserved /\ CountsAreRead
=============================================================================
