----------------------------- MODULE ShapeLines -----------------------------
(***************************************************************************)
(* How the symbol diff writes a change: the token diff of a replaced line, *)
(* the line diff of two shapes (symboldiff/shapediff.go), and the segments *)
(* a file's bytes are cut into for line counts (symboldiff/lines.go,       *)
(* documents.go).                                                          *)
(*                                                                         *)
(* The Myers diff is a library: it returns some edit script that turns the *)
(* old sequence into the new one, so the scripts are the inputs here, and  *)
(* the old and new sequences are what they delete, insert and keep.        *)
(***************************************************************************)
EXTENDS Integers, Sequences, FiniteSets, SequencesExt

CONSTANTS
    EditScripts,   \* sequences over "equal", "delete", "insert"
    Contents,      \* file contents: sequences over "x", " " and "nl"
    ExtentLists    \* sequences of byte extents <<first, end>>, ordered by first

VARIABLES
    drawn,         \* what is to be written: a script with its tokens, or a file
    written        \* what was written

shapeVars == <<drawn, written>>

Unwritten == <<>>
Space == <<"space", 0>>

-----------------------------------------------------------------------------
(* Token diffs.  An edit is [op, a, b]: a is the place of its old token,   *)
(* b of its new one, 0 where it has none.                                  *)

Count(script, ops, i) == Cardinality({j \in 1 .. i : script[j] \in ops})

\* myers.Diff over the tokens of the two lines, as one edit per token.
TokenEdits(script) ==
    [i \in DOMAIN script |->
        [op |-> script[i],
         a |-> IF script[i] = "insert" THEN 0 ELSE Count(script, {"equal", "delete"}, i),
         b |-> IF script[i] = "delete" THEN 0 ELSE Count(script, {"equal", "insert"}, i)]]

\* max(deletions, insertions) of the edits i .. j.
Weight(edits, i, j) ==
    LET n(op) == Cardinality({k \in i .. j : edits[k].op = op})
    IN  IF n("delete") >= n("insert") THEN n("delete") ELSE n("insert")

IsRun(edits, i, j) == /\ \A k \in i .. j : edits[k].op = "equal"
                      /\ i > 1 => edits[i - 1].op # "equal"
                      /\ j < Len(edits) => edits[j + 1].op # "equal"

\* The first place of the edit region that ends before i, the last of the one after j.
RegionStart(edits, i) == CHOOSE k \in 1 .. i - 1 : /\ \A m \in k .. i - 1 : edits[m].op # "equal"
                                                   /\ k = 1 \/ edits[k - 1].op = "equal"
RegionEnd(edits, j) == CHOOSE k \in j + 1 .. Len(edits) : /\ \A m \in j + 1 .. k : edits[m].op # "equal"
                                                          /\ k = Len(edits) \/ edits[k + 1].op = "equal"

\* An equal run between two edit regions, no longer than either.
Dissolvable(edits, i, j) ==
    /\ IsRun(edits, i, j) /\ i > 1 /\ j < Len(edits)
    /\ j - i + 1 <= Weight(edits, RegionStart(edits, i), i - 1)
    /\ j - i + 1 <= Weight(edits, j + 1, RegionEnd(edits, j))

Split(edits, i, j) ==
    FlattenSeq([k \in 1 .. j - i + 1 |-> <<[op |-> "delete", a |-> edits[i + k - 1].a, b |-> 0],
                                           [op |-> "insert", a |-> 0, b |-> edits[i + k - 1].b]>>])

RECURSIVE DissolveEqualities(_)

\* The first such run becomes deletions and insertions, and the search starts over.
DissolveEqualities(edits) ==
    LET runs == {<<i, j>> \in (DOMAIN edits) \X (DOMAIN edits) : i <= j /\ Dissolvable(edits, i, j)}
        first == CHOOSE r \in runs : \A q \in runs : r[1] <= q[1]
    IN  IF runs = {} THEN edits
        ELSE DissolveEqualities(SubSeq(edits, 1, first[1] - 1) \o Split(edits, first[1], first[2])
                                \o SubSeq(edits, first[2] + 1, Len(edits)))

\* Mutant: the insertions a region holds back are lost at its end.
OrderRegionsLosing(edits) ==
    LET Step(acc, e) ==
            CASE e.op = "delete" -> [acc EXCEPT !.out = Append(@, e)]
              [] e.op = "insert" -> [acc EXCEPT !.held = Append(@, e)]
              [] OTHER -> [out |-> acc.out \o acc.held \o <<e>>, held |-> <<>>]
    IN  FoldLeft(Step, [out |-> <<>>, held |-> <<>>], edits).out

\* Each region's deletions go before its insertions.
OrderRegions(edits) ==
    LET Step(acc, e) ==
            CASE e.op = "delete" -> [acc EXCEPT !.out = Append(@, e)]
              [] e.op = "insert" -> [acc EXCEPT !.held = Append(@, e)]
              [] OTHER -> [out |-> acc.out \o acc.held \o <<e>>, held |-> <<>>]
        last == FoldLeft(Step, [out |-> <<>>, held |-> <<>>], edits)
    IN  last.out \o last.held

\* The text of a token: its leading space, if any, and itself.
Leading(spaced, i) == IF i \in spaced THEN <<Space>> ELSE <<>>

AppendToken(segments, op, text) ==
    IF text = <<>> THEN segments
    ELSE IF segments # <<>> /\ Last(segments).op = op
         THEN [segments EXCEPT ![Len(segments)].text = @ \o text]
         ELSE Append(segments, [op |-> op, text |-> text])

\* The merged sequence with its whitespace.  Old tokens are <<"old", i>> when
\* deleted; an equal token shows the new side's text.
TokenDiff(script, oldSpaced, newSpaced) ==
    LET edits == OrderRegions(DissolveEqualities(TokenEdits(script)))
        Side(e) == IF e.op = "delete" THEN <<Leading(oldSpaced, e.a), <<<<"old", e.a>>>>>>
                                      ELSE <<Leading(newSpaced, e.b), <<<<"new", e.b>>>>>>
        Step(acc, e) ==
            LET lead == Side(e)[1]
                text == Side(e)[2]
            IN  [previous |-> e.op,
                 segments |->
                    CASE e.op = "equal" \/ e.op = acc.previous -> AppendToken(acc.segments, e.op, lead \o text)
                      [] e.op # acc.previous /\ (e.op = "delete" \/ (e.op = "insert" /\ acc.previous = "equal")) ->
                            AppendToken(AppendToken(acc.segments, "equal", lead), e.op, text)
                      [] OTHER -> AppendToken(acc.segments, "insert", text)]
    IN  FoldLeft(Step, [previous |-> "equal", segments |-> <<>>], edits).segments

\* One side's tokens of a paired line: the other operation's segments dropped.
FilterTokens(segments, drop) ==
    FoldLeft(LAMBDA acc, s : IF s.op = drop THEN acc ELSE AppendToken(acc, s.op, s.text), <<>>, segments)

-----------------------------------------------------------------------------
(* Line diffs.  Lines are numbers; shared says which deleted and inserted  *)
(* lines of a hunk share a token.                                          *)

Line(op, n, paired) == [op |-> op, line |-> n, paired |-> paired]

\* The i-th deleted line pairs with the i-th inserted one when they share a
\* token; unpaired runs come before the pair that follows them.
ReplacedLines(deleted, inserted, shared) ==
    LET Most == IF Len(deleted) >= Len(inserted) THEN Len(deleted) ELSE Len(inserted)
        At(s, op, i) == IF i <= Len(s) THEN <<Line(op, s[i], FALSE)>> ELSE <<>>
        Step(acc, i) ==
            IF i <= Len(deleted) /\ i <= Len(inserted) /\ <<deleted[i], inserted[i]>> \in shared
            THEN [out |-> acc.out \o acc.del \o acc.ins
                          \o <<Line("delete", deleted[i], TRUE), Line("insert", inserted[i], TRUE)>>,
                  del |-> <<>>, ins |-> <<>>]
            ELSE [out |-> acc.out, del |-> acc.del \o At(deleted, "delete", i), ins |-> acc.ins \o At(inserted, "insert", i)]
        last == FoldLeft(Step, [out |-> <<>>, del |-> <<>>, ins |-> <<>>], [i \in 1 .. Most |-> i])
    IN  last.out \o last.del \o last.ins

\* Adjacent changed ranges of the script are one hunk; equal lines show the new side.
DiffShapes(script, shared) ==
    LET edits == TokenEdits(script)
        Flush(acc) == acc.out \o ReplacedLines(acc.del, acc.ins, shared)
        Step(acc, e) ==
            CASE e.op = "equal" -> [out |-> Append(Flush(acc), Line("equal", e.b, FALSE)), del |-> <<>>, ins |-> <<>>]
              [] e.op = "delete" -> [acc EXCEPT !.del = Append(@, e.a)]
              [] OTHER -> [acc EXCEPT !.ins = Append(@, e.b)]
    IN  Flush(FoldLeft(Step, [out |-> <<>>, del |-> <<>>, ins |-> <<>>], edits))

-----------------------------------------------------------------------------
(* Segments of a file.  Bytes are numbered from 1; an extent <<s, e>> is   *)
(* the bytes s .. e - 1.                                                   *)

\* setContent: the declarations whose extent no earlier one encloses.
Owners(extents) ==
    LET Step(acc, i) == IF extents[i][1] >= acc.open
                        THEN [open |-> extents[i][2], owners |-> Append(acc.owners, i)] ELSE acc
    IN  FoldLeft(Step, [open |-> 0, owners |-> <<>>], [i \in DOMAIN extents |-> i]).owners

LineStart(content, at) ==
    LET newlines == {k \in 1 .. at - 1 : content[k] = "nl"}
    IN  IF newlines = {} THEN 1 ELSE 1 + CHOOSE k \in newlines : \A m \in newlines : m <= k

LineEnd(content, at) ==
    LET newlines == {k \in at .. Len(content) : content[k] = "nl"}
    IN  IF newlines = {} THEN 0 ELSE 1 + CHOOSE k \in newlines : \A m \in newlines : k <= m

\* Widened to whole lines when only whitespace precedes it on its first line
\* and no other segment starts before the end of its last.
SegmentFile(content, extents) ==
    LET owners == Owners(extents)
        Cut(acc, n) ==
            LET s == extents[owners[n]][1]
                e == extents[owners[n]][2]
                next == IF n < Len(owners) THEN extents[owners[n + 1]][1] ELSE Len(content) + 1
                blank == \A k \in LineStart(content, s) .. s - 1 : content[k] # "x"
                first == IF LineStart(content, s) >= acc.cursor /\ blank THEN LineStart(content, s) ELSE s
                end == IF LineEnd(content, e) # 0 /\ LineEnd(content, e) <= next THEN LineEnd(content, e) ELSE e
            IN  IF acc.failed \/ s < acc.cursor \/ e > Len(content) + 1 THEN [acc EXCEPT !.failed = TRUE]
                ELSE [failed |-> FALSE, cursor |-> end,
                      gap |-> acc.gap \o SubSeq(content, acc.cursor, first - 1),
                      owned |-> Append(acc.owned, <<owners[n], first, end>>)]
        last == FoldLeft(Cut, [failed |-> FALSE, cursor |-> 1, gap |-> <<>>, owned |-> <<>>], [n \in DOMAIN owners |-> n])
    IN  [last EXCEPT !.gap = @ \o SubSeq(content, last.cursor, Len(content))]

-----------------------------------------------------------------------------
ShapeInit ==
    /\ written = Unwritten
    /\ \/ \E script \in EditScripts, old, new \in SUBSET {1, 2} :
             drawn = [kind |-> "tokens", script |-> script, old |-> old, new |-> new]
       \/ \E script \in EditScripts, shared \in SUBSET {<<1, 1>>, <<2, 1>>, <<2, 2>>} :
             drawn = [kind |-> "lines", script |-> script, shared |-> shared]
       \/ \E content \in Contents, extents \in ExtentLists :
             drawn = [kind |-> "file", content |-> content, extents |-> extents]

WriteTokens == drawn.kind = "tokens" /\ written' = <<TokenDiff(drawn.script, drawn.old, drawn.new)>>
WriteLines == drawn.kind = "lines" /\ written' = <<DiffShapes(drawn.script, drawn.shared)>>
CutFile == drawn.kind = "file" /\ written' = <<SegmentFile(drawn.content, drawn.extents)>>

WriteShape == written = Unwritten /\ (WriteTokens \/ WriteLines \/ CutFile) /\ UNCHANGED drawn

ShapeSpec == ShapeInit /\ [][WriteShape]_shapeVars

-----------------------------------------------------------------------------
(* Correctness.                                                            *)

\* The old and the new line can each be read back from a token diff: without
\* the inserted segments it holds every old token once and in order, without
\* the deleted ones every new token, whatever was dissolved and reordered.
TokensReadBack ==
    LET was == written[1]
        script == drawn.script
        Old == Count(script, {"equal", "delete"}, Len(script))
        New == Count(script, {"equal", "insert"}, Len(script))
        Words(segments) == SelectSeq(FlattenSeq([i \in DOMAIN segments |-> segments[i].text]), LAMBDA t : t # Space)
        edits == TokenEdits(script)
        \* An equal token stands for the old token it equals.
        OldOf(w) == IF w[1] = "old" THEN w[2] ELSE (CHOOSE e \in Range(edits) : e.b = w[2]).a
    IN  /\ [i \in 1 .. Old |-> i] = [i \in DOMAIN Words(FilterTokens(was, "insert")) |-> OldOf(Words(FilterTokens(was, "insert"))[i])]
        /\ Words(FilterTokens(was, "delete")) = [i \in 1 .. New |-> <<"new", i>>]
        /\ \A i \in 1 .. Len(was) - 1 : was[i].op # was[i + 1].op

\* A shape diff loses, repeats and reorders no line of either side, and a
\* paired deletion is followed at once by the insertion it pairs with.
LinesReadBack ==
    LET was == written[1]
        script == drawn.script
        Old == Count(script, {"equal", "delete"}, Len(script))
        New == Count(script, {"equal", "insert"}, Len(script))
        Lines(op) == SelectSeq(was, LAMBDA l : l.op = op)
        Kept == {e.a : e \in {e \in Range(TokenEdits(script)) : e.op = "equal"}}
        Added == SelectSeq(was, LAMBDA l : l.op # "delete")
    IN  /\ [i \in DOMAIN Added |-> Added[i].line] = [i \in 1 .. New |-> i]
        /\ [i \in DOMAIN Lines("delete") |-> Lines("delete")[i].line] = SelectSeq([i \in 1 .. Old |-> i], LAMBDA n : n \notin Kept)
        /\ \A i \in DOMAIN was : was[i].op = "delete" /\ was[i].paired =>
              i < Len(was) /\ was[i + 1].op = "insert" /\ was[i + 1].paired
              /\ <<was[i].line, was[i + 1].line>> \in drawn.shared

\* Every byte of a file lies in exactly one segment or in the gap: a segment
\* holds its extent, starts before it only by blanks of its own line, and
\* never reaches into the next one.  Extents that fit are never refused.
BytesArePartitioned ==
    LET was == written[1]
        content == drawn.content
        Fits == \A i \in DOMAIN drawn.extents : drawn.extents[i][2] <= Len(content) + 1
        Outside == SelectSeq([k \in DOMAIN content |-> k],
                             LAMBDA k : \A i \in DOMAIN was.owned : ~(was.owned[i][2] <= k /\ k < was.owned[i][3]))
    IN  /\ Fits => ~was.failed
        /\ ~was.failed =>
              /\ \A i \in DOMAIN was.owned :
                    LET o == was.owned[i]
                        x == drawn.extents[o[1]]
                    IN  /\ o[2] <= x[1] /\ x[2] <= o[3]
                        /\ \A k \in o[2] .. x[1] - 1 : content[k] = " "
                        /\ \A k \in x[2] .. o[3] - 2 : content[k] # "nl"
                        /\ i > 1 => was.owned[i - 1][3] <= o[2]
              /\ was.gap = [k \in DOMAIN Outside |-> content[Outside[k]]]

ChangesReadBack ==
    written # Unwritten =>
        /\ drawn.kind = "tokens" => TokensReadBack
        /\ drawn.kind = "lines" => LinesReadBack
        /\ drawn.kind = "file" => BytesArePartitioned

=============================================================================
