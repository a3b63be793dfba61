--------------------------- MODULE MCOpenDatabase ---------------------------
(* The databases an open may find, for TLC. *)
EXTENDS OpenDatabase, SequencesExt

CONSTANT file

\* Hashes 1 and 2 differ in a dependency only: one rendering, of one revision.
TheRendering == [x \in Paths \X Hashes |-> IF x[2] = 3 THEN 2 ELSE 1]

TheCatalog(g) ==
  [modules |-> g # "empty", ordinal |-> g \notin {"empty", "preHandle"},
   layout |-> CASE g = "other" -> "other" [] g \in {"twoLayer", "current"} -> "ours" [] OTHER -> "noTable",
   shapeFP |-> g = "twoLayer", tables |-> g # "empty", member |-> FALSE]

\* A database without documents; the index of a stale generation is not represented.
Without(g) ==
  [catalog |-> TheCatalog(g), documents |-> <<>>, snapshots |-> <<>>, deltas |-> <<>>, stats |-> <<>>,
   membership |-> NoMembership,
   roots |-> CASE g = "empty" -> <<>> [] g = "preHandle" -> <<0, 0>> [] OTHER -> <<3, 1>>]

\* The documents of a history of inputs, each created by the first snapshot that selects it.
DocumentsOf(history) ==
  FoldLeft(LAMBDA docs, s : docs \o SetToSeq({d \in {[path |-> p, hash |-> s.inputs[p], digest |-> None] : p \in DOMAIN s.inputs} :
                                                 d \notin Range(docs)}), <<>>, history)

\* An index of this layout that predates document membership, or another version's.
With(g, history) ==
  [Without(g) EXCEPT !.snapshots = history, !.documents = DocumentsOf(history),
                     !.deltas = [s \in DOMAIN history |-> <<>>], !.stats = [s \in DOMAIN history |-> NoCounts]]

File(h) == IF h = 0 THEN <<>> ELSE [p \in {file} |-> h]
Histories ==
  {<<[base |-> 0, inputs |-> File(1)], [base |-> 1, inputs |-> File(a)], [base |-> b, inputs |-> File(c)]>> :
     a \in Hashes \cup {0}, b \in {1, 2}, c \in Hashes \cup {0}}

TheDatabases ==
  {Without(g) : g \in {"empty", "preHandle", "H64a", "twoLayer"}}
    \cup {With("other", <<[base |-> 0, inputs |-> File(1)]>>)}
    \cup {With("current", h) : h \in Histories}
=============================================================================
