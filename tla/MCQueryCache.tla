---------------------------- MODULE MCQueryCache ----------------------------
(* A pipeline over one root, two symbols, and one handle that they take in turn. *)
EXTENDS QueryCache

CONSTANTS rd, wr, rb, q1, q2, h1

\* One query after another, or both at once, ask for either symbol.
Subjects == [q \in {q1, q2} |-> IF q = q1 THEN {rd} ELSE {wr}]

\* What generations and facts hold that nobody holds any more does not matter.
Held ==
  <<indexVars, current, symbols, query,
    [g \in Objects |-> IF g \in HeldGenerations THEN generations[g] ELSE NoGeneration],
    [f \in Objects |-> IF f \in HeldFacts THEN facts[f] ELSE {}]>>

\* Index steps worth a cache's attention: a publication names at most one symbol
\* and stores no other, and a prune deletes some symbol, all those it can and all
\* superseded snapshots.
TellingIndexSteps ==
  /\ published' # published =>
       /\ Cardinality({r \in rows' : r.snapshot = published'}) <= 1
       /\ \A s \in StoredUnder(handle') \ StoredUnder(handle) :
            \E r \in rows' : r.snapshot = published' /\ r.means = s
  /\ epoch' # epoch =>
       /\ handle' # handle
       /\ Cardinality(live') = 1
       /\ \A s \in StoredUnder(handle') : \E r \in rows' : r.means = s
=============================================================================
