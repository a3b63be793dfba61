--------------------------- MODULE MCSnapshotStore ---------------------------
(* Small instances of SnapshotStore for TLC. *)
EXTENDS SnapshotStore, TLC

CONSTANTS r1, r2, a, b, c, p1, p2, x, y, n1, n2

\* One module with two checkouts.
OneRoot == [l \in {a, b} |-> r1]
\* A module with two checkouts and one that depends on it.
TwoRoots == [l \in {a, b, c} |-> IF l = c THEN r2 ELSE r1]

Request(l, f, dirty, dep, historical, force) ==
  [loc |-> l, files |-> f, dirty |-> dirty, dep |-> dep,
   historical |-> historical, force |-> force]

\* Checkout a holds x or nothing, b holds x; a history import publishes y for a.
CheckoutRequests ==
  {Request(a, [p \in {p1} |-> f], FALSE, None, FALSE, FALSE) : f \in {x, Absent}}
  \cup {Request(b, [p \in {p1} |-> x], FALSE, None, FALSE, FALSE),
        Request(a, [p \in {p1} |-> y], FALSE, None, TRUE, FALSE)}

\* Checkout a, dirty or not, and the historical import of its y; module c depends
\* on a's head and shares a's content.
DependencyRequests ==
  {Request(a, [p \in {p1} |-> f], f = x, None, FALSE, FALSE) : f \in {x, y}}
  \cup {Request(a, [p \in {p1} |-> y], FALSE, None, TRUE, FALSE),
        Request(c, [p \in {p1} |-> x], TRUE, a, FALSE, FALSE)}

\* Two modules whose dirty files may have the same bytes.
SharedBytesRequests ==
  {Request(a, [p \in {p1} |-> f], TRUE, None, FALSE, FALSE) : f \in {x, y}}
  \cup {Request(c, [p \in {p1} |-> x], TRUE, None, FALSE, FALSE)}

\* Forced and unforced indexes that race for ordinals and for the first heads.
RacingRequests ==
  {Request(l, [p \in {p1} |-> x], FALSE, None, FALSE, TRUE) : l \in {a, b}}

Publisher == Permutations({n1, n2})
=============================================================================
