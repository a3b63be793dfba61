--------------------------- MODULE MCSymbolHandles ---------------------------
(* Small instances of SymbolHandles for TLC. *)
EXTENDS SymbolHandles, TLC

CONSTANTS std, mod, io, app, rd, wr, ty, fl, ra, rb, n1, n2

\* rd and wr are interfaces of package io, in one bucket; fl is a field of ty.
TheOwners == [s \in Symbols |-> IF s = fl THEN ty ELSE None]
ThePackages == [s \in Symbols |-> IF s \in {rd, wr} THEN io ELSE app]
TheBuckets == [s \in Symbols |-> IF s = fl THEN 2 ELSE 1]
TheModules == [k \in Packages |-> IF k = io THEN std ELSE mod]
StdIsReserved == [m \in {std} |-> 0]
TheOrder == rd :> 1 @@ wr :> 2 @@ ty :> 3 @@ fl :> 4 @@ std :> 5 @@ mod :> 6 @@ io :> 7 @@ app :> 8

Publication(r, docs, keeps, facts) ==
  [root |-> r, docs |-> docs, keeps |-> keeps, facts |-> facts]

\* Root ra names ty and its field, or keeps only the document of the field;
\* root rb uses rd, nothing, or wr.
RacingRequests ==
  {Publication(ra, {ty, fl, rd}, {}, {}), Publication(ra, {}, {fl}, {}),
   Publication(rb, {rd}, {}, {}), Publication(rb, {}, {}, {}), Publication(rb, {wr}, {}, {})}

\* Root ra's ty implements rd, an interface only rb's documents name.
FactRequests ==
  {Publication(ra, {ty}, {}, {rd}), Publication(rb, {rd}, {}, {}),
   Publication(rb, {}, {}, {}), Publication(rb, {wr}, {}, {})}

Publisher == Permutations({n1, n2})
=============================================================================
