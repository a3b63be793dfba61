------------------------- MODULE MCSymbolGenerations -------------------------
(* Small instances of SymbolGenerations for TLC. *)
EXTENDS SymbolGenerations, TLC

CONSTANTS f, x, x2, y, p1, p2

\* x2 is x with another signature, y another implementation.
Implements == [c \in Contents |-> IF c = y THEN y ELSE x]
Openers == Permutations(Processes)
=============================================================================
