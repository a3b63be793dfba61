----------------------------- MODULE MCIndexRun -----------------------------
(* Small instances of IndexRun for TLC. *)
EXTENDS IndexRun

CONSTANTS app, lib, aux, r1, r2, r3

\* app requires lib, which the workspace replaces, and imports its sibling aux.
TheDeps == [m \in Modules |-> IF m = app THEN {lib} ELSE {}]
TheSiblings == [m \in Modules |-> IF m = app THEN {aux} ELSE {}]
TheShapes == [v \in Versions |-> v]
\* r1 and r2 are requests of one process; r3 is another process's.
TheProcesses == [r \in Runs |-> IF r = r3 THEN "other" ELSE "server"]
\* r3 indexes what the others link and import.
NeedsToo == [r \in Runs |-> IF r = r3 THEN <<lib, aux>> ELSE <<aux, app>>]
LibOnly == [r \in Runs |-> IF r = r3 THEN <<lib>> ELSE <<aux, app>>]
=============================================================================
