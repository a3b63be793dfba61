---------------------------- MODULE MCOperations ----------------------------
(***************************************************************************)
(* What happens around the store, one operation to a behaviour: a database *)
(* is opened, the server runs, and what was published is compared, drawn,  *)
(* walked, queried, encoded and built.  The operations share no state in   *)
(* the model, so the behaviours of each are those of its own               *)
(* specification.  The calculations take what they are given in one step   *)
(* or a few and then stop; most share the variables given, midway and      *)
(* outcome.  OpenDatabase, ServeRuntime and IRCodec are extended, and      *)
(* IRCodec's subject is never Unused while it is at work.                  *)
(***************************************************************************)
EXTENDS MCOpenDatabase, ServeRuntime, MCIRCodec

CONSTANTS Comparisons, PackageOf, Exported, EditScripts, Contents, ExtentLists, Patches, Requests,
          Bodies, Environments, Documents, Questions, GraphRequests, Texts, Trees, Literals,
          SiteQuestions, Valuations, Tasks, PathOrder

VARIABLES
  operation,                 \* the one this behaviour is of
  given, midway, outcome,    \* of a calculation
  patch, next, section, parser, asked,                              \* of PatchReader
  request, nodes, edges, walks, walked, counts, omitted, build      \* of CallGraph

calculation == <<given, midway, outcome>>
coding == <<subject, written, read>>
reading == <<patch, next, section, parser, asked>>
drawing == <<request, nodes, edges, walks, walked, counts, omitted, build>>
allVars == <<operation, openVars, serveVars, calculation, coding, reading, drawing>>

Pairs == INSTANCE SymbolPairs WITH compared <- given, reported <- outcome
Shapes == INSTANCE ShapeLines WITH drawn <- given, written <- outcome
Patching == INSTANCE PatchReader
Calls == INSTANCE CallGraph
Walk == INSTANCE BodyWalk WITH body <- given, edited <- midway, collected <- outcome
Edits == INSTANCE NodeDiff WITH before <- given, edit <- midway, after <- outcome
Query == INSTANCE QueryEval WITH question <- given, answered <- outcome, MaxGraphSymbols <- 20
Since == INSTANCE IndexGraph WITH asked <- given, told <- outcome, question <- midway, answered <- midway,
                                  MaxGraphSymbols <- 9
Syntax == INSTANCE MCQuerySyntax WITH text <- given, parse <- outcome
Sites == INSTANCE SiteGuards WITH siteQuestion <- given, siteReply <- outcome
Built == INSTANCE IRNodes WITH task <- given

\* The values of the constants are those of the modules of inputs.
Diffs == INSTANCE MCDiffInputs
InTrees == INSTANCE MCTreeInputs
InTexts == INSTANCE MCQuerySyntax WITH Texts <- {}, Trees <- {}, Literals <- {}, text <- given, parse <- outcome
OfIndexes == INSTANCE MCIndexInputs

TheComparisons == Diffs!Base
ThePackages == Diffs!Packages
TheExported == Diffs!ExportedNames
TheScripts == UNION {[1 .. n -> {"equal", "delete", "insert"}] : n \in 0 .. 4}
TheContents == UNION {[1 .. n -> {"x", " ", "nl"}] : n \in 0 .. 4}
TheExtents == {<<>>, <<<<1, 2>>>>, <<<<2, 4>>>>, <<<<2, 3>>, <<4, 5>>>>, <<<<1, 3>>, <<2, 3>>, <<3, 5>>>>, <<<<1, 3>>, <<3, 4>>>>}
ThePatches == Diffs!PatchSet
TheGraphs == InTrees!Asks
TheBodies == InTrees!BodySet
TheEnvironments == InTrees!Envs
TheDocuments == Diffs!Docs
TheQuestions == OfIndexes!TheQuestions
TheChanges == OfIndexes!TheAsks
TheTexts == InTexts!TheTexts
TheTrees == InTexts!TheTrees
TheLiterals == InTexts!TheLiterals
TheSiteQuestions == InTrees!TheSiteQuestions
TheValuations == InTrees!TheValuations
TheTasks == InTrees!TheTasks
ThePaths == InTrees!SourcePaths

-----------------------------------------------------------------------------
Unused == <<>>
Calculating == {"pairs", "shapes", "walk", "edits", "query", "since", "syntax", "sites", "built"}

\* Only the operation at hand has more than one initial state.
Init ==
  /\ operation \in {"open", "serve", "codec", "patching", "calls"} \cup Calculating
  /\ OpenInit /\ (operation # "open" => catalog = TheCatalog("empty"))
  /\ ServeInit
  /\ IF operation = "codec" THEN CodecInit ELSE subject = Unused /\ written = Unused /\ read = Unused
  /\ IF operation = "patching" THEN Patching!PatchInit
     ELSE patch = Unused /\ next = 0 /\ section = Unused /\ parser = Unused /\ asked = Unused
  /\ IF operation = "calls" THEN Calls!GraphInit
     ELSE /\ request = Unused /\ nodes = Unused /\ edges = {} /\ walks = Unused
          /\ walked = {} /\ counts = Unused /\ omitted = Unused /\ build = "unused"
  /\ CASE operation = "pairs" -> Pairs!PairInit /\ midway = Unused
       [] operation = "shapes" -> Shapes!ShapeInit /\ midway = Unused
       [] operation = "walk" -> Walk!BodyInit
       [] operation = "edits" -> Edits!DiffInit
       [] operation = "query" -> Query!QueryInit /\ midway = Unused
       [] operation = "since" -> Since!ChangeInit /\ midway = Unused
       [] operation = "syntax" -> Syntax!SyntaxInit /\ midway = Unused
       [] operation = "sites" -> Sites!SiteInit /\ midway = Unused
       [] operation = "built" -> Built!NodesInit /\ midway = Unused
       [] operation \notin Calculating -> given = Unused /\ midway = Unused /\ outcome = Unused

Calculates(o) == operation = o /\ UNCHANGED <<operation, openVars, serveVars, coding, reading, drawing>>

Next ==
  \/ operation = "open" /\ OpenNext /\ UNCHANGED <<operation, serveVars, calculation, coding, reading, drawing>>
  \/ operation = "serve" /\ ServeNext /\ UNCHANGED <<operation, openVars, calculation, coding, reading, drawing>>
  \/ /\ operation = "codec" /\ (WriteAndRead \/ ReadDocument)
     /\ UNCHANGED <<operation, openVars, serveVars, calculation, reading, drawing>>
  \/ operation = "patching" /\ Patching!PatchNext /\ UNCHANGED <<operation, openVars, serveVars, calculation, coding, drawing>>
  \/ operation = "calls" /\ Calls!GraphNext /\ UNCHANGED <<operation, openVars, serveVars, calculation, coding, reading>>
  \/ Calculates("pairs") /\ Pairs!Diff /\ UNCHANGED midway
  \/ Calculates("shapes") /\ Shapes!WriteShape /\ UNCHANGED midway
  \/ Calculates("walk") /\ Walk!EditBody
  \/ Calculates("edits") /\ Edits!EditNode
  \/ Calculates("query") /\ Query!Answer /\ UNCHANGED midway
  \/ Calculates("since") /\ Since!AskSince /\ UNCHANGED midway
  \/ Calculates("syntax") /\ Syntax!Read /\ UNCHANGED midway
  \/ Calculates("sites") /\ Sites!AnswerSites /\ UNCHANGED midway
  \/ Calculates("built") /\ Built!Perform /\ UNCHANGED midway

\* The fairness of opening and serving, each of its own steps.
Fairness ==
  /\ \A o \in Openers : WF_openVars(operation = "open" /\ OpenStep(o))
  /\ WF_serveVars(operation = "serve" /\ CloseListener) /\ WF_serveVars(operation = "serve" /\ EndShutdown)
  /\ WF_serveVars(operation = "serve" /\ Drain) /\ WF_serveVars(operation = "serve" /\ Close)

Spec == Init /\ [][Next]_allVars /\ Fairness

-----------------------------------------------------------------------------
\* An open that is not stopped again ends, and an interrupted server closes its database.
OperationsEnd == OpeningEnds /\ ServeEnds

\* A diff of two snapshots pairs every declaration once and lists the same rows however little of the
\* stored shapes it reads; every changed line of a file is counted for one row (symboldiff).
SymbolsPairFaithfully == operation = "pairs" => Pairs!SymbolsPairFaithfully /\ Pairs!EachLineCountsOnce

\* What a token or line diff writes, and where a file is cut, reads back as the two sides it was made
\* from, and a patch is read as the files it changes, whatever its hunks look like (symboldiff, gitdiff).
DiffTextReadsBack ==
  /\ operation = "shapes" => Shapes!ChangesReadBack
  /\ operation = "patching" => Patching!PatchesReadBack

\* A call graph is the part of the neighbourhood its limits leave, and says what it left out (graph).
CallGraphIsBounded == operation = "calls" => Calls!CallGraphIsBounded

\* The guards told of a call are what must hold for it to run, in the IR's walk and in the source's,
\* and an edit that changes what a body relates to changes its hash (walk_stmt.go, graph_guards.go).
GuardsAreTold ==
  /\ operation = "walk" => Walk!BodiesAreToldApart
  /\ operation = "sites" => Sites!SitesAreGuarded

\* One edit of a node changes the fingerprint layers it should and is reported once (fingerprint.go, diff/).
NodesDiffAsEdited == operation = "edits" => Edits!NodesDiffAsEdited

\* The shortcuts a query takes answer as the plain reading of its expression would (query/compact_*.go).
QueriesMeanTheirSets == operation = "query" => Query!QueriesMeanTheirSets

\* The graph since an earlier snapshot misses no change and leads to each by a path (graph_since*.go).
ChangesAreFound == operation = "since" => Since!ChangesAreFound

\* What is accepted is what the grammar derives, and an expression or a literal that is written is read
\* back as it was (query/grammar.peg, format.go).
QueriesReadBack == operation = "syntax" => Syntax!QueriesReadBack

\* Built, placed and coalesced nodes are qualified, complete and independent of order (builders*.go, uir.go).
NodesComeTogether == operation = "built" => Built!NodesComeTogether
=============================================================================
