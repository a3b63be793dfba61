SPECIFICATION Spec
CONSTANTS
  file = file
  Openers = {1}
  Readers = {1}
  Paths = {file}
  Hashes = {1, 2, 3}
  Rendering <- TheRendering
  Revision <- TheRendering
  Databases <- TheDatabases
  DigestBatch = 2
  MaxStops = 2
  IndexRequests = {1}
  RefactorRequests = {2}
  MaxEdits = 2
  Comparisons <- TheComparisons
  PackageOf <- ThePackages
  Exported <- TheExported
  EditScripts <- TheScripts
  Contents <- TheContents
  ExtentLists <- TheExtents
  Patches <- ThePatches
  Requests <- TheGraphs
  Bodies <- TheBodies
  Environments <- TheEnvironments
  Documents <- TheDocuments
  Questions <- TheQuestions
  GraphRequests <- TheChanges
  Texts <- TheTexts
  Trees <- TheTrees
  Literals <- TheLiterals
  Values <- TheValues
  Spoiled <- TheSpoiled
  SiteQuestions <- TheSiteQuestions
  Valuations <- TheValuations
  Tasks <- TheTasks
  PathOrder <- ThePaths
INVARIANTS
  IndexIsCarriedOver AnswersAreKept
  SymbolsPairFaithfully DiffTextReadsBack CallGraphIsBounded  NodesDiffAsEdited
  QueriesMeanTheirSets ChangesAreFound QueriesReadBack TreesSurviveTheCodec NodesComeTogether
PROPERTIES  OperationsEnd
CHECK_DEADLOCK FALSE
