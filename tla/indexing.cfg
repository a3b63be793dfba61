SPECIFICATION IndexingSpec
CONSTANTS
  app = app
  lib = lib
  aux = aux
  r1 = r1
  r2 = r2
  r3 = r3
  Modules = {app, lib, aux}
  Deps <- TheDeps
  Siblings <- TheSiblings
  Tracked = {app, lib, aux}
  Settled = {app, lib, aux}
  Shape <- TheShapes
  Runs = {r1, r2, r3}
  Targets <- LibOnly
  Forced = {r3}
  ProcessOf <- TheProcesses
  IndexAttempts = 2
  MaxEdits = 1
  Reverts = FALSE
  None = None
  VersionNames = {1,2,3}
  Requires <- TheRequires
  FirstTags <- TheTags
  VersionRuns = {1,2}
  Wanted <- TheWanted
  Flaky = {3}
  MaxRetags = 2
  MaxVersionPrunes = 1
  Commits = {1,2,3}
  Broken = {2}
  ReadsSibling = {1}
  Requests = {1,2}
  Asked <- TheAsked
  RequestProcess <- OneProcess
  MaxFaults = 2
  Checkouts = {1,2,3,4}
  LocalDeps <- TheLocalDeps
  GroupRuns = {1,2}
  GroupTargets <- TheGroupTargets
  ForcedRuns = {2}
  GroupAttempts = 2
  MaxSourceEdits = 1
  MaxGroupPrunes = 1
INVARIANTS
  RunsPublishWhatTheyRead ReusedIndexIsCurrent VersionsAreWhole RevisionsAreAnswered GroupsStayTogether
PROPERTY IndexingEnds
CHECK_DEADLOCK FALSE
