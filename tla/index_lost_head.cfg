SPECIFICATION FairSpec
CONSTANTS
  app = app
  lib = lib
  aux = aux
  r1 = r1
  r2 = r2
  r3 = r3
  Modules = {app, lib, aux}
  Deps <- TheDeps
  Siblings <- TheSiblings
  Tracked = {app, lib, aux}
  Settled = {app, lib, aux}
  Shape <- TheShapes
  Runs = {r1, r2, r3}
  Targets <- NeedsToo
  Forced = {r3}
  ProcessOf <- TheProcesses
  IndexAttempts = 2
  MaxEdits = 0
  Reverts = FALSE
  None = None
PROPERTY ReusedResultsAreHeads
CHECK_DEADLOCK FALSE
