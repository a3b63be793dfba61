SPECIFICATION Spec
CONSTANTS
  std = std
  mod = mod
  io = io
  app = app
  rd = rd
  wr = wr
  ty = ty
  fl = fl
  ra = ra
  rb = rb
  Roots = {ra, rb}
  Publishers = {n1, n2}
  Symbols = {rd, wr, ty, fl}
  Owner <- TheOwners
  PackageOf <- ThePackages
  BucketOf <- TheBuckets
  Modules = {std, mod}
  Packages = {io, app}
  ModuleOf <- TheModules
  Reserved <- StdIsReserved
  FirstAllocated = 1
  MaxModule = 2
  MaxPackage = 1
  MaxLocal = 1
  Order <- TheOrder
  Requests <- RacingRequests
  AllocationAttempts = 2
  SerialWriters = FALSE
  MaxPublications = 4
  None = None
  n1 = n1
  n2 = n2
SYMMETRY Publisher
INVARIANTS HandlesAreSound DocumentsMeanTheirSymbols
PROPERTY ImplementsIndex
