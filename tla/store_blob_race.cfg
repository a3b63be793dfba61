SPECIFICATION Spec
CONSTANTS
  r1 = r1
  r2 = r2
  a = a
  b = b
  c = c
  p1 = p1
  p2 = p2
  x = x
  y = y
  n1 = n1
  n2 = n2
  Roots = {r1, r2}
  Locations = {a, b, c}
  RootOf <- TwoRoots
  Paths = {p1}
  Contents = {x, y}
  Publishers = {n1, n2}
  Requests <- SharedBytesRequests
  Keep = 1
  MaxSnapshots = 4
  SerialWriters = FALSE
  AllocationAttempts = 1
  Absent = Absent
  Same = Same
  Deleted = Deleted
  None = None
SYMMETRY Publisher
INVARIANT DirtyBytesRetained
