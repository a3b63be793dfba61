SPECIFICATION FairSpec
CONSTANTS
  f = f
  x = x
  x2 = x2
  y = y
  p1 = p1
  p2 = p2
  MaxSnapshots = 3
  Paths = {f}
  Contents = {x, x2, y}
  Absent = Absent
  Same = Same
  Deleted = Deleted
  BodyOf <- Implements
  Processes = {p1}
  MemoSize = 1
  NotFound = NotFound
INVARIANT GenerationsAreCounts
PROPERTY CutoverResumes
