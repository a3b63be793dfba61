SPECIFICATION CacheSpec
CONSTANTS
  rd = rd
  wr = wr
  rb = rb
  q1 = q1
  q2 = q2
  h1 = h1
  Roots = {rb}
  Symbols = {rd, wr}
  Handles = {h1}
  NoHandle = NoHandle
  MaxPublications = 3
  Queries = {q1, q2}
  AsksFor <- Subjects
  Nothing = Nothing
ACTION_CONSTRAINT TellingIndexSteps
VIEW Held
INVARIANTS CachedHandlesAreCurrent SelectionsAreCurrent
