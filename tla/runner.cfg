SPECIFICATION FairSpec
CONSTANTS
  c1 = c1
  c2 = c2
  c3 = c3
  d1 = d1
  d2 = d2
  Call = {c1, c2, c3}
  Workspace = {d1, d2}
  Requests <- ThreeRequests
  Backlog = 0
INVARIANTS SuccessIsClean RunsOnce
PROPERTY CallsEnd
