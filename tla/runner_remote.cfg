SPECIFICATION Spec
CONSTANTS
  c1 = c1
  c2 = c2
  c3 = c3
  d1 = d1
  d2 = d2
  Call = {c1, c2}
  Workspace = {d1}
  Requests <- EveryRequest
  Backlog = 4
INVARIANT AddedRemotesRemoved
