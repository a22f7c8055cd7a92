SPECIFICATION Spec
CONSTANTS
  r1 = r1
  r2 = r2
  w1 = w1
  w2 = w2
  Role = {r1, r2}
  Work = {w1, w2}
  Enabled = {r1, r2}
  Unsafe = {}
  InitialQueues <- BusyAndIdle
  Present = {r1}
  DockerStatus = {"running"}
  Health = {"none"}
  MaxCollections = 2
  MaxItems = 1
  MaxBytes = 1
  MaxCommits = 1
  MaxRows = 1
  MaxChanges = 1
  MaxShows = 1
  MaxRestarts = 1
INVARIANTS TypeOK AgentStateHappened ActiveIsListed
PROPERTIES ViewsMoveForward ViewCatchesUp
