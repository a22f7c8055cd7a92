SPECIFICATION Spec
CONSTANTS
  Role = "planner"
  Provider = "github"
  Item = {i1}
  MaxRev = 2
  MaxRuns = 2
  MaxAttempts = 2
  MaxStarts = 1
  RetryLost = TRUE
  RetryTransient = TRUE
  HasRetryDelay = FALSE
  ApplyTransitions = TRUE
  CommentOnly = FALSE
  ModelRepair = FALSE
  PageSize = 1
  HumanLabels = {"hermes:blocked"}
  HumanAssignees = {"planner"}
  Outcomes = {"READY_FOR_BUILD", "transient_error"}
  ForcedStatuses = {}
  MaxRequeues = 0
  MaxFaults = 0
INVARIANTS TypeOK FailuresAreRecorded AppliedIsVisible FirstPageMarkersUnique
PROPERTIES SettledRunsFrozen NoVerdictAfterCommit
