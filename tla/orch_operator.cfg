SPECIFICATION FairSpec
CONSTANTS
  Role = "project-manager"
  Provider = "gitlab"
  Item = {i1}
  MaxRev = 1
  MaxRuns = 3
  MaxAttempts = 2
  MaxStarts = 1
  RetryLost = TRUE
  RetryTransient = TRUE
  HasRetryDelay = TRUE
  ApplyTransitions = TRUE
  CommentOnly = TRUE
  ModelRepair = TRUE
  PageSize = 0
  HumanLabels = {}
  HumanAssignees = {}
  Outcomes = {"IN_PROGRESS", "unparsable", "config_error", "transient_error", "cancelled", "timeout"}
  ForcedStatuses = {"STARTED", "COMPLETED"}
  MaxRequeues = 1
  MaxFaults = 1
INVARIANTS AtMostOneActiveRun StartedHasActiveRun AttemptsBounded
PROPERTIES FinalNeedsOperator ImplementsQueue RunsSettle PendingStarts
