SPECIFICATION Spec
CONSTANTS
  Run = {"a"}
  Sessionless = {}
  Ids = {"x"}
  Tools = {"get_file_contents", "push_files"}
  Args = {"task_branch"}
  Malformed = {}
  Mode = "enforce"
  BlockLevel = 2
  MaxLen = 2
  MaxCalls = 1
  MaxProposals = 2
INVARIANT MutationWasProposed
