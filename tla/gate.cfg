SPECIFICATION Spec
CONSTANTS
  Run = {"a", "b", "c"}
  Sessionless = {"b", "c"}
  Ids = {"x"}
  Tools = {"get_file_contents", "push_files"}
  Args = {"task_branch", "main_branch"}
  Malformed = {"absent"}
  Mode = "enforce"
  BlockLevel = 2
  MaxLen = 2
  MaxCalls = 2
  MaxProposals = 3
INVARIANTS ProposedPasses ChangedArgumentsRaised
