SPECIFICATION FairSpec
CONSTANTS
  Roles = {"builder", "reviewer"}
  First = "builder"
  Accounts = {}
  MaxRev = 2
  Outcomes = {"PR_READY_FOR_REVIEW", "REQUEST_CHANGES"}
  MaxTrouble = 0
PROPERTY ReturnsToBuilder
