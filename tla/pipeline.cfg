SPECIFICATION FairSpec
CONSTANTS
  Roles = {"builder", "reviewer"}
  First = "builder"
  Accounts = {"reviewer"}
  MaxRev = 2
  Outcomes = {"PR_READY_FOR_REVIEW", "REQUEST_CHANGES"}
  MaxTrouble = 2
INVARIANTS OneRolePerRevision NeverStalls
PROPERTY Settles
