SPECIFICATION FairSpec
CONSTANTS
  Worker = {w1, w2}
  Tools = {"actions_run_trigger"}
  Scope = {a1, a2}
  MaxAuto = 2
  Levels = {1, 4}
  MaxGrants = 1
INVARIANTS OneShot GrantFitsCall CeilingHolds
PROPERTIES SpentOnlyOnRelease StopDrains
