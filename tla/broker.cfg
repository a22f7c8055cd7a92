SPECIFICATION BrokerSpec
CONSTANTS
  Worker = {w1, w2}
  Tools = {"get_file_contents"}
  Scope = {"s"}
  MaxAuto = 2
  Levels = {}
  MaxGrants = 0
  Configured = 3
  MaxReuse = 2
  Margin = 1
  Lifetimes = {1, 3}
  MaxTime = 3
INVARIANTS TokenFitsCall ReuseIsFresh
SYMMETRY ThreadSymmetry
