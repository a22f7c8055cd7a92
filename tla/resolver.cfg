SPECIFICATION Spec
CONSTANTS
  Worker = {w1, w2}
  Tool = {1, 2}
  Intent = {i1}
  Capability = {c1}
  ToolLists <- AllLists
  Hints <- SomeHints
  Judgements <- ManyJudgements
  MaxTools = 2
  MaxAuto = 2
  Levels = {1, 4}
  MaxGrants = 2
CONSTRAINT Halves
SYMMETRY Sym
INVARIANTS OneShot OfferedIsAuthorised StopRefusesAll LeastPrivilege SomethingUsable
