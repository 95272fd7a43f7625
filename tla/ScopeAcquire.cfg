CONSTANTS
  s1 = s1
  s2 = s2
  unit1 = unit1
  MaxProcs = 2
  Scopes = {s1, s2}
  Unit <- OneUnit
  NoScope = NoScope
  Launcher = Launcher
  Elsewhere = Elsewhere
SPECIFICATION Spec
INVARIANTS
  TypeOK
  HandoffClosed
  LeaseHolds
  NothingLeft
CHECK_DEADLOCK FALSE
