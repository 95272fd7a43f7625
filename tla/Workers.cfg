SPECIFICATION FairSpec
CONSTANTS
  c1 = c1
  c2 = c2
  g1 = g1
  g2 = g2
  Callers = {c1, c2}
  Games = {g1}
  None = None
  MaxWatches = 2
INVARIANTS
  TypeOK
  ReplyMeansExit
  NoGroupIsMissed
  CleanUnload
PROPERTY CallsDrain
CHECK_DEADLOCK FALSE
