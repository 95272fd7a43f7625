CONSTANTS
  p1 = p1
  proc = proc
  scope1 = scope1
  scope2 = scope2
  c1 = c1
  c2 = c2
  Pids = {p1}
  Callers = {c1, c2}
  Procs = {proc}
  Scopes = {scope1, scope2}
  Owner <- OneOwner
  TTL = 0
  Ceiling = 1
  MaxGen = 2
  MaxStops = 0
  Watch = Watch
  Stopper = Stopper
  Nobody = Nobody
  NoTarget = NoTarget
  NoLease = NoLease
SPECIFICATION Spec
SYMMETRY Symmetric
INVARIANTS
  TypeOK
  MutationHeld
  OneMutationPerGate
  OneReleasePerGate
  HoldsAccounted
  AgeCoversHold
CHECK_DEADLOCK FALSE
PROPERTIES
  ReleaseIsFinal
  ImplementsLaunchGate
