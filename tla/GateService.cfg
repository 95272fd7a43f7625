CONSTANTS
  p1 = p1
  proc = proc
  scope1 = scope1
  scope2 = scope2
  c1 = c1
  c2 = c2
  Pids = {p1}
  Callers = {c1, c2}
  Procs = {proc}
  Scopes = {scope1}
  Owner <- OneOwner
  TTL = 1
  Ceiling = 1
  MaxGen = 2
  MaxStops = 1
  Watch = Watch
  Stopper = Stopper
  Nobody = Nobody
  NoTarget = NoTarget
  NoLease = NoLease
SPECIFICATION ServiceSpec
SYMMETRY Symmetric
INVARIANTS
  ServiceTypeOK
  ShutdownIsComplete
PROPERTIES
  ShutdownFailsClosed
CHECK_DEADLOCK FALSE
