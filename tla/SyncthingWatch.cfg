SPECIFICATION Spec
CONSTANTS
  p1 = p1
  p2 = p2
  Peers = {p1, p2}
  Phases = {"pre_game", "post_game"}
  FolderStates = {"idle", "scanning"}
  Signals = {"change", "scan", "download", "item"}
  None = None
  Laggards = {}
  Confirmations = 3
  MaxWrites = 1
  MaxEvents = 1
  MaxQueue = 2
SYMMETRY Symmetric
INVARIANTS
  TypeOK
  UploadedBeforeQuiet
  CompleteIsConfirmed
CHECK_DEADLOCK FALSE
