SPECIFICATION Spec
CONSTANTS
  p1 = p1
  p2 = p2
  Peers = {p1}
  Phases = {"post_game"}
  FolderStates = {"idle", "scanning"}
  Signals = {"change"}
  None = None
  Laggards = {p1}
  Confirmations = 3
  MaxWrites = 1
  MaxEvents = 1
  MaxQueue = 2
INVARIANT CompleteMeansConfirmed
CHECK_DEADLOCK FALSE
