SPECIFICATION AloneSpec
CONSTANTS
  t1 = t1
  t2 = t2
  g1 = g1
  g2 = g2
  app1 = app1
  Threads = {t1, t2}
  Games = {g1, g2}
  Ids = {app1}
  AppIds = {app1}
  Used = {"refresh_games", "force_backup", "restore_on_start", "backup_on_exit", "check_exit"}
  NoId = NoId
  None = None
  Existing <- NoBackups
  Tracked <- IdMoves
  Skipped <- NoneSkipped
  MaxCalls = 2
  MaxCrashes = 1
SYMMETRY Symmetric
INVARIANTS
  TypeOK
  StatusTellsHolder
  CurrentIsFresh
  IdsPointBack
  BackupRemembered
  FileFollowsMemory
  ReportedIsSaved
CHECK_DEADLOCK FALSE
