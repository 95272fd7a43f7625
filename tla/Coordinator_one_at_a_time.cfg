SPECIFICATION AloneSpec
CONSTANTS
  t1 = t1
  t2 = t2
  g1 = g1
  g2 = g2
  app1 = app1
  Threads = {t1, t2}
  Games = {g1, g2}
  Ids = {app1}
  AppIds = {app1}
  Used = {"force_backup", "force_restore", "refresh_games"}
  NoId = NoId
  None = None
  Existing <- SomeBackups
  Tracked <- IdMoves
  Skipped <- NoneSkipped
  MaxCalls = 2
  MaxCrashes = 0
INVARIANT
  OneAtATime
CHECK_DEADLOCK FALSE
