SPECIFICATION SharedSpec
CONSTANTS
  t1 = t1
  g1 = g1
  app1 = app1
  Threads = {t1}
  Games = {g1}
  Ids = {app1}
  AppIds = {app1}
  Used = {"refresh_games", "force_backup"}
  NoId = NoId
  None = None
  Existing <- SomeBackups
  Tracked <- IdGone
  Skipped <- LastSkipped
  MaxCalls = 2
  MaxCrashes = 1
INVARIANT ReportedIsSaved
PROPERTY ImplementsCoordinator
CHECK_DEADLOCK FALSE
