SPECIFICATION Spec
CONSTANTS
  f1 = f1
  f2 = f2
  Releases = {1, 2, 3, 4}
  Version <- Dates
  Posted0 <- FirstLists
  Installed0 = {3}
  Flaky = {3}
  MaxFetches = 2
  Flows = {f1, f2}
  None = None
  Current = Current
  Failed = Failed
  MaxCalls = 3
  MaxEvents = 2
SYMMETRY Symmetric
INVARIANTS
  TypeOK
  AnswersAreRight
  MemoryIsFile
  InstallIsRemembered
  ToastIsNews
CHECK_DEADLOCK FALSE
