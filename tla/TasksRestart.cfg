SPECIFICATION FairSpec
CONSTANTS
  Tasks = {t1}
  t1 = t1
  Callers = {c1}
  c1 = c1
  Exit = Exit
  Null = Null
  MaxAttempts = 1
  MaxRevision = 0
  MaxRestarts = 1
  Calls = {"send", "resume", "pause", "cancel", "exit"}
  Routes = {}
  StoreMayFail = TRUE
  InboxMayHang = FALSE
CHECK_DEADLOCK FALSE
INVARIANTS TasksInv
PROPERTIES IntentsHold HistoryKept IntentsEnd ExitEnds
