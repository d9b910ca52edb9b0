SPECIFICATION Spec
CONSTANTS
  Tasks = {t1, t2}
  t1 = t1
  t2 = t2
  Callers = {c1}
  c1 = c1
  Exit = Exit
  Null = Null
  MaxAttempts = 2
  MaxRevision = 6
  MaxRestarts = 0
  Calls = {"send", "receive", "resume", "listen"}
  Routes = {"inbox", "pool"}
  StoreMayFail = FALSE
  InboxMayHang = TRUE
SYMMETRY TaskSymmetry
CHECK_DEADLOCK FALSE
INVARIANTS ListenerYields OneLiveTask
