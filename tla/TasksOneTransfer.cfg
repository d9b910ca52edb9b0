SPECIFICATION Spec
CONSTANTS
  Tasks = {t1, t2}
  t1 = t1
  t2 = t2
  Callers = {c1, c2}
  c1 = c1
  c2 = c2
  Exit = Exit
  Null = Null
  MaxAttempts = 3
  MaxRevision = 0
  MaxRestarts = 0
  Calls = {"send", "resume", "pause", "cancel"}
  Routes = {}
  StoreMayFail = FALSE
  InboxMayHang = FALSE
INVARIANT OneTransfer
SYMMETRY TaskSymmetry
CHECK_DEADLOCK FALSE
