SPECIFICATION GraphSpec
CONSTANTS
  Files = {f1}
  Contents = {c1, t}
  Tagless = {t}
  Opaque = {}
  None = None
  Unread = Unread
  Rescan = Rescan
  PendingCap = 1
  Bound = 2
INVARIANTS MarksArePending
CHECK_DEADLOCK FALSE
