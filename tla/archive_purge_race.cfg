SPECIFICATION Spec
CONSTANTS
  p1 = p1
  p2 = p2
  b1 = b1
  b2 = b2
  k1 = k1
  k2 = k2
  None = None
  Proc = {p1, p2}
  Body = {b1}
  Key = {k1}
  Content <- OneContent
  Turn = {t1}
  Slot = {s1}
  Call = {c1}
  Plans <- RacePlans
INVARIANT PointersExpand
CHECK_DEADLOCK FALSE
