SPECIFICATION Spec
CONSTANTS
  p1 = p1
  p2 = p2
  b1 = b1
  b2 = b2
  k1 = k1
  k2 = k2
  None = None
  Proc = {p1, p2}
  Body = {b1, b2}
  Key = {k1, k2}
  Content <- SameContent
  Turn = {t1, t2}
  Slot = {s1}
  Call = {c1, c2}
  Plans <- StorePlans
SYMMETRY Symmetry
INVARIANTS
  TypeOK
  RefsHaveRows
  LedgerMatchesFreeze
  RowsHaveFiles
  PointerNeverChanges
PROPERTY ZoneRefined
