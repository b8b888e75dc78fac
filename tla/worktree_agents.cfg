SPECIFICATION Spec
CONSTANTS
  None = None
  Gc = gc
  o1 = o1
  Agent = {a1, a2, a3}
  Owner = {o1}
  OwnerOf <- SharedOwner
  GcOwner = o1
  Ops <- EveryOperation
  Faults = {"crash", "claim"}
  Alone = TRUE
SYMMETRY Symmetry
INVARIANTS TypeOK HoldersAreBound
PROPERTIES LiveLockKept WorkKept
CHECK_DEADLOCK FALSE
