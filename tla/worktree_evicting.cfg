SPECIFICATION Spec
CONSTANTS
  None = None
  Gc = gc
  o1 = o1
  Agent = {a1, a2}
  Owner = {o1}
  OwnerOf <- SharedOwner
  GcOwner = o1
  Ops <- Adopts
  Faults = {}
  Alone = TRUE
PROPERTIES LiveAgentKept
CHECK_DEADLOCK FALSE
