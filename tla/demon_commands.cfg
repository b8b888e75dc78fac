SPECIFICATION Spec
CONSTANTS
  None = None
  c1 = c1
  c2 = c2
  Cmd = {c1, c2}
  Pid = {q1, q2, q3, q4}
  Plans <- CommandPlans
  Patient = FALSE
SYMMETRY Symmetry
INVARIANTS TypeOK OneOwner SupervisorHoldsLock
PROPERTIES StartsSpareStrangers StopKillsBoth
CHECK_DEADLOCK FALSE
