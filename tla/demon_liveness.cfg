SPECIFICATION FairSpec
CONSTANTS
  None = None
  c1 = c1
  c2 = c2
  Cmd = {c1}
  Pid = {q1, q2, q3, q4, q5}
  Plans <- Fair
  Patient = TRUE
PROPERTIES MarkerStops KeptUp UpgradeRestarts
CHECK_DEADLOCK FALSE
