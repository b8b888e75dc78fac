SPECIFICATION Spec
CONSTANTS
  None = None
  c1 = c1
  c2 = c2
  Cmd = {c1}
  Pid = {q1, q2, q3, q4}
  Plans <- AfterBoot
  Patient = TRUE
PROPERTY StrangersSpared
CHECK_DEADLOCK FALSE
