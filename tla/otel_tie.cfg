SPECIFICATION FairSpec
CONSTANTS
  None = None
  Session = {1, 2}
  Child = {c1, c2}
  Timer = {t1}
  MaxSec = 2
  Plans <- Two
  InOrder = FALSE
  Faults = {}
  MaxMishaps = 1
INVARIANT SessionsNotSkipped
