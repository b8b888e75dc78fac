SPECIFICATION FairSpec
CONSTANTS
  None = None
  Session = {1, 2, 3, 4}
  Child = {c1, c2}
  Timer = {t1}
  MaxSec = 2
  Plans <- Mixed
  InOrder = TRUE
  Faults = {"store", "crash", "refused", "lost"}
  MaxMishaps = 1
INVARIANTS TypeOK SessionsNotSkipped PostedOnce Coalesced
PROPERTIES CallsDelivered EventuallySent
