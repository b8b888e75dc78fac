SPECIFICATION FairSpec
CONSTANTS
  Last = 3
  Lengths <- Mixes
  Cap = 5
  MoreLine = 1
  Limit = 1
  Faults = {"store", "crash", "timeout", "stop"}
  Client = {c1, c2}
  Budgets <- BudgetOf
  Others = {0, 2}
  Marker = 1
  MaxMishaps = 1
INVARIANTS TypeOK MarksAreTrue InSendOrder OwnDirectory
PROPERTIES EventuallyDelivered
