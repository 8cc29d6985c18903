SPECIFICATION FairSpec
CONSTANTS
  r1 = r1  r2 = r2  r3 = r3  w1 = w1  w2 = w2  k1 = k1
  Requests = {r1, r2, r3}
  Widgets = {w1, w2}
  Keys = {k1}
  NoKey = NoKey
  EmptyKey = EmptyKey
  Asked <- Scenarios
  PoolSize = 2
  MaxCrashes = 1
  MaxDbErrors = 1
  None = None
INVARIANTS TypeOK OneSubmissionPerKey ReceiptIsDurable TablesAgree ErrorsHaveACause
PROPERTIES Implements EveryRequestAnswered
CHECK_DEADLOCK FALSE
