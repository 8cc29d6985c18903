SPECIFICATION FairSpec
CONSTANTS
  s1 = s1  s2 = s2  w1 = w1  w2 = w2  p1 = p1  p2 = p2  d1 = d1
  Submissions = {s1, s2}
  Widgets = {w1, w2}
  WidgetOf <- OneEach
  Workers = {p1, p2}
  Drivers = {d1}
  BatchSize = 2
  MaxAttempts = 3
  MaxBackoff = 3
  WebhookUrl = TRUE
  ForceFailure = FALSE
  MaxCrashes = 1
  MaxDbErrors = 1
  None = None
INVARIANTS TypeOK ExclusiveClaim OneEmailPerAttempt StatusIsTruthful FaultCostsOneBatch
PROPERTIES Implements SettledOrStranded
CHECK_DEADLOCK FALSE
