SPECIFICATION FairSpec
CONSTANTS
  s1 = s1  s2 = s2  w1 = w1  w2 = w2  p1 = p1  p2 = p2  d1 = d1
  Submissions = {s1, s2}
  Widgets = {w1, w2}
  WidgetOf <- OneEach
  Workers = {p1}
  Drivers = {}
  BatchSize = 2
  MaxAttempts = 2
  MaxBackoff = 3
  WebhookUrl = TRUE
  ForceFailure = FALSE
  MaxCrashes = 1
  MaxDbErrors = 0
  None = None
PROPERTIES EverySubmissionSettles
CHECK_DEADLOCK FALSE
