SPECIFICATION Spec
CONSTANTS
  app = app  seed = seed  older = older  another = another  f1 = f1  f2 = f2
  Processes = {app, seed, older, another}
  Files <- TwoFiles
  Known <- OneBehind
  Ledger = schema_migrations
  MaxDbErrors = 1
  Absent = Absent
  Built = Built
INVARIANTS RecordedMeansBuilt ServesAWholeSchema FailsOnlyInARace
PROPERTIES EveryStartEnds
CHECK_DEADLOCK FALSE
