SPECIFICATION Spec
CONSTANTS
  Situations <- Forms
  Nothing = Nothing
  None = None
INVARIANTS BadTypeIsNeverA500
CHECK_DEADLOCK FALSE
