SPECIFICATION Spec
CONSTANTS
  Sources <- MCSources
  None = None
INVARIANTS
  TypeOK
  FittingSourcesAreSafe
PROPERTIES
  MisfitsShowBeforeMotion
CHECK_DEADLOCK FALSE
