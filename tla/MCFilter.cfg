SPECIFICATION Spec
CONSTANTS
  Configs <- MCConfigs
  Raws <- MCRaws
  References <- MCReferences
  None = None
  MaxSteps = 2
INVARIANTS
  TypeOK
  SmoothingStaysInRange
  TargetWithinReach
  CommandIsNearestToMemory
PROPERTIES
  LostForGood
CHECK_DEADLOCK FALSE
