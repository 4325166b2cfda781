SPECIFICATION FairSpec
CONSTANTS
  Configs <- MCDeployed
  Depth = 1
  None = None
  MaxSent = 1
  MaxCommands = 2
PROPERTIES
  HoldsPosition
CHECK_DEADLOCK FALSE
