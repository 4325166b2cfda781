SPECIFICATION FairSpec
CONSTANTS
  elbow = elbow
  wrist = wrist
  typo = typo
  Joints <- MCJoints
  OtherNames <- MCOthers
  ArgLists <- MCArgs
  States <- MCStates
  None = None
  MaxSets = 2
INVARIANTS
  TypeOK
  StaysBetween
  TargetIsKept
PROPERTIES
  NeverBacksOff
  NoJumpAtStart
  ReachesTarget
CHECK_DEADLOCK FALSE
