SPECIFICATION Spec
CONSTANTS
  elbow = elbow
  typo = typo
  Joints <- MCJoints
  OtherNames <- MCOthers
  ArgLists <- MCArgs
  States <- MCStates
  None = None
  MaxSets = 1
  Clips <- MCClips
  MaxFrames = 3
  Depth = 2
INVARIANTS
  AppliedStaysBetween
PROPERTIES
  FramesArriveInOrder
  SilenceAfterEnd
CHECK_DEADLOCK FALSE
