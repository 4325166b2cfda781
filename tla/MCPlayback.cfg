SPECIFICATION FairSpec
CONSTANTS
  Configs <- MCConfigs
  Depth = 2
  None = None
  MaxSent = 3
  MaxCommands = 3
INVARIANTS
  TypeOK
  FramesInOrder
  FeedbackIsOneInferenceOld
  ResidualTracksItsFrame
  SensorsMoveForward
  ClipBoundsCommands
  FaultsBeforeMotion
  AnchorsAligned
PROPERTIES
  DoneIsFinal
  ImplementsPlayback
  PlaybackCompletes
  SampleOrNewerArrives
CHECK_DEADLOCK FALSE
