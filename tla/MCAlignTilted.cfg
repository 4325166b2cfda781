SPECIFICATION Spec
CONSTANTS
  Starts <- MCTilted
  Anchors <- MCNone
  Turns <- MCOneTurn
  Robots <- MCNone
  None = None
INVARIANTS
  StartFacesForward
CHECK_DEADLOCK FALSE
