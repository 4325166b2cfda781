SPECIFICATION Spec
CONSTANTS
  Starts <- MCStarts
  Anchors <- MCAnchors
  Turns <- MCTurns
  Robots <- MCRobots
  None = None
INVARIANTS
  TypeOK
  ClipHeadingIsIgnored
  YawFlipsWithRoll
