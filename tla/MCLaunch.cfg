SPECIFICATION FairSpec
CONSTANTS
  Dirs = {home, project, build}
  Project = project
  Build = build
  Relative = relative
  NoArg = noarg
  None = none
INVARIANTS
  RunsAtHome
PROPERTIES
  StartsInTheEnd
