SPECIFICATION CheckerSpec
CONSTANTS
  Rates <- MCRates
  Second = 2
  NoLine = NoLine
  MaxTime = 9
  MaxCount = 2
INVARIANTS
  StatsSurviveTheClock
PROPERTIES
  SilenceShows
CHECK_DEADLOCK FALSE
