SPECIFICATION Spec
CONSTANTS
  Configs <- MCOneToOne
  Messages <- MCMessages
INVARIANTS
  EmptyListMeansOneToOne
CHECK_DEADLOCK FALSE
