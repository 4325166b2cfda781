SPECIFICATION Spec
CONSTANTS
  Configs <- MCAllConfigs
  Messages <- MCAllMessages
INVARIANTS
  TypeOK
  SameMotor
  MotorsNamedOnce
  ActionsReachMotors
CHECK_DEADLOCK FALSE
