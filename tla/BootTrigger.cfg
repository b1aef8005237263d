SPECIFICATION Spec
CONSTANTS
  Timeouts <- MCTimeouts
  MaxHold = 2
  MaxFaults = 1
  SaveEnv = TRUE
INVARIANTS
  TypeOK
  ArmedEnters
  EnvPreserved
PROPERTIES
  AnsweredOnce
  ButtonConfirmed
  BootDecides
