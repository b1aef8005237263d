SPECIFICATION Spec
CONSTANTS
  Timeouts <- MCTimeouts
  MaxHold = 2
  MaxFaults = 0
  SaveEnv = TRUE
PROPERTY OneShot
