SPECIFICATION SpecO
CONSTANTS
  NaN = NaN
  Inputs <- fieldInputs
  Configs <- fieldConfigs
  OV_HARD = 4
  CV_BAND = 0
  KV = 1
  KP = 1
  EFFORT_FULL = 3
  DETECT_EFFORT = 1
  PROBE_PERIOD = 4
  PROBE_ON = 2
  TimerCap = 3
  AhCap = 2
INVARIANTS SoftStart StationaryBudget
PROPERTIES BulkEnds
