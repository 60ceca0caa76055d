SPECIFICATION PathSpec
CONSTANTS
  NaN = NaN
  Inputs <- pathInputs
  Configs <- pathConfigs
  DutyMax <- pathDuty
  OV_HARD = 4
  CV_BAND = 0
  KV = 1
  KP = 1
  EFFORT_FULL = 1
  DETECT_EFFORT = 0
  PROBE_PERIOD = 1
  PROBE_ON = 0
  TimerCap = 2
  AhCap = 0
INVARIANTS SafeStateHolds HardFaultCutsPin LimpBootParks
