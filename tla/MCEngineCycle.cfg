SPECIFICATION SpecO
CONSTANTS
  NaN = NaN
  Inputs <- cycleInputs
  Configs <- cycleConfigs
  OV_HARD = 4
  CV_BAND = 0
  KV = 1
  KP = 1
  EFFORT_FULL = 1
  DETECT_EFFORT = 0
  PROBE_PERIOD = 1
  PROBE_ON = 0
  TimerCap = 5
  AhCap = 2
INVARIANTS TypeOK OpenFaultKillsField HoldsOfThisStay
PROPERTIES ExitsAreEarned AutoResumes CycleSpec
