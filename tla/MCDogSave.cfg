SPECIFICATION Spec
CONSTANTS
  CommsTime = {0, 1}
  SensorTime = {1}
  ControlTime = {0}
  PublishTime = {0}
  Nominal <- NominalTimes
  SavePages = 20
  PageTime = 7
  MayHang = FALSE
  Period = 10
  Floor = 8
  Budget <- s_budget_ms
  HwWindow = 7
  TimeoutMin = 67
  TimeoutMax = 136
  BootLag = 2
  MaxLag = 160
INVARIANT SaveNeverBites
