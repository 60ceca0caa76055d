SPECIFICATION FairSpec
CONSTANTS
  CommsTime = {1, 3, 20}
  SensorTime = {1, 45, 62}
  ControlTime = {1, 35}
  PublishTime = {0, 1}
  Nominal <- NominalTimes
  SavePages = 2
  PageTime = 7
  MayHang = TRUE
  Period = 10
  Floor = 8
  Budget <- s_budget_ms
  HwWindow = 7
  TimeoutMin = 67
  TimeoutMax = 136
  BootLag = 2
  MaxLag = 40
INVARIANTS NoEarlyKick BiteIsEarned NoSilentSubsystem
PROPERTIES HangIsReset
