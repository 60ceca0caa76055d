SPECIFICATION Spec
CONSTANTS
  ReinitAt = 3
  FaultAt = 6
  RecoverOk = 5
  Attempts = 3
  FailLimit = 9
  Troubles = {"WRITES"}
  StaleAfter = 20
INVARIANT NoEndlesslyStaleReading
