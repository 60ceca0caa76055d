SPECIFICATION PartsSpec
CONSTANTS
  ReinitAt = 3
  FaultAt = 6
  RecoverOk = 5
  Attempts = 3
  FailLimit = 9
  Troubles = {"DEAD", "WRITES", "NOCONV"}
  StaleAfter = 4
  Off = Off
  Wide = Wide
  None = None
  NaN = NaN
  Docs <- docs
  Profiles = 3
  LineMax = 2
  Codes = {0, 1, 12, 21}
  Long = 30
  Short = 10
  Gap = 15
  Repeat = 100
  BeatOn = 5
  BeatPeriod = 150
  Steps = {1, 2}
  Window = 5
  MinPeriod = 2
  Stale = 14
  Lost = 20
  Wrap = 32
  Speeds = {3, 5}
  Pause = 16
  Ticks = 5
  Levels <- levels
  Readings <- readings
  Buses = {22, 36, 40, 45}
  MaxV = 40
  MinV = 20
  FloorV = 32
  Distrust = 3
  Rotor = 12
  Temps <- temps
  Tau = 2
  Target = 100
  Hard = 105
  Floor = 5
  Ceiling = 30
  Words = 6
  Unpainted = 2
  ScanStep = 2
  Percents = {0, 1, 5}
  Cap = 2
  Timeout = 3
  Backlog = 2
  LoopTime = 2
  EchoTime = 3
  First = 1
  Last = 3
  Parts <- present
INVARIANTS DeadBusIsReported DocumentsAreSafe WrittenIsRead SensorsReadTrue GuardsHold
PROPERTIES PartsMoveOn SavesAreHonest SignalsAreEarned BenchTellsTruth
