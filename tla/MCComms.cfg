SPECIFICATION CommsSpec
CONSTANTS
  RxRing = 4
  TxRing = 3
  Mps = 2
  ReadCap = 2
  LineLen = 3
  Resets = 1
  Period = 2
  NaN = NaN
  Messages <- messages
  Wrap = 16
  Batch = 5
  Timeout = 2
  AwayMax = 1
  QuietMax = 2
  Late = 2
  Kinds <- kinds
  Parts <- parts
  Rank <- rank
  Ring = 4
  Numbers = 2
  MaxSends = 5
  Low <- lowest
  High = 32
  Res <- units
  Top8 = 31
  Top16 = 15
  Top32 = 31
  Full = 8
  FullPct = 10
  Zero16 = 6
  Zero32 = 16
  Kelvin = 6
  Warm = 3
  FaultBits <- faults
  AtOnce = 2
  Lead = 3
  Cap = 20
  Longest = 12
  Pgns <- pgns
  Senders = {0, 128, 254}
  Dests = {7, 255}
  ReinitAt = 3
  FaultAt = 6
  RecoverOk = 5
INVARIANTS BytesInOrder FlowControlHolds ControlHolds NoneStarves WireReadsTrue
PROPERTIES PortMovesOn RaisedIsTold CanPortSound
