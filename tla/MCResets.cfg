SPECIFICATION ResetsSpec
CONSTANTS
  RingLen = 2
  LimpStreak = 3
  StreakCap = 4
  MaxSeq = 6
  Configs = {c1, c2}
  Defaults = none
  Pages = 3
  GenHalf = 2
  BootReads = {0}
  n1 = n1
  n2 = n2
  n3 = n3
  Node = {n1, n2, n3}
  Shaky = {n1, n2, n3}
  NumAddrs = 2
  Settle = 2
  Events = 1
  Rank <- rank
  Pref <- pref
INVARIANTS RepeatParks FaultIsReadable AddressIsSound
PROPERTIES LimpIsEarned AckedSaveSurvives PromiseSpec AddressSettles
