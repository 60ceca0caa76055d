SPECIFICATION Spec
CONSTANTS
  RingLen = 2
  LimpStreak = 3
  StreakCap = 4
  MaxSeq = 6
INVARIANT SealedAtRest
