SPECIFICATION StoreSpec
CONSTANTS
  Configs = {c1, c2}
  Defaults = none
  Pages = 2
  GenHalf = 2
  BootReads = {0, 1, 2}
PROPERTY AckedSaveSurvives
