SPECIFICATION Spec
CONSTANTS
  MaxNow = 7
  OpenAt = {2, 3, 5, 7}
  MinGap = 3
  MaxCrashes = 1
INVARIANTS StopArmed DuplicatesFromDeaths LedgerKeepsUp
PROPERTIES AccountGoesOn JobsSpaced
CHECK_DEADLOCK FALSE
