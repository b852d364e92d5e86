SPECIFICATION Spec
CONSTANTS
  Proc = {p1, p2}
  Strategies <- MCStrategies
  Baseline = "ma"
  NameOf <- MCNameOf
  Built <- MCBuilt
  Candidates <- MCCandidates
  Plain = {"ma", "other"}
  Batches = 2
  MaxVersions = 3
  MaxRuns <- MCRuns
  MaxCrashes = 1
INVARIANTS MemoryIsLog EvidenceStored
SYMMETRY MCSymmetry
PROPERTIES TitlePassesOn
CHECK_DEADLOCK FALSE
