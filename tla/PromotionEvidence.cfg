SPECIFICATION Spec
CONSTANTS
  Proc = {p1}
  Strategies <- MCScriptStrategies
  Baseline = "ma"
  NameOf <- MCNameOf
  Built <- MCBuilt
  Candidates <- MCScriptCandidates
  Plain = {"ma"}
  Batches = 1
  MaxVersions = 3
  MaxRuns <- MCOneRun
  MaxCrashes = 0
INVARIANT PromotedOnItsOwn
CHECK_DEADLOCK FALSE
