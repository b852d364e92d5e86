SPECIFICATION FairSpec
CONSTANTS
  Scheduler = scheduler
  Manuals = {manual}
  Validators = {validator}
  NDays = 2
  Hashes = {h1, h2}
  Established = {1}
  MinDays = 2
  Retries = 2
  MaxFailures = 2
  MaxDeaths = 1
  Nothing = Nothing
  NoOne = NoOne
  Dead = Dead
INVARIANTS OnePass AcceptedIsStored
PROPERTIES SingleUse KeepsWorkingOrStalls
CHECK_DEADLOCK FALSE
