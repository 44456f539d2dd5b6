\* A viewer keeps retrying after the API died.
SPECIFICATION SupFairSpec
CONSTANTS
  Calls = {c1, v1}
  Viewers = {v1}
  Tools = {}
  Procs = {p1, p2}
  NoProc = NoProc
  NoCall = NoCall
  MaxRestarts = 1
  PrimaryUrl = "primary"
  Backups <- NoBackups
  Modes = {"TRANSCODE"}
  SpawnOutcomes = {"spawned"}
  MaxApiRestarts = 1
  Overlap = FALSE
PROPERTY WakesOnDemand
CHECK_DEADLOCK FALSE
