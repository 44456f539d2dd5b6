\* An operator, two viewers, both tools, a backup URL and one death of the API.
SPECIFICATION SupFairSpec
CONSTANTS
  Calls = {c1, v1, v2}
  Viewers = {v1, v2}
  Tools = {"resetCrashed", "restartAll"}
  Procs = {p1, p2}
  NoProc = NoProc
  NoCall = NoCall
  MaxRestarts = 1
  PrimaryUrl = "primary"
  Backups <- OneBackup
  Modes = {"TRANSCODE", "PROXY"}
  SpawnOutcomes = {"missing", "spawned"}
  MaxApiRestarts = 1
  Overlap = FALSE
INVARIANTS
  SupTypeOK
  
  

  
  
CHECK_DEADLOCK FALSE
