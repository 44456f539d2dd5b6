\* Two requests on a LOOP stream; their exits and restart timers interleave freely.
SPECIFICATION FairSpec
CONSTANTS
  Calls = {c1, c2}
  Procs = {p1, p2, p3}
  NoProc = NoProc
  NoCall = NoCall
  MaxRestarts = 1
  PrimaryUrl = "primary"
  Backups <- NoBackups
  Modes = {"LOOP"}
  SpawnOutcomes = {"spawned", "error"}
  MaxApiRestarts = 0
  Overlap = TRUE
PROPERTIES
  ScheduledRestartSpawns
  RestartsEnd
CHECK_DEADLOCK FALSE
