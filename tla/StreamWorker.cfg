\* Two requests, every mode, spawn outcome and a backup URL, one death of the API.
SPECIFICATION Spec
CONSTANTS
  Calls = {c1, c2}
  Procs = {p1, p2, p3}
  NoProc = NoProc
  NoCall = NoCall
  MaxRestarts = 1
  PrimaryUrl = "primary"
  Backups <- OneBackup
  Modes = {"PROXY", "TRANSCODE", "LOOP"}
  SpawnOutcomes = {"missing", "spawned", "error"}
  MaxApiRestarts = 1
  Overlap = TRUE
SYMMETRY Symmetry
INVARIANTS
  TypeOK
  OneProcessPerCall
  RestartCountBounded
CHECK_DEADLOCK FALSE
