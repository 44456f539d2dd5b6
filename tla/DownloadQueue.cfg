\* Two downloads, two slots at most; requests, pumps, exits and one fault overlap.
SPECIFICATION Spec
CONSTANTS
  Jobs = {j1, j2}
  Calls = {c1, c2}
  Limits = {1, 2}
  AutoVod = {j1, j2}
  Filed = {j1, j2}
  MaxEvents = 2
SYMMETRY Symmetry
CHECK_DEADLOCK FALSE
INVARIANTS
  TypeOK
  
  OneProcessPerJob
  RowsTruthful
  FilesMatchRows
  OneVodPerJob
  NoLostWakeUp
