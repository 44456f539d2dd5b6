\* Two requests at a time open streams of every kind on a line with a device lock.
SPECIFICATION Spec
CONSTANTS
  Requests = {q1, q2}
  Rows = {r1, r2, r3, r4}
  Devices = {d1, d2, d3}
  Streams = {s1, s2, s3, s4}
  Vods = {s3}
  Proxied = {s2, s4}
  Raw = {s4}
  NoRow = NoRow
  MaxConnections = 1
  MaxOpening = 2
  Agent <- OwnAgents
  NoAgent = NoAgent
  LockDevice = TRUE
  Kicks = FALSE
  Expiry = FALSE
SYMMETRY Symmetry
INVARIANTS
  OvershootBounded
  ZapsLeaveNoRows
  LockBinds
