\* Two requests open two streams at once.
SPECIFICATION Spec
CONSTANTS
  Requests = {q1, q2}
  Rows = {r1, r2, r3, r4}
  Devices = {d1, d2}
  Streams = {s1, s2}
  Vods = {}
  Proxied = {}
  Raw = {}
  NoRow = NoRow
  MaxConnections = 1
  MaxOpening = 2
  Agent <- OwnAgents
  NoAgent = NoAgent
  LockDevice = FALSE
  Kicks = FALSE
  Expiry = FALSE
INVARIANT LimitRespected
