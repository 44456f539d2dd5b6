\* A film, and operators who kick.
SPECIFICATION Spec
CONSTANTS
  Requests = {q1, q2}
  Rows = {r1, r2, r3, r4}
  Devices = {d1, d2}
  Streams = {s1, s2}
  Vods = {s2}
  Proxied = {}
  Raw = {}
  NoRow = NoRow
  MaxConnections = 1
  MaxOpening = 1
  Agent <- OwnAgents
  NoAgent = NoAgent
  LockDevice = FALSE
  Kicks = TRUE
  Expiry = FALSE
PROPERTY KickEndsOneSession
