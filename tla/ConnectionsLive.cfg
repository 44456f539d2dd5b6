\* A TRANSCODE stream and a film; requests, the cron, kicks and bans interleave freely.
SPECIFICATION FairSpec
CONSTANTS
  Requests = {q1, q2}
  Rows = {r1, r2, r3}
  Devices = {d1}
  Streams = {s1, s2}
  Vods = {s2}
  Proxied = {}
  Raw = {}
  NoRow = NoRow
  MaxConnections = 1
  MaxOpening = 2
  Agent <- OwnAgents
  NoAgent = NoAgent
  LockDevice = FALSE
  Kicks = TRUE
  Expiry = TRUE
INVARIANTS
  TypeOK
  PlaysItsStream
  ExpiredIsOver
PROPERTIES
  ClosedStaysClosed
  RefusedLineDrains
  GhostsAreClosed
