SPECIFICATION DataSpec
CONSTANTS
  CKey = {k1, k2}
  CMember = {x}
  CValue = {text}
  CMaxInt = 2
  CTTL = {0, 1, 2}
  CNone = CNone
  CForever = CForever
  SweepInterval = 2
  TCall = {v1, v2, v3}
  TokenTTL = 2
  BCall = {v1, v2}
  BanTTL = 2
  Server = {s1, s2}
  Last = 2
  MigrationCalls = 2
  Rerunnable = {2}
  NoServer = NoServer
  MaxFailures = 2
  DApp = {app}
  DUser = {u}
  DConn = {c1, c2}
  DCmd = {h1, h2}
  Free = Free
  NoUser = NoUser
  MaxId = 2
  PConn = {a, b}
  PUser = {u, w}
  Unset = Unset
  Absent = Absent
  TScript = {e1, e2}
  TRow = {r1, r2}
  NoScript = NoScript
  NoQuery = NoQuery
  MaxSavepoints = 3
INVARIANTS
  NoReuseAfterReturn SchemaMatchesTracker NothingCrossesReCreation
   AllOrNothing
PROPERTIES AdaptersImplementCache BanTakesEffect
CHECK_DEADLOCK FALSE
