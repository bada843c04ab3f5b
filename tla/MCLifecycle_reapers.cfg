SPECIFICATION Spec
CONSTANTS
  c1 = c1  c2 = c2  a1 = a1  a2 = a2  u1 = u1  u2 = u2  r1 = r1
  NoConn = NoConn
  NoID = NoID
  Void = Void
  Conn = {c1, c2}
  User = {u1}
  ID = {a1, a2, u1}
  Addr <- MCAddr
  Admin = {}
  Reaper = {r1}
INVARIANT NoOrphanedState
SYMMETRY MCSymmetry
CHECK_DEADLOCK FALSE
