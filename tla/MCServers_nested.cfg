SPECIFICATION ServersSpec
CONSTANTS
  Conn = {c1, c2, c3}  NoConn = NoConn
  MaxPackets = 3
  Configurations <- AllParts
  NoContent = NoContent  NoMessage = NoMessage
  Streams <- NestedStreams  MaxMessageSize = 62  ConnID <- MCConnID
  User = {u1, u2}  Group = {all, g}  AllUsers = all
  Obj = {o1, o2, o3, o4, o5}  NoGroup = NoGroup
  Value = {v}  Void = Void
  DUser = {u1, u2}  DMovie = {m1, m2}  System = System  DefaultMovie = m1  NoMovie = NoMovie
INVARIANT RelayIsExact
CHECK_DEADLOCK FALSE
