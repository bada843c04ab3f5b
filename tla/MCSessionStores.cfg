SPECIFICATION StoresSpec
CONSTANTS
  Client = {a, b}
  Room = {m, g}
  AttrName = {level}
  Value = {v, w}
  Void = Void
  IP = {ip1}
  Time = {1, 2}
  RsClient = {a}
  RsRoom = {m, g}
  RsCall = {g1, g2}
  RsIdle = RsIdle
SYMMETRY Symmetry
INVARIANTS GettersAgree UnregisteredIsGone
PROPERTY ImplementsPort
