SPECIFICATION MgSpec
CONSTANTS
  User = {u1, u2}
  Group = {all, g}
  AllUsers = all
  Obj = {o1, o2, o3, o4, o5}
  NoGroup = NoGroup
  Value = {v}
  Void = Void
PROPERTY OverwriteIsIdentical
