SPECIFICATION TSSpec
CONSTANTS
  CKey = {k1}
  CMember = {}
  CValue = {text}
  CMaxInt = 0
  CTTL = {2}
  CNone = CNone
  CForever = CForever
  TCall = {v1, v2}
  TokenTTL = 2
INVARIANT SingleUse
CHECK_DEADLOCK FALSE
