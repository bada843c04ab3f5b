SPECIFICATION LocksSpec
CONSTANTS
  Exec = {e1, e2}
  Key = {k1, k2}
  Call <- MCCall
  KeyOf <- MCKeyOf
  Obj = {o1, o2}
  NoLock = NoLock
  NoCall = NoCall
  MaxDepth = 2
  s1 = s1
  s2 = s2
  a1 = a1
  a2 = a2
  b1 = b1
  Process = {s1, s2}
  LCall = {a1, a2, b1}
  ProcessOf <- MCProcessOf
  LeaseTicks = 2
  NoOwner = NoOwner
INVARIANTS MutualExclusion ScopeKeepsLease NothingHeldAfterExit LostOnlyBySilence
PROPERTIES ExecutionsEnd LossIsNoticed
