SPECIFICATION BackgroundSpec
CONSTANTS
  k1 = k1  k2 = k2  a1 = a1  u1 = u1
  Conn = {k1, k2}  User = {u1}  ID = {a1, u1}  Addr <- MCAddr
  NoConn = NoConn  NoID = NoID  Caller = {w1, w2}
  KUser = {u1, u2}  KTimer = {1, 2, 3}  KMinutes = {0, 1}  KNone = KNone
  IUser = {u1, u2}  ITimeout = 1  IGone = IGone
  SFile <- MCFile  SDir <- MCDir  HeaderLines = 2  Text = Text
  RClient = {c1, c2}  MaxRequests = 2  Window = 3  NoBucket = NoBucket
  LCaller = {p1, p2}  LBuffer = 2  MaxEntries = 4  LNothing = LNothing
  MqMsg = {m1, m2, m3}  MqHandler = {c1, c2}  MqNil = MqNil
  QMsg = {m1, m2, m3}  QConsumer = {c1, c2}  QNone = QNone
  BMsg = {m1, m2}  BChannel = {c1, c2}  BNone = BNone
INVARIANTS
  OneToOne FramesNeverInterleave
  TimersAreTracked JobsRunAsScheduled LazyBucketIsExact FatalLosesNothing
  DeliveredOnceToAll HandledOnceInOrder NoForgottenChannel
PROPERTIES IdleIsRemoved CloseFreesCallers
CHECK_DEADLOCK FALSE
