SPECIFICATION FairSpec
CONSTANTS
  a = a
  b = b
  c = c
  w1 = w1
  w2 = w2
  x1 = x1
  None = None
  Workers = {w1, w2}
  Weight <- WeightsBase
  Services = {a, b, c}
  Boot = {a, b}
  SelfStart = {a}
  Externals = {}
  Mute = {b}
  MonitorExit = b
  MaxCalls = 2
INVARIANTS ServerInv PerSenderOrder
PROPERTIES EveryMessageHandled RetiredIsFreed
CHECK_DEADLOCK FALSE
