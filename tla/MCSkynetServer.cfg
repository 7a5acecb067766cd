SPECIFICATION Spec
CONSTANTS
  a = a
  b = b
  c = c
  w1 = w1
  w2 = w2
  x1 = x1
  None = None
  Workers = {w1, w2}
  Weight <- WeightsBase
  Services = {a, b}
  Boot = {a}
  SelfStart = {a}
  Externals = {x1}
  Mute = {}
  MonitorExit = None
  MaxCalls = 3
INVARIANTS RefCount HeldIsUsable DeletedOnce QueueInOnePlace ExclusiveDispatch
PROPERTIES ImplementsActors
CHECK_DEADLOCK FALSE
