SPECIFICATION Spec
CONSTANTS
  Clients = {c1, c2, c3}
  Want <- PlainMutex
  Cos = {1, 2, 3}
  None = None
INVARIANTS ReleaseFindsQueue
