SPECIFICATION Spec
CONSTANTS
  Ctxs = {c1, c2, c3}
  Names = {}
  Nameable = {}
  Launching = 2
  SlotSize = 2
  NameCap = 2
  HandleMask = 7
  None = None
INVARIANTS NoAssertFails
