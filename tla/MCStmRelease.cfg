SPECIFICATION Spec
CONSTANTS
  Readers = {r1, r2}
  Writer = w
  MaxUpdate = 2
INVARIANT LastReaderAlone
CHECK_DEADLOCK FALSE
