SPECIFICATION ServicesSpec
CONSTANTS
  EmptySlot = EmptySlot
  Messages = {a, b}
  Junk = Junk
  QueueSize = 2
  Overload = 1
  MaxLength = 4
INVARIANTS RingIsFifo PopsOldest NoSilentGrowth
  StreamsInOrder MemoryOwned NobodyForgotten TablesAgree
PROPERTY ServiceSteps
CHECK_DEADLOCK FALSE
