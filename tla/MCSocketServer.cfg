SPECIFICATION Spec
SYMMETRY WorkerSymmetry
CONSTANTS
 w1 = w1
 w2 = w2
 Workers <- MCWorkers
 Scenes <- MCScenes
 None = None
CHECK_DEADLOCK FALSE
INVARIANTS WireIsPackets NoneLost BufferOnce CloseOnce Flushed WriteArmed UdpAddress NoListAssertFails
