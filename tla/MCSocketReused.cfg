SPECIFICATION Spec
CONSTANTS
 w1 = w1
 w2 = w2
 Workers <- MCWorkers
 Scenes <- ReusedScenes
 None = None
INVARIANT NoSocketAssertFails
CHECK_DEADLOCK FALSE
