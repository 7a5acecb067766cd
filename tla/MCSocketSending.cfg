SPECIFICATION Spec
CONSTANTS
 w1 = w1
 w2 = w2
 Workers <- MCWorkers
 Scenes <- MCScenes
 None = None
INVARIANT SendingDrains
CHECK_DEADLOCK FALSE
