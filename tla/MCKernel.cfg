SPECIFICATION KernelSpec
CONSTANTS
  Nobody = Nobody
  Threads = {1, 2, 3, 4}
  Writers = {1, 2, 3}
  StdAtomic = FALSE
INVARIANTS MutualExclusion LockInv TimerExact SleepCounted MutexBatches
PROPERTIES KernelSteps ProcessEnds EndlessReported NobodyWaitsForever
