SPECIFICATION FairSpec
CONSTANTS
  Threads = {t1, t2}
  Writers = {t1, t2}
  StdAtomic = TRUE
INVARIANTS MutualExclusion
