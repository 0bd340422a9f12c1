SPECIFICATION FairSpec
CONSTANTS
  NULL = NULL
  STAT_MAX_BUFS = 3
  FrameMod = 8
  LostMax = 2
  Prompt = TRUE
INVARIANTS BufferFound CopyIsFresh
PROPERTIES TakenInOrder StatsKeepComing
