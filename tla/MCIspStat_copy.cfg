SPECIFICATION Spec
CONSTANTS
  NULL = NULL
  STAT_MAX_BUFS = 3
  FrameMod = 16
  LostMax = 10
  Prompt = TRUE
PROPERTIES CopiedNotWritten
VIEW View
