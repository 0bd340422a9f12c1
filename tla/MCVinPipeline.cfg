SPECIFICATION FairSpec
CONSTANTS
  Boards <- BothBoards
  Frames = 2
INVARIANTS TopsFollowStreams FreedIsIdle ShutDownComplete
PROPERTIES InitReturns FirstFrames
CHECK_DEADLOCK FALSE
