\* every video of up to 7 frames in 7 units of time, up to 4 slaves at each count
CONSTANTS
  Length = 7
  MaxFrames = 7
  MaxSlaves = 4
  Videos <- MCVideos
SPECIFICATION Spec
INVARIANTS
  TypeOK
  NoFrameTwice
  EveryFrameKept
  LostFromTheEndOnly
  AgreesWithFarm
CHECK_DEADLOCK FALSE
