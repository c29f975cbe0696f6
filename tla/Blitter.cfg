SPECIFICATION MCSpec
CONSTANTS
  VramSize = 64
  ResW = 8
  ResH = 4
  Memory <- MCMemory
  Behind = 90
  Jobs <- MCJobs
  Modes = {0, 1, 2, 3}
  Patterns <- MCPatterns
PROPERTIES FillsAgree XorTwiceRestores OnlyAskedPixels TargetGetsSource LineIsThin FrameCatchesUp
CHECK_DEADLOCK FALSE
