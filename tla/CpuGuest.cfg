CONSTANTS
  Radix = 8
  Ram = {}
  RomByte = 0
  Vector <- HandlerVector
  Sources = {"timer", "key"}
  SwiIds = {0, 3}
  CodeTop = 4
  RegValues = {1}
  IllegalPc = 4
  PollEvery = 2
  RingCapacity = 1
  Trusted = FALSE
  StackTop = 1
  StackRoom = 0
SPECIFICATION FairSpec
PROPERTIES DeafParkLasts NeverIgnoredForever StopStops
CHECK_DEADLOCK FALSE
