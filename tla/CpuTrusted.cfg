CONSTANTS
  Radix = 4
  Ram = {10, 11, 12, 13, 14, 15}
  RomByte = 3
  Vector <- HandlerVector
  Sources = {"uart"}
  SwiIds = {3}
  CodeTop = 4
  RegValues = {1}
  IllegalPc = 4
  PollEvery = 1
  RingCapacity = 1
  Trusted = TRUE
  StackTop = 15
  StackRoom = 6
SPECIFICATION Spec
PROPERTIES ImplementsContract
CHECK_DEADLOCK FALSE
