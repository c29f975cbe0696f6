CONSTANTS
  MaxTyped = 3
  MaxSteps = 2
SPECIFICATION Spec
PROPERTIES Commanded
CHECK_DEADLOCK FALSE
