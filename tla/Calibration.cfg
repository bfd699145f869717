SPECIFICATION Spec
CONSTANTS
  Degrees = {0, 10}
  LedModes = {1}
  StepperDirs = {1}
  FORWARD = 1
  MaxQueued = 2
PROPERTIES
  ShownIsSaved
  Heard
