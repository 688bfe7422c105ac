CONSTANTS
  Frames <- MCFrames
  Copies = 2
  MAX_RECORDS = 2
  IterRange = 4
SPECIFICATION Spec
INVARIANTS TypeOK FirstCopyForwarded
PROPERTIES ImplementsWindow RepeatsAreOld
CHECK_DEADLOCK FALSE
