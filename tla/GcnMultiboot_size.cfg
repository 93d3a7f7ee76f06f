SPECIFICATION Spec
CONSTANTS
  HeaderWords = 3
  MaximumImageSizeUInt32s = 2
  CounterLimit = 1
  Burst = 0
INVARIANT SizeKnown
CHECK_DEADLOCK FALSE
