SPECIFICATION Spec
CONSTANTS
  HeaderWords = 3
  MaximumImageSizeUInt32s = 2
  CounterLimit = 1
  Burst = 3
INVARIANTS ReadyMeansVerified KeyCAfterImage ImageFits NoEarlyRestart
PROPERTY AlwaysRestarts
CHECK_DEADLOCK FALSE
