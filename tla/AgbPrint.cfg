SPECIFICATION Spec
CONSTANTS
  RingSize = 4
  MaxText = 2
  MaxPrinted = 5
  HandlerPoints = {"idle", "loop", "enter"}
INVARIANTS RegistersRestored DeliveredInOrder NothingLost
PROPERTY CallsEnd
CHECK_DEADLOCK FALSE
