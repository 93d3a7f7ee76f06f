SPECIFICATION Spec
CONSTANTS
  Requests = {19, 23, 37, 40}
  CallbackRequests = {19}
  DataSizes = {0, 4, 5}
  AdapterCommands = {39, 40, 16}
  AdapterReplies = {147, 165, 238}
  MaxPayload = 2
  Impatient = TRUE
INVARIANTS PendingHasWakeup WholeRequestSent SlaveVerdict ClockSides
PROPERTIES TimeoutAfterThreeStarts PollReturns
