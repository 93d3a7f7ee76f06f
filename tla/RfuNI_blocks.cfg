SPECIFICATION Spec
CONSTANTS
  Child = {c1}
  W = 2
  CtlLen = 2
  Sizes <- MCWrap
  BufLen = 7
  Cap = 1
  MaxGiveUp = 1
INVARIANTS TypeOK InPlace SuccessIsClean
PROPERTIES SendEnds ReceiveEnds
