SPECIFICATION SafeSpec
CONSTANTS
  Child = {c1, c2}
  W = 2
  CtlLen = 1
  Sizes <- MCOne
  BufLen = 3
  Cap = 1
  MaxGiveUp = 1
SYMMETRY MCSymmetry
INVARIANT PhaseToSend
PROPERTY ImplementsTransfer
