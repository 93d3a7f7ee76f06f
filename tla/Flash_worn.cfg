SPECIFICATION Spec
CONSTANTS
  BankCount = 2
  SectorsPerBank = 1
  SectorSize = 2
  Bits = {0}
  Sources <- MCSources
  Lengths = {2}
  ImeValues = {1}
  MaxTime = 1
  ResetAborts = FALSE
  Worn = TRUE
INVARIANT VerifiedMeansWritten
